----------------------------- MODULE ClientView -----------------------------
(***************************************************************************)
(* What a player or a spectator sees of a hand: the page holds the         *)
(* snapshot it got when it attached and folds the events that follow into  *)
(* it (web/static/apply_event.js).  The manager writes the events of a     *)
(* step and sends them one by one, each send an await; the snapshot that   *)
(* is served (TableHandle._live_state) is replaced only when the step is   *)
(* over.  One viewer is followed: the others are sent to independently.    *)
(* Tiles are shown by their kind; of a kong only the type is compared,     *)
(* because Hand does not tell a concealed one, which is masked.            *)
(***************************************************************************)
EXTENDS TableHand, SequencesExt

CONSTANT Moments   \* when the viewer of an instance may come: "between_steps", "within_step"

ASSUME ClientAssumption ==
    /\ Moments \subseteq {"between_steps", "within_step"}
    /\ None \notin Seats

VARIABLES
    me,      \* the viewer's seat, None for a spectator
    conn,    \* "live", "held" (the seat waits for its owner) or "none"
    board,   \* seatView of the page, None without one
    served,  \* what the snapshot provider would send to me
    sent,    \* events of log that were fanned out
    ended    \* a HAND_END waits in the buffer of the HELD seat

clientVars == <<me, conn, board, served, sent, ended>>

-----------------------------------------------------------------------------
(* Projection (engine/state.py).                                           *)

KindsOf(positions) == [k \in Kinds |-> Cardinality({i \in positions : deck[i] = k})]

Shown(m) == [type |-> m.type,
             kinds |-> IF m.type = "GANG" THEN {} ELSE {deck[i] : i \in m.tiles}]

ShownMelds(s) ==
    [x \in {Shown(m) : m \in melds[s]} |-> Cardinality({m \in melds[s] : Shown(m) = x})]

\* The view of seat v, or of the public: other hands are counts.
Project(v) ==
    [hand |-> IF v = None THEN EmptyBag ELSE KindsOf(concealed[v]),
     counts |-> [s \in Seats \ {v} |-> Cardinality(concealed[s])],
     melds |-> [s \in Seats |-> ShownMelds(s)],
     piles |-> [s \in Seats |-> [n \in DOMAIN discards[s] |-> deck[discards[s][n]]]],
     flowers |-> [s \in Seats |-> Cardinality(flowers[s])],
     wall |-> Cardinality(Wall),
     phase |-> phase, actor |-> actor,
     lastDrawn |-> IF v # None /\ lastDrawn # None /\ lastDrawn.seat = v
                   THEN lastDrawn.tile ELSE None,
     lastDiscard |-> lastDiscard,
     settled |-> IF terminal = None THEN 0 ELSE 1]

\* A draw shows its tile to the seat that drew.
ProjectEvent(e, v) ==
    IF e.event = "DRAW" /\ e.seat # v THEN [event |-> "DRAW", seat |-> e.seat] ELSE e

-----------------------------------------------------------------------------
(* The reducer (web/static/apply_event.js).                                *)

\* isOwnConcealed: the hand of the viewer's own seat is open, another is a count.
Own(b, s) == s \notin DOMAIN b.counts

\* Tiles that leave a hand: by kind where it is open, by number else.
Taken(b, s, k, n) ==
    IF Own(b, s) THEN [b EXCEPT !.hand[k] = IF @ > n THEN @ - n ELSE 0]
    ELSE [b EXCEPT !.counts[s] = IF @ > n THEN @ - n ELSE 0]

\* One of each kind of a run, but for the tile k that was called.
RunTaken(b, s, run, k) ==
    IF Own(b, s)
    THEN [b EXCEPT !.hand = [x \in Kinds |->
                IF x \in run \ {k} /\ @[x] > 0 THEN @[x] - 1 ELSE @[x]]]
    ELSE Taken(b, s, k, 2)

WithMeld(b, s, type, kinds) ==
    [b EXCEPT !.melds[s] = @ (+) SetToBag({[type |-> type, kinds |-> kinds]})]

ApplyDraw(b, e) ==
    [(IF "tile" \in DOMAIN e
      THEN [b EXCEPT !.hand[e.tile] = @ + 1, !.lastDrawn = e.tile]
      ELSE [b EXCEPT !.counts[e.seat] = @ + 1, !.lastDrawn = None])
     EXCEPT !.wall = @ - 1, !.actor = e.seat, !.phase = "DISCARD"]

ApplyDiscard(b, e) ==
    [Taken(b, e.seat, e.tile, 1) EXCEPT
        !.piles[e.seat] = Append(@, e.tile),
        !.lastDiscard = [seat |-> e.seat, tile |-> e.tile], !.lastDrawn = None]

\* A kong of one's own: four tiles of the hand, or one beside a pung.
ApplySelfGang(b, e) ==
    LET k == e.action.tile
        pung == [type |-> "PENG", kinds |-> {k}]
        made == IF e.action.kind = "CONCEALED"
                THEN WithMeld(Taken(b, e.seat, k, 4), e.seat, "GANG", {})
                ELSE IF pung \in DOMAIN b.melds[e.seat]
                THEN WithMeld([Taken(b, e.seat, k, 1) EXCEPT
                                    !.melds[e.seat] = @ (-) SetToBag({pung})],
                              e.seat, "GANG", {})
                ELSE Taken(b, e.seat, k, 1)
    IN [made EXCEPT !.actor = e.seat]

\* Mutant: every decision makes its meld, those that lose the tile included.
ApplyClaimDecisionAtOnce(b, e) ==
    IF e.action.type = "GANG" /\ e.action.kind # "EXPOSED" THEN ApplySelfGang(b, e)
    ELSE IF e.action.type = "PENG" THEN
        WithMeld(Taken(b, e.seat, e.action.tile, 2), e.seat, "PENG", {e.action.tile})
    ELSE b

\* A decision about a window changes nothing: its resolution does.
ApplyClaimDecision(b, e) ==
    IF e.action.type = "GANG" /\ e.action.kind # "EXPOSED" THEN ApplySelfGang(b, e) ELSE b

\* The last tile of that kind goes back off the pile.
PulledOff(pile, k) ==
    LET n == CHOOSE x \in 0 .. Len(pile) :
                /\ x = 0 \/ pile[x] = k
                /\ \A y \in x + 1 .. Len(pile) : pile[y] # k
    IN IF n = 0 THEN pile ELSE RemoveAt(pile, n)

ApplyClaimed(b, e) ==
    LET a == e.action
        called == IF a.type = "CHI" THEN b.lastDiscard.tile ELSE a.tile
        from == b.lastDiscard.seat
        off == [b EXCEPT !.piles[from] = PulledOff(@, called)]
        made == CASE a.type = "PENG" -> WithMeld(Taken(off, e.seat, called, 2),
                                                 e.seat, "PENG", {called})
                  [] a.type = "GANG" -> WithMeld(Taken(off, e.seat, called, 3),
                                                 e.seat, "GANG", {})
                  [] a.type = "CHI" ->
                        WithMeld(RunTaken(off, e.seat, a.run, called), e.seat, "CHI", a.run)
    IN [made EXCEPT !.lastDiscard = None, !.actor = e.seat, !.phase = "DISCARD"]

\* The settlement adds its score delta to the scores of the board.
ApplyHandEnd(b) == [b EXCEPT !.phase = "TERMINAL", !.settled = @ + 1]

ApplyEvent(b, e) ==
    CASE e.event = "DRAW" -> ApplyDraw(b, e)
      [] e.event = "DISCARD" -> ApplyDiscard(b, e)
      [] e.event = "CLAIM_WINDOW" -> [b EXCEPT !.phase = "CLAIM_WINDOW"]
      [] e.event = "CLAIM_DECISION" -> ApplyClaimDecision(b, e)
      [] e.event = "CLAIM_RESOLUTION" ->
            IF e.outcome = "CLAIMED" /\ b.lastDiscard # None THEN ApplyClaimed(b, e) ELSE b
      [] e.event = "HAND_END" -> ApplyHandEnd(b)

-----------------------------------------------------------------------------
(* Sending.                                                                *)

Unsent == sent < Len(log)
Published == step = "idle" => served = Project(me)
Quiet == ~Unsent /\ Published
BetweenSteps == Quiet /\ step # "passing"

ClientInit ==
    /\ TableInit
    /\ me \in {0, None}
    /\ conn \in IF me = None THEN {"none"} ELSE {"live", "held"}
    /\ served = Project(me) /\ sent = 0 /\ ended = FALSE
    /\ board = IF conn = "live" THEN served ELSE None

\* A LIVE seat is sent its own projection, a HELD seat keeps the HAND_END.
SeatObserves(e) ==
    /\ board' = IF conn = "live" THEN ApplyEvent(board, ProjectEvent(e, me)) ELSE board
    /\ ended' = (ended \/ (conn = "held" /\ e.event = "HAND_END"))
\* A spectator is sent the public projection, and nothing is kept for one who is away.
SpectatorObserves(e) ==
    /\ board' = IF conn = "live" THEN ApplyEvent(board, ProjectEvent(e, None)) ELSE board
    /\ UNCHANGED ended
\* Every event of the step, to the seats and then to the spectators.
Observe ==
    /\ Unsent /\ sent' = sent + 1
    /\ LET e == log[sent + 1] IN IF me = None THEN SpectatorObserves(e) ELSE SeatObserves(e)
    /\ UNCHANGED <<me, conn, served>>

\* The step is over: its state becomes the source of snapshots.
OnHandState ==
    /\ ~Unsent /\ ~Published
    /\ served' = Project(me)
    /\ UNCHANGED <<me, conn, board, sent, ended>>

\* A snapshot can be asked for at any time; the instance says which times it has.
Moment == IF BetweenSteps THEN "between_steps" \in Moments ELSE "within_step" \in Moments
\* Resume or takeover: a fresh snapshot, and a HAND_END that waited.
SeatReturns ==
    /\ me # None /\ Moment
    /\ conn' = "live" /\ ended' = FALSE
    /\ board' = IF ended THEN ApplyHandEnd(served) ELSE served
    /\ UNCHANGED <<me, served, sent>>
\* SPECTATE, also by one who watches already.
Spectate ==
    /\ me = None /\ Moment
    /\ conn' = "live" /\ board' = served
    /\ UNCHANGED <<me, served, sent, ended>>

\* A seat is kept for its owner; a spectator is forgotten.
SocketDropped ==
    /\ conn = "live"
    /\ conn' = IF me = None THEN "none" ELSE "held"
    /\ board' = None /\ UNCHANGED <<me, served, sent, ended>>

\* The manager goes on when everything is sent.
StepBegins ==
    /\ Quiet /\ TableNext
    /\ sent' = IF log' = <<>> THEN 0 ELSE sent
    /\ UNCHANGED <<me, conn, board, served, ended>>

ClientNext ==
    \/ StepBegins
    \/ (Observe \/ OnHandState \/ SeatReturns \/ Spectate \/ SocketDropped) /\ UNCHANGED tableVars

ClientSpec == ClientInit /\ [][ClientNext]_<<tableVars, clientVars>>

-----------------------------------------------------------------------------
(* Properties.                                                             *)

\* Where the page and the table must say the same.  last_drawn, current_actor
\* and last_discard matter to the page when it is its turn or a tile is claimed.
Agrees(b) ==
    LET now == Project(me)
    IN /\ b.hand = now.hand /\ b.counts = now.counts
       /\ b.melds = now.melds /\ b.piles = now.piles
       /\ b.phase = now.phase
       /\ b.phase = "DISCARD" => b.actor = now.actor
       /\ b.phase = "DISCARD" /\ actor = me => b.lastDrawn = now.lastDrawn
       /\ b.phase = "CLAIM_WINDOW" => b.lastDiscard = now.lastDiscard

\* Whenever a page came, the snapshot it got and the events it was sent since
\* give the board of its player: the hand it is asked about is the hand it
\* shows, and the end of the hand reaches it, also when it was away.
BoardFollows == board # None /\ BetweenSteps => Agrees(board)
=============================================================================
