----------------------------- MODULE HandReplay -----------------------------
(***************************************************************************)
(* replay of mahjong/records/replay.py, reading the record of a hand that  *)
(* TableHand plays: it deals again from the header and applies, with the   *)
(* engine, the actions it makes out of the events.  The record is read     *)
(* event by event as it is written, which for a reader that only reads     *)
(* forward is the same as afterwards.                                      *)
(***************************************************************************)
EXTENDS TableHand

\* A wall holds four tiles of a kind at most (mahjong/engine/tiles.py), so that a
\* seat has at most one pung of it.
ASSUME WallAssumption ==
    \A d \in Decks, k \in Kinds : Cardinality({i \in DOMAIN d : d[i] = k}) <= 4

VARIABLES
    rdrawn, rconcealed, rmelds, rdiscards, rflowers, rphase, ractor,
    rlastDrawn, rlastDiscard, rpending, rterminal,   \* the state of the replay
    window,   \* the CLAIM_DECISIONs of the open window
    read,     \* events of log that the replay has read
    stuck     \* the replay raised

replica == <<rdrawn, rconcealed, rmelds, rdiscards, rflowers, rphase, ractor,
             rlastDrawn, rlastDiscard, rpending, rterminal>>
replayVars == <<tableVars, replica, window, read, stuck>>

\* The wall follows from the seed of the header.
R == INSTANCE Hand WITH
    drawn <- rdrawn, concealed <- rconcealed, melds <- rmelds, discards <- rdiscards,
    flowers <- rflowers, phase <- rphase, actor <- ractor, lastDrawn <- rlastDrawn,
    lastDiscard <- rlastDiscard, pending <- rpending, terminal <- rterminal

\* The dealer is the seat with the east wind.
ReplayInit ==
    /\ TableInit
    /\ R!Deal(deck, actor, drawn)
    /\ window = <<>> /\ read = 0 /\ stuck = FALSE

-----------------------------------------------------------------------------
Unread == read < Len(log)
Move(s, a) == [seat |-> s, action |-> a]

\* _only: the first of some decisions of the window, given by their places.
Only(places) ==
    IF places = {} THEN <<>> ELSE <<window[CHOOSE n \in places : \A k \in places : n <= k]>>
GangsOfWindow == {n \in DOMAIN window : window[n].action.type = "GANG"}

OwnTurnGang(a) == a.type = "GANG" /\ a.kind \in {"CONCEALED", "ADDED"}

\* Mutant: the first claim of the window is taken for the winner.
MovesFirstClaim(e) ==
    CASE e.event = "DISCARD" -> <<Move(e.seat, PLAY(e.tile))>>
      [] e.event = "CLAIM_DECISION" ->
            IF OwnTurnGang(e.action) THEN <<Move(e.seat, e.action)>> ELSE <<>>
      [] e.event = "DRAW" -> Only(GangsOfWindow)
      [] e.event = "CLAIM_RESOLUTION" ->
            IF e.outcome = "PASSED" THEN window
            ELSE Only({n \in DOMAIN window : window[n].action # PASS})
      [] e.event = "HAND_END" ->
            IF e.winner = {} THEN <<>> ELSE <<Move(CHOOSE s \in e.winner : TRUE, HU)>>
      [] OTHER -> <<>>

\* The actions an event stands for.  A decision in a window waits for what
\* closes the window: a resolution, a win or a replacement draw.
Moves(e) ==
    CASE e.event = "DISCARD" -> <<Move(e.seat, PLAY(e.tile))>>
      [] e.event = "CLAIM_DECISION" ->
            IF OwnTurnGang(e.action) THEN <<Move(e.seat, e.action)>> ELSE <<>>
      [] e.event = "DRAW" -> Only(GangsOfWindow)
      [] e.event = "CLAIM_RESOLUTION" ->
            IF e.outcome = "PASSED" THEN window
            ELSE Only({n \in DOMAIN window : window[n].seat = e.seat})
      [] e.event = "HAND_END" ->
            IF e.winner = {} THEN <<>> ELSE <<Move(CHOOSE s \in e.winner : TRUE, HU)>>
      [] OTHER -> <<>>

Closes(e) == e.event \in {"DRAW", "CLAIM_RESOLUTION", "HAND_END"}

\* An event with nothing to apply: a decision is kept for the closer.
ReadOn ==
    /\ Unread /\ ~stuck
    /\ LET e == log[read + 1]
       IN /\ Moves(e) = <<>>
          /\ window' = IF e.event = "CLAIM_DECISION" THEN Append(window, e)
                       ELSE IF Closes(e) THEN <<>> ELSE window
          /\ stuck' = \/ e.event = "DRAW" /\ window # <<>>
                      \/ e.event = "CLAIM_RESOLUTION" /\ e.outcome = "CLAIMED"
    /\ read' = read + 1
    /\ UNCHANGED <<tableVars, replica>>

\* One apply_action; the PASSes of a window are applied one after the other.
ReadMove ==
    /\ Unread /\ ~stuck
    /\ LET e == log[read + 1]
           more == e.event = "CLAIM_RESOLUTION" /\ e.outcome = "PASSED" /\ Len(window) > 1
       IN /\ Moves(e) # <<>>
          /\ LET m == Head(Moves(e))
             IN IF m.action \in R!LegalActions(m.seat)
                THEN R!ApplyAction(m.seat, m.action) /\ UNCHANGED <<deck, stuck>>
                ELSE stuck' = TRUE /\ UNCHANGED <<deck, replica>>
          /\ window' = IF more THEN Tail(window) ELSE IF Closes(e) THEN <<>> ELSE window
          /\ read' = IF more THEN read ELSE read + 1
    /\ UNCHANGED <<drawn, concealed, melds, discards, flowers, phase, actor, lastDrawn,
                   lastDiscard, pending, terminal, managerVars>>

\* The manager's next step, once its last events have been read.
Written ==
    /\ ~Unread /\ TableNext
    /\ read' = IF log' = <<>> THEN 0 ELSE read
    /\ UNCHANGED <<replica, window, stuck>>

ReplayNext == ReadOn \/ ReadMove \/ Written
ReplaySpec == ReplayInit /\ [][ReplayNext]_replayVars

-----------------------------------------------------------------------------
(* Properties.                                                             *)

Mirrors ==
    replica = <<drawn, concealed, melds, discards, flowers, phase, actor,
                lastDrawn, lastDiscard, pending, terminal>>

\* The record of any hand can be replayed: nothing read from it is illegal, and
\* each window's closer finds the decision it needs.
NeverStuck == ~stuck

\* Replaying what has been written gives the state the hand was in, the terminal
\* state included, although most decisions of a window were never applied.
ReplayAgrees ==
    ~Unread /\ step \notin {"passing", "aborted"} => window = <<>> /\ Mirrors

\* The record replays: nothing in it is illegal for the replay, and what it
\* leads to is the state that wrote it.
RecordReplays == NeverStuck /\ ReplayAgrees
=============================================================================
