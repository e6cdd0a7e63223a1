-------------------------------- MODULE Hand --------------------------------
(***************************************************************************)
(* The rules of one hand: mahjong/engine, a pure function from a state, a  *)
(* seat and a legal action to the next state (apply_action), as a state    *)
(* machine.  Tiles are positions in the shuffled wall, so that two tiles   *)
(* of one kind stay apart; the code holds tokens and removes the first of  *)
(* several equal ones.  Which hands reach the fan floor is decided by an   *)
(* external library and enters as a constant; scores are left out.         *)
(***************************************************************************)
EXTENDS Integers, Sequences, FiniteSets

CONSTANTS
    Suits, TopRank,  \* suited tile kinds: suit and rank 1 .. TopRank
    Honors,          \* the other kinds
    Flower,          \* the token of a bonus tile
    HandSize,        \* tiles dealt to each seat (13)
    Decks,           \* shuffled walls of an instance
    Winning,         \* concealed hands, win tile included, that clear the fan floor
    None

Seats == 0 .. 3
Suited == Suits \X (1 .. TopRank)
Kinds == Suited \cup Honors
Runs == {{<<u, r>>, <<u, r + 1>>, <<u, r + 2>>} : u \in Suits, r \in 1 .. TopRank - 2}

Live(d) == {i \in DOMAIN d : d[i] # Flower}

ASSUME HandAssumption ==
    /\ TopRank \in Nat /\ HandSize \in Nat \ {0} /\ HandSize % 3 = 1
    /\ Flower \notin Kinds /\ None \notin [seat : Seats, tile : Kinds]
    /\ None \notin [kind : {"HU"}, winner : Seats, tile : Kinds, from : Seats]
    /\ \A d \in Decks :
        /\ d \in Seq(Kinds \cup {Flower})
        /\ Cardinality(Live(d)) > 4 * HandSize

VARIABLES
    deck,        \* the wall as shuffled
    drawn,       \* wall.drawn_count: positions up to it have left the wall
    concealed,   \* the concealed tiles of each seat
    melds,       \* the melds of each seat
    discards,    \* the discard pile of each seat
    flowers,     \* the bonus tiles of each seat
    phase,
    actor,       \* current_actor
    lastDrawn,   \* [seat, tile] or None
    lastDiscard, \* [seat, tile] or None
    pending,     \* pending_claims: [seat, claim, run]
    terminal     \* how the hand ended, or None

vars == <<deck, drawn, concealed, melds, discards, flowers, phase, actor,
          lastDrawn, lastDiscard, pending, terminal>>

-----------------------------------------------------------------------------
(* Tiles.                                                                  *)

NextSeat(s) == (s + 1) % 4
Wall == drawn + 1 .. Len(deck)
Copies(s, k) == {i \in concealed[s] : deck[i] = k}
KindsIn(s) == {deck[i] : i \in concealed[s]}
Lowest(S, n) == {i \in S : Cardinality({j \in S : j < i}) < n}

\* The kinds of a hand with one more tile of kind k, as calculate_fan sees them.
Bag(s, k) == [x \in Kinds |-> Cardinality(Copies(s, x)) + (IF x = k THEN 1 ELSE 0)]

-----------------------------------------------------------------------------
(* Legality.                                                               *)

PLAY(k) == [type |-> "PLAY", tile |-> k]
PASS == [type |-> "PASS"]
PENG(k) == [type |-> "PENG", tile |-> k]
CHI(r) == [type |-> "CHI", run |-> r]
GANG(k, how) == [type |-> "GANG", tile |-> k, kind |-> how]
HU == [type |-> "HU"]

PengKinds(s) == {m.kind : m \in {x \in melds[s] : x.type = "PENG"}}

\* Only the tile just drawn can complete a self-drawn win.
SelfDrawHu(s) ==
    /\ lastDrawn # None /\ lastDrawn.seat = s
    /\ lastDrawn.tile \in KindsIn(s)
    /\ Cardinality(concealed[s]) % 3 = 2
    /\ [k \in Kinds |-> Cardinality(Copies(s, k))] \in Winning

DiscardActions(s) ==
    IF s # actor THEN {} ELSE
        {PLAY(k) : k \in KindsIn(s)}
        \cup (IF Wall = {} THEN {} ELSE
                {GANG(k, "CONCEALED") : k \in {x \in KindsIn(s) : Cardinality(Copies(s, x)) = 4}}
                \cup {GANG(k, "ADDED") : k \in PengKinds(s) \cap KindsIn(s)})
        \cup {a \in {HU} : SelfDrawHu(s)}

\* Every claim on a tile k that `from` discarded.
ClaimsOn(s, k, from) ==
    {a \in {PENG(k)} : Cardinality(Copies(s, k)) >= 2}
    \cup {a \in {GANG(k, "EXPOSED")} : Wall # {} /\ Cardinality(Copies(s, k)) >= 3}
    \cup {CHI(r) : r \in {x \in Runs : s = NextSeat(from) /\ k \in x
                                       /\ x \ {k} \subseteq KindsIn(s)}}
    \cup {a \in {HU} : Cardinality(concealed[s]) % 3 = 1 /\ Bag(s, k) \in Winning}

ClaimActions(s) ==
    IF lastDiscard = None \/ lastDiscard.seat = s THEN {}
    ELSE {PASS} \cup ClaimsOn(s, lastDiscard.tile, lastDiscard.seat)

LegalActions(s) ==
    CASE phase = "DISCARD" -> DiscardActions(s)
      [] phase = "CLAIM_WINDOW" -> ClaimActions(s)
      [] OTHER -> {}

-----------------------------------------------------------------------------
(* The deal: round the table from the front of the wall, the dealer's      *)
(* fourteenth tile last; a bonus tile is replaced at once.                 *)

Nth(d, i) == Cardinality({j \in Live(d) : j <= i})
SeatOfDraw(n, dealer) == IF n > 4 * HandSize THEN dealer ELSE (n - 1) % 4

Deal(d, dealer, cut) ==
    /\ cut \in Live(d) /\ Nth(d, cut) = 4 * HandSize + 1
    /\ deck = d /\ drawn = cut
    /\ concealed = [s \in Seats |->
            {i \in Live(d) : i <= cut /\ SeatOfDraw(Nth(d, i), dealer) = s}]
    /\ flowers = [s \in Seats |->
            {i \in DOMAIN d \ Live(d) : i < cut /\ SeatOfDraw(Nth(d, i) + 1, dealer) = s}]
    /\ melds = [s \in Seats |-> {}] /\ discards = [s \in Seats |-> <<>>]
    /\ phase = "DISCARD" /\ actor = dealer
    /\ lastDrawn = [seat |-> dealer, tile |-> d[cut]]
    /\ lastDiscard = None /\ pending = {} /\ terminal = None

Init == \E d \in Decks, dealer \in Seats : \E cut \in DOMAIN d : Deal(d, dealer, cut)

-----------------------------------------------------------------------------
(* Drawing.                                                                *)

\* Mutant: an exhausted wall does not end the hand.
InternalDrawGoesOn(s, hands) ==
    LET left == {i \in Wall : deck[i] # Flower}
    IN IF left = {}
       THEN /\ drawn' = Len(deck) /\ concealed' = hands
            /\ flowers' = [flowers EXCEPT ![s] = @ \cup Wall]
            /\ phase' = "DISCARD" /\ actor' = s
            /\ lastDrawn' = None /\ UNCHANGED terminal
       ELSE \E i \in Lowest(left, 1) :
            /\ drawn' = i
            /\ concealed' = [hands EXCEPT ![s] = @ \cup {i}]
            /\ flowers' = [flowers EXCEPT ![s] = @ \cup (drawn + 1 .. i - 1)]
            /\ phase' = "DISCARD" /\ actor' = s
            /\ lastDrawn' = [seat |-> s, tile |-> deck[i]]
            /\ UNCHANGED terminal

\* internal_draw: bonus tiles go to the seat's flowers until a live tile comes;
\* an exhausted wall ends the hand in a draw.  `hands` are the concealed tiles
\* as the action leaves them.
InternalDraw(s, hands) ==
    LET left == {i \in Wall : deck[i] # Flower}
    IN IF left = {}
       THEN /\ drawn' = Len(deck) /\ concealed' = hands
            /\ flowers' = [flowers EXCEPT ![s] = @ \cup Wall]
            /\ phase' = "TERMINAL" /\ terminal' = [kind |-> "DRAW"]
            /\ lastDrawn' = None /\ UNCHANGED actor
       ELSE \E i \in Lowest(left, 1) :
            /\ drawn' = i
            /\ concealed' = [hands EXCEPT ![s] = @ \cup {i}]
            /\ flowers' = [flowers EXCEPT ![s] = @ \cup (drawn + 1 .. i - 1)]
            /\ phase' = "DISCARD" /\ actor' = s
            /\ lastDrawn' = [seat |-> s, tile |-> deck[i]]
            /\ UNCHANGED terminal

\* A closed claim window: the seat after the discarder draws.
AdvanceToNextSeat(discarder, hands) ==
    /\ lastDiscard' = None /\ pending' = {}
    /\ InternalDraw(NextSeat(discarder), hands)

-----------------------------------------------------------------------------
(* apply_action.                                                           *)

\* The claims a discard opens, seat by seat; the discarder has none.
Opportunities(k, from) ==
    UNION {{[seat |-> q, claim |-> a.type,
             run |-> IF a.type = "CHI" THEN a.run ELSE {}] : a \in ClaimsOn(q, k, from)} :
           q \in Seats \ {from}}

Play(s, a) ==
    /\ a.type = "PLAY" /\ a \in LegalActions(s)
    /\ \E i \in Lowest(Copies(s, a.tile), 1) :
        LET hands == [concealed EXCEPT ![s] = @ \ {i}]
            claims == Opportunities(a.tile, s)
        IN /\ discards' = [discards EXCEPT ![s] = Append(@, i)]
           /\ IF claims = {}
              THEN AdvanceToNextSeat(s, hands)
              ELSE /\ pending' = claims /\ phase' = "CLAIM_WINDOW" /\ actor' = NextSeat(s)
                   /\ lastDiscard' = [seat |-> s, tile |-> a.tile]
                   /\ concealed' = hands
                   /\ UNCHANGED <<drawn, flowers, lastDrawn, terminal>>
    /\ UNCHANGED <<deck, melds>>

\* Mutant: the last PASS leaves the window open.
PassLeavesWindow(s, a) ==
    /\ a.type = "PASS" /\ a \in LegalActions(s)
    /\ pending' = {c \in pending : c.seat # s}
    /\ UNCHANGED <<deck, drawn, concealed, melds, discards, flowers, phase, actor,
                   lastDrawn, lastDiscard, terminal>>

\* Only the passing seat's claims are withdrawn; without any left the discard is
\* final.
Pass(s, a) ==
    /\ a.type = "PASS" /\ a \in LegalActions(s)
    /\ LET rest == {c \in pending : c.seat # s}
       IN IF rest = {}
          THEN AdvanceToNextSeat(lastDiscard.seat, concealed)
          ELSE /\ pending' = rest
               /\ UNCHANGED <<drawn, concealed, flowers, phase, actor, lastDrawn,
                              lastDiscard, terminal>>
    /\ UNCHANGED <<deck, melds, discards>>

\* Mutant: the pile is popped at its front.
PoppedFirst == discards[lastDiscard.seat][1]

\* The claimed tile leaves the discarder's pile for a meld of the claimer.
Popped == discards[lastDiscard.seat][Len(discards[lastDiscard.seat])]
PopDiscard ==
    discards' = [discards EXCEPT ![lastDiscard.seat] = SubSeq(@, 1, Len(@) - 1)]

\* Mutant: the claimed tile stays in the discarder's pile.
ConsumeDiscardKeeps == UNCHANGED discards /\ lastDiscard' = None /\ pending' = {}

ConsumeDiscard == PopDiscard /\ lastDiscard' = None /\ pending' = {}

AddMeld(s, type, kind, tiles) ==
    melds' = [melds EXCEPT ![s] = @ \cup {[type |-> type, kind |-> kind, tiles |-> tiles]}]

\* Mutant: the discarder's draw is still remembered.
HandToClaimerKeepsDrawn(s) ==
    /\ phase' = "DISCARD" /\ actor' = s /\ UNCHANGED lastDrawn
    /\ UNCHANGED <<deck, drawn, flowers, terminal>>

HandToClaimer(s) ==
    /\ phase' = "DISCARD" /\ actor' = s /\ lastDrawn' = None
    /\ UNCHANGED <<deck, drawn, flowers, terminal>>

Peng(s, a) ==
    /\ a.type = "PENG" /\ a \in LegalActions(s)
    /\ LET two == Lowest(Copies(s, a.tile), 2)
       IN /\ concealed' = [concealed EXCEPT ![s] = @ \ two]
          /\ AddMeld(s, "PENG", a.tile, two \cup {Popped})
    /\ ConsumeDiscard /\ HandToClaimer(s)

Chi(s, a) ==
    /\ a.type = "CHI" /\ a \in LegalActions(s)
    /\ LET two == UNION {Lowest(Copies(s, k), 1) : k \in a.run \ {lastDiscard.tile}}
       IN /\ concealed' = [concealed EXCEPT ![s] = @ \ two]
          /\ AddMeld(s, "CHI", lastDiscard.tile, two \cup {Popped})
    /\ ConsumeDiscard /\ HandToClaimer(s)

GangExposed(s, a) ==
    /\ a.type = "GANG" /\ a \in LegalActions(s) /\ a.kind = "EXPOSED"
    /\ LET three == Lowest(Copies(s, a.tile), 3)
       IN /\ AddMeld(s, "GANG", a.tile, three \cup {Popped})
          /\ InternalDraw(s, [concealed EXCEPT ![s] = @ \ three])
    /\ ConsumeDiscard /\ UNCHANGED deck

GangConcealed(s, a) ==
    /\ a.type = "GANG" /\ a \in LegalActions(s) /\ a.kind = "CONCEALED"
    /\ LET four == Lowest(Copies(s, a.tile), 4)
       IN /\ AddMeld(s, "GANG", a.tile, four)
          /\ InternalDraw(s, [concealed EXCEPT ![s] = @ \ four])
    /\ UNCHANGED <<deck, discards, lastDiscard, pending>>

\* Mutant: the promoted tile stays in the hand.
GangAddedKeeps(s, a) ==
    /\ a.type = "GANG" /\ a \in LegalActions(s) /\ a.kind = "ADDED"
    /\ LET one == Lowest(Copies(s, a.tile), 1)
       IN \E m \in melds[s] :
            /\ m.type = "PENG" /\ m.kind = a.tile
            /\ melds' = [melds EXCEPT ![s] = (@ \ {m}) \cup
                    {[type |-> "GANG", kind |-> a.tile, tiles |-> m.tiles \cup one]}]
            /\ InternalDraw(s, concealed)
    /\ UNCHANGED <<deck, discards, lastDiscard, pending>>

GangAdded(s, a) ==
    /\ a.type = "GANG" /\ a \in LegalActions(s) /\ a.kind = "ADDED"
    /\ LET one == Lowest(Copies(s, a.tile), 1)
       IN \E m \in melds[s] :
            /\ m.type = "PENG" /\ m.kind = a.tile
            /\ melds' = [melds EXCEPT ![s] = (@ \ {m}) \cup
                    {[type |-> "GANG", kind |-> a.tile, tiles |-> m.tiles \cup one]}]
            /\ InternalDraw(s, [concealed EXCEPT ![s] = @ \ one])
    /\ UNCHANGED <<deck, discards, lastDiscard, pending>>

\* A win on a discard leaves the tile in the pile; a self-drawn win leaves it in
\* the hand.
Hu(s, a) ==
    /\ a.type = "HU" /\ a \in LegalActions(s)
    /\ terminal' = IF phase = "CLAIM_WINDOW"
                   THEN [kind |-> "HU", winner |-> s, tile |-> lastDiscard.tile,
                         from |-> lastDiscard.seat]
                   ELSE [kind |-> "HU", winner |-> s, tile |-> lastDrawn.tile, from |-> s]
    /\ phase' = "TERMINAL"
    /\ lastDiscard' = None /\ lastDrawn' = None /\ pending' = {}
    /\ UNCHANGED <<deck, drawn, concealed, melds, discards, flowers, actor>>

ApplyAction(s, a) ==
    \/ Play(s, a) \/ Pass(s, a) \/ Peng(s, a) \/ Chi(s, a)
    \/ GangExposed(s, a) \/ GangConcealed(s, a) \/ GangAdded(s, a) \/ Hu(s, a)

Next == \E s \in Seats : \E a \in LegalActions(s) : ApplyAction(s, a)

Spec == Init /\ [][Next]_vars

\* Seats in turn keep answering; a hand that is not over always moves on.
FairSpec == Spec /\ WF_vars(Next)

-----------------------------------------------------------------------------
(* Properties.                                                             *)

Melds == [type : {"PENG", "CHI", "GANG"}, kind : Kinds, tiles : SUBSET DOMAIN deck]
Claims == {"HU", "PENG", "GANG", "CHI"}

TypeOK ==
    /\ deck \in Decks /\ drawn \in 0 .. Len(deck)
    /\ concealed \in [Seats -> SUBSET DOMAIN deck]
    /\ flowers \in [Seats -> SUBSET DOMAIN deck]
    /\ discards \in [Seats -> Seq(DOMAIN deck)]
    /\ melds \in [Seats -> SUBSET Melds]
    /\ phase \in {"DISCARD", "CLAIM_WINDOW", "TERMINAL"} /\ actor \in Seats
    /\ lastDrawn = None \/ lastDrawn \in [seat : Seats, tile : Kinds]
    /\ lastDiscard = None \/ lastDiscard \in [seat : Seats, tile : Kinds]
    /\ pending \subseteq [seat : Seats, claim : Claims, run : Runs \cup {{}}]

\* Where a tile lies.
WallPlaces(i) == {<<"wall">> : x \in {i} \cap Wall}
HandPlaces(i) == {<<"hand", s>> : s \in {x \in Seats : i \in concealed[x]}}
FlowerPlaces(i) == {<<"flower", s>> : s \in {x \in Seats : i \in flowers[x]}}
PilePlaces(i) ==
    UNION {{<<"pile", s, n>> : n \in {x \in DOMAIN discards[s] : discards[s][x] = i}} :
           s \in Seats}
MeldPlaces(i) == UNION {{<<"meld", s, m>> : m \in {x \in melds[s] : i \in x.tiles}} : s \in Seats}

Places(i) ==
    WallPlaces(i) \cup HandPlaces(i) \cup FlowerPlaces(i) \cup PilePlaces(i) \cup MeldPlaces(i)

\* Every tile of the wall is in exactly one place at any time: no claim, kong or
\* replacement draw loses a tile or leaves a copy behind.
TilesConserved == \A i \in DOMAIN deck : \E p \in Places(i) : Places(i) = {p}

\* Who holds one tile more than dealt: the seat to discard, and the winner of a
\* self-drawn win.
HoldsOneMore(s) ==
    \/ phase = "DISCARD" /\ s = actor
    \/ terminal # None /\ terminal.kind = "HU" /\ terminal.winner = s /\ terminal.from = s

\* Hands keep their size, a meld counting for three tiles whatever it holds.
HandSizes ==
    \A s \in Seats :
        Cardinality(concealed[s]) + 3 * Cardinality(melds[s])
            = HandSize + (IF HoldsOneMore(s) THEN 1 ELSE 0)

\* A meld is three or four of a kind, or a run, and what was claimed for it is
\* the tile that was discarded.
MeldsWellFormed ==
    \A s \in Seats : \A m \in melds[s] :
        LET kinds == {deck[i] : i \in m.tiles}
        IN IF m.type = "CHI" THEN kinds \in Runs /\ m.kind \in kinds /\ Cardinality(m.tiles) = 3
           ELSE kinds = {m.kind} /\ Cardinality(m.tiles) = IF m.type = "PENG" THEN 3 ELSE 4

\* An open window has a claim to decide, each claim still is legal for its seat,
\* and the tile it is about lies on top of the discarder's pile.
WindowStands ==
    phase = "CLAIM_WINDOW" =>
        /\ pending # {} /\ lastDiscard # None
        /\ discards[lastDiscard.seat] # <<>> /\ deck[Popped] = lastDiscard.tile
        /\ \A c \in pending : \E a \in ClaimActions(c.seat) :
            a.type = c.claim /\ (c.claim = "CHI" => a.run = c.run)

\* What was drawn last can be played by the seat to discard: the default action
\* of its prompt is legal.
DrawnIsHeld ==
    phase = "DISCARD" /\ lastDrawn # None =>
        lastDrawn.seat = actor /\ lastDrawn.tile \in KindsIn(actor)

\* Whatever was claimed, drawn or passed before, the position is one of the game:
\* the hands of the seats, their melds, the window and the default action.
PositionSound == HandSizes /\ MeldsWellFormed /\ WindowStands /\ DrawnIsHeld

\* A hand ends: no state short of TERMINAL is without a legal action, and no
\* cycle of claims keeps the wall from running out.
Terminates == <>(phase = "TERMINAL")
=============================================================================
