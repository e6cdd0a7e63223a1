-------------------------- MODULE HandReplay_proofs --------------------------
(***************************************************************************)
(* The record of a hand replays, for every wall and whatever the seats     *)
(* decide: what the replay reads is legal for it, and leads it to the      *)
(* state of the manager.                                                   *)
(***************************************************************************)
EXTENDS HandReplay, TableHand_proofs

(***************************************************************************)
(* Where an action that the manager has applied, and the replay has not,   *)
(* has led: the state of the manager, told from the state of the replay.   *)
(* These are the actions of Hand with the state of the manager for the     *)
(* next state.                                                             *)
(***************************************************************************)
Drew(s, hands) ==
    LET left == {i \in R!Wall : deck[i] # Flower}
    IN IF left = {}
       THEN /\ drawn = Len(deck) /\ concealed = hands
            /\ flowers = [rflowers EXCEPT ![s] = @ \cup R!Wall]
            /\ phase = "TERMINAL" /\ terminal = [kind |-> "DRAW"]
            /\ lastDrawn = None /\ actor = ractor
       ELSE \E i \in Lowest(left, 1) :
            /\ drawn = i
            /\ concealed = [hands EXCEPT ![s] = @ \cup {i}]
            /\ flowers = [rflowers EXCEPT ![s] = @ \cup (rdrawn + 1 .. i - 1)]
            /\ phase = "DISCARD" /\ actor = s
            /\ lastDrawn = [seat |-> s, tile |-> deck[i]]
            /\ terminal = rterminal

Advanced(discarder, hands) ==
    lastDiscard = None /\ pending = {} /\ Drew(NextSeat(discarder), hands)

Played(s, k) ==
    /\ \E i \in Lowest(R!Copies(s, k), 1) :
        LET hands == [rconcealed EXCEPT ![s] = @ \ {i}]
            claims == R!Opportunities(k, s)
        IN /\ discards = [rdiscards EXCEPT ![s] = Append(@, i)]
           /\ IF claims = {}
              THEN Advanced(s, hands)
              ELSE /\ pending = claims /\ phase = "CLAIM_WINDOW" /\ actor = NextSeat(s)
                   /\ lastDiscard = [seat |-> s, tile |-> k]
                   /\ concealed = hands
                   /\ drawn = rdrawn /\ flowers = rflowers /\ lastDrawn = rlastDrawn
                   /\ terminal = rterminal
    /\ melds = rmelds

Melded(s, type, kind, tiles) ==
    melds = [rmelds EXCEPT ![s] = @ \cup {[type |-> type, kind |-> kind, tiles |-> tiles]}]

Consumed ==
    /\ discards = [rdiscards EXCEPT ![rlastDiscard.seat] = SubSeq(@, 1, Len(@) - 1)]
    /\ lastDiscard = None /\ pending = {}

Without(s, X) == [rconcealed EXCEPT ![s] = @ \ X]

Handed(s, X) ==
    /\ concealed = Without(s, X) /\ Consumed
    /\ phase = "DISCARD" /\ actor = s /\ lastDrawn = None
    /\ drawn = rdrawn /\ flowers = rflowers /\ terminal = rterminal

Kept == discards = rdiscards /\ lastDiscard = rlastDiscard /\ pending = rpending

Promoted(s, k, X) ==
    \E m \in rmelds[s] :
        /\ m.type = "PENG" /\ m.kind = k
        /\ melds = [rmelds EXCEPT ![s] = (@ \ {m}) \cup
                       {[type |-> "GANG", kind |-> k, tiles |-> m.tiles \cup X]}]

Won(s) ==
    /\ terminal = IF rphase = "CLAIM_WINDOW"
                  THEN [kind |-> "HU", winner |-> s, tile |-> rlastDiscard.tile,
                        from |-> rlastDiscard.seat]
                  ELSE [kind |-> "HU", winner |-> s, tile |-> rlastDrawn.tile, from |-> s]
    /\ phase = "TERMINAL" /\ lastDiscard = None /\ lastDrawn = None /\ pending = {}
    /\ drawn = rdrawn /\ concealed = rconcealed /\ melds = rmelds /\ discards = rdiscards
    /\ flowers = rflowers /\ actor = ractor

FromHand(s, k, n) == Lowest(R!Copies(s, k), n)
OfRun(s, r) == UNION {Lowest(R!Copies(s, k), 1) : k \in r \ {rlastDiscard.tile}}

Leads(s, a) ==
    \/ a.type = "PLAY" /\ Played(s, a.tile)
    \/ /\ a.type = "PENG" /\ Handed(s, FromHand(s, a.tile, 2))
       /\ Melded(s, "PENG", a.tile, FromHand(s, a.tile, 2) \cup {R!Popped})
    \/ /\ a.type = "CHI" /\ Handed(s, OfRun(s, a.run))
       /\ Melded(s, "CHI", rlastDiscard.tile, OfRun(s, a.run) \cup {R!Popped})
    \/ /\ a.type = "GANG" /\ a.kind = "EXPOSED" /\ Consumed
       /\ Melded(s, "GANG", a.tile, FromHand(s, a.tile, 3) \cup {R!Popped})
       /\ Drew(s, Without(s, FromHand(s, a.tile, 3)))
    \/ /\ a.type = "GANG" /\ a.kind = "CONCEALED" /\ Kept
       /\ Melded(s, "GANG", a.tile, FromHand(s, a.tile, 4))
       /\ Drew(s, Without(s, FromHand(s, a.tile, 4)))
    \/ /\ a.type = "GANG" /\ a.kind = "ADDED" /\ Kept
       /\ Promoted(s, a.tile, FromHand(s, a.tile, 1))
       /\ Drew(s, Without(s, FromHand(s, a.tile, 1)))
    \/ a.type = "HU" /\ Won(s)

-----------------------------------------------------------------------------
(* The invariant.                                                          *)

\* Events that a replay without an open window passes over.
Quiet(e) ==
    \/ e.event \in {"CLAIM_WINDOW", "DRAW"}
    \/ e.event = "HAND_END" /\ e.winner = {}
QuietFrom(n) == \A i \in n .. Len(log) : Quiet(log[i])

\* The window of the replay holds what it has read after the first j events.
WindowIs(j) ==
    Len(window) = read - j /\ \A n \in 1 .. Len(window) : window[n] = log[j + n]

\* Event k + 1, after k decisions, makes the replay apply action a of seat s.
Calls(e, k, s, a) ==
    \/ k = 0 /\ e.event = "DISCARD" /\ e.seat = s /\ a = PLAY(e.tile)
    \/ k = 0 /\ e.event = "CLAIM_DECISION" /\ e.seat = s /\ e.action = a /\ OwnTurnGang(a)
    \/ e.event = "HAND_END" /\ e.winner = {s} /\ a = HU
    \/ /\ e.event = "CLAIM_RESOLUTION" /\ e.outcome = "CLAIMED" /\ e.seat = s
       /\ \E n \in 1 .. k : log[n].seat = s
       /\ \A n \in 1 .. k : log[n].seat = s => log[n].action = a

\* Replay and manager are in the same state.
InStep == step # "passing" /\ Mirrors /\ window = <<>> /\ QuietFrom(read + 1)

\* The manager has applied action a of seat s, and its event is still to be read.
Settling(k, s, a) ==
    /\ step # "passing" /\ k < Len(log) /\ read <= k /\ WindowIs(0)
    /\ \A n \in 1 .. k : log[n].event = "CLAIM_DECISION" /\ ~OwnTurnGang(log[n].action)
    /\ Calls(log[k + 1], k, s, a) /\ QuietFrom(k + 2)
    /\ a \in R!LegalActions(s) /\ Leads(s, a)

\* The first k events are PASSes of different seats that the replay could apply.
Passes(k) ==
    /\ rphase = "CLAIM_WINDOW" /\ rlastDiscard # None
    /\ \A n \in 1 .. k :
        /\ log[n].event = "CLAIM_DECISION" /\ log[n].action = PASS
        /\ log[n].seat # rlastDiscard.seat
    /\ \A n, m \in 1 .. k : log[n].seat = log[m].seat => n = m

\* The manager has applied the PASSes that are written, the replay none.
Withdrawn ==
    /\ WindowIs(0) /\ Passes(Len(log))
    /\ replica = <<drawn, concealed, melds, discards, flowers, phase, actor,
                   lastDrawn, lastDiscard, rpending, terminal>>
    /\ pending = {c \in rpending : \A n \in 1 .. Len(log) : c.seat # log[n].seat}
    /\ \A n \in 1 .. Len(log) : \E c \in rpending : c.seat = log[n].seat

Passing == step \in {"passing", "aborted"} /\ log # <<>> /\ Withdrawn

\* The manager has applied all k PASSes, the replay j.
Closing(k, j) ==
    /\ step # "passing" /\ j < k /\ k < Len(log) /\ read <= k /\ (j = 0 \/ read = k)
    /\ WindowIs(j) /\ Passes(k) /\ QuietFrom(k + 2)
    /\ log[k + 1].event = "CLAIM_RESOLUTION" /\ log[k + 1].outcome = "PASSED"
    /\ {c.seat : c \in rpending} = {log[n].seat : n \in j + 1 .. k}
    /\ discards = rdiscards /\ melds = rmelds
    /\ Advanced(rlastDiscard.seat, rconcealed)

OnePung(mel) ==
    \A s \in Seats : \A m, n \in mel[s] :
        m.type = "PENG" /\ n.type = "PENG" /\ m.kind = n.kind => m = n

\* What makes the choices of the engine unique.
ReplicaTyped ==
    /\ rdrawn \in Nat /\ rconcealed \in [Seats -> SUBSET DOMAIN deck] /\ OnePung(rmelds)

Whereabouts ==
    \/ InStep
    \/ \E k \in 0 .. Len(log) : \E s \in Seats : \E a \in R!LegalActions(s) : Settling(k, s, a)
    \/ Passing
    \/ \E k, j \in 0 .. Len(log) : Closing(k, j)

SeqTyped == (\E S : log \in Seq(S)) /\ (\E S : window \in Seq(S))

ReplayInv == SeqTyped /\ ~stuck /\ read \in 0 .. Len(log) /\ ReplicaTyped /\ Whereabouts

-----------------------------------------------------------------------------
(* Replica and manager.                                                    *)

\* Two lowest elements of a set are one.
LEMMA LowestOne ==
  ASSUME NEW S \in SUBSET Nat, IsFiniteSet(S), NEW x \in Lowest(S, 1), NEW y \in Lowest(S, 1)
  PROVE  x = y
<1>1. ASSUME NEW z \in Lowest(S, 1) PROVE z \in S /\ \A w \in S : z <= w
  <2>1. z \in S /\ Cardinality({w \in S : w < z}) < 1
    BY DEF Lowest
  <2>2. IsFiniteSet({w \in S : w < z}) /\ Cardinality({w \in S : w < z}) \in Nat
    BY FS_Subset, FS_CardinalityType
  <2>3. {w \in S : w < z} = {}
    BY <2>1, <2>2, FS_EmptySet
  <2>4. \A w \in S : z <= w
    BY <2>1, <2>3
  <2> QED
    BY <2>1, <2>4
<1>2. x <= y /\ y <= x /\ x \in Nat /\ y \in Nat
  BY <1>1
<1> QED
  BY <1>2

\* The two copies of the engine share what does not depend on the state.
LEMMA SameWords ==
  /\ R!Kinds = Kinds /\ R!Runs = Runs /\ R!Seats = Seats
  /\ \A S : R!Cardinality(S) = Cardinality(S)
  /\ \A s : R!NextSeat(s) = NextSeat(s)
  /\ \A S, n : R!Lowest(S, n) = Lowest(S, n)
  /\ \A k : R!PLAY(k) = PLAY(k) /\ R!PENG(k) = PENG(k) /\ R!CHI(k) = CHI(k)
  /\ \A k, how : R!GANG(k, how) = GANG(k, how)
  /\ R!PASS = PASS /\ R!HU = HU
<1>1. R!Kinds = Kinds
  BY DEF R!Kinds, Kinds, R!Suited, Suited
<1>2. R!Runs = Runs /\ R!Seats = Seats /\ \A s : R!NextSeat(s) = NextSeat(s)
  BY DEF R!Runs, Runs, R!Seats, Seats, R!NextSeat, NextSeat
<1>3. \A S : R!Cardinality(S) = Cardinality(S)
  BY DEF R!Cardinality, Cardinality
<1>4. \A S, n : R!Lowest(S, n) = Lowest(S, n)
  BY <1>3 DEF R!Lowest, Lowest
<1>5. /\ \A k : R!PLAY(k) = PLAY(k) /\ R!PENG(k) = PENG(k) /\ R!CHI(k) = CHI(k)
      /\ \A k, how : R!GANG(k, how) = GANG(k, how)
      /\ R!PASS = PASS /\ R!HU = HU
  BY DEF R!PLAY, PLAY, R!PENG, PENG, R!CHI, CHI, R!GANG, GANG, R!PASS, PASS, R!HU, HU
<1> QED
  BY <1>3, <1>1, <1>2, <1>4, <1>5

\* The state of the replay, one by one.
LEMMA Mirrored ==
  Mirrors <=>
    /\ rdrawn = drawn /\ rconcealed = concealed /\ rmelds = melds /\ rdiscards = discards
    /\ rflowers = flowers /\ rphase = phase /\ ractor = actor /\ rlastDrawn = lastDrawn
    /\ rlastDiscard = lastDiscard /\ rpending = pending /\ rterminal = terminal
BY DEF Mirrors, replica

LEMMA ReplicaStays ==
  UNCHANGED replica <=>
    /\ rdrawn' = rdrawn /\ rconcealed' = rconcealed /\ rmelds' = rmelds
    /\ rdiscards' = rdiscards /\ rflowers' = rflowers /\ rphase' = rphase
    /\ ractor' = ractor /\ rlastDrawn' = rlastDrawn /\ rlastDiscard' = rlastDiscard
    /\ rpending' = rpending /\ rterminal' = rterminal
BY DEF replica

\* What the engine makes of the same state is the same.
LEMMA SameViews ==
  ASSUME Mirrors
  PROVE  /\ R!Wall = Wall /\ R!Popped = Popped
         /\ \A s, k : R!Copies(s, k) = Copies(s, k)
         /\ \A s, k, from : R!ClaimsOn(s, k, from) = ClaimsOn(s, k, from)
         /\ \A s : R!LegalActions(s) = LegalActions(s)
         /\ \A k, s : R!Opportunities(k, s) = Opportunities(k, s)
<1> USE Mirrored
<1>1. R!Wall = Wall
  BY DEF R!Wall, Wall
<1>2. R!Popped = Popped
  BY DEF R!Popped, Popped
<1>3. \A s, k : R!Copies(s, k) = Copies(s, k)
  BY DEF R!Copies, Copies
<1>4. \A s : R!KindsIn(s) = KindsIn(s) /\ R!PengKinds(s) = PengKinds(s)
  BY DEF R!KindsIn, KindsIn, R!PengKinds, PengKinds
<1>5. \A s, k : R!Bag(s, k) = Bag(s, k)
  BY <1>3, SameWords DEF R!Bag, Bag
<1>6. \A s : R!SelfDrawHu(s) <=> SelfDrawHu(s)
  BY <1>3, <1>4, SameWords DEF R!SelfDrawHu, SelfDrawHu
<1>7. \A s, k, from : R!ClaimsOn(s, k, from) = ClaimsOn(s, k, from)
  BY <1>1, <1>3, <1>4, <1>5, SameWords DEF R!ClaimsOn, ClaimsOn
<1>8. \A s : R!DiscardActions(s) = DiscardActions(s)
  BY <1>1, <1>3, <1>4, <1>6, SameWords DEF R!DiscardActions, DiscardActions
<1>9. \A s : R!ClaimActions(s) = ClaimActions(s)
  BY <1>7, SameWords DEF R!ClaimActions, ClaimActions
<1>10. \A s : R!LegalActions(s) = LegalActions(s)
  BY <1>8, <1>9 DEF R!LegalActions, LegalActions
<1>11. \A k, s : R!Opportunities(k, s) = Opportunities(k, s)
  BY <1>7, SameWords DEF R!Opportunities, Opportunities
<1> QED
  BY <1>1, <1>2, <1>3, <1>7, <1>10, <1>11

\* A replica that stays offers what it offered.
LEMMA SameOffers ==
  ASSUME UNCHANGED replica, deck' = deck
  PROVE  /\ R!Wall' = R!Wall /\ R!Popped' = R!Popped
         /\ \A s, k : R!Copies(s, k)' = R!Copies(s, k)
         /\ \A s : R!LegalActions(s)' = R!LegalActions(s)
         /\ \A k, s : R!Opportunities(k, s)' = R!Opportunities(k, s)
<1> USE ReplicaStays
<1>1. R!Wall' = R!Wall
  BY DEF R!Wall
<1>2. R!Popped' = R!Popped
  BY DEF R!Popped
<1>3. \A s, k : R!Copies(s, k)' = R!Copies(s, k)
  BY DEF R!Copies
<1>4. \A s : R!KindsIn(s)' = R!KindsIn(s) /\ R!PengKinds(s)' = R!PengKinds(s)
  BY DEF R!KindsIn, R!PengKinds
<1>5. \A s, k : R!Bag(s, k)' = R!Bag(s, k)
  BY <1>3 DEF R!Bag
<1>6. \A s : R!SelfDrawHu(s)' <=> R!SelfDrawHu(s)
  BY <1>3, <1>4 DEF R!SelfDrawHu
<1>7. \A s, k, from : R!ClaimsOn(s, k, from)' = R!ClaimsOn(s, k, from)
  BY <1>1, <1>3, <1>4, <1>5 DEF R!ClaimsOn
<1>8. \A s : R!DiscardActions(s)' = R!DiscardActions(s)
  BY <1>1, <1>3, <1>4, <1>6 DEF R!DiscardActions
<1>9. \A s : R!ClaimActions(s)' = R!ClaimActions(s)
  BY <1>7 DEF R!ClaimActions
<1>10. \A s : R!LegalActions(s)' = R!LegalActions(s)
  BY <1>8, <1>9 DEF R!LegalActions
<1>11. \A k, s : R!Opportunities(k, s)' = R!Opportunities(k, s)
  BY <1>7 DEF R!Opportunities
<1> QED
  BY <1>1, <1>2, <1>3, <1>10, <1>11

-----------------------------------------------------------------------------
(* What the manager applies leads there.                                   *)

LEMMA DrawLeads ==
  ASSUME UNCHANGED replica, deck' = deck, NEW s, NEW hands, InternalDraw(s, hands),
         rdrawn = drawn, rflowers = flowers, ractor = actor, rterminal = terminal
  PROVE  Drew(s, hands)'
<1>1. /\ R!Wall' = Wall /\ rflowers' = flowers /\ rdrawn' = drawn /\ ractor' = actor
      /\ rterminal' = terminal
  BY ReplicaStays DEF R!Wall, Wall
<1>2. PICK left : left = {i \in Wall : deck[i] # Flower}
  OBVIOUS
<1>3. {i \in R!Wall' : deck'[i] # Flower} = left
  BY <1>1, <1>2
<1>4. CASE left = {}
  <2>1. /\ drawn' = Len(deck) /\ concealed' = hands
        /\ flowers' = [flowers EXCEPT ![s] = @ \cup Wall]
        /\ phase' = "TERMINAL" /\ terminal' = [kind |-> "DRAW"]
        /\ lastDrawn' = None /\ actor' = actor
    BY <1>2, <1>4 DEF InternalDraw
  <2> QED
    BY <1>1, <1>3, <1>4, <2>1 DEF Drew
<1>5. CASE left # {}
  <2>1. PICK i \in Lowest(left, 1) :
            /\ drawn' = i
            /\ concealed' = [hands EXCEPT ![s] = @ \cup {i}]
            /\ flowers' = [flowers EXCEPT ![s] = @ \cup (drawn + 1 .. i - 1)]
            /\ phase' = "DISCARD" /\ actor' = s
            /\ lastDrawn' = [seat |-> s, tile |-> deck[i]]
            /\ terminal' = terminal
    BY <1>2, <1>5 DEF InternalDraw
  <2> QED
    BY <1>1, <1>3, <1>5, <2>1 DEF Drew
<1> QED
  BY <1>4, <1>5

\* Any action but PASS, told from the state that the replay is still in.
LEMMA ActionLeads ==
  ASSUME Mirrors, UNCHANGED replica, NEW s, NEW a, ApplyAction(s, a), a.type # "PASS"
  PROVE  deck' = deck /\ Leads(s, a)' /\ a \in R!LegalActions(s)'
<1>1. deck' = deck /\ a \in LegalActions(s)
  BY DEF ApplyAction, Play, Pass, Peng, Chi, GangExposed, GangConcealed, GangAdded, Hu,
         HandToClaimer
<1>2. /\ R!Wall' = Wall /\ R!Popped' = Popped
      /\ \A t, k : R!Copies(t, k)' = Copies(t, k)
      /\ \A t : R!LegalActions(t)' = LegalActions(t)
      /\ \A k, t : R!Opportunities(k, t)' = Opportunities(k, t)
  BY <1>1, SameViews, SameOffers
<1>3. /\ rdrawn' = drawn /\ rconcealed' = concealed /\ rmelds' = melds
      /\ rdiscards' = discards /\ rflowers' = flowers /\ rphase' = phase
      /\ ractor' = actor /\ rlastDrawn' = lastDrawn /\ rlastDiscard' = lastDiscard
      /\ rpending' = pending /\ rterminal' = terminal
  BY Mirrored, ReplicaStays
<1>4. \A t, hands : InternalDraw(t, hands) => Drew(t, hands)'
  BY <1>1, DrawLeads, Mirrored
<1>8. /\ \A k, n : FromHand(s, k, n)' = Lowest(Copies(s, k), n)
      /\ \A r : OfRun(s, r)' = UNION {Lowest(Copies(s, k), 1) : k \in r \ {lastDiscard.tile}}
  BY <1>2, <1>3 DEF FromHand, OfRun
<1>9. PICK p : p = Popped /\ R!Popped' = p
  BY <1>2
<1>10. CASE Play(s, a)
  <2>1. PICK i \in Lowest(Copies(s, a.tile), 1) :
          LET hands == [concealed EXCEPT ![s] = @ \ {i}]
              claims == Opportunities(a.tile, s)
          IN /\ discards' = [discards EXCEPT ![s] = Append(@, i)]
             /\ IF claims = {}
                THEN AdvanceToNextSeat(s, hands)
                ELSE /\ pending' = claims /\ phase' = "CLAIM_WINDOW" /\ actor' = NextSeat(s)
                     /\ lastDiscard' = [seat |-> s, tile |-> a.tile]
                     /\ concealed' = hands
                     /\ UNCHANGED <<drawn, flowers, lastDrawn, terminal>>
    BY <1>10 DEF Play
  <2>2. PICK hands, claims : /\ hands = [concealed EXCEPT ![s] = @ \ {i}]
                             /\ claims = Opportunities(a.tile, s)
    OBVIOUS
  <2>3. melds' = rmelds' /\ a.type = "PLAY"
    BY <1>3, <1>10 DEF Play
  <2>4. CASE claims = {}
    <3>1. lastDiscard' = None /\ pending' = {} /\ Drew(NextSeat(s), hands)'
      BY <1>4, <2>1, <2>2, <2>4 DEF AdvanceToNextSeat
    <3>2. Advanced(s, hands)'
      BY <3>1 DEF Advanced
    <3>3. Played(s, a.tile)'
      BY <1>2, <1>3, <2>1, <2>2, <2>3, <2>4, <3>2 DEF Played
    <3> QED
      BY <1>1, <1>2, <2>3, <3>3 DEF Leads
  <2>5. CASE claims # {}
    <3>1. Played(s, a.tile)'
      BY <1>2, <1>3, <2>1, <2>2, <2>3, <2>5 DEF Played
    <3> QED
      BY <1>1, <1>2, <2>3, <3>1 DEF Leads
  <2> QED
    BY <2>4, <2>5
<1>11. CASE Peng(s, a)
  <2>1. PICK two : two = Lowest(Copies(s, a.tile), 2)
    OBVIOUS
  <2>2. /\ concealed' = [concealed EXCEPT ![s] = @ \ two]
        /\ melds' = [melds EXCEPT ![s] = @ \cup
              {[type |-> "PENG", kind |-> a.tile, tiles |-> two \cup {p}]}]
        /\ ConsumeDiscard /\ HandToClaimer(s) /\ a.type = "PENG"
    BY <1>9, <1>11, <2>1 DEF Peng, AddMeld
  <2>3. FromHand(s, a.tile, 2)' = two
    BY <1>8, <2>1
  <2>4. Handed(s, FromHand(s, a.tile, 2))'
    BY <1>3, <2>2, <2>3
       DEF Handed, Consumed, Without, ConsumeDiscard, PopDiscard, HandToClaimer
  <2>5. Melded(s, "PENG", a.tile, FromHand(s, a.tile, 2) \cup {R!Popped})'
    BY <1>3, <1>9, <2>2, <2>3 DEF Melded
  <2> QED
    BY <1>1, <1>2, <2>2, <2>4, <2>5 DEF Leads
<1>12. CASE Chi(s, a)
  <2>1. PICK two : two = UNION {Lowest(Copies(s, k), 1) : k \in a.run \ {lastDiscard.tile}}
    OBVIOUS
  <2>2. /\ concealed' = [concealed EXCEPT ![s] = @ \ two]
        /\ melds' = [melds EXCEPT ![s] = @ \cup
              {[type |-> "CHI", kind |-> lastDiscard.tile, tiles |-> two \cup {p}]}]
        /\ ConsumeDiscard /\ HandToClaimer(s) /\ a.type = "CHI"
    BY <1>9, <1>12, <2>1 DEF Chi, AddMeld
  <2>3. OfRun(s, a.run)' = two
    BY <1>8, <2>1
  <2>4. Handed(s, OfRun(s, a.run))'
    BY <1>3, <2>2, <2>3
       DEF Handed, Consumed, Without, ConsumeDiscard, PopDiscard, HandToClaimer
  <2>5. Melded(s, "CHI", rlastDiscard.tile, OfRun(s, a.run) \cup {R!Popped})'
    BY <1>3, <1>9, <2>2, <2>3 DEF Melded
  <2> QED
    BY <1>1, <1>2, <2>2, <2>4, <2>5 DEF Leads
<1>13. CASE GangExposed(s, a)
  <2>1. PICK three : three = Lowest(Copies(s, a.tile), 3)
    OBVIOUS
  <2>2. PICK hands : hands = [concealed EXCEPT ![s] = @ \ three]
    OBVIOUS
  <2>3. /\ melds' = [melds EXCEPT ![s] = @ \cup
              {[type |-> "GANG", kind |-> a.tile, tiles |-> three \cup {p}]}]
        /\ InternalDraw(s, hands)
        /\ ConsumeDiscard /\ a.type = "GANG" /\ a.kind = "EXPOSED"
    BY <1>9, <1>13, <2>1, <2>2 DEF GangExposed, AddMeld
  <2>4. FromHand(s, a.tile, 3)' = three
    BY <1>8, <2>1
  <2>5. Consumed'
    BY <1>3, <2>3 DEF Consumed, ConsumeDiscard, PopDiscard
  <2>6. Melded(s, "GANG", a.tile, FromHand(s, a.tile, 3) \cup {R!Popped})'
    BY <1>3, <1>9, <2>3, <2>4 DEF Melded
  <2>7. Without(s, FromHand(s, a.tile, 3))' = hands
    BY <1>3, <2>2, <2>4 DEF Without
  <2>8. Drew(s, Without(s, FromHand(s, a.tile, 3)))'
    <3>1. Drew(s, hands)'
      BY <1>4, <2>3
    <3> QED
      BY <2>7, <3>1 DEF Drew
  <2> QED
    BY <1>1, <1>2, <2>3, <2>5, <2>6, <2>8 DEF Leads
<1>14. CASE GangConcealed(s, a)
  <2>1. PICK four : four = Lowest(Copies(s, a.tile), 4)
    OBVIOUS
  <2>2. PICK hands : hands = [concealed EXCEPT ![s] = @ \ four]
    OBVIOUS
  <2>3. /\ melds' = [melds EXCEPT ![s] = @ \cup
              {[type |-> "GANG", kind |-> a.tile, tiles |-> four]}]
        /\ InternalDraw(s, hands)
        /\ UNCHANGED <<discards, lastDiscard, pending>>
        /\ a.type = "GANG" /\ a.kind = "CONCEALED"
    BY <1>14, <2>1, <2>2 DEF GangConcealed, AddMeld
  <2>4. FromHand(s, a.tile, 4)' = four
    BY <1>8, <2>1
  <2>5. Kept'
    BY <1>3, <2>3 DEF Kept
  <2>6. Melded(s, "GANG", a.tile, FromHand(s, a.tile, 4))'
    BY <1>3, <2>3, <2>4 DEF Melded
  <2>7. Without(s, FromHand(s, a.tile, 4))' = hands
    BY <1>3, <2>2, <2>4 DEF Without
  <2>8. Drew(s, Without(s, FromHand(s, a.tile, 4)))'
    <3>1. Drew(s, hands)'
      BY <1>4, <2>3
    <3> QED
      BY <2>7, <3>1 DEF Drew
  <2> QED
    BY <1>1, <1>2, <2>3, <2>5, <2>6, <2>8 DEF Leads
<1>15. CASE GangAdded(s, a)
  <2>1. PICK one : one = Lowest(Copies(s, a.tile), 1)
    OBVIOUS
  <2>2. PICK hands : hands = [concealed EXCEPT ![s] = @ \ one]
    OBVIOUS
  <2>3. PICK m \in melds[s] :
            /\ m.type = "PENG" /\ m.kind = a.tile
            /\ melds' = [melds EXCEPT ![s] = (@ \ {m}) \cup
                    {[type |-> "GANG", kind |-> a.tile, tiles |-> m.tiles \cup one]}]
            /\ InternalDraw(s, hands)
    BY <1>15, <2>1, <2>2 DEF GangAdded
  <2>4. UNCHANGED <<discards, lastDiscard, pending>> /\ a.type = "GANG" /\ a.kind = "ADDED"
    BY <1>15 DEF GangAdded
  <2>5. FromHand(s, a.tile, 1)' = one
    BY <1>8, <2>1
  <2>6. Kept'
    BY <1>3, <2>4 DEF Kept
  <2>7. Promoted(s, a.tile, FromHand(s, a.tile, 1))'
    BY <1>3, <2>3, <2>5 DEF Promoted
  <2>8. Without(s, FromHand(s, a.tile, 1))' = hands
    BY <1>3, <2>2, <2>5 DEF Without
  <2>9. Drew(s, Without(s, FromHand(s, a.tile, 1)))'
    <3>1. Drew(s, hands)'
      BY <1>4, <2>3
    <3> QED
      BY <2>8, <3>1 DEF Drew
  <2> QED
    BY <1>1, <1>2, <2>4, <2>6, <2>7, <2>9 DEF Leads
<1>16. CASE Hu(s, a)
  <2>1. Won(s)' /\ a.type = "HU"
    BY <1>3, <1>16 DEF Hu, Won
  <2> QED
    BY <1>1, <1>2, <2>1 DEF Leads
<1> QED
  BY <1>10, <1>11, <1>12, <1>13, <1>14, <1>15, <1>16 DEF ApplyAction, Pass

-----------------------------------------------------------------------------
(* What the replay applies leads it there.                                 *)

\* The replay comes to the state of the manager.
Arrives ==
    /\ rdrawn' = drawn /\ rconcealed' = concealed /\ rmelds' = melds
    /\ rdiscards' = discards /\ rflowers' = flowers /\ rphase' = phase
    /\ ractor' = actor /\ rlastDrawn' = lastDrawn /\ rlastDiscard' = lastDiscard
    /\ rpending' = pending /\ rterminal' = terminal

\* The copies of a kind in a hand of the replay.
LEMMA CopiesFinite ==
  ASSUME ReplicaTyped, Len(deck) \in Nat, DOMAIN deck = 1 .. Len(deck), NEW s \in Seats, NEW k
  PROVE  R!Copies(s, k) \in SUBSET Nat /\ IsFiniteSet(R!Copies(s, k))
<1>1. R!Copies(s, k) \in SUBSET (1 .. Len(deck))
  BY DEF ReplicaTyped, R!Copies
<1>2. IsFiniteSet(1 .. Len(deck))
  BY FS_Interval
<1> QED
  BY <1>1, <1>2, FS_Subset

LEMMA DrawArrives ==
  ASSUME rdrawn \in Nat, Len(deck) \in Nat, NEW s, NEW hands,
         Drew(s, hands), R!InternalDraw(s, hands)
  PROVE  /\ rdrawn' = drawn /\ rconcealed' = concealed /\ rflowers' = flowers
         /\ rphase' = phase /\ ractor' = actor /\ rlastDrawn' = lastDrawn
         /\ rterminal' = terminal
<1>1. PICK left : left = {i \in R!Wall : deck[i] # Flower}
  OBVIOUS
<1>2. left \in SUBSET Nat /\ IsFiniteSet(left)
  <2>1. left \in SUBSET (rdrawn + 1 .. Len(deck))
    BY <1>1 DEF R!Wall
  <2>2. IsFiniteSet(rdrawn + 1 .. Len(deck)) /\ rdrawn + 1 .. Len(deck) \in SUBSET Nat
    <3>1. rdrawn + 1 \in Int /\ Len(deck) \in Int
      OBVIOUS
    <3>2. IsFiniteSet(rdrawn + 1 .. Len(deck))
      BY <3>1, FS_Interval
    <3> QED
      BY <3>2
  <2> QED
    BY <2>1, <2>2, FS_Subset
<1>3. CASE left = {}
  <2>1. /\ drawn = Len(deck) /\ concealed = hands
        /\ flowers = [rflowers EXCEPT ![s] = @ \cup R!Wall]
        /\ phase = "TERMINAL" /\ terminal = [kind |-> "DRAW"]
        /\ lastDrawn = None /\ actor = ractor
    BY <1>1, <1>3 DEF Drew
  <2>2. /\ rdrawn' = Len(deck) /\ rconcealed' = hands
        /\ rflowers' = [rflowers EXCEPT ![s] = @ \cup R!Wall]
        /\ rphase' = "TERMINAL" /\ rterminal' = [kind |-> "DRAW"]
        /\ rlastDrawn' = None /\ ractor' = ractor
    BY <1>1, <1>3 DEF R!InternalDraw
  <2> QED
    BY <2>1, <2>2
<1>4. CASE left # {}
  <2>1. PICK i \in Lowest(left, 1) :
            /\ drawn = i
            /\ concealed = [hands EXCEPT ![s] = @ \cup {i}]
            /\ flowers = [rflowers EXCEPT ![s] = @ \cup (rdrawn + 1 .. i - 1)]
            /\ phase = "DISCARD" /\ actor = s
            /\ lastDrawn = [seat |-> s, tile |-> deck[i]]
            /\ terminal = rterminal
    BY <1>1, <1>4 DEF Drew
  <2>2. PICK j \in R!Lowest(left, 1) :
            /\ rdrawn' = j
            /\ rconcealed' = [hands EXCEPT ![s] = @ \cup {j}]
            /\ rflowers' = [rflowers EXCEPT ![s] = @ \cup (rdrawn + 1 .. j - 1)]
            /\ rphase' = "DISCARD" /\ ractor' = s
            /\ rlastDrawn' = [seat |-> s, tile |-> deck[j]]
            /\ rterminal' = rterminal
    BY <1>1, <1>4 DEF R!InternalDraw
  <2>3. i = j
    BY <2>2, <1>2, LowestOne, SameWords
  <2> QED
    BY <2>1, <2>2, <2>3
<1> QED
  BY <1>3, <1>4

LEMMA ActionArrives ==
  ASSUME ReplicaTyped, Len(deck) \in Nat, DOMAIN deck = 1 .. Len(deck),
         NEW s \in Seats, NEW a, Leads(s, a), R!ApplyAction(s, a)
  PROVE  Arrives
<1>1. /\ \A t, k, n : R!Lowest(R!Copies(t, k), n) = Lowest(R!Copies(t, k), n)
      /\ \A t : R!NextSeat(t) = NextSeat(t)
  BY SameWords
<1>2. ASSUME NEW t, NEW hands, Drew(t, hands), R!InternalDraw(t, hands)
      PROVE  /\ rdrawn' = drawn /\ rconcealed' = concealed /\ rflowers' = flowers
             /\ rphase' = phase /\ ractor' = actor /\ rlastDrawn' = lastDrawn
             /\ rterminal' = terminal
  BY <1>2, DrawArrives DEF ReplicaTyped
<1>3. ASSUME NEW k, NEW i \in Lowest(R!Copies(s, k), 1), NEW j \in Lowest(R!Copies(s, k), 1)
      PROVE  i = j
  BY CopiesFinite, LowestOne
<1>4. CASE R!Play(s, a)
  <2>1. a.type = "PLAY"
    BY <1>4 DEF R!Play
  <2>2. Played(s, a.tile)
    BY <2>1 DEF Leads
  <2>3. PICK i \in Lowest(R!Copies(s, a.tile), 1) :
        LET hands == [rconcealed EXCEPT ![s] = @ \ {i}]
            claims == R!Opportunities(a.tile, s)
        IN /\ discards = [rdiscards EXCEPT ![s] = Append(@, i)]
           /\ IF claims = {}
              THEN Advanced(s, hands)
              ELSE /\ pending = claims /\ phase = "CLAIM_WINDOW" /\ actor = NextSeat(s)
                   /\ lastDiscard = [seat |-> s, tile |-> a.tile]
                   /\ concealed = hands
                   /\ drawn = rdrawn /\ flowers = rflowers /\ lastDrawn = rlastDrawn
                   /\ terminal = rterminal
    BY <2>2 DEF Played
  <2>4. PICK j \in R!Lowest(R!Copies(s, a.tile), 1) :
        LET hands == [rconcealed EXCEPT ![s] = @ \ {j}]
            claims == R!Opportunities(a.tile, s)
        IN /\ rdiscards' = [rdiscards EXCEPT ![s] = Append(@, j)]
           /\ IF claims = {}
              THEN R!AdvanceToNextSeat(s, hands)
              ELSE /\ rpending' = claims /\ rphase' = "CLAIM_WINDOW" /\ ractor' = NextSeat(s)
                   /\ rlastDiscard' = [seat |-> s, tile |-> a.tile]
                   /\ rconcealed' = hands
                   /\ rdrawn' = rdrawn /\ rflowers' = rflowers /\ rlastDrawn' = rlastDrawn
                   /\ rterminal' = rterminal
    BY <1>1, <1>4 DEF R!Play
  <2>5. i = j
    BY <1>1, <1>3, <2>4
  <2>6. PICK hands, claims : /\ hands = [rconcealed EXCEPT ![s] = @ \ {i}]
                             /\ claims = R!Opportunities(a.tile, s)
    OBVIOUS
  <2>7. melds = rmelds /\ rmelds' = rmelds
    BY <1>4, <2>2 DEF Played, R!Play
  <2>8. CASE claims = {}
    <3>1. Advanced(s, hands) /\ discards = [rdiscards EXCEPT ![s] = Append(@, i)]
      BY <2>3, <2>6, <2>8
    <3>2. R!AdvanceToNextSeat(s, hands) /\ rdiscards' = [rdiscards EXCEPT ![s] = Append(@, i)]
      BY <2>4, <2>5, <2>6, <2>8
    <3>3. /\ lastDiscard = None /\ pending = {} /\ Drew(NextSeat(s), hands)
          /\ rlastDiscard' = None /\ rpending' = {} /\ R!InternalDraw(NextSeat(s), hands)
      BY <1>1, <3>1, <3>2 DEF Advanced, R!AdvanceToNextSeat
    <3> QED
      BY <1>2, <2>7, <3>1, <3>2, <3>3 DEF Arrives
  <2>9. CASE claims # {}
    BY <2>3, <2>4, <2>5, <2>6, <2>7, <2>9 DEF Arrives
  <2> QED
    BY <2>8, <2>9
<1>5. CASE R!Peng(s, a)
  <2>1. PICK two : two = R!Lowest(R!Copies(s, a.tile), 2)
    OBVIOUS
  <2>2. a.type = "PENG"
    BY <1>5 DEF R!Peng
  <2>3. Handed(s, two) /\ Melded(s, "PENG", a.tile, two \cup {R!Popped})
    <3>1. FromHand(s, a.tile, 2) = two
      BY <1>1, <2>1 DEF FromHand
    <3>2. /\ Handed(s, FromHand(s, a.tile, 2))
          /\ Melded(s, "PENG", a.tile, FromHand(s, a.tile, 2) \cup {R!Popped})
      BY <2>2 DEF Leads
    <3> QED
      BY <3>1, <3>2
  <2>4. /\ rconcealed' = [rconcealed EXCEPT ![s] = @ \ two]
        /\ R!AddMeld(s, "PENG", a.tile, two \cup {R!Popped})
        /\ R!ConsumeDiscard /\ R!HandToClaimer(s)
    BY <1>5, <2>1 DEF R!Peng
  <2> QED
    BY <2>3, <2>4 DEF Handed, Melded, Consumed, Without, R!AddMeld, R!ConsumeDiscard,
       R!PopDiscard, R!HandToClaimer, Arrives
<1>6. CASE R!Chi(s, a)
  <2>1. PICK two : two = UNION {Lowest(R!Copies(s, k), 1) : k \in a.run \ {rlastDiscard.tile}}
    OBVIOUS
  <2>2. two = UNION {R!Lowest(R!Copies(s, k), 1) : k \in a.run \ {rlastDiscard.tile}}
    BY <1>1, <2>1
  <2>3. a.type = "CHI"
    BY <1>6 DEF R!Chi
  <2>4. Handed(s, two) /\ Melded(s, "CHI", rlastDiscard.tile, two \cup {R!Popped})
    BY <2>1, <2>3 DEF Leads, OfRun
  <2>5. /\ rconcealed' = [rconcealed EXCEPT ![s] = @ \ two]
        /\ R!AddMeld(s, "CHI", rlastDiscard.tile, two \cup {R!Popped})
        /\ R!ConsumeDiscard /\ R!HandToClaimer(s)
    BY <1>6, <2>2 DEF R!Chi
  <2> QED
    BY <2>4, <2>5 DEF Handed, Melded, Consumed, Without, R!AddMeld, R!ConsumeDiscard,
       R!PopDiscard, R!HandToClaimer, Arrives
<1>7. CASE R!GangExposed(s, a)
  <2>1. PICK three : three = R!Lowest(R!Copies(s, a.tile), 3)
    OBVIOUS
  <2>2. PICK hands : hands = [rconcealed EXCEPT ![s] = @ \ three]
    OBVIOUS
  <2>3. a.type = "GANG" /\ a.kind = "EXPOSED"
    BY <1>7 DEF R!GangExposed
  <2>4. Consumed /\ Drew(s, hands) /\ Melded(s, "GANG", a.tile, three \cup {R!Popped})
    <3>1. FromHand(s, a.tile, 3) = three
      BY <1>1, <2>1 DEF FromHand
    <3>2. Without(s, three) = hands
      BY <2>2 DEF Without
    <3>3. /\ Consumed /\ Melded(s, "GANG", a.tile, FromHand(s, a.tile, 3) \cup {R!Popped})
          /\ Drew(s, Without(s, FromHand(s, a.tile, 3)))
      BY <2>3 DEF Leads
    <3> QED
      BY <3>1, <3>2, <3>3
  <2>5. /\ R!InternalDraw(s, hands)
        /\ R!AddMeld(s, "GANG", a.tile, three \cup {R!Popped}) /\ R!ConsumeDiscard
    BY <1>7, <2>2, <2>1 DEF R!GangExposed
  <2> QED
    BY <1>2, <2>4, <2>5 DEF Melded, Consumed, R!AddMeld, R!ConsumeDiscard, R!PopDiscard, Arrives
<1>8. CASE R!GangConcealed(s, a)
  <2>1. PICK four : four = R!Lowest(R!Copies(s, a.tile), 4)
    OBVIOUS
  <2>2. PICK hands : hands = [rconcealed EXCEPT ![s] = @ \ four]
    OBVIOUS
  <2>3. a.type = "GANG" /\ a.kind = "CONCEALED"
    BY <1>8 DEF R!GangConcealed
  <2>4. Kept /\ Drew(s, hands) /\ Melded(s, "GANG", a.tile, four)
    <3>1. FromHand(s, a.tile, 4) = four
      BY <1>1, <2>1 DEF FromHand
    <3>2. Without(s, four) = hands
      BY <2>2 DEF Without
    <3>3. /\ Kept /\ Melded(s, "GANG", a.tile, FromHand(s, a.tile, 4))
          /\ Drew(s, Without(s, FromHand(s, a.tile, 4)))
      BY <2>3 DEF Leads
    <3> QED
      BY <3>1, <3>2, <3>3
  <2>5. /\ R!InternalDraw(s, hands) /\ R!AddMeld(s, "GANG", a.tile, four)
        /\ rdiscards' = rdiscards /\ rlastDiscard' = rlastDiscard /\ rpending' = rpending
    BY <1>8, <2>2, <2>1 DEF R!GangConcealed
  <2> QED
    BY <1>2, <2>4, <2>5 DEF Melded, Kept, R!AddMeld, Arrives
<1>9. CASE R!GangAdded(s, a)
  <2>1. PICK one : one = R!Lowest(R!Copies(s, a.tile), 1)
    OBVIOUS
  <2>2. PICK hands : hands = [rconcealed EXCEPT ![s] = @ \ one]
    OBVIOUS
  <2>3. a.type = "GANG" /\ a.kind = "ADDED"
    BY <1>9 DEF R!GangAdded
  <2>4. Kept /\ Drew(s, hands) /\ Promoted(s, a.tile, one)
    <3>1. FromHand(s, a.tile, 1) = one
      BY <1>1, <2>1 DEF FromHand
    <3>2. Without(s, one) = hands
      BY <2>2 DEF Without
    <3>3. /\ Kept /\ Promoted(s, a.tile, FromHand(s, a.tile, 1))
          /\ Drew(s, Without(s, FromHand(s, a.tile, 1)))
      BY <2>3 DEF Leads
    <3> QED
      BY <3>1, <3>2, <3>3
  <2>5. PICK m \in rmelds[s] :
          /\ m.type = "PENG" /\ m.kind = a.tile
          /\ melds = [rmelds EXCEPT ![s] = (@ \ {m}) \cup
                       {[type |-> "GANG", kind |-> a.tile, tiles |-> m.tiles \cup one]}]
    BY <2>4 DEF Promoted
  <2>6. PICK n \in rmelds[s] :
          /\ n.type = "PENG" /\ n.kind = a.tile
          /\ rmelds' = [rmelds EXCEPT ![s] = (@ \ {n}) \cup
                       {[type |-> "GANG", kind |-> a.tile, tiles |-> n.tiles \cup one]}]
          /\ R!InternalDraw(s, hands)
    BY <1>9, <2>2, <2>1 DEF R!GangAdded
  <2>7. m = n
    BY <2>5, <2>6 DEF ReplicaTyped, OnePung
  <2>8. rdiscards' = rdiscards /\ rlastDiscard' = rlastDiscard /\ rpending' = rpending
    BY <1>9 DEF R!GangAdded
  <2> QED
    BY <1>2, <2>4, <2>5, <2>6, <2>7, <2>8 DEF Kept, Arrives
<1>10. CASE R!Hu(s, a)
  <2>1. a.type = "HU"
    BY <1>10 DEF R!Hu
  <2>2. Won(s)
    BY <2>1 DEF Leads
  <2> QED
    BY <1>10, <2>2 DEF R!Hu, Won, Arrives
<1>11. CASE R!Pass(s, a)
  BY <1>11 DEF R!Pass, Leads
<1> QED
  BY <1>4, <1>5, <1>6, <1>7, <1>8, <1>9, <1>10, <1>11 DEF R!ApplyAction

-----------------------------------------------------------------------------
(* The events of a step.                                                   *)

OnlyQuiet(q) == (\E S : q \in Seq(S)) /\ \A i \in 1 .. Len(q) : Quiet(q[i])

\* Events of which only the first makes the replay move.
Opens(q, e) ==
    /\ \E S : q \in Seq(S)
    /\ Len(q) \in Nat \ {0} /\ q[1] = e /\ \A i \in 2 .. Len(q) : Quiet(q[i])

LEMMA Ending ==
  ASSUME NEW s, NEW a, ApplyAction(s, a)
  PROVE  /\ a.type # "HU" /\ phase' = "TERMINAL" => terminal' = [kind |-> "DRAW"]
         /\ a.type = "HU" =>
              phase' = "TERMINAL" /\ terminal'.kind = "HU" /\ terminal'.winner = s
<1>1. \A t, hands : InternalDraw(t, hands) /\ phase' = "TERMINAL" =>
                     terminal' = [kind |-> "DRAW"]
  BY DEF InternalDraw
<1>2. CASE a.type = "HU"
  BY <1>2 DEF ApplyAction, Play, Pass, Peng, Chi, GangExposed, GangConcealed, GangAdded, Hu
<1>3. CASE Play(s, a)
  BY <1>1, <1>3 DEF Play, AdvanceToNextSeat
<1>4. CASE Pass(s, a)
  <2>1. phase = "CLAIM_WINDOW"
    BY <1>4, LegalPass DEF Pass
  <2> QED
    BY <1>1, <1>4, <2>1 DEF Pass, AdvanceToNextSeat
<1>5. CASE Peng(s, a) \/ Chi(s, a)
  BY <1>5 DEF Peng, Chi, HandToClaimer
<1>6. CASE GangExposed(s, a) \/ GangConcealed(s, a) \/ GangAdded(s, a)
  BY <1>1, <1>6 DEF GangExposed, GangConcealed, GangAdded
<1>7. CASE Hu(s, a)
  BY <1>2, <1>7 DEF Hu
<1> QED
  BY <1>2, <1>3, <1>4, <1>5, <1>6, <1>7 DEF ApplyAction

LEMMA QuietOne ==
  ASSUME NEW e, Quiet(e)
  PROVE  OnlyQuiet(<<e>>)
<1>1. PICK q : q = <<e>>
  OBVIOUS
<1>2. q \in Seq({e}) /\ Len(q) = 1 /\ \A i \in 1 .. 1 : q[i] = e
  BY <1>1
<1>3. OnlyQuiet(q)
  BY <1>2 DEF OnlyQuiet
<1> QED
  BY <1>1, <1>3

LEMMA FollowQuiet ==
  ASSUME NEW s, NEW a, ApplyAction(s, a), a.type # "HU"
  PROVE  OnlyQuiet(Follow)
<1>1. phase' = "TERMINAL" => terminal' = [kind |-> "DRAW"]
  BY Ending
<1>2. CASE phase' = "CLAIM_WINDOW"
  <2>1. PICK e : e = [event |-> "CLAIM_WINDOW"]
    OBVIOUS
  <2>2. Follow = <<e>> /\ Quiet(e)
    BY <1>2, <2>1 DEF Follow, Quiet
  <2> QED
    BY <2>2, QuietOne
<1>3. CASE phase' = "DISCARD" /\ drawn' > drawn
  <2>1. PICK e : e = [event |-> "DRAW", seat |-> actor', tile |-> lastDrawn'.tile]
    OBVIOUS
  <2>2. Follow = <<e>> /\ Quiet(e)
    BY <1>3, <2>1 DEF Follow, Quiet
  <2> QED
    BY <2>2, QuietOne
<1>4. CASE phase' = "TERMINAL"
  <2>1. PICK e : e = [event |-> "HAND_END", winner |-> {}]
    OBVIOUS
  <2>2. terminal'.kind # "HU"
    BY <1>1, <1>4
  <2>3. Follow = <<e>> /\ Quiet(e)
    BY <1>4, <2>1, <2>2 DEF Follow, Quiet
  <2> QED
    BY <2>3, QuietOne
<1>5. CASE ~(phase' = "CLAIM_WINDOW" \/ (phase' = "DISCARD" /\ drawn' > drawn)
             \/ phase' = "TERMINAL")
  <2>1. Follow = <<>>
    BY <1>5 DEF Follow
  <2>2. <<>> \in Seq({}) /\ Len(<<>>) = 0
    OBVIOUS
  <2> QED
    BY <2>1, <2>2 DEF OnlyQuiet
<1> QED
  BY <1>2, <1>3, <1>4, <1>5

LEMMA OpensOne ==
  ASSUME NEW e
  PROVE  Opens(<<e>>, e)
<1>1. PICK q : q = <<e>>
  OBVIOUS
<1>2. q \in Seq({e}) /\ Len(q) = 1 /\ q[1] = e
  BY <1>1
<1>3. Opens(q, e)
  BY <1>2 DEF Opens
<1> QED
  BY <1>1, <1>3

LEMMA OpensThen ==
  ASSUME NEW e, NEW q, OnlyQuiet(q)
  PROVE  Opens(<<e>> \o q, e)
<1>1. PICK p, r : p = <<e>> /\ r = p \o q
  OBVIOUS
<1>2. p \in Seq({e}) /\ Len(p) = 1 /\ p[1] = e
  BY <1>1
<1>3. /\ \E S : r \in Seq(S)
      /\ Len(q) \in Nat /\ Len(r) = 1 + Len(q) /\ r[1] = e
      /\ \A i \in 1 .. 1 + Len(q) : i > 1 => r[i] = q[i - 1]
  <2>1. (\E S : p \in Seq(S)) /\ (\E S : q \in Seq(S))
    BY <1>2 DEF OnlyQuiet
  <2>2. /\ \E S : p \o q \in Seq(S)
        /\ Len(q) \in Nat /\ Len(p \o q) = Len(p) + Len(q)
        /\ \A i \in 1 .. Len(p) : (p \o q)[i] = p[i]
        /\ \A i \in 1 .. Len(p) + Len(q) : i > Len(p) => (p \o q)[i] = q[i - Len(p)]
    BY <2>1, Joins
  <2>3. \E S : r \in Seq(S)
    BY <1>1, <2>2
  <2> QED
    BY <1>1, <1>2, <2>2, <2>3
<1>4. ASSUME NEW i \in 2 .. Len(r) PROVE Quiet(r[i])
  <2>1. PICK k : k = i - 1
    OBVIOUS
  <2>2. k \in 1 .. Len(q) /\ i \in 1 .. 1 + Len(q) /\ i > 1
    BY <1>3, <2>1
  <2>3. r[i] = q[k]
    BY <1>3, <2>1, <2>2
  <2> QED
    BY <2>2, <2>3 DEF OnlyQuiet
<1>5. Len(r) \in Nat \ {0}
  BY <1>3
<1>6. Opens(r, e)
  BY <1>3, <1>4, <1>5 DEF Opens
<1> QED
  BY <1>1, <1>6

\* A decision that has been written already, before what it led to.
LEMMA OpensAfter ==
  ASSUME NEW d, d.event = "CLAIM_DECISION", NEW q, NEW e, Opens(q, e)
  PROVE  Opens(WithoutDecision(<<d>> \o q), e)
<1>1. PICK p, r : p = <<d>> /\ r = p \o q
  OBVIOUS
<1>2. p \in Seq({d}) /\ Len(p) = 1 /\ p[1] = d
  BY <1>1
<1>3. PICK S : r \in Seq(S)
  BY <1>1, <1>2, Joins DEF Opens
<1>4. /\ Len(q) \in Nat /\ Len(r) = 1 + Len(q) /\ r[1] = d
      /\ \A i \in 1 .. 1 + Len(q) : i > 1 => r[i] = q[i - 1]
  BY <1>1, <1>2, Joins DEF Opens
<1>5. Head(r) = d /\ r # <<>>
  BY <1>3, <1>4
<1>6. PICK t : t = Tail(r)
  OBVIOUS
<1>7. t \in Seq(S) /\ Len(t) = Len(q) /\ \A i \in 1 .. Len(q) : t[i] = r[i + 1]
  BY <1>3, <1>4, <1>5, <1>6
<1>8. ASSUME NEW i \in 1 .. Len(q) PROVE t[i] = q[i]
  <2>1. i + 1 \in 1 .. 1 + Len(q) /\ i + 1 > 1 /\ (i + 1) - 1 = i
    BY <1>4
  <2> QED
    BY <1>4, <1>7, <2>1
<1>9. 1 \in 1 .. Len(q) /\ \A i \in 2 .. Len(q) : i \in 1 .. Len(q)
  BY <1>4 DEF Opens
<1>10. Opens(t, e)
  BY <1>7, <1>8, <1>9 DEF Opens
<1>11. WithoutDecision(r) = t
  BY <1>5, <1>6 DEF WithoutDecision
<1> QED
  BY <1>1, <1>10, <1>11

\* What the record says of an action.
LEMMA ActionTold ==
  ASSUME NEW s, NEW a, ApplyAction(s, a)
  PROVE  /\ a.type = "PLAY" =>
              Opens(DiffToEvents(s, a), [event |-> "DISCARD", seat |-> s, tile |-> a.tile])
         /\ a.type = "GANG" /\ a.kind # "EXPOSED" =>
              Opens(DiffToEvents(s, a), Decision(s, a))
         /\ a.type = "HU" =>
              Opens(DiffToEvents(s, a), [event |-> "HAND_END", winner |-> {s}])
         /\ a.type \in {"PENG", "CHI"} \/ (a.type = "GANG" /\ a.kind = "EXPOSED") =>
              Opens(WithoutDecision(DiffToEvents(s, a)), Claimed(s, a))
<1>1. PICK d, c : d = Decision(s, a) /\ c = Claimed(s, a)
  OBVIOUS
<1>2. d.event = "CLAIM_DECISION"
  BY <1>1 DEF Decision
<1>3. CASE a.type = "PLAY"
  <2>1. DiffToEvents(s, a) = <<[event |-> "DISCARD", seat |-> s, tile |-> a.tile]>> \o Follow
    BY <1>3 DEF DiffToEvents
  <2> QED
    BY <1>3, <2>1, FollowQuiet, OpensThen
<1>4. CASE a.type = "GANG" /\ a.kind # "EXPOSED"
  <2>1. DiffToEvents(s, a) = (<<d>> \o <<>>) \o Follow
    BY <1>1, <1>4 DEF DiffToEvents
  <2>2. <<d>> \o <<>> = <<d>>
    <3>1. <<d>> \in Seq({d})
      OBVIOUS
    <3> QED
      BY <3>1
  <2> QED
    BY <1>1, <1>4, <2>1, <2>2, FollowQuiet, OpensThen
<1>5. CASE a.type = "HU"
  <2>1. DiffToEvents(s, a) = Follow
    BY <1>5 DEF DiffToEvents
  <2>2. phase' = "TERMINAL" /\ terminal'.kind = "HU" /\ terminal'.winner = s
    BY <1>5, Ending
  <2>3. Follow = <<[event |-> "HAND_END", winner |-> {s}]>>
    BY <2>2 DEF Follow
  <2> QED
    BY <1>5, <2>1, <2>3, OpensOne
<1>6. CASE a.type \in {"PENG", "CHI"}
  <2>1. DiffToEvents(s, a) = <<d, c>>
    BY <1>1, <1>6 DEF DiffToEvents
  <2>2. <<d, c>> = <<d>> \o <<c>>
    <3>1. PICK x, y : x = <<d, c>> /\ y = <<d>> \o <<c>>
      OBVIOUS
    <3>2. x \in Seq({d, c}) /\ Len(x) = 2 /\ x[1] = d /\ x[2] = c
      BY <3>1
    <3>3. y \in Seq({d, c}) /\ Len(y) = 2 /\ y[1] = d /\ y[2] = c
      BY <3>1
    <3>4. \A i \in 1 .. 2 : x[i] = y[i]
      BY <3>2, <3>3
    <3>5. x = y
      BY <3>2, <3>3, <3>4
    <3> QED
      BY <3>1, <3>5
  <2>3. Opens(WithoutDecision(<<d>> \o <<c>>), c)
    BY <1>2, OpensOne, OpensAfter
  <2> QED
    BY <1>1, <1>6, <2>1, <2>2, <2>3
<1>7. CASE a.type = "GANG" /\ a.kind = "EXPOSED"
  <2>1. DiffToEvents(s, a) = (<<d>> \o <<c>>) \o Follow
    BY <1>1, <1>7 DEF DiffToEvents
  <2>2. OnlyQuiet(Follow)
    BY <1>7, FollowQuiet
  <2>3. PICK q : q = Follow
    OBVIOUS
  <2>4. (<<d>> \o <<c>>) \o q = <<d>> \o (<<c>> \o q)
    <3>1. PICK S : q \in Seq(S)
      BY <2>2, <2>3 DEF OnlyQuiet
    <3>2. q \in Seq(S \cup {d, c}) /\ <<d>> \in Seq(S \cup {d, c}) /\ <<c>> \in Seq(S \cup {d, c})
      BY <3>1, Wider
    <3> QED
      BY <3>2, ConcatAssociative
  <2>5. Opens(<<c>> \o q, c)
    BY <2>2, <2>3, OpensThen
  <2>6. Opens(WithoutDecision(<<d>> \o (<<c>> \o q)), c)
    BY <1>2, <2>5, OpensAfter
  <2> QED
    BY <1>1, <1>7, <2>1, <2>3, <2>4, <2>6
<1> QED
  BY <1>3, <1>4, <1>5, <1>6, <1>7

-----------------------------------------------------------------------------
(* The steps of the manager.                                               *)

LEMMA DiscardSettles ==
  ASSUME TableAll, Mirrors, StepDiscard, UNCHANGED replica,
         window' = <<>>, log = <<>>, read' = 0
  PROVE  \E s \in Seats : \E a \in R!LegalActions(s)' : Settling(0, s, a)'
<1>1. PICK s, a : s = actor /\ a = reply[actor]
  OBVIOUS
<1>2. /\ s \in Seats /\ ApplyAction(s, a) /\ log' = DiffToEvents(s, a)
      /\ phase = "DISCARD" /\ step' = "idle"
  BY <1>1 DEF StepDiscard, EndStep, TableAll, HandInv, TypeOK
<1>3. a \in LegalActions(s) /\ a.type # "PASS"
  BY <1>2, ActionEnds, LegalPass
<1>4. Leads(s, a)' /\ a \in R!LegalActions(s)'
  BY <1>2, <1>3, ActionLeads
<1>5. /\ a.type \in {"PLAY", "GANG", "HU"}
      /\ a.type = "PLAY" => a = PLAY(a.tile)
      /\ a.type = "HU" => a = HU
      /\ a.type = "GANG" => a.kind \in {"CONCEALED", "ADDED"}
  BY <1>2, <1>3 DEF LegalActions, DiscardActions, PLAY, GANG, HU
<1>6. PICK q : q = log'
  OBVIOUS
<1>7. PICK e : Opens(q, e) /\ Calls(e, 0, s, a)'
  <2>1. CASE a.type = "PLAY"
    <3>1. PICK e : e = [event |-> "DISCARD", seat |-> s, tile |-> a.tile]
      OBVIOUS
    <3>2. Opens(q, e)
      BY <1>2, <1>6, <2>1, <3>1, ActionTold
    <3>3. e.event = "DISCARD" /\ e.seat = s /\ e.tile = a.tile
      BY <3>1
    <3>4. Calls(e, 0, s, a)'
      BY <1>5, <2>1, <3>3 DEF Calls
    <3> QED
      BY <3>2, <3>4
  <2>2. CASE a.type = "GANG"
    <3>1. PICK e : e = Decision(s, a)
      OBVIOUS
    <3>2. Opens(q, e)
      BY <1>2, <1>5, <1>6, <2>2, <3>1, ActionTold
    <3>3. e.event = "CLAIM_DECISION" /\ e.seat = s /\ e.action = a
      BY <3>1 DEF Decision
    <3>4. Calls(e, 0, s, a)'
      BY <1>5, <2>2, <3>3 DEF Calls, OwnTurnGang
    <3> QED
      BY <3>2, <3>4
  <2>3. CASE a.type = "HU"
    <3>1. PICK e : e = [event |-> "HAND_END", winner |-> {s}]
      OBVIOUS
    <3>2. Opens(q, e)
      BY <1>2, <1>6, <2>3, <3>1, ActionTold
    <3>3. e.event = "HAND_END" /\ e.winner = {s}
      BY <3>1
    <3>4. Calls(e, 0, s, a)'
      BY <1>5, <2>3, <3>3 DEF Calls
    <3> QED
      BY <3>2, <3>4
  <2> QED
    BY <1>5, <2>1, <2>2, <2>3
<1>8. /\ Len(q) \in Nat /\ 0 < Len(q) /\ q[0 + 1] = e
      /\ \A i \in 0 + 2 .. Len(q) : Quiet(q[i])
  BY <1>7 DEF Opens
<1>9. WindowIs(0)'
  <2>1. Len(<<>>) = 0 /\ 1 .. 0 = {}
    OBVIOUS
  <2> QED
    BY <2>1 DEF WindowIs
<1>10. QuietFrom(0 + 2)'
  BY <1>6, <1>8 DEF QuietFrom, Quiet
<1>11. Calls(log[0 + 1], 0, s, a)'
  BY <1>6, <1>7, <1>8 DEF Calls
<1>12. Settling(0, s, a)'
  BY <1>2, <1>4, <1>6, <1>8, <1>9, <1>10, <1>11 DEF Settling
<1> QED
  BY <1>2, <1>4, <1>12

LEMMA ClaimSettles ==
  ASSUME TableAll, Mirrors, StepClaim, UNCHANGED replica,
         window' = <<>>, log = <<>>, read' = 0
  PROVE  \E k \in 0 .. Len(log') : \E s \in Seats : \E a \in R!LegalActions(s)' :
            Settling(k, s, a)'
<1>1. PICK s \in ResolveClaimPriority :
        /\ ApplyAction(s, reply[s])
        /\ log' = DecisionsOf(InSeatOrder(Prompted)) \o WithoutDecision(DiffToEvents(s, reply[s]))
  BY DEF StepClaim
<1>2. PICK a : a = reply[s]
  OBVIOUS
<1>3. /\ s \in Prompted /\ s \in Seats /\ ApplyAction(s, a) /\ step' = "idle"
      /\ step = "asking" /\ phase = "CLAIM_WINDOW"
      /\ a.type \in {"HU", "PENG", "GANG", "CHI"}
  <2>1. PICK n \in 1 .. 4 : s \in Claimers(Priority[n])
    BY Resolved
  <2>2. Priority[n] \in {"HU", "PENG", "GANG", "CHI"}
    BY DEF Priority
  <2> QED
    BY <1>1, <1>2, <2>1, <2>2 DEF Claimers, Prompted, StepClaim, EndStep, AllIn
<1>4. Leads(s, a)' /\ a \in R!LegalActions(s)'
  <2>1. a.type # "PASS"
    BY <1>3
  <2> QED
    BY <1>3, <2>1, ActionLeads
<1>5. \A t \in Prompted : ~OwnTurnGang(reply[t])
  BY <1>3, ClaimKinds DEF OwnTurnGang, TableAll, TableInv, RepliesLegal
<1>6. /\ a.type = "GANG" => a.kind = "EXPOSED"
      /\ a.type = "HU" => a = HU
  <2>1. a \in LegalActions(s)
    BY <1>3, ActionEnds
  <2> QED
    BY <1>3, <2>1, ClaimKinds
<1>7. PICK y : y = WithoutDecision(DiffToEvents(s, a))
  OBVIOUS
<1>8. PICK e : Opens(y, e) /\ ((a.type = "HU" /\ e = [event |-> "HAND_END", winner |-> {s}])
                              \/ (a.type # "HU" /\ e = Claimed(s, a)))
  <2>1. CASE a.type = "HU"
    <3>1. PICK e : e = [event |-> "HAND_END", winner |-> {s}]
      OBVIOUS
    <3>2. PICK x : x = DiffToEvents(s, a)
      OBVIOUS
    <3>3. Opens(x, e)
      BY <1>3, <2>1, <3>1, <3>2, ActionTold
    <3>4. Head(x) = e /\ e.event = "HAND_END"
      BY <3>1, <3>3 DEF Opens
    <3>5. y = x
      BY <1>7, <3>2, <3>4 DEF WithoutDecision
    <3> QED
      BY <2>1, <3>1, <3>3, <3>5
  <2>2. CASE a.type # "HU"
    BY <1>3, <1>6, <1>7, <2>2, ActionTold
  <2> QED
    BY <2>1, <2>2
<1>9. PICK k, d : k = Cardinality(Prompted) /\ d = DecisionsOf(InSeatOrder(Prompted))
  OBVIOUS
<1>10. StepLog(d, k, 0) /\ Len(d) = k /\ k \in Nat /\ Told(d, k, Prompted)
  <2>1. Prompted \in SUBSET Seats
    BY DEF Prompted
  <2> QED
    BY <1>9, <2>1, Decided
<1>11. PICK q : q = log' /\ q = d \o y
  BY <1>1, <1>2, <1>7, <1>9
<1>12. /\ Len(y) \in Nat \ {0} /\ Len(q) = k + Len(y)
       /\ \A i \in 1 .. k : q[i] = d[i]
       /\ \A i \in 1 .. k + Len(y) : i > k => q[i] = y[i - k]
  <2>1. (\E S : d \in Seq(S)) /\ (\E S : y \in Seq(S))
    BY <1>8, <1>10 DEF StepLog, Opens
  <2>2. /\ Len(y) \in Nat /\ Len(q) = Len(d) + Len(y)
        /\ \A i \in 1 .. Len(d) : q[i] = d[i]
        /\ \A i \in 1 .. Len(d) + Len(y) : i > Len(d) => q[i] = y[i - Len(d)]
    BY <2>1, <1>11, Joins
  <2>3. Len(d) = k
    BY <1>10
  <2>4. Len(y) \in Nat \ {0}
    BY <1>8 DEF Opens
  <2> QED
    BY <2>2, <2>3, <2>4
<1>13. k < Len(q) /\ 0 <= k /\ k \in 0 .. Len(q)
  BY <1>10, <1>12
<1>14. q[k + 1] = e
  <2>1. k + 1 \in 1 .. k + Len(y) /\ k + 1 > k /\ (k + 1) - k = 1
    BY <1>10, <1>12
  <2> QED
    BY <2>1, <1>8, <1>12 DEF Opens
<1>15. ASSUME NEW i \in k + 2 .. Len(q) PROVE Quiet(q[i])
  <2>1. PICK n : n = i - k
    OBVIOUS
  <2>2. n \in 2 .. Len(y) /\ i \in 1 .. k + Len(y) /\ i > k
    BY <1>10, <1>12, <2>1
  <2>3. q[i] = y[n]
    BY <1>12, <2>1, <2>2
  <2> QED
    BY <1>8, <2>2, <2>3 DEF Opens
<1>16. ASSUME NEW i \in 1 .. k PROVE \E t \in Prompted : q[i] = Decision(t, reply[t])
  BY <1>10, <1>12 DEF Told
<1>17. ASSUME NEW i \in 1 .. k
       PROVE  /\ q[i].event = "CLAIM_DECISION" /\ ~OwnTurnGang(q[i].action)
              /\ q[i].seat = s => q[i].action = a
  <2>1. PICK t \in Prompted : q[i] = Decision(t, reply[t])
    BY <1>16
  <2>2. q[i].event = "CLAIM_DECISION" /\ q[i].seat = t /\ q[i].action = reply[t]
    BY <2>1 DEF Decision
  <2> QED
    BY <1>2, <1>5, <2>2
<1>18. \E i \in 1 .. k : q[i].seat = s
  <2>1. PICK i \in 1 .. k : d[i] = Decision(s, a)
    BY <1>2, <1>3, <1>10 DEF Told
  <2>2. Decision(s, a).seat = s
    BY DEF Decision
  <2> QED
    BY <1>12, <2>1, <2>2
<1>19. Calls(log[k + 1], k, s, a)'
  <2>1. CASE a.type = "HU"
    <3>1. e.event = "HAND_END" /\ e.winner = {s}
      BY <1>8, <2>1
    <3> QED
      BY <1>6, <1>11, <1>14, <2>1, <3>1 DEF Calls
  <2>2. CASE a.type # "HU"
    <3>1. e.event = "CLAIM_RESOLUTION" /\ e.outcome = "CLAIMED" /\ e.seat = s
      BY <1>8, <2>2 DEF Claimed
    <3> QED
      BY <1>11, <1>14, <1>17, <1>18, <3>1 DEF Calls
  <2> QED
    BY <2>1, <2>2
<1>20. WindowIs(0)'
  <2>1. Len(<<>>) = 0 /\ 1 .. 0 = {}
    OBVIOUS
  <2> QED
    BY <2>1 DEF WindowIs
<1>21. QuietFrom(k + 2)'
  BY <1>11, <1>15 DEF QuietFrom, Quiet
<1>22. Settling(k, s, a)'
  BY <1>3, <1>4, <1>11, <1>13, <1>17, <1>19, <1>20, <1>21 DEF Settling, OwnTurnGang
<1> QED
  BY <1>3, <1>4, <1>11, <1>13, <1>22

\* A window in which nobody has passed yet.
LEMMA NobodyPassed ==
  ASSUME InStep, log = <<>>, read = 0, phase = "CLAIM_WINDOW", lastDiscard # None
  PROVE  Withdrawn
<1>1. Len(<<>>) = 0 /\ 1 .. 0 = {}
  OBVIOUS
<1>2. WindowIs(0) /\ Passes(Len(log))
  BY <1>1, Mirrored DEF InStep, WindowIs, Passes
<1> QED
  BY <1>1, <1>2, Mirrored DEF InStep, Withdrawn, replica

\* The seat whose PASS is applied next.
LEMMA PassesNext ==
  ASSUME TableAll, ApplyAllPass
  PROVE  \E s \in Seats :
            /\ Pass(s, PASS) /\ log' = log \o DiffToEvents(s, PASS)
            /\ phase = "CLAIM_WINDOW" /\ lastDiscard # None /\ s # lastDiscard.seat
            /\ \E c \in pending : c.seat = s
<1>1. PICK s \in Lowest(Asked, 1) :
        ApplyAction(s, reply[s]) /\ log' = log \o DiffToEvents(s, reply[s])
  BY DEF ApplyAllPass
<1>2. s \in Asked
  BY DEF Lowest
<1>3. reply[s] = PASS /\ phase = "CLAIM_WINDOW"
  BY <1>2, AllPass
<1>4. s \in Seats
  BY <1>2, <1>3, PassLegal DEF TableAll
<1>5. Pass(s, PASS) /\ PASS \in LegalActions(s)
  BY <1>1, <1>3, ActionEnds DEF PASS
<1>6. lastDiscard # None /\ s # lastDiscard.seat
  BY <1>3, <1>5 DEF LegalActions, ClaimActions
<1>7. \E c \in pending : c.seat = s
  BY <1>2, <1>3 DEF Asked
<1> QED
  BY <1>1, <1>3, <1>4, <1>5, <1>6, <1>7

LEMMA PassSettles ==
  ASSUME TableAll, Withdrawn, read = Len(log), \E S : log \in Seq(S), ApplyAllPass,
         UNCHANGED <<replica, window>>, read' = IF log' = <<>> THEN 0 ELSE read
  PROVE  /\ read' = read /\ Len(log) <= Len(log')
         /\ phase' = "CLAIM_WINDOW" => Passing'
         /\ phase' # "CLAIM_WINDOW" => \E k, j \in 0 .. Len(log') : Closing(k, j)'
<1>1. PICK s \in Seats :
        /\ Pass(s, PASS) /\ log' = log \o DiffToEvents(s, PASS)
        /\ phase = "CLAIM_WINDOW" /\ lastDiscard # None /\ s # lastDiscard.seat
        /\ \E c \in pending : c.seat = s
  BY PassesNext
<1>2. PICK k, x, q, y : /\ k = Len(log) /\ x = Decision(s, PASS) /\ q = log'
                        /\ y = DiffToEvents(s, PASS)
  OBVIOUS
<1>3. k \in Nat
  BY <1>2
<1>4. x.event = "CLAIM_DECISION" /\ x.action = PASS /\ x.seat = s
  BY <1>2 DEF Decision
<1>5. /\ replica' = replica /\ rphase' = "CLAIM_WINDOW" /\ rlastDiscard' = lastDiscard
      /\ rlastDiscard = lastDiscard /\ rpending' = rpending
      /\ rdrawn' = drawn /\ rconcealed' = concealed /\ rmelds' = melds /\ rdiscards' = discards
      /\ rflowers' = flowers /\ ractor' = actor /\ rlastDrawn' = lastDrawn
      /\ rterminal' = terminal
  BY <1>1 DEF Withdrawn, replica
<1>6. PICK rest : rest = {c \in pending : c.seat # s}
  OBVIOUS
<1>7. /\ PASS.type = "PASS" /\ deck' = deck /\ melds' = melds /\ discards' = discards
      /\ rest = {} => AdvanceToNextSeat(lastDiscard.seat, concealed)
      /\ rest # {} => /\ pending' = rest
                      /\ UNCHANGED <<drawn, concealed, flowers, phase, actor, lastDrawn,
                                     lastDiscard, terminal>>
  BY <1>1, <1>6 DEF Pass, PASS
<1>8. phase' = "CLAIM_WINDOW" <=> rest # {}
  BY <1>1, <1>7 DEF AdvanceToNextSeat, InternalDraw
<1>9. y = <<x>> \o (IF phase' = "CLAIM_WINDOW" THEN <<>> ELSE <<Passed>> \o Follow)
  BY <1>2, <1>7 DEF DiffToEvents
<1>10. rest # {} => y = <<x>>
  <2>1. <<x>> \o <<>> = <<x>>
    <3>1. <<x>> \in Seq({x})
      OBVIOUS
    <3> QED
      BY <3>1
  <2> QED
    BY <1>8, <1>9, <2>1
<1>11. PICK z : z = <<Passed>> \o Follow
  OBVIOUS
<1>12. Opens(z, Passed)
  <2>1. ApplyAction(s, PASS) /\ PASS.type # "HU"
    BY <1>1, <1>7 DEF ApplyAction
  <2> QED
    BY <1>11, <2>1, FollowQuiet, OpensThen
<1>13. PICK o : o = <<x>>
  OBVIOUS
<1>14. (\E S : o \in Seq(S)) /\ Len(o) = 1 /\ o[1] = x
  <2>1. o \in Seq({x}) /\ Len(o) = 1 /\ o[1] = x
    BY <1>13
  <2> QED
    BY <2>1
<1>15. rest = {} => /\ \E S : y \in Seq(S)
                    /\ Len(z) \in Nat \ {0} /\ Len(y) = 1 + Len(z) /\ y[1] = x
                    /\ \A i \in 1 .. 1 + Len(z) : i > 1 => y[i] = z[i - 1]
  <2>1. \E S : z \in Seq(S)
    BY <1>12 DEF Opens
  <2>2. PICK r : r = o \o z
    OBVIOUS
  <2>3. rest = {} => y = r
    BY <1>8, <1>9, <1>11, <1>13, <2>2
  <2>4. /\ \E S : r \in Seq(S)
        /\ Len(r) = Len(o) + Len(z)
        /\ \A i \in 1 .. Len(o) : r[i] = o[i]
        /\ \A i \in 1 .. Len(o) + Len(z) : i > Len(o) => r[i] = z[i - Len(o)]
    BY <1>14, <2>1, <2>2, Joins
  <2>5. Len(z) \in Nat \ {0}
    BY <1>12 DEF Opens
  <2>6. /\ Len(r) = 1 + Len(z) /\ r[1] = x
        /\ \A i \in 1 .. 1 + Len(z) : i > 1 => r[i] = z[i - 1]
    BY <1>14, <2>4
  <2> QED
    BY <2>3, <2>4, <2>5, <2>6
<1>16. (\E S : y \in Seq(S)) /\ Len(y) \in Nat \ {0} /\ y[1] = x
  <2>1. CASE rest = {}
    <3>1. Len(y) \in Nat \ {0}
      BY <1>15, <2>1
    <3> QED
      BY <1>15, <2>1, <3>1
  <2>2. CASE rest # {}
    <3>1. y = o
      BY <1>10, <1>13, <2>2
    <3>2. Len(y) = 1 /\ y[1] = x
      BY <1>14, <3>1
    <3>3. \E S : y \in Seq(S)
      BY <1>14, <3>1
    <3>4. Len(y) \in Nat \ {0}
      BY <3>2
    <3> QED
      BY <3>2, <3>3, <3>4
  <2> QED
    BY <2>1, <2>2
<1>17. /\ \E S : q \in Seq(S)
       /\ Len(q) = k + Len(y) /\ \A i \in 1 .. k : q[i] = log[i]
       /\ \A i \in 1 .. k + Len(y) : i > k => q[i] = y[i - k]
  <2>1. q = log \o y /\ (\E S : log \in Seq(S)) /\ (\E S : y \in Seq(S))
    BY <1>1, <1>2, <1>16
  <2> QED
    BY <1>2, <2>1, Joins
<1>18. k + 1 <= Len(q) /\ Len(q) \in Nat /\ q[k + 1] = x
  <2>1. k + 1 \in 1 .. k + Len(y) /\ k + 1 > k /\ (k + 1) - k = 1
    BY <1>3, <1>16
  <2> QED
    BY <1>3, <1>16, <1>17, <2>1
<1>19. read' = k /\ read' = read /\ k <= Len(q)
  <2>1. Len(<<>>) = 0 /\ Len(q) # 0
    BY <1>3, <1>18
  <2>2. log' # <<>>
    BY <1>2, <2>1
  <2> QED
    BY <1>2, <1>3, <1>18, <2>2
<1>20. /\ Len(window) = k /\ \A n \in 1 .. k : window[n] = log[n]
       /\ Passes(k)
       /\ pending = {c \in rpending : \A n \in 1 .. k : c.seat # log[n].seat}
       /\ \A n \in 1 .. k : \E c \in rpending : c.seat = log[n].seat
  BY <1>2, <1>3 DEF Withdrawn, WindowIs
<1>21. WindowIs(0)'
  BY <1>19, <1>2, <1>3, <1>17, <1>20 DEF WindowIs
<1>22. \A n \in 1 .. k : q[n].seat # s
  BY <1>1, <1>17, <1>20
<1>23. \A n \in 1 .. k + 1 : n \in 1 .. k \/ n = k + 1
  BY <1>3
<1>24. Passes(k + 1)'
  <2>1. \A n \in 1 .. k + 1 : /\ q[n].event = "CLAIM_DECISION" /\ q[n].action = PASS
                              /\ q[n].seat # lastDiscard.seat
    BY <1>1, <1>4, <1>5, <1>17, <1>18, <1>20, <1>23 DEF Passes
  <2>2. \A n, m \in 1 .. k + 1 : q[n].seat = q[m].seat => n = m
    <3>1. /\ \A n \in 1 .. k : q[n].seat = log[n].seat /\ q[n].seat # s
          /\ q[k + 1].seat = s
      BY <1>4, <1>17, <1>18, <1>22
    <3>2. \A n, m \in 1 .. k : log[n].seat = log[m].seat => n = m
      BY <1>20 DEF Passes
    <3> QED
      BY <1>23, <3>1, <3>2
  <2> QED
    BY <1>1, <1>2, <1>5, <2>1, <2>2 DEF Passes, PASS
<1>25. \A n \in 1 .. k + 1 : \E c \in rpending : c.seat = q[n].seat
  <2>1. PICK c \in rpending : c.seat = s
    BY <1>1, <1>20
  <2>2. c.seat = q[k + 1].seat
    BY <1>4, <1>18, <2>1
  <2>3. \A n \in 1 .. k : \E b \in rpending : b.seat = q[n].seat
    BY <1>17, <1>20
  <2> QED
    BY <1>23, <2>1, <2>2, <2>3
<1>26. rest = {c \in rpending : \A n \in 1 .. k + 1 : c.seat # q[n].seat}
  <2>1. \A c : (\A n \in 1 .. k + 1 : c.seat # q[n].seat) <=>
               (c.seat # s /\ \A n \in 1 .. k : c.seat # log[n].seat)
    <3>1. k + 1 \in 1 .. k + 1 /\ \A n \in 1 .. k : n \in 1 .. k + 1
      BY <1>3
    <3> QED
      BY <3>1, <1>4, <1>17, <1>18, <1>23
  <2> QED
    BY <2>1, <1>6, <1>20
<1>27. CASE rest # {}
  <2>1. Len(y) = 1
    BY <1>10, <1>13, <1>14, <1>27
  <2>2. Len(q) = k + 1 /\ q # <<>>
    <3>1. Len(q) = k + 1 /\ k + 1 # 0 /\ Len(<<>>) = 0
      BY <1>3, <1>17, <2>1
    <3> QED
      BY <3>1
  <2>3. step' = "passing" /\ phase' = "CLAIM_WINDOW"
    BY <1>8, <1>27 DEF ApplyAllPass
  <2>4. replica' = <<drawn', concealed', melds', discards', flowers', phase', actor',
                     lastDrawn', lastDiscard', rpending', terminal'>>
    BY <1>1, <1>5, <1>7, <1>27 DEF replica
  <2>5. pending' = {c \in rpending' : \A n \in 1 .. Len(q) : c.seat # q[n].seat}
    BY <1>5, <1>7, <1>26, <1>27, <2>2
  <2>6. \A n \in 1 .. Len(q) : \E c \in rpending' : c.seat = q[n].seat
    BY <1>5, <1>25, <2>2
  <2>7. Withdrawn'
    BY <1>2, <1>21, <1>24, <2>2, <2>4, <2>5, <2>6 DEF Withdrawn
  <2> QED
    BY <1>2, <2>2, <2>3, <2>7 DEF Passing
<1>28. CASE rest = {}
  <2>1. phase' # "CLAIM_WINDOW" /\ step' = "idle"
    BY <1>8, <1>28 DEF ApplyAllPass, EndStep
  <2>2. /\ k + 1 < Len(q) /\ q[k + 2] = Passed
    <3>1. k + 2 \in 1 .. k + Len(y) /\ k + 2 > k /\ (k + 2) - k = 2 /\ k + 1 < k + Len(y)
      BY <1>3, <1>15, <1>28
    <3>2. 2 \in 1 .. 1 + Len(z) /\ 2 > 1 /\ 2 - 1 = 1
      BY <1>15, <1>28
    <3>3. y[2] = Passed
      BY <1>12, <1>15, <1>28, <3>2 DEF Opens
    <3> QED
      BY <1>17, <3>1, <3>3
  <2>3. ASSUME NEW i \in (k + 1) + 2 .. Len(q) PROVE Quiet(q[i])
    <3>1. PICK n : n = i - k - 1
      OBVIOUS
    <3>2. /\ i \in 1 .. k + Len(y) /\ i > k /\ i - k \in 1 .. 1 + Len(z) /\ i - k > 1
          /\ n = (i - k) - 1 /\ n \in 2 .. Len(z)
      BY <1>3, <1>15, <1>17, <1>28, <3>1
    <3>3. q[i] = z[n]
      BY <1>15, <1>17, <1>28, <3>2
    <3> QED
      BY <1>12, <3>2, <3>3 DEF Opens
  <2>4. QuietFrom((k + 1) + 2)'
    BY <1>2, <2>3 DEF QuietFrom, Quiet
  <2>5. {c.seat : c \in rpending} = {q[n].seat : n \in 1 .. k + 1}
    <3>1. \A c \in rpending : \E n \in 1 .. k + 1 : c.seat = q[n].seat
      BY <1>26, <1>28
    <3> QED
      BY <3>1, <1>25
  <2>6. Advanced(rlastDiscard.seat, rconcealed)'
    <3>1. PICK f, hands : f = NextSeat(lastDiscard.seat) /\ hands = concealed
      OBVIOUS
    <3>2. lastDiscard' = None /\ pending' = {} /\ InternalDraw(f, hands)
      BY <1>7, <1>28, <3>1 DEF AdvanceToNextSeat
    <3>3. Drew(f, hands)'
      BY <1>5, <1>7, <3>2, DrawLeads DEF replica
    <3>4. NextSeat(rlastDiscard.seat)' = f /\ rconcealed' = hands
      BY <1>5, <3>1 DEF NextSeat
    <3>5. Drew(NextSeat(rlastDiscard.seat), rconcealed)'
      BY <3>3, <3>4 DEF Drew
    <3> QED
      BY <3>2, <3>5 DEF Advanced
  <2>7. k + 1 \in 0 .. Len(q) /\ 0 \in 0 .. Len(q) /\ 0 < k + 1 /\ k <= k + 1
    BY <1>3, <1>18, <2>2
  <2>8. (k + 1) + 1 = k + 2 /\ 0 + 1 = 1
    BY <1>3
  <2>9. Closing(k + 1, 0)'
    <3>1. log[(k + 1) + 1]'.event = "CLAIM_RESOLUTION" /\ log[(k + 1) + 1]'.outcome = "PASSED"
      BY <1>2, <2>2, <2>8 DEF Passed
    <3>2. {c.seat : c \in rpending'} = {log'[n].seat : n \in 0 + 1 .. k + 1}
      BY <1>2, <1>5, <2>5, <2>8
    <3>3. discards' = rdiscards' /\ melds' = rmelds'
      BY <1>5, <1>7
    <3> QED
      BY <1>19, <1>2, <1>21, <1>24, <2>1, <2>2, <2>4, <2>6, <2>7, <3>1, <3>2, <3>3 DEF Closing
  <2> QED
    BY <1>2, <2>1, <2>7, <2>9
<1> QED
  BY <1>19, <1>2, <1>27, <1>28

-----------------------------------------------------------------------------
(* What an event stands for.                                               *)

LEMMA QuietMoves ==
  ASSUME NEW e, Quiet(e), window = <<>>
  PROVE  Moves(e) = <<>> /\ e.event # "CLAIM_RESOLUTION" /\ e.event # "CLAIM_DECISION"
<1>1. GangsOfWindow = {}
  <2>1. Len(<<>>) = 0 /\ DOMAIN <<>> = {}
    OBVIOUS
  <2> QED
    BY <2>1 DEF GangsOfWindow
<1>2. Only({}) = <<>>
  BY DEF Only
<1> QED
  BY <1>1, <1>2 DEF Moves, Quiet

LEMMA DecisionMoves ==
  ASSUME NEW e, e.event = "CLAIM_DECISION", ~OwnTurnGang(e.action)
  PROVE  Moves(e) = <<>>
BY DEF Moves

\* The first place of the window that is asked for.
LEMMA FirstPlace ==
  ASSUME NEW k \in Nat, NEW P \in SUBSET (1 .. k), P # {}
  PROVE  \E n \in P : Only(P) = <<window[n]>>
<1>1. P \in SUBSET Nat /\ IsFiniteSet(P)
  <2>1. 1 \in Int /\ k \in Int
    OBVIOUS
  <2>2. IsFiniteSet(1 .. k)
    BY <2>1, FS_Interval
  <2>3. IsFiniteSet(P)
    BY <2>2, FS_Subset
  <2>4. P \in SUBSET Nat
    OBVIOUS
  <2> QED
    BY <2>3, <2>4
<1>2. PICK x \in P : \A y \in P : x <= y
  <2>1. ASSUME NEW z \in Lowest(P, 1) PROVE z \in P /\ \A w \in P : z <= w
    <3>1. z \in P /\ Cardinality({w \in P : w < z}) < 1
      BY DEF Lowest
    <3>2. IsFiniteSet({w \in P : w < z}) /\ Cardinality({w \in P : w < z}) \in Nat
      BY <1>1, FS_Subset, FS_CardinalityType
    <3>3. {w \in P : w < z} = {}
      BY <3>1, <3>2, FS_EmptySet
    <3> QED
      BY <1>1, <3>1, <3>3
  <2>2. Lowest(P, 1) # {}
    <3>1. Cardinality(P) \in Nat /\ Cardinality(P) # 0
      BY <1>1, FS_CardinalityType, FS_EmptySet
    <3>2. Cardinality(P) >= 1
      BY <3>1
    <3>3. Cardinality(Lowest(P, 1)) = 1
      BY <1>1, <3>2, LowestSize
    <3> QED
      BY <3>3, FS_EmptySet
  <2> QED
    BY <2>1, <2>2
<1>3. PICK c : c = CHOOSE n \in P : \A y \in P : n <= y
  OBVIOUS
<1>4. c \in P
  BY <1>2, <1>3
<1>5. Only(P) = <<window[c]>>
  BY <1>3 DEF Only
<1> QED
  BY <1>4, <1>5

\* The event of an action stands for this action.
LEMMA CallMoves ==
  ASSUME NEW e, NEW k \in Nat, NEW s, NEW a, Calls(e, k, s, a),
         Len(window) = k, \A n \in 1 .. k : window[n] = log[n], \E S : window \in Seq(S)
  PROVE  /\ \E m : Moves(e) = <<m>> /\ m.seat = s /\ m.action = a
         /\ ~(e.event = "CLAIM_RESOLUTION" /\ e.outcome = "PASSED")
         /\ k = 0 \/ Closes(e)
<1>1. CASE k = 0 /\ e.event = "DISCARD" /\ e.seat = s /\ a = PLAY(e.tile)
  <2>1. PICK m : m = Move(s, a)
    OBVIOUS
  <2>2. Moves(e) = <<m>>
    BY <1>1, <2>1 DEF Moves
  <2> QED
    BY <1>1, <2>1, <2>2 DEF Move
<1>2. CASE k = 0 /\ e.event = "CLAIM_DECISION" /\ e.seat = s /\ e.action = a /\ OwnTurnGang(a)
  <2>1. PICK m : m = Move(s, a)
    OBVIOUS
  <2>2. Moves(e) = <<m>>
    BY <1>2, <2>1 DEF Moves
  <2> QED
    BY <1>2, <2>1, <2>2 DEF Move
<1>3. CASE e.event = "HAND_END" /\ e.winner = {s} /\ a = HU
  <2>1. PICK m : m = Move(s, a)
    OBVIOUS
  <2>2. (CHOOSE t \in {s} : TRUE) = s
    OBVIOUS
  <2>3. Moves(e) = <<m>>
    BY <1>3, <2>1, <2>2 DEF Moves
  <2> QED
    BY <1>3, <2>1, <2>3 DEF Move, Closes
<1>4. CASE /\ e.event = "CLAIM_RESOLUTION" /\ e.outcome = "CLAIMED" /\ e.seat = s
           /\ \E n \in 1 .. k : log[n].seat = s
           /\ \A n \in 1 .. k : log[n].seat = s => log[n].action = a
  <2>1. PICK P : P = {n \in DOMAIN window : window[n].seat = s}
    OBVIOUS
  <2>2. P = {n \in 1 .. k : log[n].seat = s}
    <3>1. DOMAIN window = 1 .. k
      OBVIOUS
    <3> QED
      BY <2>1, <3>1
  <2>3. P \in SUBSET (1 .. k) /\ P # {}
    BY <1>4, <2>2
  <2>4. PICK n \in P : Only(P) = <<window[n]>>
    BY <2>3, FirstPlace
  <2>5. Moves(e) = <<window[n]>>
    BY <1>4, <2>1, <2>4 DEF Moves
  <2>6. window[n].seat = s /\ window[n].action = a
    BY <1>4, <2>2
  <2> QED
    BY <1>4, <2>5, <2>6 DEF Closes
<1> QED
  BY <1>1, <1>2, <1>3, <1>4 DEF Calls

-----------------------------------------------------------------------------
(* What the manager is at stays while the replay reads.                    *)

LEMMA SameDrew ==
  ASSUME UNCHANGED tableVars, rdrawn' = rdrawn, rflowers' = rflowers, ractor' = ractor,
         rterminal' = rterminal, NEW s, NEW hands, Drew(s, hands)
  PROVE  Drew(s, hands)'
<1>1. R!Wall' = R!Wall /\ UNCHANGED vars
  BY DEF R!Wall, tableVars, vars
<1>2. PICK left : left = {i \in R!Wall : deck[i] # Flower}
  OBVIOUS
<1>3. {i \in R!Wall' : deck'[i] # Flower} = left
  BY <1>1, <1>2 DEF vars
<1>4. CASE left = {}
  <2>1. /\ drawn = Len(deck) /\ concealed = hands
        /\ flowers = [rflowers EXCEPT ![s] = @ \cup R!Wall]
        /\ phase = "TERMINAL" /\ terminal = [kind |-> "DRAW"]
        /\ lastDrawn = None /\ actor = ractor
    BY <1>2, <1>4 DEF Drew
  <2> QED
    BY <1>1, <1>3, <1>4, <2>1 DEF Drew, vars
<1>5. CASE left # {}
  <2>1. PICK i \in Lowest(left, 1) :
            /\ drawn = i
            /\ concealed = [hands EXCEPT ![s] = @ \cup {i}]
            /\ flowers = [rflowers EXCEPT ![s] = @ \cup (rdrawn + 1 .. i - 1)]
            /\ phase = "DISCARD" /\ actor = s
            /\ lastDrawn = [seat |-> s, tile |-> deck[i]]
            /\ terminal = rterminal
    BY <1>2, <1>5 DEF Drew
  <2> QED
    BY <1>1, <1>3, <1>5, <2>1 DEF Drew, vars
<1> QED
  BY <1>4, <1>5

LEMMA SameLeads ==
  ASSUME UNCHANGED tableVars, UNCHANGED replica, NEW s, NEW a, Leads(s, a)
  PROVE  Leads(s, a)'
<1>1. UNCHANGED vars
  BY DEF tableVars
<1>2. /\ R!Popped' = R!Popped
      /\ \A t, k : R!Copies(t, k)' = R!Copies(t, k)
      /\ \A k, t : R!Opportunities(k, t)' = R!Opportunities(k, t)
  BY <1>1, SameOffers DEF vars
<1>3. /\ rdrawn' = rdrawn /\ rconcealed' = rconcealed /\ rmelds' = rmelds
      /\ rdiscards' = rdiscards /\ rflowers' = rflowers /\ rphase' = rphase
      /\ ractor' = ractor /\ rlastDrawn' = rlastDrawn /\ rlastDiscard' = rlastDiscard
      /\ rpending' = rpending /\ rterminal' = rterminal
  BY ReplicaStays
<1>4. \A t, hands : Drew(t, hands) => Drew(t, hands)'
  BY <1>3, SameDrew
<1>5. /\ \A k, n : FromHand(s, k, n)' = FromHand(s, k, n)
      /\ \A r : OfRun(s, r)' = OfRun(s, r)
  BY <1>2, <1>3 DEF FromHand, OfRun
<1>6. Consumed' = Consumed /\ Kept' = Kept
  BY <1>1, <1>3 DEF Consumed, Kept, vars
<1>7. \A type, kind, tiles : Melded(s, type, kind, tiles) => Melded(s, type, kind, tiles)'
  BY <1>1, <1>3 DEF Melded, vars
<1>8. \A X : Handed(s, X) => Handed(s, X)'
  BY <1>1, <1>3, <1>6 DEF Handed, Without, vars
<1>9. PICK p : p = R!Popped
  OBVIOUS
<1>10. CASE a.type = "PLAY" /\ Played(s, a.tile)
  <2>1. PICK i \in Lowest(R!Copies(s, a.tile), 1) :
        LET hands == [rconcealed EXCEPT ![s] = @ \ {i}]
            claims == R!Opportunities(a.tile, s)
        IN /\ discards = [rdiscards EXCEPT ![s] = Append(@, i)]
           /\ IF claims = {}
              THEN Advanced(s, hands)
              ELSE /\ pending = claims /\ phase = "CLAIM_WINDOW" /\ actor = NextSeat(s)
                   /\ lastDiscard = [seat |-> s, tile |-> a.tile]
                   /\ concealed = hands
                   /\ drawn = rdrawn /\ flowers = rflowers /\ lastDrawn = rlastDrawn
                   /\ terminal = rterminal
    BY <1>10 DEF Played
  <2>2. PICK hands, claims : /\ hands = [rconcealed EXCEPT ![s] = @ \ {i}]
                             /\ claims = R!Opportunities(a.tile, s)
    OBVIOUS
  <2>3. melds = rmelds
    BY <1>10 DEF Played
  <2>4. CASE claims = {}
    <3>1. lastDiscard = None /\ pending = {} /\ Drew(NextSeat(s), hands)
      BY <2>1, <2>2, <2>4 DEF Advanced
    <3>2. Advanced(s, hands)'
      BY <1>1, <1>4, <3>1 DEF Advanced, vars
    <3>3. Played(s, a.tile)'
      BY <1>1, <1>2, <1>3, <2>1, <2>2, <2>3, <2>4, <3>2 DEF Played, vars
    <3> QED
      BY <1>10, <3>3 DEF Leads
  <2>5. CASE claims # {}
    <3>1. Played(s, a.tile)'
      BY <1>1, <1>2, <1>3, <2>1, <2>2, <2>3, <2>5 DEF Played, vars
    <3> QED
      BY <1>10, <3>1 DEF Leads
  <2> QED
    BY <2>4, <2>5
<1>11. CASE /\ a.type = "PENG" /\ Handed(s, FromHand(s, a.tile, 2))
            /\ Melded(s, "PENG", a.tile, FromHand(s, a.tile, 2) \cup {R!Popped})
  <2>1. PICK two : two = FromHand(s, a.tile, 2)
    OBVIOUS
  <2>2. Handed(s, two)' /\ Melded(s, "PENG", a.tile, two \cup {p})'
    BY <1>7, <1>8, <1>9, <1>11, <2>1
  <2>3. FromHand(s, a.tile, 2)' = two /\ R!Popped' = p
    BY <1>2, <1>5, <1>9, <2>1
  <2>4. Handed(s, FromHand(s, a.tile, 2))'
    BY <2>2, <2>3 DEF Handed, Without
  <2>5. Melded(s, "PENG", a.tile, FromHand(s, a.tile, 2) \cup {R!Popped})'
    BY <2>2, <2>3 DEF Melded
  <2> QED
    BY <1>11, <2>4, <2>5 DEF Leads
<1>12. CASE /\ a.type = "CHI" /\ Handed(s, OfRun(s, a.run))
            /\ Melded(s, "CHI", rlastDiscard.tile, OfRun(s, a.run) \cup {R!Popped})
  <2>1. PICK two, d : two = OfRun(s, a.run) /\ d = rlastDiscard.tile
    OBVIOUS
  <2>2. Handed(s, two)' /\ Melded(s, "CHI", d, two \cup {p})'
    BY <1>7, <1>8, <1>9, <1>12, <2>1
  <2>3. OfRun(s, a.run)' = two /\ R!Popped' = p /\ rlastDiscard'.tile = d
    BY <1>2, <1>3, <1>5, <1>9, <2>1
  <2>4. Handed(s, OfRun(s, a.run))'
    BY <2>2, <2>3 DEF Handed, Without
  <2>5. Melded(s, "CHI", rlastDiscard.tile, OfRun(s, a.run) \cup {R!Popped})'
    BY <2>2, <2>3 DEF Melded
  <2> QED
    BY <1>12, <2>4, <2>5 DEF Leads
<1>13. CASE /\ a.type = "GANG" /\ a.kind = "EXPOSED" /\ Consumed
            /\ Melded(s, "GANG", a.tile, FromHand(s, a.tile, 3) \cup {R!Popped})
            /\ Drew(s, Without(s, FromHand(s, a.tile, 3)))
  <2>1. PICK three : three = FromHand(s, a.tile, 3)
    OBVIOUS
  <2>2. PICK hands : hands = Without(s, three)
    OBVIOUS
  <2>3. Melded(s, "GANG", a.tile, three \cup {p})' /\ Drew(s, hands)'
    BY <1>4, <1>7, <1>9, <1>13, <2>1, <2>2
  <2>4. FromHand(s, a.tile, 3)' = three /\ R!Popped' = p
    BY <1>2, <1>5, <1>9, <2>1
  <2>5. Without(s, FromHand(s, a.tile, 3))' = hands
    BY <1>3, <2>2, <2>4 DEF Without
  <2>6. Drew(s, Without(s, FromHand(s, a.tile, 3)))'
    BY <2>3, <2>5 DEF Drew
  <2>7. Melded(s, "GANG", a.tile, FromHand(s, a.tile, 3) \cup {R!Popped})'
    BY <2>3, <2>4 DEF Melded
  <2> QED
    BY <1>6, <1>13, <2>6, <2>7 DEF Leads
<1>14. CASE /\ a.type = "GANG" /\ a.kind = "CONCEALED" /\ Kept
            /\ Melded(s, "GANG", a.tile, FromHand(s, a.tile, 4))
            /\ Drew(s, Without(s, FromHand(s, a.tile, 4)))
  <2>1. PICK four : four = FromHand(s, a.tile, 4)
    OBVIOUS
  <2>2. PICK hands : hands = Without(s, four)
    OBVIOUS
  <2>3. Melded(s, "GANG", a.tile, four)' /\ Drew(s, hands)'
    BY <1>4, <1>7, <1>14, <2>1, <2>2
  <2>4. FromHand(s, a.tile, 4)' = four
    BY <1>5, <2>1
  <2>5. Without(s, FromHand(s, a.tile, 4))' = hands
    BY <1>3, <2>2, <2>4 DEF Without
  <2>6. Drew(s, Without(s, FromHand(s, a.tile, 4)))'
    BY <2>3, <2>5 DEF Drew
  <2>7. Melded(s, "GANG", a.tile, FromHand(s, a.tile, 4))'
    BY <2>3, <2>4 DEF Melded
  <2> QED
    BY <1>6, <1>14, <2>6, <2>7 DEF Leads
<1>15. CASE /\ a.type = "GANG" /\ a.kind = "ADDED" /\ Kept
            /\ Promoted(s, a.tile, FromHand(s, a.tile, 1))
            /\ Drew(s, Without(s, FromHand(s, a.tile, 1)))
  <2>1. PICK one : one = FromHand(s, a.tile, 1)
    OBVIOUS
  <2>2. PICK hands : hands = Without(s, one)
    OBVIOUS
  <2>3. Promoted(s, a.tile, one) /\ Drew(s, hands)'
    BY <1>4, <1>15, <2>1, <2>2
  <2>4. FromHand(s, a.tile, 1)' = one
    BY <1>5, <2>1
  <2>5. Without(s, FromHand(s, a.tile, 1))' = hands
    BY <1>3, <2>2, <2>4 DEF Without
  <2>6. Drew(s, Without(s, FromHand(s, a.tile, 1)))'
    BY <2>3, <2>5 DEF Drew
  <2>7. Promoted(s, a.tile, FromHand(s, a.tile, 1))'
    BY <1>1, <1>3, <2>3, <2>4 DEF Promoted, vars
  <2> QED
    BY <1>6, <1>15, <2>6, <2>7 DEF Leads
<1>16. CASE a.type = "HU" /\ Won(s)
  <2>1. Won(s)'
    BY <1>1, <1>3, <1>16 DEF Won, vars
  <2> QED
    BY <1>16, <2>1 DEF Leads
<1> QED
  BY <1>10, <1>11, <1>12, <1>13, <1>14, <1>15, <1>16 DEF Leads

-----------------------------------------------------------------------------
(* The steps of the replay.                                                *)

LEMMA ReadsOnly ==
  ASSUME ReadOn \/ ReadMove
  PROVE  UNCHANGED tableVars /\ read < Len(log)
BY DEF ReadOn, ReadMove, Unread, tableVars, vars

\* Nothing to apply.
LEMMA ReadsOn ==
  ASSUME ReadOn \/ ReadMove, NEW e, e = log[read + 1], Moves(e) = <<>>
  PROVE  /\ UNCHANGED tableVars /\ UNCHANGED replica /\ read' = read + 1
         /\ window' = IF e.event = "CLAIM_DECISION" THEN Append(window, e)
                      ELSE IF Closes(e) THEN <<>> ELSE window
         /\ stuck' = \/ e.event = "DRAW" /\ window # <<>>
                     \/ e.event = "CLAIM_RESOLUTION" /\ e.outcome = "CLAIMED"
<1>1. ReadOn
  BY DEF ReadMove
<1> QED
  BY <1>1 DEF ReadOn

LEMMA ReadsQuiet ==
  ASSUME InStep, SeqTyped, read \in 0 .. Len(log), ReadOn \/ ReadMove
  PROVE  /\ InStep' /\ ~stuck' /\ read' = read + 1
         /\ UNCHANGED tableVars /\ UNCHANGED replica
<1>1. PICK e : e = log[read + 1]
  OBVIOUS
<1>2. Len(log) \in Nat /\ read \in Nat /\ read < Len(log)
  BY ReadsOnly DEF SeqTyped
<1>3. Quiet(e) /\ window = <<>>
  <2>1. read + 1 \in read + 1 .. Len(log)
    BY <1>2
  <2> QED
    BY <1>1, <2>1 DEF InStep, QuietFrom
<1>4. Moves(e) = <<>> /\ e.event # "CLAIM_RESOLUTION" /\ e.event # "CLAIM_DECISION"
  BY <1>3, QuietMoves
<1>5. /\ UNCHANGED tableVars /\ UNCHANGED replica /\ read' = read + 1
      /\ window' = <<>> /\ ~stuck'
  BY <1>1, <1>3, <1>4, ReadsOn
<1>6. Mirrors'
  BY <1>5, Mirrored DEF InStep, Mirrors, replica, tableVars, vars
<1>7. QuietFrom(read + 1)'
  <2>1. log' = log /\ \A i \in (read + 1) + 1 .. Len(log) : i \in read + 1 .. Len(log)
    BY <1>2, <1>5 DEF tableVars, managerVars
  <2> QED
    BY <1>5, <2>1 DEF InStep, QuietFrom, Quiet
<1> QED
  BY <1>5, <1>6, <1>7 DEF InStep, tableVars, managerVars

\* A decision that waits for the closer of its window.
LEMMA ReadsDecision ==
  ASSUME SeqTyped, read \in 0 .. Len(log), WindowIs(0), ReadOn \/ ReadMove,
         log[read + 1].event = "CLAIM_DECISION", ~OwnTurnGang(log[read + 1].action)
  PROVE  /\ WindowIs(0)' /\ ~stuck' /\ read' = read + 1
         /\ UNCHANGED tableVars /\ UNCHANGED replica /\ \E S : window' \in Seq(S)
<1>1. PICK e : e = log[read + 1]
  OBVIOUS
<1>2. Len(log) \in Nat /\ read \in Nat /\ read < Len(log)
  BY ReadsOnly DEF SeqTyped
<1>3. Moves(e) = <<>>
  BY <1>1, DecisionMoves
<1>4. /\ UNCHANGED tableVars /\ UNCHANGED replica /\ read' = read + 1
      /\ window' = Append(window, e) /\ ~stuck'
  BY <1>1, <1>3, ReadsOn
<1>5. Len(window) = read /\ \A n \in 1 .. read : window[n] = log[n]
  BY <1>2 DEF WindowIs
<1>6. PICK S : window \in Seq(S)
  BY DEF SeqTyped
<1>7. window \in Seq(S \cup {e})
  BY <1>6, Wider
<1>8. window' \in Seq(S \cup {e})
  BY <1>4, <1>7
<1>9. Len(window') = read + 1 /\ window'[read + 1] = e /\ \A n \in 1 .. read : window'[n] = log[n]
  BY <1>2, <1>4, <1>5, <1>7
<1>10. log' = log
  BY <1>4 DEF tableVars, managerVars
<1>11. \A n \in 1 .. read + 1 : window'[n] = log[0 + n]
  <2>1. \A n \in 1 .. read + 1 : (n \in 1 .. read \/ n = read + 1) /\ 0 + n = n
    BY <1>2
  <2> QED
    BY <2>1, <1>1, <1>9
<1>12. WindowIs(0)'
  <2>1. Len(window') = read' - 0
    BY <1>2, <1>4, <1>9
  <2> QED
    BY <1>4, <1>9, <1>10, <1>11, <2>1 DEF WindowIs
<1> QED
  BY <1>4, <1>8, <1>12

\* The event of the action that the manager has applied.
LEMMA ReadsCall ==
  ASSUME TableAll, ReplicaTyped, SeqTyped, ~stuck, ReadOn \/ ReadMove,
         NEW k \in Nat, NEW s \in Seats, NEW a, Settling(k, s, a), read = k
  PROVE  /\ InStep' /\ Arrives /\ ~stuck' /\ read' = read + 1
         /\ UNCHANGED tableVars /\ window' = <<>>
<1>1. PICK e : e = log[k + 1]
  OBVIOUS
<1>2. /\ Calls(e, k, s, a) /\ WindowIs(0) /\ QuietFrom(k + 2) /\ k < Len(log)
      /\ a \in R!LegalActions(s) /\ Leads(s, a) /\ step # "passing"
  BY <1>1 DEF Settling
<1>3. Len(window) = k /\ \A n \in 1 .. k : window[n] = log[n]
  BY <1>2 DEF WindowIs
<1>4. PICK m : Moves(e) = <<m>> /\ m.seat = s /\ m.action = a
  BY <1>2, <1>3, CallMoves DEF SeqTyped
<1>5. ~(e.event = "CLAIM_RESOLUTION" /\ e.outcome = "PASSED") /\ (k = 0 \/ Closes(e))
  BY <1>2, <1>3, CallMoves DEF SeqTyped
<1>6. Moves(e) # <<>> /\ Head(Moves(e)) = m
  BY <1>4
<1>7. ReadMove
  BY <1>1, <1>6 DEF ReadOn
<1>8. R!ApplyAction(s, a) /\ stuck' = stuck
  BY <1>1, <1>2, <1>4, <1>6, <1>7 DEF ReadMove
<1>9. window' = (IF Closes(e) THEN <<>> ELSE window) /\ read' = read + 1
  BY <1>1, <1>5, <1>7 DEF ReadMove
<1>10. window' = <<>>
  <2>1. k = 0 => window = <<>>
    BY <1>3 DEF SeqTyped
  <2> QED
    BY <1>5, <1>9, <2>1
<1>11. Len(deck) \in Nat /\ DOMAIN deck = 1 .. Len(deck)
  BY Positions DEF TableAll, HandInv
<1>12. Arrives
  BY <1>2, <1>8, <1>11, ActionArrives
<1>13. UNCHANGED tableVars
  BY ReadsOnly
<1>14. Mirrors'
  BY <1>12, <1>13 DEF Arrives, Mirrors, replica, tableVars, vars
<1>15. QuietFrom(read + 1)'
  <2>1. log' = log /\ read' + 1 = k + 2
    BY <1>9, <1>13 DEF tableVars, managerVars
  <2> QED
    BY <1>2, <2>1 DEF QuietFrom, Quiet
<1> QED
  BY <1>2, <1>8, <1>9, <1>10, <1>12, <1>13, <1>14, <1>15 DEF InStep, tableVars, managerVars

LEMMA PassLegalThere ==
  ASSUME rphase = "CLAIM_WINDOW", rlastDiscard # None, NEW s, s # rlastDiscard.seat
  PROVE  PASS \in R!LegalActions(s)
BY SameWords DEF R!LegalActions, R!ClaimActions

\* One of the PASSes for which the window is closed.
LEMMA ReadsPass ==
  ASSUME TableAll, ReplicaTyped, SeqTyped, ~stuck, ReadOn \/ ReadMove,
         NEW k \in Nat, NEW j \in Nat, Closing(k, j), read = k
  PROVE  /\ ~stuck' /\ UNCHANGED tableVars /\ \E S : window' \in Seq(S)
         /\ \/ InStep' /\ Arrives /\ read' = read + 1
            \/ /\ Closing(k, j + 1)' /\ j + 1 <= k /\ read' = read
               /\ rdrawn' = rdrawn /\ rconcealed' = rconcealed /\ rmelds' = rmelds
<1>1. PICK e, t : e = log[k + 1] /\ t = log[j + 1].seat
  OBVIOUS
<1>2. /\ step # "passing" /\ j < k /\ k < Len(log)
      /\ WindowIs(j) /\ Passes(k) /\ QuietFrom(k + 2)
      /\ e.event = "CLAIM_RESOLUTION" /\ e.outcome = "PASSED"
      /\ {c.seat : c \in rpending} = {log[n].seat : n \in j + 1 .. k}
      /\ discards = rdiscards /\ melds = rmelds
      /\ Advanced(rlastDiscard.seat, rconcealed)
  BY <1>1 DEF Closing
<1>3. Len(window) = k - j /\ \A n \in 1 .. Len(window) : window[n] = log[j + n]
  BY <1>2 DEF WindowIs
<1>4. window # <<>> /\ Head(window) = log[j + 1]
  <2>1. 1 \in 1 .. Len(window)
    BY <1>2, <1>3
  <2>2. window # <<>> /\ Head(window) = window[1]
    BY <2>1 DEF SeqTyped
  <2> QED
    BY <1>3, <2>1, <2>2
<1>5. /\ rphase = "CLAIM_WINDOW" /\ rlastDiscard # None
      /\ log[j + 1].action = PASS /\ t # rlastDiscard.seat
  <2>1. j + 1 \in 1 .. k
    BY <1>2
  <2> QED
    BY <1>1, <1>2, <2>1 DEF Passes
<1>6. Moves(e) = window
  BY <1>2 DEF Moves
<1>7. ReadMove
  BY <1>1, <1>4, <1>6 DEF ReadOn
<1>8. R!ApplyAction(t, PASS) /\ stuck' = stuck
  <2>1. PICK m : m = Head(Moves(e))
    OBVIOUS
  <2>2. m.seat = t /\ m.action = PASS
    BY <1>1, <1>4, <1>5, <1>6, <2>1
  <2>3. PASS \in R!LegalActions(t)
    BY <1>5, PassLegalThere
  <2> QED
    BY <1>1, <1>7, <2>1, <2>2, <2>3 DEF ReadMove
<1>9. R!Pass(t, PASS)
  BY <1>8 DEF R!ApplyAction, R!Play, R!Peng, R!Chi, R!GangExposed, R!GangConcealed,
     R!GangAdded, R!Hu, PASS
<1>10. PICK rest : rest = {c \in rpending : c.seat # t}
  OBVIOUS
<1>11. /\ rest = {} => R!AdvanceToNextSeat(rlastDiscard.seat, rconcealed)
       /\ rest # {} => /\ rpending' = rest
                       /\ rdrawn' = rdrawn /\ rconcealed' = rconcealed
                       /\ rflowers' = rflowers /\ rphase' = rphase /\ ractor' = ractor
                       /\ rlastDrawn' = rlastDrawn /\ rlastDiscard' = rlastDiscard
                       /\ rterminal' = rterminal
       /\ rmelds' = rmelds /\ rdiscards' = rdiscards
  BY <1>9, <1>10 DEF R!Pass
<1>12. {c.seat : c \in rest} = {log[n].seat : n \in j + 2 .. k}
  <2>1. {c.seat : c \in rest} = {x \in {log[n].seat : n \in j + 1 .. k} : x # t}
    BY <1>2, <1>10
  <2>2. \A n \in j + 1 .. k : log[n].seat = t <=> n = j + 1
    <3>1. j + 1 \in 1 .. k /\ \A n \in j + 1 .. k : n \in 1 .. k
      BY <1>2
    <3> QED
      BY <1>1, <1>2, <3>1 DEF Passes
  <2>3. \A n : n \in j + 2 .. k <=> n \in j + 1 .. k /\ n # j + 1
    BY <1>2
  <2> QED
    BY <2>1, <2>2, <2>3
<1>13. UNCHANGED tableVars
  BY ReadsOnly
<1>14. log' = log /\ step' = step
  BY <1>13 DEF tableVars, managerVars
<1>15. PICK S : window \in Seq(S)
  BY DEF SeqTyped
<1>16. CASE Len(window) > 1
  <2>1. j + 1 < k
    BY <1>2, <1>3, <1>16
  <2>2. window' = Tail(window) /\ read' = read
    BY <1>1, <1>2, <1>7, <1>16 DEF ReadMove
  <2>3. rest # {}
    <3>1. k \in j + 2 .. k
      BY <2>1
    <3> QED
      BY <1>12, <3>1
  <2>4. /\ window' \in Seq(S) /\ Len(window') = k - (j + 1)
        /\ \A n \in 1 .. k - (j + 1) : window'[n] = window[n + 1]
    BY <1>3, <1>4, <1>15, <2>1, <2>2
  <2>5. WindowIs(j + 1)'
    <3>1. \A n \in 1 .. k - (j + 1) : n + 1 \in 1 .. k - j /\ j + (n + 1) = (j + 1) + n
      BY <2>1
    <3>2. \A n \in 1 .. k - (j + 1) : window'[n] = log[(j + 1) + n]
      BY <1>3, <2>4, <3>1
    <3> QED
      BY <1>14, <2>2, <2>4, <3>2 DEF WindowIs
  <2>6. Passes(k)' /\ QuietFrom(k + 2)'
    BY <1>2, <1>11, <1>14, <2>3 DEF Passes, QuietFrom, Quiet, PASS
  <2>7. {c.seat : c \in rpending'} = {log'[n].seat : n \in (j + 1) + 1 .. k}
    <3>1. (j + 1) + 1 = j + 2
      OBVIOUS
    <3> QED
      BY <1>11, <1>12, <1>14, <2>3, <3>1
  <2>8. Advanced(rlastDiscard.seat, rconcealed)'
    <3>1. PICK f, hands : f = NextSeat(rlastDiscard.seat) /\ hands = rconcealed
      OBVIOUS
    <3>2. lastDiscard = None /\ pending = {} /\ Drew(f, hands)
      BY <1>2, <3>1 DEF Advanced
    <3>3. Drew(f, hands)'
      BY <1>11, <1>13, <2>3, <3>2, SameDrew
    <3>4. NextSeat(rlastDiscard.seat)' = f /\ rconcealed' = hands
      BY <1>11, <2>3, <3>1 DEF NextSeat
    <3>5. Drew(NextSeat(rlastDiscard.seat), rconcealed)'
      BY <3>3, <3>4 DEF Drew
    <3> QED
      BY <1>13, <3>2, <3>5 DEF Advanced, tableVars, vars
  <2>9. Closing(k, j + 1)'
    <3>1. discards' = rdiscards' /\ melds' = rmelds'
      BY <1>2, <1>11, <1>13 DEF tableVars, vars
    <3>2. log'[k + 1].event = "CLAIM_RESOLUTION" /\ log'[k + 1].outcome = "PASSED"
      BY <1>1, <1>2, <1>14
    <3> QED
      BY <1>2, <1>14, <2>1, <2>2, <2>5, <2>6, <2>7, <2>8, <3>1, <3>2 DEF Closing
  <2> QED
    BY <1>8, <1>11, <1>13, <2>1, <2>2, <2>3, <2>4, <2>9
<1>17. CASE ~(Len(window) > 1)
  <2>1. j + 1 = k
    BY <1>2, <1>3, <1>17
  <2>2. window' = <<>> /\ read' = read + 1
    BY <1>1, <1>2, <1>7, <1>17 DEF ReadMove, Closes
  <2>3. rest = {}
    <3>1. j + 2 .. k = {}
      BY <2>1
    <3> QED
      BY <1>12, <3>1
  <2>4. PICK f, hands : f = NextSeat(rlastDiscard.seat) /\ hands = rconcealed
    OBVIOUS
  <2>5. /\ lastDiscard = None /\ pending = {} /\ Drew(f, hands)
        /\ rlastDiscard' = None /\ rpending' = {} /\ R!InternalDraw(f, hands)
    BY <1>2, <1>11, <2>3, <2>4, SameWords DEF Advanced, R!AdvanceToNextSeat
  <2>6. Len(deck) \in Nat
    BY Positions DEF TableAll, HandInv
  <2>7. /\ rdrawn' = drawn /\ rconcealed' = concealed /\ rflowers' = flowers
        /\ rphase' = phase /\ ractor' = actor /\ rlastDrawn' = lastDrawn
        /\ rterminal' = terminal
    BY <2>5, <2>6, DrawArrives DEF ReplicaTyped
  <2>8. Arrives
    BY <1>2, <1>11, <2>5, <2>7 DEF Arrives
  <2>9. Mirrors'
    BY <1>13, <2>8 DEF Arrives, Mirrors, replica, tableVars, vars
  <2>10. QuietFrom(read + 1)'
    <3>1. read' + 1 = k + 2
      BY <2>2
    <3> QED
      BY <1>2, <1>14, <3>1 DEF QuietFrom, Quiet
  <2>11. \E T : window' \in Seq(T)
    <3>1. window' \in Seq({})
      BY <2>2
    <3> QED
      BY <3>1
  <2> QED
    BY <1>2, <1>8, <1>13, <1>14, <2>2, <2>8, <2>9, <2>10, <2>11 DEF InStep
<1> QED
  BY <1>16, <1>17

-----------------------------------------------------------------------------
(* The invariant holds.                                                    *)

\* Of six tiles of a kind a seat could have two pungs; there are four.
LEMMA TableTyped ==
  ASSUME TableAll
  PROVE  /\ drawn \in Nat /\ concealed \in [Seats -> SUBSET DOMAIN deck]
         /\ OnePung(melds)
<1> USE DEF TableAll, HandInv
<1>1. /\ drawn \in Nat /\ concealed \in [Seats -> SUBSET DOMAIN deck]
      /\ Len(deck) \in Nat /\ DOMAIN deck = 1 .. Len(deck)
  BY Positions DEF TypeOK
<1>2. ASSUME NEW s \in Seats, NEW m \in melds[s], NEW n \in melds[s],
             m.type = "PENG", n.type = "PENG", m.kind = n.kind, m # n
      PROVE  FALSE
  <2>1. m \in Melds /\ n \in Melds
    BY <1>2 DEF TypeOK
  <2>2. PICK k \in Kinds : k = m.kind
    BY <2>1 DEF Melds
  <2>3. PICK X, Y : X = m.tiles /\ Y = n.tiles
    OBVIOUS
  <2>4. X \in SUBSET DOMAIN deck /\ Y \in SUBSET DOMAIN deck
    BY <2>1, <2>3 DEF Melds
  <2>5. /\ {deck[i] : i \in X} = {k} /\ Cardinality(X) = 3
        /\ {deck[i] : i \in Y} = {k} /\ Cardinality(Y) = 3
    BY <1>2, <2>2, <2>3 DEF SoundInv, MeldsWellFormed
  <2>6. X \cap Y = {}
    BY <1>2, <2>3 DEF Split, MeldsApart
  <2>7. IsFiniteSet(DOMAIN deck)
    <3>1. 1 \in Int /\ Len(deck) \in Int
      BY <1>1
    <3> QED
      BY <1>1, <3>1, FS_Interval
  <2>8. IsFiniteSet(X) /\ IsFiniteSet(Y)
    BY <2>4, <2>7, FS_Subset
  <2>9. Cardinality(X \cup Y) = 6
    <3>1. Cardinality(X \cap Y) = 0
      BY <2>6, FS_EmptySet
    <3>2. Cardinality(X \cup Y) = Cardinality(X) + Cardinality(Y) - Cardinality(X \cap Y)
      BY <2>8, FS_Union
    <3> QED
      BY <2>5, <3>1, <3>2
  <2>10. PICK Z : Z = {i \in DOMAIN deck : deck[i] = k}
    OBVIOUS
  <2>11. X \cup Y \in SUBSET Z
    BY <2>4, <2>5, <2>10
  <2>12. IsFiniteSet(Z)
    <3>1. Z \in SUBSET DOMAIN deck
      BY <2>10
    <3> QED
      BY <2>7, <3>1, FS_Subset
  <2>13. Cardinality(X \cup Y) <= Cardinality(Z)
    BY <2>11, <2>12, FS_Subset
  <2>14. Cardinality(Z) <= 4
    BY <2>10, WallAssumption DEF TypeOK
  <2>15. Cardinality(Z) \in Nat
    BY <2>12, FS_CardinalityType
  <2> QED
    BY <2>9, <2>13, <2>14, <2>15
<1>3. OnePung(melds)
  BY <1>2 DEF OnePung
<1> QED
  BY <1>1, <1>3

\* The wall of the hand stays.
LEMMA DeckStays ==
  ASSUME TableNext
  PROVE  deck' = deck
<1>1. \A s, a : ApplyAction(s, a) => deck' = deck
  BY DEF ApplyAction, Play, Pass, Peng, Chi, GangExposed, GangConcealed, GangAdded, Hu,
     HandToClaimer
<1>2. ASSUME NEW s, Answer(s) PROVE deck' = deck
  BY <1>2 DEF Answer, Decide, DecideAuto, DecideFails, Settle, vars
<1> QED
  BY <1>1, <1>2 DEF TableNext, Ask, StepDiscard, StepClaim, ApplyAllPass, Footer, Abort, vars

\* An event is read.
LEMMA ReadKept ==
  ASSUME TableAll, ReplayInv, ReadOn \/ ReadMove
  PROVE  /\ ~stuck' /\ read' \in 0 .. Len(log') /\ \E S : window' \in Seq(S)
         /\ ReplicaTyped' /\ Whereabouts'
<1> USE DEF ReplayInv
<1>1. Len(log) \in Nat /\ read \in Nat /\ read < Len(log) /\ read + 1 \in 0 .. Len(log)
  BY ReadsOnly DEF SeqTyped
<1>2. UNCHANGED tableVars /\ log' = log /\ deck' = deck /\ step' = step
  BY ReadsOnly DEF tableVars, managerVars, vars
<1>3. UNCHANGED replica => ReplicaTyped'
  BY <1>2, ReplicaStays DEF ReplicaTyped, OnePung
<1>4. Arrives => ReplicaTyped'
  BY <1>2, TableTyped DEF Arrives, ReplicaTyped, OnePung
<1>5. CASE InStep
  <2>1. InStep' /\ ~stuck' /\ read' = read + 1 /\ UNCHANGED replica
    BY <1>5, ReadsQuiet
  <2>2. window' \in Seq({})
    BY <2>1 DEF InStep
  <2> QED
    BY <1>1, <1>2, <1>3, <2>1, <2>2 DEF Whereabouts
<1>6. ASSUME NEW k \in 0 .. Len(log), NEW s \in Seats, NEW a \in R!LegalActions(s),
             Settling(k, s, a)
      PROVE  /\ ~stuck' /\ read' = read + 1 /\ \E S : window' \in Seq(S)
             /\ ReplicaTyped' /\ Whereabouts'
  <2>1. /\ step # "passing" /\ k < Len(log) /\ read <= k /\ WindowIs(0)
        /\ \A n \in 1 .. k : log[n].event = "CLAIM_DECISION" /\ ~OwnTurnGang(log[n].action)
        /\ Calls(log[k + 1], k, s, a) /\ QuietFrom(k + 2)
        /\ a \in R!LegalActions(s) /\ Leads(s, a)
    BY <1>6 DEF Settling
  <2>2. CASE read = k
    <3>1. InStep' /\ Arrives /\ ~stuck' /\ read' = read + 1 /\ window' = <<>>
      BY <1>1, <1>6, <2>2, ReadsCall
    <3>2. window' \in Seq({})
      BY <3>1
    <3> QED
      BY <1>4, <3>1, <3>2 DEF Whereabouts
  <2>3. CASE read # k
    <3>1. read + 1 \in 1 .. k
      BY <1>1, <2>1, <2>3
    <3>2. /\ WindowIs(0)' /\ ~stuck' /\ read' = read + 1 /\ UNCHANGED replica
          /\ \E S : window' \in Seq(S)
      BY <2>1, <3>1, ReadsDecision
    <3>3. Leads(s, a)' /\ a \in R!LegalActions(s)'
      BY <1>2, <2>1, <3>2, SameLeads, SameOffers
    <3>4. read' <= k
      BY <3>1, <3>2
    <3>5. Calls(log[k + 1], k, s, a)' /\ QuietFrom(k + 2)'
      BY <1>2, <2>1 DEF Calls, QuietFrom, Quiet, OwnTurnGang
    <3>6. Settling(k, s, a)'
      BY <1>2, <2>1, <3>2, <3>3, <3>4, <3>5 DEF Settling, OwnTurnGang
    <3>7. Whereabouts'
      BY <1>2, <1>6, <3>3, <3>6 DEF Whereabouts
    <3> QED
      BY <1>3, <3>2, <3>7
  <2> QED
    BY <2>2, <2>3
<1>7. CASE Passing
  <2>1. /\ step \in {"passing", "aborted"} /\ log # <<>>
        /\ WindowIs(0) /\ Passes(Len(log))
        /\ replica = <<drawn, concealed, melds, discards, flowers, phase, actor,
                       lastDrawn, lastDiscard, rpending, terminal>>
        /\ pending = {c \in rpending : \A n \in 1 .. Len(log) : c.seat # log[n].seat}
        /\ \A n \in 1 .. Len(log) : \E c \in rpending : c.seat = log[n].seat
    BY <1>7 DEF Passing, Withdrawn
  <2>2. log[read + 1].event = "CLAIM_DECISION" /\ log[read + 1].action = PASS
    <3>1. read + 1 \in 1 .. Len(log)
      BY <1>1
    <3> QED
      BY <2>1, <3>1 DEF Passes
  <2>3. /\ WindowIs(0)' /\ ~stuck' /\ read' = read + 1 /\ UNCHANGED replica
        /\ \E S : window' \in Seq(S)
    BY <2>1, <2>2, ReadsDecision DEF OwnTurnGang, PASS
  <2>4. Passes(Len(log))'
    BY <1>2, <2>1, <2>3, ReplicaStays DEF Passes, PASS
  <2>5. /\ replica' = <<drawn', concealed', melds', discards', flowers', phase', actor',
                        lastDrawn', lastDiscard', rpending', terminal'>>
        /\ pending' = {c \in rpending' : \A n \in 1 .. Len(log') : c.seat # log'[n].seat}
        /\ \A n \in 1 .. Len(log') : \E c \in rpending' : c.seat = log'[n].seat
    BY <1>2, <2>1, <2>3, ReplicaStays DEF tableVars, vars
  <2>6. Passing'
    BY <1>2, <2>1, <2>3, <2>4, <2>5 DEF Passing, Withdrawn
  <2> QED
    BY <1>1, <1>2, <1>3, <2>3, <2>6 DEF Whereabouts
<1>8. ASSUME NEW k \in 0 .. Len(log), NEW j \in 0 .. Len(log), Closing(k, j)
      PROVE  /\ ~stuck' /\ read' \in {read, read + 1} /\ \E S : window' \in Seq(S)
             /\ ReplicaTyped' /\ Whereabouts'
  <2>1. /\ step # "passing" /\ j < k /\ k < Len(log) /\ read <= k /\ (j = 0 \/ read = k)
        /\ WindowIs(j) /\ Passes(k) /\ QuietFrom(k + 2)
        /\ log[k + 1].event = "CLAIM_RESOLUTION" /\ log[k + 1].outcome = "PASSED"
        /\ {c.seat : c \in rpending} = {log[n].seat : n \in j + 1 .. k}
        /\ discards = rdiscards /\ melds = rmelds
        /\ Advanced(rlastDiscard.seat, rconcealed)
    BY <1>8 DEF Closing
  <2>2. CASE read = k
    <3>1. /\ ~stuck' /\ \E S : window' \in Seq(S)
          /\ \/ InStep' /\ Arrives /\ read' = read + 1
             \/ /\ Closing(k, j + 1)' /\ j + 1 <= k /\ read' = read
                /\ rdrawn' = rdrawn /\ rconcealed' = rconcealed /\ rmelds' = rmelds
      BY <1>8, <2>2, ReadsPass
    <3>2. CASE InStep' /\ Arrives /\ read' = read + 1
      BY <1>4, <3>1, <3>2 DEF Whereabouts
    <3>3. CASE /\ Closing(k, j + 1)' /\ j + 1 <= k /\ read' = read
               /\ rdrawn' = rdrawn /\ rconcealed' = rconcealed /\ rmelds' = rmelds
      <4>1. ReplicaTyped'
        BY <1>2, <3>3 DEF ReplicaTyped, OnePung
      <4>2. k \in 0 .. Len(log') /\ j + 1 \in 0 .. Len(log')
        BY <1>1, <1>2, <3>3
      <4>3. Whereabouts'
        BY <3>3, <4>2 DEF Whereabouts
      <4> QED
        BY <3>1, <3>3, <4>1, <4>3
    <3> QED
      BY <3>1, <3>2, <3>3
  <2>3. CASE read # k
    <3>1. read + 1 \in 1 .. k /\ j = 0 /\ WindowIs(0)
      BY <1>1, <2>1, <2>3
    <3>2. log[read + 1].event = "CLAIM_DECISION" /\ log[read + 1].action = PASS
      BY <2>1, <3>1 DEF Passes
    <3>3. /\ WindowIs(0)' /\ ~stuck' /\ read' = read + 1 /\ UNCHANGED replica
          /\ \E S : window' \in Seq(S)
      BY <3>1, <3>2, ReadsDecision DEF OwnTurnGang, PASS
    <3>4. Passes(k)' /\ QuietFrom(k + 2)'
      BY <1>2, <2>1, <3>3, ReplicaStays DEF Passes, QuietFrom, Quiet, PASS
    <3>5. Advanced(rlastDiscard.seat, rconcealed)'
      <4>1. PICK f, hands : f = NextSeat(rlastDiscard.seat) /\ hands = rconcealed
        OBVIOUS
      <4>2. lastDiscard = None /\ pending = {} /\ Drew(f, hands)
        BY <2>1, <4>1 DEF Advanced
      <4>3. Drew(f, hands)'
        BY <1>2, <3>3, <4>2, SameDrew, ReplicaStays
      <4>4. NextSeat(rlastDiscard.seat)' = f /\ rconcealed' = hands
        BY <3>3, <4>1, ReplicaStays DEF NextSeat
      <4>5. Drew(NextSeat(rlastDiscard.seat), rconcealed)'
        BY <4>3, <4>4 DEF Drew
      <4> QED
        BY <1>2, <4>2, <4>5 DEF Advanced, tableVars, vars
    <3>6. /\ {c.seat : c \in rpending'} = {log'[n].seat : n \in 0 + 1 .. k}
          /\ discards' = rdiscards' /\ melds' = rmelds'
      BY <1>2, <2>1, <3>1, <3>3, ReplicaStays DEF tableVars, vars
    <3>7. read' <= k
      BY <3>1, <3>3
    <3>8. Closing(k, 0)'
      BY <1>2, <2>1, <3>1, <3>3, <3>4, <3>5, <3>6, <3>7 DEF Closing
    <3>9. k \in 0 .. Len(log') /\ 0 \in 0 .. Len(log')
      BY <1>1, <1>2
    <3>10. Whereabouts'
      BY <3>8, <3>9 DEF Whereabouts
    <3> QED
      BY <1>3, <3>3, <3>10
  <2> QED
    BY <2>2, <2>3
<1>9. read \in 0 .. Len(log') /\ read + 1 \in 0 .. Len(log')
  BY <1>1, <1>2
<1> QED
  BY <1>5, <1>6, <1>7, <1>8, <1>9 DEF Whereabouts

\* What the manager does while replay and hand are in step.
LEMMA WrittenInStep ==
  ASSUME TableAll, LogInv, InStep, ~Unread, read \in 0 .. Len(log), SeqTyped, Written
  PROVE  Whereabouts' /\ read' \in 0 .. Len(log') /\ (\E S : log' \in Seq(S))
<1>1. /\ TableNext /\ UNCHANGED replica /\ window' = window /\ window = <<>>
      /\ read' = IF log' = <<>> THEN 0 ELSE read
  BY DEF Written, InStep
<1>2. Len(log) \in Nat /\ read = Len(log)
  BY DEF SeqTyped, Unread
<1>3. log = <<>> => read = 0
  BY <1>2
<1>4. UNCHANGED vars => Mirrors'
  BY <1>1, Mirrored, ReplicaStays DEF InStep, Mirrors, replica, vars
<1>5. CASE Ask
  <2>1. UNCHANGED vars /\ log' = <<>> /\ step' = "asking" /\ read' = 0
    BY <1>1, <1>5 DEF Ask
  <2>2. Len(log') = 0 /\ log' \in Seq({})
    BY <2>1
  <2>3. QuietFrom(read + 1)'
    <3>1. 0 + 1 .. 0 = {}
      OBVIOUS
    <3> QED
      BY <2>1, <2>2, <3>1 DEF QuietFrom
  <2>4. InStep'
    BY <1>1, <1>4, <2>1, <2>3 DEF InStep
  <2> QED
    BY <2>1, <2>2, <2>4 DEF Whereabouts
<1>6. CASE Footer \/ Abort \/ \E s \in Seats : Answer(s)
  <2>1. UNCHANGED vars /\ log' = log /\ step' # "passing" /\ read' = read
    <3>1. ASSUME NEW s \in Seats, Answer(s) PROVE UNCHANGED vars /\ log' = log /\ step' = step
      BY <3>1 DEF Answer, Decide, DecideAuto, DecideFails, Settle
    <3> QED
      BY <1>1, <1>3, <1>6, <3>1 DEF Footer, Abort, InStep
  <2>2. QuietFrom(read + 1)'
    BY <2>1 DEF InStep, QuietFrom, Quiet
  <2>3. InStep'
    BY <1>1, <1>4, <2>1, <2>2 DEF InStep
  <2> QED
    BY <1>2, <2>1, <2>3 DEF Whereabouts, SeqTyped
<1>7. CASE StepDiscard
  <2>1. log = <<>>
    BY <1>7 DEF StepDiscard, AllIn, LogInv
  <2>2. read' = 0
    BY <1>1, <1>3, <2>1
  <2>3. \E s \in Seats : \E a \in R!LegalActions(s)' : Settling(0, s, a)'
    BY <1>1, <1>7, <2>1, <2>2, DiscardSettles DEF InStep
  <2>4. \E S : log' \in Seq(S)
    BY <1>7, DiscardWritten DEF StepTold, StepLog
  <2>5. 0 \in 0 .. Len(log')
    BY <2>4
  <2> QED
    BY <2>2, <2>3, <2>4, <2>5 DEF Whereabouts
<1>8. CASE StepClaim
  <2>1. log = <<>>
    BY <1>8 DEF StepClaim, AllIn, LogInv
  <2>2. read' = 0
    BY <1>1, <1>3, <2>1
  <2>3. \E k \in 0 .. Len(log') : \E s \in Seats : \E a \in R!LegalActions(s)' :
            Settling(k, s, a)'
    BY <1>1, <1>8, <2>1, <2>2, ClaimSettles DEF InStep
  <2>4. \E S : log' \in Seq(S)
    BY <1>8, ClaimWritten DEF StepTold, StepLog
  <2>5. 0 \in 0 .. Len(log')
    BY <2>4
  <2> QED
    BY <2>2, <2>3, <2>4, <2>5 DEF Whereabouts
<1>9. CASE ApplyAllPass
  <2>1. log = <<>>
    BY <1>9 DEF ApplyAllPass, AllIn, LogInv, InStep
  <2>2. phase = "CLAIM_WINDOW" /\ lastDiscard # None
    BY <1>9, PassesNext
  <2>3. Withdrawn
    BY <1>3, <2>1, <2>2, NobodyPassed
  <2>4. /\ read' = read /\ Len(log) <= Len(log')
        /\ phase' = "CLAIM_WINDOW" => Passing'
        /\ phase' # "CLAIM_WINDOW" => \E k, j \in 0 .. Len(log') : Closing(k, j)'
    BY <1>1, <1>2, <1>9, <2>3, PassSettles DEF SeqTyped
  <2>5. \E S : log' \in Seq(S)
    BY <1>9, PassWritten DEF StepTold, StepLog
  <2>6. read' \in 0 .. Len(log')
    BY <1>2, <2>4, <2>5
  <2> QED
    BY <2>4, <2>5, <2>6 DEF Whereabouts
<1> QED
  BY <1>1, <1>5, <1>6, <1>7, <1>8, <1>9 DEF TableNext

\* What the manager does while the PASSes of a window are applied.
LEMMA WrittenPassing ==
  ASSUME TableAll, LogInv, Passing, ~Unread, read \in 0 .. Len(log), SeqTyped, Written
  PROVE  Whereabouts' /\ read' \in 0 .. Len(log') /\ (\E S : log' \in Seq(S))
<1>1. /\ TableNext /\ UNCHANGED replica /\ window' = window
      /\ read' = IF log' = <<>> THEN 0 ELSE read
  BY DEF Written
<1>2. Len(log) \in Nat /\ read = Len(log)
  BY DEF SeqTyped, Unread
<1>3. /\ step \in {"passing", "aborted"} /\ log # <<>> /\ Withdrawn
  BY DEF Passing
<1>4. ApplyAllPass \/ Abort
  BY <1>1, <1>3 DEF TableNext, Ask, StepDiscard, StepClaim, Footer, AllIn, Answer, Decide,
     DecideAuto, DecideFails, Settle
<1>5. CASE ApplyAllPass
  <2>1. /\ read' = read /\ Len(log) <= Len(log')
        /\ phase' = "CLAIM_WINDOW" => Passing'
        /\ phase' # "CLAIM_WINDOW" => \E k, j \in 0 .. Len(log') : Closing(k, j)'
    BY <1>1, <1>2, <1>3, <1>5, PassSettles DEF SeqTyped
  <2>2. \E S : log' \in Seq(S)
    BY <1>5, PassWritten DEF StepTold, StepLog
  <2>3. read' \in 0 .. Len(log')
    BY <1>2, <2>1, <2>2
  <2> QED
    BY <2>1, <2>2, <2>3 DEF Whereabouts
<1>6. CASE Abort
  <2>1. UNCHANGED vars /\ log' = log /\ step' = "aborted" /\ read' = read
    BY <1>1, <1>3, <1>6 DEF Abort
  <2>2. WindowIs(0)' /\ Passes(Len(log))'
    BY <1>1, <1>3, <2>1, ReplicaStays DEF Withdrawn, WindowIs, Passes, PASS
  <2>3. Passing'
    BY <1>1, <1>3, <2>1, <2>2, ReplicaStays DEF Passing, Withdrawn, vars
  <2> QED
    BY <1>2, <2>1, <2>3 DEF Whereabouts, SeqTyped
<1> QED
  BY <1>4, <1>5, <1>6

LEMMA ReplayKept ==
  ASSUME TableAll, LogInv, ReplayInv, [ReplayNext]_replayVars
  PROVE  ReplayInv'
<1> USE DEF ReplayInv
<1>1. CASE ReadOn \/ ReadMove
  <2>1. log' = log
    BY <1>1, ReadsOnly DEF tableVars, managerVars
  <2> QED
    BY <1>1, <2>1, ReadKept DEF SeqTyped
<1>2. CASE Written
  <2>1. UNCHANGED replica /\ window' = window /\ stuck' = stuck /\ ~Unread /\ deck' = deck
    BY <1>2, DeckStays DEF Written
  <2>2. ReplicaTyped'
    BY <2>1, ReplicaStays DEF ReplicaTyped, OnePung
  <2>3. InStep \/ Passing
    BY <2>1 DEF Whereabouts, Settling, Closing, Unread, SeqTyped
  <2>4. Whereabouts' /\ read' \in 0 .. Len(log') /\ (\E S : log' \in Seq(S))
    BY <1>2, <2>1, <2>3, WrittenInStep, WrittenPassing
  <2> QED
    BY <2>1, <2>2, <2>4 DEF SeqTyped
<1>3. CASE UNCHANGED replayVars
  <2>1. /\ UNCHANGED tableVars /\ UNCHANGED replica
        /\ window' = window /\ read' = read /\ stuck' = stuck
    BY <1>3 DEF replayVars
  <2>2. UNCHANGED vars /\ log' = log /\ step' = step /\ deck' = deck
    BY <2>1 DEF tableVars, managerVars, vars
  <2>3. ReplicaTyped'
    BY <2>1, <2>2, ReplicaStays DEF ReplicaTyped, OnePung
  <2>4. InStep => InStep'
    BY <2>1, <2>2, ReplicaStays
       DEF InStep, Mirrors, replica, QuietFrom, Quiet, vars
  <2>5. ASSUME NEW k \in 0 .. Len(log), NEW s \in Seats, NEW a \in R!LegalActions(s),
               Settling(k, s, a)
        PROVE  Whereabouts'
    <3>1. Leads(s, a)' /\ R!LegalActions(s)' = R!LegalActions(s)
      BY <2>1, <2>2, <2>5, SameLeads, SameOffers DEF Settling
    <3>2. /\ Calls(log[k + 1], k, s, a)' /\ QuietFrom(k + 2)' /\ WindowIs(0)'
      BY <2>1, <2>2, <2>5 DEF Settling, Calls, QuietFrom, Quiet, OwnTurnGang, WindowIs
    <3>3. Settling(k, s, a)'
      BY <2>1, <2>2, <2>5, <3>1, <3>2 DEF Settling, OwnTurnGang
    <3> QED
      BY <2>2, <2>5, <3>1, <3>3 DEF Whereabouts
  <2>6. Passing => Passing'
    <3>1. Withdrawn => WindowIs(0)' /\ Passes(Len(log))'
      BY <2>1, <2>2, ReplicaStays DEF Withdrawn, WindowIs, Passes, PASS
    <3> QED
      BY <2>1, <2>2, <3>1, ReplicaStays DEF Passing, Withdrawn, vars
  <2>7. ASSUME NEW k \in 0 .. Len(log), NEW j \in 0 .. Len(log), Closing(k, j)
        PROVE  Whereabouts'
    <3>1. PICK f, hands : f = NextSeat(rlastDiscard.seat) /\ hands = rconcealed
      OBVIOUS
    <3>2. lastDiscard = None /\ pending = {} /\ Drew(f, hands)
      BY <2>7, <3>1 DEF Closing, Advanced
    <3>3. Drew(f, hands)'
      BY <2>1, <3>2, SameDrew, ReplicaStays
    <3>4. NextSeat(rlastDiscard.seat)' = f /\ rconcealed' = hands
      BY <2>1, <3>1, ReplicaStays DEF NextSeat
    <3>5. Drew(NextSeat(rlastDiscard.seat), rconcealed)'
      BY <3>3, <3>4 DEF Drew
    <3>6. Advanced(rlastDiscard.seat, rconcealed)'
      BY <2>2, <3>2, <3>5 DEF Advanced, vars
    <3>7. Passes(k)' /\ QuietFrom(k + 2)' /\ WindowIs(j)'
      BY <2>1, <2>2, <2>7, ReplicaStays
         DEF Closing, Passes, QuietFrom, Quiet, WindowIs, PASS
    <3>8. Closing(k, j)'
      BY <2>1, <2>2, <2>7, <3>6, <3>7, ReplicaStays DEF Closing, vars
    <3> QED
      BY <2>2, <2>7, <3>8 DEF Whereabouts
  <2>8. Whereabouts'
    BY <2>4, <2>5, <2>6, <2>7 DEF Whereabouts
  <2> QED
    BY <2>1, <2>2, <2>3, <2>8 DEF SeqTyped
<1> QED
  BY <1>1, <1>2, <1>3 DEF ReplayNext

\* The replay deals what was dealt.
LEMMA DealMirrored ==
  ASSUME TableInit, R!Deal(deck, actor, drawn)
  PROVE  Mirrors
<1>1. Deal(deck, actor, drawn)
  BY DEF TableInit, Init, Deal
<1>2. R!Live(deck) = Live(deck) /\ R!Seats = Seats
  BY SameWords DEF R!Live, Live
<1>3. \A i : R!Nth(deck, i) = Nth(deck, i)
  BY <1>2, SameWords DEF R!Nth, Nth
<1>4. \A n, s : R!SeatOfDraw(n, s) = SeatOfDraw(n, s)
  BY DEF R!SeatOfDraw, SeatOfDraw
<1>5. /\ rconcealed = concealed /\ rflowers = flowers
  BY <1>1, <1>2, <1>3, <1>4 DEF R!Deal, Deal
<1>6. /\ rdrawn = drawn /\ rmelds = melds /\ rdiscards = discards /\ rphase = phase
      /\ ractor = actor /\ rlastDrawn = lastDrawn /\ rlastDiscard = lastDiscard
      /\ rpending = pending /\ rterminal = terminal
  BY <1>1, <1>2 DEF R!Deal, Deal
<1> QED
  BY <1>5, <1>6, Mirrored

LEMMA ReplayStarts ==
  ASSUME ReplayInit, TableAll
  PROVE  ReplayInv
<1>1. /\ Mirrors /\ window = <<>> /\ read = 0 /\ ~stuck /\ log = <<>> /\ step = "idle"
  BY DealMirrored DEF ReplayInit, TableInit
<1>2. Len(<<>>) = 0 /\ <<>> \in Seq({}) /\ 0 + 1 .. 0 = {}
  OBVIOUS
<1>3. InStep
  BY <1>1, <1>2 DEF InStep, QuietFrom
<1>4. ReplicaTyped
  BY <1>1, TableTyped, Mirrored DEF ReplicaTyped
<1> QED
  BY <1>1, <1>2, <1>3, <1>4 DEF ReplayInv, SeqTyped, Whereabouts

\* The reader only reads: with it the manager plays as it does without.
THEOREM ReaderOnlyReads == ReplaySpec => TableSpec
<1>1. ReplayInit => TableInit
  BY DEF ReplayInit
<1>2. [ReplayNext]_replayVars => [TableNext]_tableVars
  BY ReadsOnly DEF ReplayNext, Written, replayVars
<1> QED
  BY <1>1, <1>2, PTL DEF ReplaySpec, TableSpec

\* The record of any hand can be replayed (replay of mahjong/records/replay.py),
\* whatever the wall and whatever the seats decided: no event of it stands for an
\* action that is illegal where the replay is, each closer of a window finds the
\* decision it needs, and what has been read leads to the state that wrote it.
THEOREM ReplayTheorem == ReplaySpec => []RecordReplays
<1>1. TableAll /\ ReplayInit => ReplayInv
  BY ReplayStarts
<1>2. TableAll /\ LogInv /\ ReplayInv /\ [ReplayNext]_replayVars => ReplayInv'
  BY ReplayKept
<1>3. ReplayInv => RecordReplays
  <2> SUFFICES ASSUME ReplayInv PROVE RecordReplays
    OBVIOUS
  <2>1. ASSUME ~Unread, step \notin {"passing", "aborted"} PROVE window = <<>> /\ Mirrors
    <3>1. InStep
      BY <2>1 DEF ReplayInv, Whereabouts, Settling, Closing, Passing, Unread, SeqTyped
    <3> QED
      BY <3>1 DEF InStep
  <2> QED
    BY <2>1 DEF ReplayInv, RecordReplays, NeverStuck, ReplayAgrees
<1>4. ReplaySpec => [](TableAll /\ LogInv)
  BY ReaderOnlyReads, LogInvariant
<1> QED
  BY <1>1, <1>2, <1>3, <1>4, PTL DEF ReplaySpec
=============================================================================
