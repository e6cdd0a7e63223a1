-------------------------- MODULE ClientView_proofs --------------------------
(***************************************************************************)
(* The page of a player or a spectator shows the hand: the reducer follows *)
(* the engine through every event, for every wall, viewer and moment at    *)
(* which a page comes or goes between two steps.                           *)
(***************************************************************************)
EXTENDS ClientView, TableHand_proofs

-----------------------------------------------------------------------------
(* What a board shows.                                                     *)

Fields == {"hand", "counts", "melds", "piles", "flowers", "wall", "phase", "actor",
           "lastDrawn", "lastDiscard", "settled"}
IsBoard(b) == b = [f \in Fields |-> b[f]]

HandOf(con) == IF me = None THEN EmptyBag ELSE KindsOf(con[me])
MeldsOf(M) == [x \in {Shown(m) : m \in M} |-> Cardinality({m \in M : Shown(m) = x})]
PileOf(q) == [n \in DOMAIN q |-> deck[q[n]]]

\* What a board shows of tiles that lie like this.
Contents(b, con, mel, dis) ==
    /\ IsBoard(b)
    /\ b.hand = HandOf(con)
    /\ b.counts = [s \in Seats \ {me} |-> Cardinality(con[s])]
    /\ b.melds = [s \in Seats |-> MeldsOf(mel[s])]
    /\ b.piles = [s \in Seats |-> PileOf(dis[s])]

\* The rest of a board.
Turn(b) == <<b.phase, b.actor, b.lastDrawn, b.lastDiscard>>

\* The parts of ApplyClaimed around the hand and the meld.
Pulled(b, s, k) == [b EXCEPT !.piles[s] = PulledOff(@, k)]
Done(b, s) == [b EXCEPT !.lastDiscard = None, !.actor = s, !.phase = "DISCARD"]

Viewer == me \in Seats \cup {None} /\ None \notin Seats

\* The page knows its own hand by its being open.
LEMMA OwnHand ==
    ASSUME NEW con, NEW mel, NEW dis, NEW b, Contents(b, con, mel, dis), NEW s \in Seats
    PROVE  Own(b, s) <=> s = me
<1>1. DOMAIN b.counts = Seats \ {me}
  BY DEF Contents
<1> QED
  BY <1>1 DEF Own

\* Tiles that leave a hand leave the board, from the open hand by kind, else from a
\* count.
LEMMA TakenShown ==
    ASSUME Viewer, NEW con \in Hands, NEW mel, NEW dis, NEW b, Contents(b, con, mel, dis),
           NEW s \in Seats, IsFiniteSet(con[s]), NEW X \in SUBSET con[s], NEW n \in Nat, Cardinality(X) = n,
           NEW k, s = me => k \in Kinds /\ \A i \in X : deck[i] = k
    PROVE  /\ Contents(Taken(b, s, k, n), [con EXCEPT ![s] = @ \ X], mel, dis)
           /\ Turn(Taken(b, s, k, n)) = Turn(b)
<1>1. PICK c : c = [con EXCEPT ![s] = @ \ X]
  OBVIOUS
<1>2. c[s] = con[s] \ X /\ \A t \in Seats \ {s} : c[t] = con[t]
  BY <1>1 DEF Hands
<1>3. Cardinality(con[s]) \in Nat /\ Cardinality(con[s] \ X) \in Nat /\ Cardinality(c[s]) = Cardinality(con[s]) - n
  BY <1>2, TakenAway, FS_CardinalityType
<1>4. CASE s = me
  <2>1. me # None /\ b.hand = KindsOf(con[s])
    BY <1>4 DEF Viewer, Contents, HandOf
  <2>2. PICK d : d = Taken(b, s, k, n)
    OBVIOUS
  <2>3. d = [b EXCEPT !.hand[k] = IF @ > n THEN @ - n ELSE 0]
    BY <1>4, <2>2, OwnHand DEF Taken
  <2>4. /\ IsBoard(d) /\ d.hand = [b.hand EXCEPT ![k] = IF @ > n THEN @ - n ELSE 0]
        /\ d.counts = b.counts /\ d.melds = b.melds /\ d.piles = b.piles /\ Turn(d) = Turn(b)
    BY <2>3 DEF Contents, IsBoard, Fields, Turn
  <2>5. ASSUME NEW x \in Kinds
        PROVE  d.hand[x] = Cardinality({i \in c[s] : deck[i] = x})
    <3>1. PICK S : S = {i \in con[s] : deck[i] = x}
      OBVIOUS
    <3>2. IsFiniteSet(S) /\ b.hand[x] = Cardinality(S)
      BY <2>1, <3>1, FS_Subset DEF KindsOf
    <3>3. CASE x = k
      <4>1. X \in SUBSET S /\ S \ X = {i \in c[s] : deck[i] = x}
        BY <1>2, <1>4, <3>1, <3>3
      <4>2. Cardinality(S \ X) = Cardinality(S) - n /\ Cardinality(S) \in Nat /\ Cardinality(S \ X) \in Nat
        BY <3>2, <4>1, TakenAway, FS_CardinalityType
      <4>3. d.hand[x] = IF Cardinality(S) > n THEN Cardinality(S) - n ELSE 0
        BY <2>1, <2>4, <3>2, <3>3 DEF KindsOf
      <4>4. d.hand[x] = Cardinality(S) - n
        BY <4>2, <4>3
      <4> QED
        BY <4>1, <4>2, <4>4
    <3>4. CASE x # k
      <4>1. S = {i \in c[s] : deck[i] = x}
        BY <1>2, <1>4, <3>1, <3>4
      <4>2. d.hand[x] = b.hand[x]
        BY <2>1, <2>4, <3>4 DEF KindsOf
      <4> QED
        BY <3>2, <4>1, <4>2
    <3> QED
      BY <3>3, <3>4
  <2>6. d.hand = KindsOf(c[s])
    <3>1. d.hand = [x \in Kinds |-> d.hand[x]]
      BY <2>1, <2>4 DEF KindsOf
    <3> QED
      BY <2>5, <3>1 DEF KindsOf
  <2>7. d.counts = [t \in Seats \ {me} |-> Cardinality(c[t])]
    BY <1>2, <1>4, <2>4 DEF Contents
  <2> QED
    BY <1>1, <1>4, <2>1, <2>2, <2>4, <2>6, <2>7 DEF Contents, HandOf
<1>5. CASE s # me
  <2>2. PICK d : d = Taken(b, s, k, n)
    OBVIOUS
  <2>3. d = [b EXCEPT !.counts[s] = IF @ > n THEN @ - n ELSE 0]
    BY <1>5, <2>2, OwnHand DEF Taken
  <2>4. /\ IsBoard(d) /\ d.counts = [b.counts EXCEPT ![s] = IF @ > n THEN @ - n ELSE 0]
        /\ d.hand = b.hand /\ d.melds = b.melds /\ d.piles = b.piles /\ Turn(d) = Turn(b)
    BY <2>3 DEF Contents, IsBoard, Fields, Turn
  <2>5. b.counts = [t \in Seats \ {me} |-> Cardinality(con[t])]
    BY DEF Contents
  <2>6. d.counts = [t \in Seats \ {me} |-> Cardinality(c[t])]
    <3>1. d.counts[s] = Cardinality(c[s])
      BY <1>3, <1>5, <2>4, <2>5, <1>2
    <3>2. \A t \in Seats \ {me, s} : d.counts[t] = Cardinality(c[t])
      BY <1>2, <2>4, <2>5
    <3>3. d.counts = [t \in Seats \ {me} |-> d.counts[t]]
      BY <2>4, <2>5
    <3> QED
      BY <3>1, <3>2, <3>3
  <2>7. HandOf(c) = HandOf(con)
    BY <1>2, <1>5 DEF HandOf, Viewer
  <2> QED
    BY <1>1, <2>2, <2>4, <2>6, <2>7 DEF Contents
<1> QED
  BY <1>4, <1>5

\* A tile that is drawn.
LEMMA DrawShown ==
    ASSUME Viewer, NEW con \in Hands, NEW mel, NEW dis, NEW b, Contents(b, con, mel, dis),
           NEW s \in Seats, IsFiniteSet(con[s]), NEW i \in Nat, i \notin con[s], deck[i] \in Kinds,
           NEW e, e = [event |-> "DRAW", seat |-> s, tile |-> deck[i]]
    PROVE  LET d == ApplyDraw(b, ProjectEvent(e, me))
           IN /\ Contents(d, [con EXCEPT ![s] = @ \cup {i}], mel, dis)
              /\ d.phase = "DISCARD" /\ d.actor = s /\ (s = me => d.lastDrawn = deck[i])
<1>1. PICK c : c = [con EXCEPT ![s] = @ \cup {i}]
  OBVIOUS
<1>2. c[s] = con[s] \cup {i} /\ \A t \in Seats \ {s} : c[t] = con[t]
  BY <1>1 DEF Hands
<1>3. Cardinality(c[s]) = Cardinality(con[s]) + 1
  <2>1. Cardinality(con[s] \cup {i}) = Cardinality(con[s]) + 1
    BY FS_AddElement
  <2> QED
    BY <1>2, <2>1
<1>4. PICK p : p = ProjectEvent(e, me)
  OBVIOUS
<1>5. PICK d : d = ApplyDraw(b, p)
  OBVIOUS
<1>6. CASE s = me
  <2>1. me # None /\ b.hand = KindsOf(con[s])
    BY <1>6 DEF Viewer, Contents, HandOf
  <2>2. p = e
    BY <1>4, <1>6 DEF ProjectEvent
  <2>3. "tile" \in DOMAIN p /\ p.tile = deck[i] /\ p.seat = s
    BY <2>2
  <2>4. d = [[b EXCEPT !.hand[deck[i]] = @ + 1, !.lastDrawn = deck[i]] EXCEPT
                !.wall = @ - 1, !.actor = s, !.phase = "DISCARD"]
    BY <1>5, <2>3 DEF ApplyDraw
  <2>5. /\ IsBoard(d) /\ d.hand = [b.hand EXCEPT ![deck[i]] = @ + 1]
        /\ d.counts = b.counts /\ d.melds = b.melds /\ d.piles = b.piles
        /\ d.phase = "DISCARD" /\ d.actor = s /\ d.lastDrawn = deck[i]
    BY <2>4 DEF Contents, IsBoard, Fields
  <2>6. ASSUME NEW x \in Kinds PROVE d.hand[x] = Cardinality({j \in c[s] : deck[j] = x})
    <3>1. PICK S : S = {j \in con[s] : deck[j] = x}
      OBVIOUS
    <3>2. IsFiniteSet(S) /\ b.hand[x] = Cardinality(S) /\ i \notin S
      BY <2>1, <3>1, FS_Subset DEF KindsOf
    <3>3. CASE x = deck[i]
      <4>1. S \cup {i} = {j \in c[s] : deck[j] = x}
        BY <1>2, <3>1, <3>3
      <4>2. Cardinality(S \cup {i}) = Cardinality(S) + 1
        BY <3>2, FS_AddElement
      <4> QED
        BY <2>1, <2>5, <3>2, <3>3, <4>1, <4>2 DEF KindsOf
    <3>4. CASE x # deck[i]
      <4>1. S = {j \in c[s] : deck[j] = x}
        BY <1>2, <3>1, <3>4
      <4> QED
        BY <2>1, <2>5, <3>2, <3>4, <4>1 DEF KindsOf
    <3> QED
      BY <3>3, <3>4
  <2>7. d.hand = KindsOf(c[s])
    <3>1. d.hand = [x \in Kinds |-> d.hand[x]]
      BY <2>1, <2>5 DEF KindsOf
    <3> QED
      BY <2>6, <3>1 DEF KindsOf
  <2>8. d.counts = [t \in Seats \ {me} |-> Cardinality(c[t])]
    BY <1>2, <1>6, <2>5 DEF Contents
  <2>9. Contents(d, c, mel, dis)
    BY <1>6, <2>1, <2>5, <2>7, <2>8 DEF Contents, HandOf
  <2> QED
    BY <1>1, <1>4, <1>5, <2>5, <2>9
<1>7. CASE s # me
  <2>1. p = [event |-> "DRAW", seat |-> s]
    BY <1>4, <1>7 DEF ProjectEvent
  <2>2. "tile" \notin DOMAIN p /\ p.seat = s
    BY <2>1
  <2>3. d = [[b EXCEPT !.counts[s] = @ + 1, !.lastDrawn = None] EXCEPT
                !.wall = @ - 1, !.actor = s, !.phase = "DISCARD"]
    BY <1>5, <2>2 DEF ApplyDraw
  <2>4. /\ IsBoard(d) /\ d.counts = [b.counts EXCEPT ![s] = @ + 1]
        /\ d.hand = b.hand /\ d.melds = b.melds /\ d.piles = b.piles
        /\ d.phase = "DISCARD" /\ d.actor = s
    BY <2>3 DEF Contents, IsBoard, Fields
  <2>5. b.counts = [t \in Seats \ {me} |-> Cardinality(con[t])]
    BY DEF Contents
  <2>6. d.counts = [t \in Seats \ {me} |-> Cardinality(c[t])]
    <3>1. d.counts[s] = Cardinality(c[s])
      BY <1>3, <1>7, <2>4, <2>5
    <3>2. \A t \in Seats \ {me, s} : d.counts[t] = Cardinality(c[t])
      BY <1>2, <2>4, <2>5
    <3>3. d.counts = [t \in Seats \ {me} |-> d.counts[t]]
      BY <2>4, <2>5
    <3> QED
      BY <3>1, <3>2, <3>3
  <2>7. HandOf(c) = HandOf(con)
    BY <1>2, <1>7 DEF HandOf, Viewer
  <2>8. Contents(d, c, mel, dis)
    BY <2>4, <2>6, <2>7 DEF Contents
  <2> QED
    BY <1>1, <1>4, <1>5, <1>7, <2>4, <2>8
<1> QED
  BY <1>6, <1>7

\* A meld more, and a meld less, as they are counted.
LEMMA MeldCounted ==
    ASSUME NEW M, IsFiniteSet(M), NEW m, m \notin M
    PROVE  MeldsOf(M \cup {m}) = MeldsOf(M) (+) SetToBag({Shown(m)})
<1>1. PICK y : y = Shown(m)
  OBVIOUS
<1>2. PICK B, C, U : B = MeldsOf(M) /\ C = SetToBag({y}) /\ U = MeldsOf(M \cup {m})
  OBVIOUS
<1>3. DOMAIN B = {Shown(o) : o \in M} /\ DOMAIN C = {y} /\ C[y] = 1 /\ DOMAIN U = DOMAIN B \cup {y}
  BY <1>1, <1>2 DEF MeldsOf, SetToBag
<1>4. ASSUME NEW x \in DOMAIN U
      PROVE  U[x] = (IF x \in DOMAIN B THEN B[x] ELSE 0) + (IF x \in DOMAIN C THEN C[x] ELSE 0)
  <2>1. PICK S : S = {o \in M : Shown(o) = x}
    OBVIOUS
  <2>2. IsFiniteSet(S) /\ m \notin S /\ Cardinality(S) \in Nat
    BY <2>1, FS_Subset, FS_CardinalityType
  <2>3. U[x] = Cardinality({o \in M \cup {m} : Shown(o) = x})
    BY <1>2 DEF MeldsOf
  <2>4. x \in DOMAIN B => B[x] = Cardinality(S)
    BY <1>2, <2>1 DEF MeldsOf
  <2>5. x \notin DOMAIN B => S = {} /\ Cardinality(S) = 0
    BY <1>3, <2>1, FS_EmptySet
  <2>6. CASE x = y
    <3>1. {o \in M \cup {m} : Shown(o) = x} = S \cup {m}
      BY <1>1, <2>1, <2>6
    <3>2. U[x] = Cardinality(S) + 1
      BY <2>2, <2>3, <3>1, FS_AddElement
    <3> QED
      BY <1>3, <2>4, <2>5, <2>6, <3>2
  <2>7. CASE x # y
    <3>1. {o \in M \cup {m} : Shown(o) = x} = S
      BY <1>1, <2>1, <2>7
    <3>2. x \in DOMAIN B /\ x \notin DOMAIN C
      BY <1>3, <2>7
    <3>3. U[x] = Cardinality(S) /\ B[x] = Cardinality(S)
      BY <2>3, <2>4, <3>1, <3>2
    <3> QED
      BY <2>2, <3>2, <3>3
  <2> QED
    BY <2>6, <2>7
<1>5. U = [x \in DOMAIN U |-> U[x]]
  BY <1>2 DEF MeldsOf
<1>6. U = [x \in DOMAIN B \cup DOMAIN C |-> (IF x \in DOMAIN B THEN B[x] ELSE 0) + (IF x \in DOMAIN C THEN C[x] ELSE 0)]
  BY <1>3, <1>4, <1>5
<1> QED
  BY <1>1, <1>2, <1>6 DEF (+)

\* A meld that goes is counted once less.
LEMMA MeldDropped ==
    ASSUME NEW M, IsFiniteSet(M), NEW m \in M
    PROVE  MeldsOf(M \ {m}) = MeldsOf(M) (-) SetToBag({Shown(m)})
<1>1. PICK y : y = Shown(m)
  OBVIOUS
<1>2. PICK B, C, U : B = MeldsOf(M) /\ C = SetToBag({y}) /\ U = MeldsOf(M \ {m})
  OBVIOUS
<1>3. DOMAIN B = {Shown(o) : o \in M} /\ DOMAIN C = {y} /\ C[y] = 1 /\ DOMAIN U = {Shown(o) : o \in M \ {m}}
  BY <1>1, <1>2 DEF MeldsOf, SetToBag
<1>4. PICK D : D = [x \in DOMAIN B |-> IF x \in DOMAIN C THEN B[x] - C[x] ELSE B[x]]
  OBVIOUS
<1>5. ASSUME NEW x \in DOMAIN B
      PROVE  /\ D[x] = Cardinality({o \in M \ {m} : Shown(o) = x})
             /\ D[x] > 0 <=> x \in DOMAIN U
  <2>1. PICK S, T : S = {o \in M : Shown(o) = x} /\ T = {o \in M \ {m} : Shown(o) = x}
    OBVIOUS
  <2>2. IsFiniteSet(S) /\ Cardinality(S) \in Nat /\ B[x] = Cardinality(S) /\ IsFiniteSet(T) /\ Cardinality(T) \in Nat
    BY <1>2, <2>1, FS_Subset, FS_CardinalityType DEF MeldsOf
  <2>3. D[x] = Cardinality(T)
    <3>1. CASE x = y
      <4>1. T = S \ {m} /\ m \in S
        BY <1>1, <2>1, <3>1
      <4>2. Cardinality(T) = Cardinality(S) - 1
        BY <2>2, <4>1, FS_RemoveElement
      <4> QED
        BY <1>3, <1>4, <2>2, <3>1, <4>2
    <3>2. CASE x # y
      <4>1. T = S
        BY <1>1, <2>1, <3>2
      <4> QED
        BY <1>3, <1>4, <2>2, <3>2, <4>1
    <3> QED
      BY <3>1, <3>2
  <2>4. x \in DOMAIN U <=> T # {}
    BY <1>3, <2>1
  <2>5. T # {} <=> Cardinality(T) > 0
    BY <2>2, FS_EmptySet
  <2> QED
    BY <2>1, <2>3, <2>4, <2>5
<1>6. {x \in DOMAIN D : D[x] > 0} = DOMAIN U
  BY <1>3, <1>4, <1>5
<1>7. U = [x \in {x \in DOMAIN D : D[x] > 0} |-> D[x]]
  <2>1. U = [x \in DOMAIN U |-> Cardinality({o \in M \ {m} : Shown(o) = x})]
    BY <1>2, <1>3 DEF MeldsOf
  <2>2. \A x \in DOMAIN U : x \in DOMAIN B
    BY <1>3
  <2> QED
    BY <1>5, <1>6, <2>1, <2>2
<1> QED
  BY <1>1, <1>2, <1>4, <1>7 DEF (-)

\* A meld that is made, and one that is taken apart.
LEMMA MeldShown ==
    ASSUME NEW con, NEW mel, DOMAIN mel = Seats, mel = [t \in Seats |-> mel[t]], NEW dis, NEW b,
           Contents(b, con, mel, dis), NEW s \in Seats, IsFiniteSet(mel[s]), NEW m, m \notin mel[s],
           NEW type, NEW kinds, Shown(m) = [type |-> type, kinds |-> kinds]
    PROVE  /\ Contents(WithMeld(b, s, type, kinds), con, [mel EXCEPT ![s] = @ \cup {m}], dis)
           /\ Turn(WithMeld(b, s, type, kinds)) = Turn(b)
<1>1. PICK c, d : c = [mel EXCEPT ![s] = @ \cup {m}] /\ d = WithMeld(b, s, type, kinds)
  OBVIOUS
<1>2. c[s] = mel[s] \cup {m} /\ \A t \in Seats \ {s} : c[t] = mel[t]
  BY <1>1
<1>3. PICK B : B = SetToBag({Shown(m)})
  OBVIOUS
<1>4. d = [b EXCEPT !.melds[s] = @ (+) B]
  BY <1>1, <1>3 DEF WithMeld
<1>5. /\ IsBoard(d) /\ d.melds = [b.melds EXCEPT ![s] = @ (+) B]
      /\ d.hand = b.hand /\ d.counts = b.counts /\ d.piles = b.piles /\ Turn(d) = Turn(b)
  BY <1>4 DEF Contents, IsBoard, Fields, Turn
<1>6. MeldsOf(c[s]) = MeldsOf(mel[s]) (+) B
  BY <1>2, <1>3, MeldCounted
<1>7. b.melds = [t \in Seats |-> MeldsOf(mel[t])]
  BY DEF Contents
<1>8. d.melds[s] = MeldsOf(c[s]) /\ \A t \in Seats \ {s} : d.melds[t] = MeldsOf(c[t])
  BY <1>2, <1>5, <1>6, <1>7
<1>9. d.melds = [t \in Seats |-> MeldsOf(c[t])]
  BY <1>5, <1>7, <1>8
<1> QED
  BY <1>1, <1>5, <1>9 DEF Contents

\* A meld that goes leaves the board.
LEMMA MeldUnshown ==
    ASSUME NEW con, NEW mel, DOMAIN mel = Seats, mel = [t \in Seats |-> mel[t]], NEW dis, NEW b,
           Contents(b, con, mel, dis), NEW s \in Seats, IsFiniteSet(mel[s]), NEW m \in mel[s],
           NEW d, d = [b EXCEPT !.melds[s] = @ (-) SetToBag({Shown(m)})]
    PROVE  Contents(d, con, [mel EXCEPT ![s] = @ \ {m}], dis) /\ Turn(d) = Turn(b)
<1>1. PICK c : c = [mel EXCEPT ![s] = @ \ {m}]
  OBVIOUS
<1>2. c[s] = mel[s] \ {m} /\ \A t \in Seats \ {s} : c[t] = mel[t]
  BY <1>1
<1>3. PICK B : B = SetToBag({Shown(m)})
  OBVIOUS
<1>5. /\ IsBoard(d) /\ d.melds = [b.melds EXCEPT ![s] = @ (-) B]
      /\ d.hand = b.hand /\ d.counts = b.counts /\ d.piles = b.piles /\ Turn(d) = Turn(b)
  BY <1>3 DEF Contents, IsBoard, Fields, Turn
<1>6. MeldsOf(c[s]) = MeldsOf(mel[s]) (-) B
  BY <1>2, <1>3, MeldDropped
<1>7. b.melds = [t \in Seats |-> MeldsOf(mel[t])]
  BY DEF Contents
<1>8. d.melds[s] = MeldsOf(c[s]) /\ \A t \in Seats \ {s} : d.melds[t] = MeldsOf(c[t])
  BY <1>2, <1>5, <1>6, <1>7
<1>9. d.melds = [t \in Seats |-> MeldsOf(c[t])]
  BY <1>5, <1>7, <1>8
<1> QED
  BY <1>1, <1>5, <1>9 DEF Contents

\* A discard lies on its pile, and the last tile comes back off it.
LEMMA PileGrows ==
    ASSUME NEW q \in Seq(Nat), NEW i \in Nat
    PROVE  PileOf(Append(q, i)) = Append(PileOf(q), deck[i])
<1>1. PICK n : n = Len(q)
  OBVIOUS
<1>2. n \in Nat /\ DOMAIN q = 1 .. n /\ Append(q, i) \in Seq(Nat) /\ DOMAIN Append(q, i) = 1 .. n + 1
  BY <1>1
<1>3. PICK p, T : p = PileOf(q) /\ T = {deck[q[k]] : k \in 1 .. n} \cup {deck[i]}
  OBVIOUS
<1>4. p = [k \in 1 .. n |-> deck[q[k]]] /\ p \in Seq(T) /\ Len(p) = n
  BY <1>2, <1>3 DEF PileOf
<1>5. \A k \in 1 .. n + 1 : deck[Append(q, i)[k]] = Append(p, deck[i])[k]
  BY <1>1, <1>2, <1>4
<1>6. Append(p, deck[i]) \in Seq(T) /\ Len(Append(p, deck[i])) = n + 1
  <2>1. deck[i] \in T
    BY <1>3
  <2>2. p \in Seq(T) /\ Len(p) = n
    BY <1>4
  <2>3. Append(p, deck[i]) \in Seq(T)
    BY <2>1, <2>2
  <2>4. Len(Append(p, deck[i])) = Len(p) + 1
    BY <2>1, <2>2
  <2> QED
    BY <2>2, <2>3, <2>4
<1>7. PileOf(Append(q, i)) = [k \in 1 .. n + 1 |-> deck[Append(q, i)[k]]]
  BY <1>2 DEF PileOf
<1>8. PileOf(Append(q, i)) = [k \in 1 .. n + 1 |-> Append(p, deck[i])[k]]
  BY <1>5, <1>7
<1> QED
  BY <1>2, <1>3, <1>6, <1>8

\* The last tile of its kind is the one on top of the pile.
LEMMA PileShrinks ==
    ASSUME NEW q \in Seq(Nat), q # <<>>, NEW k, deck[q[Len(q)]] = k
    PROVE  PulledOff(PileOf(q), k) = PileOf(SubSeq(q, 1, Len(q) - 1))
<1>1. PICK n : n = Len(q)
  OBVIOUS
<1>2. n \in Nat \ {0} /\ DOMAIN q = 1 .. n
  BY <1>1
<1>3. PICK p, T : p = PileOf(q) /\ T = {deck[q[x]] : x \in 1 .. n}
  OBVIOUS
<1>4. p = [x \in 1 .. n |-> deck[q[x]]] /\ p \in Seq(T) /\ Len(p) = n /\ p[n] = k
  BY <1>1, <1>2, <1>3 DEF PileOf
<1> DEFINE Latest(x) == /\ x = 0 \/ p[x] = k
                        /\ \A y \in x + 1 .. Len(p) : p[y] # k
<1>5. n \in 0 .. Len(p) /\ Latest(n)
  BY <1>2, <1>4
<1>6. ASSUME NEW x \in 0 .. Len(p), Latest(x) PROVE x = n
  <2>1. CASE x < n
    <3>1. n \in x + 1 .. Len(p)
      BY <1>2, <1>4, <2>1
    <3> QED
      BY <1>4, <1>6, <3>1
  <2> QED
    BY <1>2, <1>4, <2>1
<1>7. (CHOOSE x \in 0 .. Len(p) : Latest(x)) = n
  <2> HIDE DEF Latest
  <2> QED
    BY <1>5, <1>6
<1>8. PulledOff(p, k) = RemoveAt(p, n)
  <2>1. (CHOOSE x \in 0 .. Len(p) : (x = 0 \/ p[x] = k) /\ \A y \in x + 1 .. Len(p) : p[y] # k) = n
    BY <1>7, Zenon
  <2> QED
    BY <1>2, <2>1 DEF PulledOff
<1>9. RemoveAt(p, n) = SubSeq(p, 1, n - 1)
  <2>1. PICK a : a = SubSeq(p, 1, n - 1)
    OBVIOUS
  <2>2. a \in Seq(T)
    BY <1>2, <1>4, <2>1
  <2>3. SubSeq(p, n + 1, Len(p)) = <<>>
    BY <1>2, <1>4
  <2>4. a \o <<>> = a
    BY <2>2
  <2> QED
    BY <2>1, <2>3, <2>4 DEF RemoveAt
<1>10. SubSeq(p, 1, n - 1) = [x \in 1 .. n - 1 |-> deck[q[x]]]
  BY <1>2, <1>4
<1>11. SubSeq(q, 1, n - 1) = [x \in 1 .. n - 1 |-> q[x]]
  BY <1>1, <1>2
<1>12. PileOf(SubSeq(q, 1, n - 1)) = [x \in 1 .. n - 1 |-> deck[q[x]]]
  BY <1>2, <1>11 DEF PileOf
<1> QED
  BY <1>1, <1>3, <1>8, <1>9, <1>10, <1>12

\* A discard, apart from the tiles.
LEMMA DiscardTurn ==
    ASSUME NEW b, IsBoard(b), NEW s, NEW k,
           NEW e, e = [event |-> "DISCARD", seat |-> s, tile |-> k], NEW d, d = ApplyDiscard(b, e)
    PROVE  d.phase = b.phase /\ d.lastDrawn = None /\ d.lastDiscard = [seat |-> s, tile |-> k]
<1>1. PICK t : t = Taken(b, s, k, 1)
  OBVIOUS
<1>2. IsBoard(t) /\ t.phase = b.phase
  <2>1. CASE Own(b, s)
    BY <1>1, <2>1 DEF IsBoard, Fields, Taken
  <2>2. CASE ~Own(b, s)
    BY <1>1, <2>2 DEF IsBoard, Fields, Taken
  <2> QED
    BY <2>1, <2>2
<1>3. d = [t EXCEPT !.piles[s] = Append(@, k),
                    !.lastDiscard = [seat |-> s, tile |-> k], !.lastDrawn = None]
  BY <1>1 DEF ApplyDiscard
<1> QED
  BY <1>2, <1>3 DEF IsBoard, Fields

\* A discard, the tiles.
LEMMA DiscardShown ==
    ASSUME Viewer, NEW con \in Hands, NEW mel, NEW dis \in Piles, NEW b, Contents(b, con, mel, dis),
           NEW s \in Seats, IsFiniteSet(con[s]), NEW i \in con[s], deck[i] \in Kinds,
           NEW e, e = [event |-> "DISCARD", seat |-> s, tile |-> deck[i]],
           NEW d, d = ApplyDiscard(b, e)
    PROVE  Contents(d, [con EXCEPT ![s] = @ \ {i}], mel, [dis EXCEPT ![s] = Append(@, i)])
<1>1. PICK c, q : c = [con EXCEPT ![s] = @ \ {i}] /\ q = [dis EXCEPT ![s] = Append(@, i)]
  OBVIOUS
<1>2. PICK t : t = Taken(b, s, deck[i], 1)
  OBVIOUS
<1>3. Contents(t, c, mel, dis) /\ Turn(t) = Turn(b)
  <2>1. {i} \in SUBSET con[s] /\ Cardinality({i}) = 1 /\ \A j \in {i} : deck[j] = deck[i]
    BY FS_Singleton
  <2>2. PICK X : X = {i}
    OBVIOUS
  <2>3. c = [con EXCEPT ![s] = @ \ X] /\ X \in SUBSET con[s] /\ Cardinality(X) = 1
    BY <1>1, <2>1, <2>2
  <2>4. \A j \in X : deck[j] = deck[i]
    BY <2>2
  <2>5. PICK k : k = deck[i]
    OBVIOUS
  <2>6. s = me => k \in Kinds /\ \A j \in X : deck[j] = k
    BY <2>4, <2>5
  <2>7. PICK n : n = 1
    OBVIOUS
  <2>8. n \in Nat /\ X \in SUBSET con[s] /\ Cardinality(X) = n
    BY <2>3, <2>7
  <2>9. /\ Contents(Taken(b, s, k, n), [con EXCEPT ![s] = @ \ X], mel, dis)
        /\ Turn(Taken(b, s, k, n)) = Turn(b)
    BY <2>6, <2>8, TakenShown
  <2> QED
    BY <1>2, <2>3, <2>5, <2>7, <2>9
<1>4. d = [t EXCEPT !.piles[s] = Append(@, deck[i]),
                    !.lastDiscard = [seat |-> s, tile |-> deck[i]], !.lastDrawn = None]
  BY <1>2 DEF ApplyDiscard
<1>5. /\ IsBoard(d) /\ d.piles = [t.piles EXCEPT ![s] = Append(@, deck[i])]
      /\ d.hand = t.hand /\ d.counts = t.counts /\ d.melds = t.melds
  BY <1>3, <1>4 DEF Contents, IsBoard, Fields
<1>6. PileOf(q[s]) = Append(PileOf(dis[s]), deck[i]) /\ \A x \in Seats \ {s} : q[x] = dis[x]
  <2>1. q[s] = Append(dis[s], i) /\ \A x \in Seats \ {s} : q[x] = dis[x]
    BY <1>1 DEF Piles
  <2>2. dis[s] \in Seq(Nat) /\ i \in Nat
    BY DEF Piles, Hands
  <2> QED
    BY <2>1, <2>2, PileGrows
<1>7. t.piles = [x \in Seats |-> PileOf(dis[x])]
  BY <1>3 DEF Contents
<1>8. d.piles[s] = PileOf(q[s]) /\ \A x \in Seats \ {s} : d.piles[x] = PileOf(q[x])
  BY <1>5, <1>6, <1>7
<1>9. d.piles = [x \in Seats |-> PileOf(q[x])]
  BY <1>5, <1>7, <1>8
<1> QED
  BY <1>1, <1>3, <1>5, <1>9 DEF Contents

\* The claimed tile leaves the board's pile as it leaves the pile.
LEMMA PulledShown ==
    ASSUME NEW con, NEW mel, NEW dis \in Piles, NEW b, Contents(b, con, mel, dis),
           NEW s \in Seats, dis[s] # <<>>, NEW k, deck[dis[s][Len(dis[s])]] = k
    PROVE  /\ Contents(Pulled(b, s, k), con, mel, [dis EXCEPT ![s] = SubSeq(@, 1, Len(@) - 1)])
           /\ Turn(Pulled(b, s, k)) = Turn(b)
<1>1. PICK q : q = [dis EXCEPT ![s] = SubSeq(@, 1, Len(@) - 1)]
  OBVIOUS
<1>2. q[s] = SubSeq(dis[s], 1, Len(dis[s]) - 1) /\ \A x \in Seats \ {s} : q[x] = dis[x]
  BY <1>1 DEF Piles
<1>3. PICK p : p = PulledOff(PileOf(dis[s]), k)
  OBVIOUS
<1>4. p = PileOf(q[s])
  BY <1>2, <1>3, PileShrinks DEF Piles
<1>5. b.piles = [x \in Seats |-> PileOf(dis[x])]
  BY DEF Contents
<1>6. PulledOff(b.piles[s], k) = p
  BY <1>3, <1>5
<1>0. PICK d : d = Pulled(b, s, k)
  OBVIOUS
<1>7. d = [b EXCEPT !.piles = [@ EXCEPT ![s] = p]]
  BY <1>0, <1>6 DEF Pulled
<1>8. /\ IsBoard(d) /\ d.piles = [b.piles EXCEPT ![s] = p]
      /\ d.hand = b.hand /\ d.counts = b.counts /\ d.melds = b.melds /\ Turn(d) = Turn(b)
  BY <1>7 DEF Contents, IsBoard, Fields, Turn
<1>9. d.piles[s] = PileOf(q[s]) /\ \A x \in Seats \ {s} : d.piles[x] = PileOf(q[x])
  BY <1>2, <1>4, <1>5, <1>8
<1>10. d.piles = [x \in Seats |-> PileOf(q[x])]
  BY <1>5, <1>8, <1>9
<1> QED
  BY <1>0, <1>1, <1>8, <1>10 DEF Contents

\* The end of a claim: the meld is there, and the claimer is to discard.
LEMMA MadeShown ==
    ASSUME NEW con, NEW mel, DOMAIN mel = Seats, mel = [t \in Seats |-> mel[t]], NEW dis, NEW b,
           Contents(b, con, mel, dis), NEW s \in Seats, IsFiniteSet(mel[s]), NEW m, m \notin mel[s],
           NEW d, d = Done(WithMeld(b, s, Shown(m).type, Shown(m).kinds), s)
    PROVE  /\ Contents(d, con, [mel EXCEPT ![s] = @ \cup {m}], dis)
           /\ d.phase = "DISCARD" /\ d.actor = s /\ d.lastDrawn = b.lastDrawn
<1>0. PICK type, kinds : type = Shown(m).type /\ kinds = Shown(m).kinds
  OBVIOUS
<1>a. Shown(m) = [type |-> type, kinds |-> kinds]
  BY <1>0 DEF Shown
<1>1. PICK w, c : w = WithMeld(b, s, type, kinds) /\ c = [mel EXCEPT ![s] = @ \cup {m}]
  OBVIOUS
<1>2. Contents(w, con, c, dis) /\ Turn(w) = Turn(b)
  BY <1>a, <1>1, MeldShown
<1>3. d = [w EXCEPT !.lastDiscard = None, !.actor = s, !.phase = "DISCARD"]
  BY <1>0, <1>1 DEF Done
<1>4. /\ IsBoard(d) /\ d.hand = w.hand /\ d.counts = w.counts /\ d.melds = w.melds /\ d.piles = w.piles
      /\ d.phase = "DISCARD" /\ d.actor = s /\ d.lastDrawn = w.lastDrawn
  BY <1>2, <1>3 DEF Contents, IsBoard, Fields
<1>5. w.lastDrawn = b.lastDrawn
  BY <1>2 DEF Turn
<1> QED
  BY <1>1, <1>2, <1>4, <1>5 DEF Contents

\* The meld of a claim is new to its seat.
LEMMA JoinShown ==
    ASSUME HandInv, SoundInv, NEW c, NEW q, NEW t, Contents(t, c, melds, q), NEW s \in Seats, NEW m,
           m.tiles \cap concealed[s] # {},
           NEW d, d = Done(WithMeld(t, s, Shown(m).type, Shown(m).kinds), s)
    PROVE  /\ Contents(d, c, [melds EXCEPT ![s] = @ \cup {m}], q)
           /\ d.phase = "DISCARD" /\ d.actor = s /\ d.lastDrawn = t.lastDrawn
<1>1. PICK mel : mel = melds
  OBVIOUS
<1>2. DOMAIN mel = Seats /\ mel = [x \in Seats |-> mel[x]] /\ Contents(t, c, mel, q)
  BY <1>1, Positions DEF HandInv
<1>3. IsFiniteSet(mel[s])
  BY <1>1 DEF SoundInv, SizeInv
<1>4. m \notin mel[s]
  BY <1>1, <1>3, NewMeld
<1>5. /\ Contents(d, c, [mel EXCEPT ![s] = @ \cup {m}], q)
      /\ d.phase = "DISCARD" /\ d.actor = s /\ d.lastDrawn = t.lastDrawn
  BY <1>2, <1>3, <1>4, MadeShown
<1> QED
  BY <1>1, <1>5

\* The claimed tile leaves the pile it lies on.
LEMMA OffShown ==
    ASSUME HandInv, SoundInv, phase = "CLAIM_WINDOW", NEW con, NEW mel, NEW b,
           Contents(b, con, mel, discards), PopDiscard, NEW off,
           off = Pulled(b, lastDiscard.seat, lastDiscard.tile)
    PROVE  Contents(off, con, mel, discards') /\ Turn(off) = Turn(b)
<1>1. lastDiscard # None /\ discards[lastDiscard.seat] # <<>> /\ deck[Popped] = lastDiscard.tile
  BY DEF SoundInv, WindowStands
<1>2. PICK f, k : f = lastDiscard.seat /\ k = lastDiscard.tile
  OBVIOUS
<1>3. f \in Seats
  BY <1>1, <1>2 DEF HandInv, TypeOK
<1>4. discards \in Piles
  BY Positions DEF HandInv
<1>5. off = Pulled(b, f, k)
  BY <1>2
<1>6. discards' = [discards EXCEPT ![f] = SubSeq(@, 1, Len(@) - 1)]
  BY <1>2 DEF PopDiscard
<1>7. discards[f] # <<>> /\ deck[discards[f][Len(discards[f])]] = k
  BY <1>1, <1>2 DEF Popped
<1>8. /\ Contents(Pulled(b, f, k), con, mel, [discards EXCEPT ![f] = SubSeq(@, 1, Len(@) - 1)])
      /\ Turn(Pulled(b, f, k)) = Turn(b)
  BY <1>3, <1>4, <1>7, PulledShown
<1> QED
  BY <1>5, <1>6, <1>8

\* A pung or a kong of the last discard, with n tiles of the hand.
LEMMA SameShown ==
    ASSUME Viewer, HandInv, SoundInv, phase = "CLAIM_WINDOW", NEW s \in Seats,
           NEW b, Contents(b, concealed, melds, discards), PopDiscard,
           NEW k, k = lastDiscard.tile, NEW n \in Nat \ {0}, n <= Cardinality(Copies(s, k)),
           NEW X, X = Lowest(Copies(s, k), n),
           NEW type, NEW kinds, type = "GANG" => kinds = {}, type # "GANG" => kinds = {k},
           AddMeld(s, type, k, X \cup {Popped}), NEW d,
           d = Done(WithMeld(Taken(Pulled(b, lastDiscard.seat, k), s, k, n), s, type, kinds), s)
    PROVE  /\ Contents(d, [concealed EXCEPT ![s] = @ \ X], melds', discards')
           /\ d.phase = "DISCARD" /\ d.actor = s /\ d.lastDrawn = b.lastDrawn
<1>0. n \in Nat
  OBVIOUS
<1>1. PICK off : off = Pulled(b, lastDiscard.seat, k)
  OBVIOUS
<1>2. Contents(off, concealed, melds, discards') /\ Turn(off) = Turn(b)
  BY <1>1, OffShown
<1>3. X \in SUBSET concealed[s] /\ IsFiniteSet(X) /\ Cardinality(X) = n /\ \A i \in X : deck[i] = k
  BY CopiesTaken
<1>4. concealed \in Hands /\ IsFiniteSet(concealed[s]) /\ DOMAIN melds = Seats /\ melds = [t \in Seats |-> melds[t]]
  BY HandFinite, Positions DEF HandInv
<1>5. lastDiscard # None /\ k \in Kinds /\ deck[Popped] = k
  BY DEF HandInv, TypeOK, SoundInv, WindowStands
<1>6. PICK t, c : t = Taken(off, s, k, n) /\ c = [concealed EXCEPT ![s] = @ \ X]
  OBVIOUS
<1>7. Contents(t, c, melds, discards') /\ Turn(t) = Turn(off)
  <2>1. PICK q : q = discards'
    OBVIOUS
  <2>2. Contents(off, concealed, melds, q)
    BY <1>2, <2>1
  <2>3. s = me => k \in Kinds /\ \A i \in X : deck[i] = k
    BY <1>3, <1>5
  <2>4. /\ Contents(Taken(off, s, k, n), [concealed EXCEPT ![s] = @ \ X], melds, q)
        /\ Turn(Taken(off, s, k, n)) = Turn(off)
    BY <1>0, <1>3, <1>4, <2>2, <2>3, TakenShown
  <2> QED
    BY <1>6, <2>1, <2>4
<1>8. PICK m : m = [type |-> type, kind |-> k, tiles |-> X \cup {Popped}]
  OBVIOUS
<1>9. melds' = [melds EXCEPT ![s] = @ \cup {m}]
  BY <1>8 DEF AddMeld
<1>10. m.tiles \cap concealed[s] # {}
  <2>1. X # {}
    BY <1>3, FS_EmptySet
  <2> QED
    BY <1>3, <1>8, <2>1
<1>11. Shown(m).type = type /\ Shown(m).kinds = kinds
  <2>1. {deck[i] : i \in m.tiles} = {k}
    BY <1>3, <1>5, <1>8, <1>10
  <2>2. m.type = type
    BY <1>8
  <2> QED
    BY <2>1, <2>2 DEF Shown
<1>12. d = Done(WithMeld(t, s, Shown(m).type, Shown(m).kinds), s)
  BY <1>1, <1>6, <1>11
<1>13. /\ Contents(d, c, [melds EXCEPT ![s] = @ \cup {m}], discards')
       /\ d.phase = "DISCARD" /\ d.actor = s /\ d.lastDrawn = t.lastDrawn
  <2>1. PICK q : q = discards'
    OBVIOUS
  <2>2. Contents(t, c, melds, q)
    BY <1>7, <2>1
  <2>3. /\ Contents(d, c, [melds EXCEPT ![s] = @ \cup {m}], q)
        /\ d.phase = "DISCARD" /\ d.actor = s /\ d.lastDrawn = t.lastDrawn
    BY <1>10, <1>12, <2>2, JoinShown
  <2> QED
    BY <2>1, <2>3
<1>14. t.lastDrawn = b.lastDrawn
  BY <1>2, <1>7 DEF Turn
<1> QED
  BY <1>6, <1>9, <1>13, <1>14

\* A resolution that claims a pung, ...
LEMMA PengShown ==
    ASSUME Viewer, HandInv, SoundInv, NEW s \in Seats, NEW a, Peng(s, a),
           NEW b, Contents(b, concealed, melds, discards), b.lastDiscard = lastDiscard,
           NEW d, d = ApplyClaimed(b, Claimed(s, a))
    PROVE  /\ Contents(d, concealed', melds', discards')
           /\ d.phase = "DISCARD" /\ d.actor = s /\ d.lastDrawn = b.lastDrawn
<1>1. a.type = "PENG" /\ a \in LegalActions(s)
  BY DEF Peng
<1>2. phase = "CLAIM_WINDOW" /\ lastDiscard # None /\ a \in ClaimsOn(s, lastDiscard.tile, lastDiscard.seat)
      /\ a.tile = lastDiscard.tile
  BY <1>1, LegalClaim
<1>3. PICK k, n, X : k = a.tile /\ n = 2 /\ X = Lowest(Copies(s, k), n)
  OBVIOUS
<1>4. n <= Cardinality(Copies(s, k))
  <2>1. Cardinality(Copies(s, k)) >= 2
    BY <1>1, <1>2, <1>3, ClaimNeeds
  <2>2. Cardinality(Copies(s, k)) \in Nat
    BY HandFinite, FS_Subset, FS_CardinalityType DEF Copies
  <2> QED
    BY <1>3, <2>1, <2>2
<1>5. /\ concealed' = [concealed EXCEPT ![s] = @ \ X] /\ AddMeld(s, "PENG", k, X \cup {Popped})
      /\ PopDiscard
  BY <1>3 DEF Peng, ConsumeDiscard
<1>6. PICK e : e = Claimed(s, a)
  OBVIOUS
<1>7. e.action = a /\ e.seat = s
  BY <1>6 DEF Claimed
<1>8. PICK type, kinds : type = "PENG" /\ kinds = {k}
  OBVIOUS
<1>9. d = Done(WithMeld(Taken(Pulled(b, lastDiscard.seat, k), s, k, n), s, type, kinds), s)
  BY <1>1, <1>3, <1>6, <1>7, <1>8 DEF ApplyClaimed, Done, Pulled
<1>10. k = lastDiscard.tile /\ n \in Nat \ {0} /\ (type = "GANG" => kinds = {}) /\ (type # "GANG" => kinds = {k})
  BY <1>2, <1>3, <1>8
<1>11. AddMeld(s, type, k, X \cup {Popped})
  BY <1>5, <1>8
<1>12. /\ Contents(d, [concealed EXCEPT ![s] = @ \ X], melds', discards')
       /\ d.phase = "DISCARD" /\ d.actor = s /\ d.lastDrawn = b.lastDrawn
  <2>1. phase = "CLAIM_WINDOW" /\ PopDiscard
    BY <1>2, <1>5
  <2>2. X = Lowest(Copies(s, k), n)
    BY <1>3
  <2> QED
    BY <2>1, <2>2, <1>4, <1>9, <1>10, <1>11, SameShown
<1> QED
  BY <1>5, <1>12

\* ... a kong, ...
LEMMA GangShown ==
    ASSUME Viewer, HandInv, SoundInv, NEW s \in Seats, NEW a, GangExposed(s, a),
           NEW b, Contents(b, concealed, melds, discards), b.lastDiscard = lastDiscard,
           NEW d, d = ApplyClaimed(b, Claimed(s, a))
    PROVE  \E X \in SUBSET concealed[s] :
              /\ Contents(d, [concealed EXCEPT ![s] = @ \ X], melds', discards')
              /\ InternalDraw(s, [concealed EXCEPT ![s] = @ \ X])
<1>1. a.type = "GANG" /\ a.kind = "EXPOSED" /\ a \in LegalActions(s)
  BY DEF GangExposed
<1>2. phase = "CLAIM_WINDOW" /\ lastDiscard # None /\ a \in ClaimsOn(s, lastDiscard.tile, lastDiscard.seat)
      /\ a.tile = lastDiscard.tile
  BY <1>1, LegalClaim
<1>3. PICK k, n, X : k = a.tile /\ n = 3 /\ X = Lowest(Copies(s, k), n)
  OBVIOUS
<1>4. n <= Cardinality(Copies(s, k))
  <2>1. Cardinality(Copies(s, k)) >= 3
    BY <1>1, <1>2, <1>3, ClaimNeeds
  <2>2. Cardinality(Copies(s, k)) \in Nat
    BY HandFinite, FS_Subset, FS_CardinalityType DEF Copies
  <2> QED
    BY <1>3, <2>1, <2>2
<1>5. /\ InternalDraw(s, [concealed EXCEPT ![s] = @ \ X]) /\ AddMeld(s, "GANG", k, X \cup {Popped})
      /\ PopDiscard
  BY <1>3 DEF GangExposed, ConsumeDiscard
<1>6. PICK e : e = Claimed(s, a)
  OBVIOUS
<1>7. e.action = a /\ e.seat = s
  BY <1>6 DEF Claimed
<1>8. PICK type, kinds : type = "GANG" /\ kinds = {}
  OBVIOUS
<1>9. d = Done(WithMeld(Taken(Pulled(b, lastDiscard.seat, k), s, k, n), s, type, kinds), s)
  BY <1>1, <1>3, <1>6, <1>7, <1>8 DEF ApplyClaimed, Done, Pulled
<1>10. k = lastDiscard.tile /\ n \in Nat \ {0} /\ (type = "GANG" => kinds = {}) /\ (type # "GANG" => kinds = {k})
  BY <1>2, <1>3, <1>8
<1>11. AddMeld(s, type, k, X \cup {Popped})
  BY <1>5, <1>8
<1>12. Contents(d, [concealed EXCEPT ![s] = @ \ X], melds', discards')
  <2>1. phase = "CLAIM_WINDOW" /\ PopDiscard
    BY <1>2, <1>5
  <2>2. X = Lowest(Copies(s, k), n)
    BY <1>3
  <2> QED
    BY <2>1, <2>2, <1>4, <1>9, <1>10, <1>11, SameShown
<1>13. X \in SUBSET concealed[s]
  BY <1>3, TakenTiles
<1> QED
  BY <1>5, <1>12, <1>13

\* The tiles of a chow.
LEMMA RunShown ==
    ASSUME Viewer, HandInv, NEW mel, NEW dis, NEW b, Contents(b, concealed, mel, dis),
           NEW s \in Seats, NEW r \in Runs, NEW k \in r, r \ {k} \subseteq KindsIn(s),
           NEW X, X = RunPair(s, r, k)
    PROVE  /\ Contents(RunTaken(b, s, r, k), [concealed EXCEPT ![s] = @ \ X], mel, dis)
           /\ Turn(RunTaken(b, s, r, k)) = Turn(b)
<1>1. PICK con : con = concealed
  OBVIOUS
<1>2. con \in Hands /\ IsFiniteSet(con[s]) /\ con[s] \in SUBSET Nat /\ Contents(b, con, mel, dis)
  BY <1>1, HandFinite, Positions DEF HandInv
<1>3. X \in SUBSET con[s] /\ Cardinality(X) = 2 /\ {deck[i] : i \in X} = r \ {k}
  BY <1>1, RunTiles
<1>4. PICK c, d : c = [con EXCEPT ![s] = @ \ X] /\ d = RunTaken(b, s, r, k)
  OBVIOUS
<1>5. c[s] = con[s] \ X /\ \A t \in Seats \ {s} : c[t] = con[t]
  BY <1>2, <1>4 DEF Hands
<1>6. CASE s = me
  <2>1. me # None /\ b.hand = KindsOf(con[s])
    BY <1>2, <1>6 DEF Viewer, Contents, HandOf
  <2>2. d = [b EXCEPT !.hand = [x \in Kinds |-> IF x \in r \ {k} /\ @[x] > 0 THEN @[x] - 1 ELSE @[x]]]
    BY <1>2, <1>4, <1>6, OwnHand DEF RunTaken
  <2>3. PICK h : h = [x \in Kinds |-> IF x \in r \ {k} /\ b.hand[x] > 0 THEN b.hand[x] - 1 ELSE b.hand[x]]
    OBVIOUS
  <2>4. /\ IsBoard(d) /\ d.hand = h
        /\ d.counts = b.counts /\ d.melds = b.melds /\ d.piles = b.piles /\ Turn(d) = Turn(b)
    BY <2>2, <2>3 DEF Contents, IsBoard, Fields, Turn
  <2>5. ASSUME NEW x \in Kinds PROVE h[x] = Cardinality({i \in c[s] : deck[i] = x})
    <3>1. PICK S : S = Copies(s, x)
      OBVIOUS
    <3>2. S = {i \in con[s] : deck[i] = x} /\ b.hand[x] = Cardinality(S) /\ IsFiniteSet(S)
          /\ Cardinality(S) \in Nat
      <4>1. S = {i \in con[s] : deck[i] = x}
        BY <1>1, <3>1 DEF Copies
      <4> QED
        BY <1>2, <2>1, <4>1, FS_Subset, FS_CardinalityType DEF KindsOf
    <3>3. CASE x \in r \ {k}
      <4>1. PICK Y : Y = Lowest(S, 1)
        OBVIOUS
      <4>2. 1 <= Cardinality(S)
        BY <3>1, <3>3, HeldKind
      <4>3. Y \in SUBSET S /\ Cardinality(Y) = 1
        <5>1. Y \subseteq S
          BY <4>1 DEF Lowest
        <5>2. S \in SUBSET Nat
          BY <1>2, <3>2
        <5> QED
          BY <3>2, <4>1, <4>2, <5>1, <5>2, LowestSize
      <4>4. Y = {i \in X : deck[i] = x}
        <5>1. Y \subseteq X
          BY <1>3, <3>1, <3>3, <4>1 DEF RunPair
        <5>2. \A i \in Y : deck[i] = x
          BY <3>2, <4>3
        <5>3. ASSUME NEW i \in X, deck[i] = x PROVE i \in Y
          <6>1. PICK y \in r \ {k} : i \in Lowest(Copies(s, y), 1)
            BY <5>3 DEF RunPair
          <6>2. deck[i] = y
            BY <6>1 DEF Lowest, Copies
          <6> QED
            BY <3>1, <4>1, <5>3, <6>1, <6>2
        <5> QED
          BY <5>1, <5>2, <5>3
      <4>5. {i \in c[s] : deck[i] = x} = S \ Y
        BY <1>5, <3>2, <4>4
      <4>6. Cardinality(S \ Y) = Cardinality(S) - 1
        BY <3>2, <4>3, TakenAway
      <4>7. h[x] = Cardinality(S) - 1
        BY <2>3, <3>2, <3>3, <4>2
      <4> QED
        BY <4>5, <4>6, <4>7
    <3>4. CASE x \notin r \ {k}
      <4>1. {i \in c[s] : deck[i] = x} = S
        <5>1. \A i \in X : deck[i] # x
          BY <1>3, <3>4
        <5> QED
          BY <1>5, <3>2, <5>1
      <4>2. h[x] = Cardinality(S)
        BY <2>3, <3>2, <3>4
      <4> QED
        BY <4>1, <4>2
    <3> QED
      BY <3>3, <3>4
  <2>6. h = KindsOf(c[s])
    BY <2>3, <2>5 DEF KindsOf
  <2>7. d.counts = [t \in Seats \ {me} |-> Cardinality(c[t])]
    BY <1>2, <1>5, <1>6, <2>4 DEF Contents
  <2>8. Contents(d, c, mel, dis)
    BY <1>2, <1>6, <2>1, <2>4, <2>6, <2>7 DEF Contents, HandOf
  <2> QED
    BY <1>1, <1>4, <2>4, <2>8
<1>7. CASE s # me
  <2>1. PICK n : n = 2
    OBVIOUS
  <2>2. n \in Nat /\ X \in SUBSET con[s] /\ Cardinality(X) = n
    BY <1>3, <2>1
  <2>3. /\ Contents(Taken(b, s, k, n), [con EXCEPT ![s] = @ \ X], mel, dis)
        /\ Turn(Taken(b, s, k, n)) = Turn(b)
    BY <1>2, <1>7, <2>2, TakenShown
  <2>4. d = Taken(b, s, k, n)
    BY <1>2, <1>4, <1>7, <2>1, OwnHand DEF RunTaken
  <2> QED
    BY <1>1, <1>4, <2>3, <2>4
<1> QED
  BY <1>6, <1>7

\* ... or a run.
LEMMA ChiShown ==
    ASSUME Viewer, HandInv, SoundInv, NEW s \in Seats, NEW a, Chi(s, a),
           NEW b, Contents(b, concealed, melds, discards), b.lastDiscard = lastDiscard,
           NEW d, d = ApplyClaimed(b, Claimed(s, a))
    PROVE  /\ Contents(d, concealed', melds', discards')
           /\ d.phase = "DISCARD" /\ d.actor = s /\ d.lastDrawn = b.lastDrawn
<1>1. a.type = "CHI" /\ a \in LegalActions(s)
  BY DEF Chi
<1>2. phase = "CLAIM_WINDOW" /\ lastDiscard # None /\ a \in ClaimsOn(s, lastDiscard.tile, lastDiscard.seat)
  BY <1>1, LegalClaim
<1>3. PICK k, r, X : k = lastDiscard.tile /\ r = a.run /\ X = RunPair(s, r, k)
  OBVIOUS
<1>4. r \in Runs /\ k \in r /\ r \ {k} \subseteq KindsIn(s)
  BY <1>1, <1>2, <1>3, ClaimNeeds
<1>5. /\ concealed' = [concealed EXCEPT ![s] = @ \ X] /\ AddMeld(s, "CHI", k, X \cup {Popped})
      /\ PopDiscard
  BY <1>3 DEF Chi, ConsumeDiscard, RunPair
<1>6. PICK off : off = Pulled(b, lastDiscard.seat, k)
  OBVIOUS
<1>7. Contents(off, concealed, melds, discards') /\ Turn(off) = Turn(b)
  BY <1>2, <1>3, <1>5, <1>6, OffShown
<1>8. PICK t, c, q : t = RunTaken(off, s, r, k) /\ c = [concealed EXCEPT ![s] = @ \ X] /\ q = discards'
  OBVIOUS
<1>9. Contents(t, c, melds, q) /\ Turn(t) = Turn(off)
  <2>1. Contents(off, concealed, melds, q)
    BY <1>7, <1>8
  <2>2. /\ Contents(RunTaken(off, s, r, k), [concealed EXCEPT ![s] = @ \ X], melds, q)
        /\ Turn(RunTaken(off, s, r, k)) = Turn(off)
    BY <1>3, <1>4, <2>1, RunShown
  <2> QED
    BY <1>8, <2>2
<1>10. PICK m : m = [type |-> "CHI", kind |-> k, tiles |-> X \cup {Popped}]
  OBVIOUS
<1>11. melds' = [melds EXCEPT ![s] = @ \cup {m}]
  BY <1>5, <1>10 DEF AddMeld
<1>12. X \in SUBSET concealed[s] /\ IsFiniteSet(X) /\ Cardinality(X) = 2 /\ {deck[i] : i \in X} = r \ {k}
  BY <1>3, <1>4, RunTiles
<1>13. m.tiles \cap concealed[s] # {}
  <2>1. X # {}
    BY <1>12, FS_EmptySet
  <2> QED
    BY <1>10, <1>12, <2>1
<1>14. Shown(m).type = "CHI" /\ Shown(m).kinds = r
  <2>1. deck[Popped] = k
    BY <1>2, <1>3 DEF SoundInv, WindowStands
  <2>2. {deck[i] : i \in m.tiles} = r
    BY <1>4, <1>10, <1>12, <2>1
  <2>3. m.type = "CHI"
    BY <1>10
  <2> QED
    BY <2>2, <2>3 DEF Shown
<1>15. PICK e : e = Claimed(s, a)
  OBVIOUS
<1>16. e.action = a /\ e.seat = s
  BY <1>15 DEF Claimed
<1>17. d = Done(WithMeld(RunTaken(off, s, r, k), s, "CHI", r), s)
  <2>1. off = [b EXCEPT !.piles[b.lastDiscard.seat] = PulledOff(@, k)]
    BY <1>6 DEF Pulled
  <2>2. b.lastDiscard.tile = k /\ e.action.type = "CHI" /\ e.action.run = r /\ e.seat = s
    BY <1>1, <1>3, <1>16
  <2> QED
    BY <1>15, <2>1, <2>2 DEF ApplyClaimed, Done
<1>18. d = Done(WithMeld(t, s, Shown(m).type, Shown(m).kinds), s)
  BY <1>8, <1>14, <1>17
<1>19. /\ Contents(d, c, [melds EXCEPT ![s] = @ \cup {m}], q)
       /\ d.phase = "DISCARD" /\ d.actor = s /\ d.lastDrawn = t.lastDrawn
  BY <1>9, <1>13, <1>18, JoinShown
<1>20. t.lastDrawn = b.lastDrawn
  BY <1>7, <1>9 DEF Turn
<1> QED
  BY <1>5, <1>8, <1>11, <1>19, <1>20

\* The kongs of one's own turn.
LEMMA ConcealedShown ==
    ASSUME Viewer, HandInv, SoundInv, NEW s \in Seats, NEW a, GangConcealed(s, a),
           NEW b, Contents(b, concealed, melds, discards),
           NEW d, d = ApplySelfGang(b, Decision(s, a))
    PROVE  \E X \in SUBSET concealed[s] :
              /\ Contents(d, [concealed EXCEPT ![s] = @ \ X], melds', discards')
              /\ InternalDraw(s, [concealed EXCEPT ![s] = @ \ X])
<1>1. a.type = "GANG" /\ a.kind = "CONCEALED" /\ a \in LegalActions(s)
  BY DEF GangConcealed
<1>2. PICK k, n, X : k = a.tile /\ n = 4 /\ X = Lowest(Copies(s, k), n)
  OBVIOUS
<1>3. /\ InternalDraw(s, [concealed EXCEPT ![s] = @ \ X]) /\ AddMeld(s, "GANG", k, X)
      /\ discards' = discards
  BY <1>2 DEF GangConcealed
<1>4. n \in Nat /\ n <= Cardinality(Copies(s, k))
  BY <1>1, <1>2, KongNeeds
<1>5. X \in SUBSET concealed[s] /\ IsFiniteSet(X) /\ Cardinality(X) = n /\ \A i \in X : deck[i] = k
  BY <1>2, <1>4, CopiesTaken
<1>6. concealed \in Hands /\ IsFiniteSet(concealed[s]) /\ DOMAIN melds = Seats /\ melds = [t \in Seats |-> melds[t]]
  BY HandFinite, Positions DEF HandInv
<1>7. k \in Kinds
  BY <1>1, <1>2, LegalKong, KindsOfHand DEF HandInv
<1>8. PICK t, c : t = Taken(b, s, k, n) /\ c = [concealed EXCEPT ![s] = @ \ X]
  OBVIOUS
<1>9. Contents(t, c, melds, discards) /\ Turn(t) = Turn(b)
  <2>1. s = me => k \in Kinds /\ \A i \in X : deck[i] = k
    BY <1>5, <1>7
  <2>2. /\ Contents(Taken(b, s, k, n), [concealed EXCEPT ![s] = @ \ X], melds, discards)
        /\ Turn(Taken(b, s, k, n)) = Turn(b)
    BY <1>4, <1>5, <1>6, <2>1, TakenShown
  <2> QED
    BY <1>8, <2>2
<1>10. PICK m : m = [type |-> "GANG", kind |-> k, tiles |-> X]
  OBVIOUS
<1>11. melds' = [melds EXCEPT ![s] = @ \cup {m}]
  BY <1>3, <1>10 DEF AddMeld
<1>12. m \notin melds[s] /\ IsFiniteSet(melds[s])
  <2>1. X # {}
    BY <1>2, <1>5, FS_EmptySet
  <2>2. m.tiles \cap concealed[s] # {}
    BY <1>5, <1>10, <2>1
  <2>3. IsFiniteSet(melds[s])
    BY DEF SoundInv, SizeInv
  <2> QED
    BY <2>2, <2>3, NewMeld
<1>13. PICK type, kinds : type = "GANG" /\ kinds = {}
  OBVIOUS
<1>14. Shown(m) = [type |-> type, kinds |-> kinds]
  BY <1>10, <1>13 DEF Shown
<1>15. PICK w : w = WithMeld(t, s, type, kinds)
  OBVIOUS
<1>16. Contents(w, c, [melds EXCEPT ![s] = @ \cup {m}], discards)
  BY <1>6, <1>9, <1>12, <1>14, <1>15, MeldShown
<1>17. d = [w EXCEPT !.actor = s]
  <2>1. PICK e : e = Decision(s, a)
    OBVIOUS
  <2>2. e.action = a /\ e.seat = s
    BY <2>1 DEF Decision
  <2>3. d = [WithMeld(Taken(b, s, k, 4), s, "GANG", {}) EXCEPT !.actor = s]
    BY <1>1, <1>2, <2>1, <2>2 DEF ApplySelfGang
  <2> QED
    BY <1>2, <1>8, <1>13, <1>15, <2>3
<1>18. /\ IsBoard(d) /\ d.hand = w.hand /\ d.counts = w.counts /\ d.melds = w.melds /\ d.piles = w.piles
  BY <1>16, <1>17 DEF Contents, IsBoard, Fields
<1>19. Contents(d, c, [melds EXCEPT ![s] = @ \cup {m}], discards)
  BY <1>16, <1>18 DEF Contents
<1>20. Contents(d, [concealed EXCEPT ![s] = @ \ X], melds', discards')
  BY <1>3, <1>8, <1>11, <1>19
<1> QED
  BY <1>3, <1>5, <1>20

\* An added kong takes the place of its pung.
LEMMA AddedShown ==
    ASSUME Viewer, HandInv, SoundInv, NEW s \in Seats, NEW a, GangAdded(s, a),
           NEW b, Contents(b, concealed, melds, discards),
           NEW d, d = ApplySelfGang(b, Decision(s, a))
    PROVE  \E X \in SUBSET concealed[s] :
              /\ Contents(d, [concealed EXCEPT ![s] = @ \ X], melds', discards')
              /\ InternalDraw(s, [concealed EXCEPT ![s] = @ \ X])
<1>1. a.type = "GANG" /\ a.kind = "ADDED" /\ a \in LegalActions(s)
  BY DEF GangAdded
<1>2. PICK k, n, X : k = a.tile /\ n = 1 /\ X = Lowest(Copies(s, k), n)
  OBVIOUS
<1>3. PICK o \in melds[s] :
          /\ o.type = "PENG" /\ o.kind = k
          /\ melds' = [melds EXCEPT ![s] = (@ \ {o}) \cup
                  {[type |-> "GANG", kind |-> k, tiles |-> o.tiles \cup X]}]
          /\ InternalDraw(s, [concealed EXCEPT ![s] = @ \ X])
  BY <1>2 DEF GangAdded
<1>4. discards' = discards
  BY DEF GangAdded
<1>5. k \in Kinds /\ k \in KindsIn(s)
  BY <1>1, <1>2, LegalKong, KindsOfHand DEF HandInv
<1>6. n \in Nat /\ n <= Cardinality(Copies(s, k))
  BY <1>2, <1>5, HeldKind
<1>7. X \in SUBSET concealed[s] /\ IsFiniteSet(X) /\ Cardinality(X) = n /\ \A i \in X : deck[i] = k
  BY <1>2, <1>6, CopiesTaken
<1>8. PICK mel : mel = melds
  OBVIOUS
<1>9. concealed \in Hands /\ IsFiniteSet(concealed[s]) /\ DOMAIN mel = Seats /\ mel = [t \in Seats |-> mel[t]]
      /\ IsFiniteSet(mel[s])
  BY <1>8, HandFinite, Positions DEF HandInv, SoundInv, SizeInv
<1>10. PICK t, c : t = Taken(b, s, k, n) /\ c = [concealed EXCEPT ![s] = @ \ X]
  OBVIOUS
<1>11. Contents(t, c, mel, discards) /\ Turn(t) = Turn(b)
  <2>1. s = me => k \in Kinds /\ \A i \in X : deck[i] = k
    BY <1>5, <1>7
  <2>2. /\ Contents(Taken(b, s, k, n), [concealed EXCEPT ![s] = @ \ X], melds, discards)
        /\ Turn(Taken(b, s, k, n)) = Turn(b)
    BY <1>6, <1>7, <1>9, <2>1, TakenShown
  <2> QED
    BY <1>8, <1>10, <2>2
<1>12. PICK pung, u : /\ pung = [type |-> "PENG", kinds |-> {k}]
                      /\ u = [t EXCEPT !.melds[s] = @ (-) SetToBag({pung})]
  OBVIOUS
<1>13. Shown(o) = pung
  <2>1. {deck[i] : i \in o.tiles} = {k}
    BY <1>3 DEF SoundInv, MeldsWellFormed
  <2> QED
    BY <1>3, <1>12, <2>1 DEF Shown
<1>14. pung \in DOMAIN b.melds[s]
  <2>1. b.melds[s] = MeldsOf(melds[s])
    BY DEF Contents
  <2> QED
    BY <1>3, <1>13, <2>1 DEF MeldsOf
<1>15. PICK mid : mid = [mel EXCEPT ![s] = @ \ {o}]
  OBVIOUS
<1>16. Contents(u, c, mid, discards)
  <2>1. o \in mel[s]
    BY <1>3, <1>8
  <2>2. u = [t EXCEPT !.melds[s] = @ (-) SetToBag({Shown(o)})]
    BY <1>12, <1>13
  <2> QED
    BY <1>9, <1>11, <1>15, <2>1, <2>2, MeldUnshown
<1>17. PICK m : m = [type |-> "GANG", kind |-> k, tiles |-> o.tiles \cup X]
  OBVIOUS
<1>18. /\ DOMAIN mid = Seats /\ mid = [x \in Seats |-> mid[x]] /\ mid[s] = mel[s] \ {o}
       /\ IsFiniteSet(mid[s]) /\ m \notin mid[s]
  <2>1. X # {}
    BY <1>2, <1>7, FS_EmptySet
  <2>2. m.tiles \cap concealed[s] # {}
    BY <1>7, <1>17, <2>1
  <2>3. m \notin melds[s]
    BY <1>8, <1>9, <2>2, NewMeld
  <2>4. DOMAIN mid = Seats /\ mid = [x \in Seats |-> mid[x]] /\ mid[s] = mel[s] \ {o}
    BY <1>9, <1>15
  <2> QED
    BY <1>8, <1>9, <2>3, <2>4, FS_RemoveElement
<1>19. PICK type, kinds : type = "GANG" /\ kinds = {}
  OBVIOUS
<1>20. Shown(m) = [type |-> type, kinds |-> kinds]
  BY <1>17, <1>19 DEF Shown
<1>21. PICK w : w = WithMeld(u, s, type, kinds)
  OBVIOUS
<1>22. Contents(w, c, [mid EXCEPT ![s] = @ \cup {m}], discards)
  BY <1>16, <1>18, <1>20, <1>21, MeldShown
<1>23. [mid EXCEPT ![s] = @ \cup {m}] = melds'
  BY <1>3, <1>8, <1>9, <1>15, <1>17, <1>18
<1>24. d = [w EXCEPT !.actor = s]
  <2>1. PICK e : e = Decision(s, a)
    OBVIOUS
  <2>2. e.action = a /\ e.seat = s
    BY <2>1 DEF Decision
  <2>3. a.kind # "CONCEALED" /\ pung \in DOMAIN b.melds[s]
    BY <1>1, <1>14
  <2>4. d = [WithMeld([Taken(b, s, k, 1) EXCEPT !.melds[s] = @ (-) SetToBag({pung})],
                      s, "GANG", {}) EXCEPT !.actor = s]
    BY <1>2, <1>12, <2>1, <2>2, <2>3 DEF ApplySelfGang
  <2> QED
    BY <1>2, <1>10, <1>12, <1>19, <1>21, <2>4
<1>25. /\ IsBoard(d) /\ d.hand = w.hand /\ d.counts = w.counts /\ d.melds = w.melds /\ d.piles = w.piles
  BY <1>22, <1>24 DEF Contents, IsBoard, Fields
<1>26. Contents(d, c, [mid EXCEPT ![s] = @ \cup {m}], discards)
  BY <1>22, <1>25 DEF Contents
<1>27. Contents(d, [concealed EXCEPT ![s] = @ \ X], melds', discards')
  BY <1>4, <1>10, <1>23, <1>26
<1> QED
  BY <1>3, <1>7, <1>27

-----------------------------------------------------------------------------
(* The board and the hand.                                                 *)

\* A board from which the page of the viewer can be drawn, and which the next
\* events keep like this: in a window the viewer has drawn nothing, unless it
\* is its own discard that is claimed.
Matches(b) ==
    /\ Contents(b, concealed, melds, discards)
    /\ b.phase = phase
    /\ phase = "DISCARD" =>
        /\ b.actor = actor
        /\ actor = me => b.lastDrawn = (IF lastDrawn # None /\ lastDrawn.seat = me
                                        THEN lastDrawn.tile ELSE None)
    /\ phase = "CLAIM_WINDOW" =>
        b.lastDiscard = lastDiscard /\ (lastDiscard.seat # me => b.lastDrawn = None)

\* The tile that was drawn before the discard of a window is the discarder's.
WindowDrawn == phase = "CLAIM_WINDOW" /\ lastDrawn # None => lastDrawn.seat = lastDiscard.seat

\* What one event makes of the viewer's board.
After(b, e) == ApplyEvent(b, ProjectEvent(e, me))

\* A board that matches is one the page can show.
LEMMA MatchAgrees == ASSUME Viewer, HandInv, NEW b, Matches(b) PROVE Agrees(b)
<1>1. PICK now : now = Project(me)
  OBVIOUS
<1>2. /\ now.hand = HandOf(concealed)
      /\ now.counts = [s \in Seats \ {me} |-> Cardinality(concealed[s])]
      /\ now.phase = phase /\ now.actor = actor /\ now.lastDiscard = lastDiscard
      /\ now.lastDrawn = IF me # None /\ lastDrawn # None /\ lastDrawn.seat = me
                         THEN lastDrawn.tile ELSE None
  BY <1>1 DEF Project, HandOf
<1>3. now.melds = [s \in Seats |-> MeldsOf(melds[s])]
  BY <1>1 DEF Project, ShownMelds, MeldsOf
<1>4. now.piles = [s \in Seats |-> PileOf(discards[s])]
  BY <1>1 DEF Project, PileOf
<1>5. /\ b.hand = now.hand /\ b.counts = now.counts /\ b.melds = now.melds /\ b.piles = now.piles
      /\ b.phase = now.phase
  BY <1>2, <1>3, <1>4 DEF Matches, Contents
<1>6. b.phase = "DISCARD" => b.actor = now.actor
  BY <1>2 DEF Matches
<1>7. b.phase = "DISCARD" /\ actor = me => b.lastDrawn = now.lastDrawn
  <2> SUFFICES ASSUME b.phase = "DISCARD", actor = me PROVE b.lastDrawn = now.lastDrawn
    OBVIOUS
  <2>1. phase = "DISCARD"
    BY DEF Matches
  <2>2. b.lastDrawn = IF lastDrawn # None /\ lastDrawn.seat = me THEN lastDrawn.tile ELSE None
    BY <2>1 DEF Matches
  <2>3. me # None
    BY DEF HandInv, TypeOK, Viewer
  <2> QED
    BY <1>2, <2>2, <2>3
<1>8. b.phase = "CLAIM_WINDOW" => b.lastDiscard = now.lastDiscard
  BY <1>2 DEF Matches
<1> QED
  BY <1>1, <1>5, <1>6, <1>7, <1>8 DEF Agrees

\* A fresh snapshot matches.
LEMMA ProjectMatches ==
    ASSUME Viewer, HandInv, WindowDrawn
    PROVE  Matches(Project(me))
<1>1. PICK now : now = Project(me)
  OBVIOUS
<1>2. /\ now.hand = HandOf(concealed) /\ IsBoard(now)
      /\ now.counts = [s \in Seats \ {me} |-> Cardinality(concealed[s])]
      /\ now.phase = phase /\ now.actor = actor /\ now.lastDiscard = lastDiscard
      /\ now.lastDrawn = IF me # None /\ lastDrawn # None /\ lastDrawn.seat = me
                         THEN lastDrawn.tile ELSE None
  BY <1>1 DEF Project, HandOf, IsBoard, Fields
<1>3. now.melds = [s \in Seats |-> MeldsOf(melds[s])]
  BY <1>1 DEF Project, ShownMelds, MeldsOf
<1>4. now.piles = [s \in Seats |-> PileOf(discards[s])]
  BY <1>1 DEF Project, PileOf
<1>5. Contents(now, concealed, melds, discards)
  BY <1>2, <1>3, <1>4 DEF Contents
<1>6. actor \in Seats
  BY DEF HandInv, TypeOK
<1>7. phase = "DISCARD" /\ actor = me =>
        now.lastDrawn = (IF lastDrawn # None /\ lastDrawn.seat = me THEN lastDrawn.tile ELSE None)
  BY <1>2, <1>6 DEF Viewer
<1>8. phase = "CLAIM_WINDOW" /\ lastDiscard.seat # me => now.lastDrawn = None
  BY <1>2 DEF WindowDrawn
<1> QED
  BY <1>1, <1>2, <1>5, <1>7, <1>8 DEF Matches

\* What shows the tiles as a step leaves them shows those of the next state.
LEMMA ContentsNext ==
    ASSUME deck' = deck, me' = me, NEW d, Contents(d, concealed', melds', discards')
    PROVE  Contents(d, concealed, melds, discards)'
<1>1. IsBoard(d)'
  BY DEF Contents, IsBoard, Fields
<1>2. d.hand = HandOf(concealed)'
  BY DEF Contents, HandOf, KindsOf
<1>3. d.counts = [s \in Seats \ {me} |-> Cardinality(concealed[s])]'
  BY DEF Contents
<1>4. d.melds = [s \in Seats |-> MeldsOf(melds[s])]'
  BY DEF Contents, MeldsOf, Shown
<1>5. d.piles = [s \in Seats |-> PileOf(discards[s])]'
  BY DEF Contents, PileOf
<1> QED
  BY <1>1, <1>2, <1>3, <1>4, <1>5 DEF Contents

\* The end of the hand, and a draw.
LEMMA EndTold ==
    ASSUME deck' = deck, me' = me, phase' = "TERMINAL",
           NEW b, Contents(b, concealed', melds', discards')
    PROVE  \E e, d : /\ Follow = <<e>> /\ e.event = "HAND_END"
                     /\ d = After(b, e) /\ Matches(d)'
<1>1. PICK e : e = [event |-> "HAND_END",
                    winner |-> IF terminal'.kind = "HU" THEN {terminal'.winner} ELSE {}]
  OBVIOUS
<1>2. Follow = <<e>>
  BY <1>1 DEF Follow
<1>3. e.event = "HAND_END" /\ ProjectEvent(e, me) = e
  BY <1>1 DEF ProjectEvent
<1>4. PICK d : d = After(b, e)
  OBVIOUS
<1>5. d = [b EXCEPT !.phase = "TERMINAL", !.settled = @ + 1]
  BY <1>3, <1>4 DEF After, ApplyEvent, ApplyHandEnd
<1>6. /\ IsBoard(d) /\ d.hand = b.hand /\ d.counts = b.counts /\ d.melds = b.melds /\ d.piles = b.piles
      /\ d.phase = "TERMINAL"
  BY <1>5 DEF Contents, IsBoard, Fields
<1>7. Contents(d, concealed', melds', discards')
  BY <1>6 DEF Contents
<1>8. Contents(d, concealed, melds, discards)'
  BY <1>7, ContentsNext
<1>9. Matches(d)'
  BY <1>6, <1>8 DEF Matches
<1> QED
  BY <1>2, <1>3, <1>4, <1>9

\* What the engine goes on to do after an action, told by its event.
LEMMA DrawTold ==
    ASSUME Viewer, HandInv, NEW s \in Seats, NEW hands \in Hands, IsFiniteSet(hands[s]),
           hands[s] \subseteq 1 .. drawn, InternalDraw(s, hands), deck' = deck, me' = me,
           NEW b, Contents(b, hands, melds', discards')
    PROVE  \E e, d : Follow = <<e>> /\ d = After(b, e) /\ Matches(d)'
<1>1. PICK left : left = {i \in Wall : deck[i] # Flower}
  OBVIOUS
<1>2. CASE left = {}
  <2>1. phase' = "TERMINAL" /\ concealed' = hands
    BY <1>1, <1>2 DEF InternalDraw
  <2> QED
    BY <2>1, EndTold
<1>3. CASE left # {}
  <2>1. PICK i \in Lowest(left, 1) :
          /\ drawn' = i /\ concealed' = [hands EXCEPT ![s] = @ \cup {i}]
          /\ phase' = "DISCARD" /\ actor' = s /\ lastDrawn' = [seat |-> s, tile |-> deck[i]]
    BY <1>1, <1>3 DEF InternalDraw
  <2>2. i \in Nat /\ i > drawn /\ deck[i] \in Kinds /\ i \notin hands[s]
    <3>1. i \in Wall /\ deck[i] # Flower
      BY <1>1 DEF Lowest
    <3>2. drawn \in Nat /\ Len(deck) \in Nat /\ DOMAIN deck = 1 .. Len(deck) /\ deck \in Seq(Kinds \cup {Flower})
      BY Positions, HandAssumption DEF HandInv, TypeOK
    <3>3. i \in Nat /\ i > drawn /\ i \in DOMAIN deck
      BY <3>1, <3>2 DEF Wall
    <3> QED
      BY <3>1, <3>2, <3>3
  <2>3. PICK e : e = [event |-> "DRAW", seat |-> s, tile |-> deck[i]]
    OBVIOUS
  <2>4. Follow = <<e>>
    <3>1. drawn' > drawn /\ lastDrawn'.tile = deck[i]
      BY <2>1, <2>2
    <3> QED
      BY <2>1, <2>3, <3>1 DEF Follow
  <2>5. PICK p, d : p = ProjectEvent(e, me) /\ d = ApplyEvent(b, p)
    OBVIOUS
  <2>6. p.event = "DRAW"
    BY <2>3, <2>5 DEF ProjectEvent
  <2>7. d = ApplyDraw(b, ProjectEvent(e, me))
    BY <2>5, <2>6 DEF ApplyEvent
  <2>8. PICK q, mel : q = discards' /\ mel = melds'
    OBVIOUS
  <2>9. /\ Contents(d, [hands EXCEPT ![s] = @ \cup {i}], mel, q)
        /\ d.phase = "DISCARD" /\ d.actor = s /\ (s = me => d.lastDrawn = deck[i])
    <3>1. Contents(b, hands, mel, q)
      BY <2>8
    <3> QED
      BY <2>2, <2>3, <2>7, <3>1, DrawShown
  <2>10. Contents(d, concealed, melds, discards)'
    BY <2>1, <2>8, <2>9, ContentsNext
  <2>11. lastDrawn' # None
    BY <2>1, <2>2, HandAssumption
  <2>12. Matches(d)'
    BY <2>1, <2>9, <2>10, <2>11 DEF Matches
  <2> QED
    BY <2>4, <2>5, <2>12 DEF After
<1> QED
  BY <1>2, <1>3

\* Sequences of events, put together.
LEMMA PairOf == ASSUME NEW e, NEW f PROVE <<e>> \o <<f>> = <<e, f>> /\ <<e>> \o <<>> = <<e>>
<1>1. PICK S, x, y, z : S = {e, f} /\ x = <<e>> /\ y = <<f>> /\ z = x \o y
  OBVIOUS
<1>2. x \in Seq(S) /\ y \in Seq(S) /\ Len(x) = 1 /\ Len(y) = 1 /\ x[1] = e /\ y[1] = f
  BY <1>1
<1>3. z \in Seq(S) /\ Len(z) = 2 /\ z[1] = e /\ z[2] = f
  BY <1>1, <1>2
<1>4. z = <<e, f>>
  BY <1>3
<1>5. x \o <<>> = x
  BY <1>2
<1> QED
  BY <1>1, <1>4, <1>5

LEMMA TripleOf ==
    ASSUME NEW e, NEW f, NEW g
    PROVE  <<e, f>> \o <<g>> = <<e, f, g>> /\ <<e>> \o <<f, g>> = <<e, f, g>>
<1>1. PICK S, x, y, z : S = {e, f, g} /\ x = <<e, f>> /\ y = <<g>> /\ z = x \o y
  OBVIOUS
<1>2. x \in Seq(S) /\ y \in Seq(S) /\ Len(x) = 2 /\ Len(y) = 1 /\ x[1] = e /\ x[2] = f /\ y[1] = g
  BY <1>1
<1>3. z \in Seq(S) /\ Len(z) = 3 /\ z[1] = e /\ z[2] = f /\ z[3] = g
  BY <1>1, <1>2
<1>4. z = <<e, f, g>>
  BY <1>3
<1>5. PICK u, v, w : u = <<e>> /\ v = <<f, g>> /\ w = u \o v
  OBVIOUS
<1>6. u \in Seq(S) /\ v \in Seq(S) /\ Len(u) = 1 /\ Len(v) = 2 /\ u[1] = e /\ v[1] = f /\ v[2] = g
  BY <1>1, <1>5
<1>7. w \in Seq(S) /\ Len(w) = 3 /\ w[1] = e /\ w[2] = f /\ w[3] = g
  BY <1>5, <1>6
<1>8. w = <<e, f, g>>
  BY <1>7
<1> QED
  BY <1>1, <1>4, <1>5, <1>8

\* The events of a PLAY and of a kong of one's own.
LEMMA PlayDiff ==
    ASSUME NEW s, NEW a, a.type = "PLAY", NEW f, Follow = <<f>>
    PROVE  DiffToEvents(s, a) = <<[event |-> "DISCARD", seat |-> s, tile |-> a.tile], f>>
<1>1. DiffToEvents(s, a) = <<[event |-> "DISCARD", seat |-> s, tile |-> a.tile]>> \o Follow
  BY Zenon DEF DiffToEvents
<1> QED
  BY <1>1, PairOf

LEMMA KongDiff ==
    ASSUME NEW s, NEW a, a.type = "GANG", a.kind # "EXPOSED", NEW f, Follow = <<f>>
    PROVE  DiffToEvents(s, a) = <<Decision(s, a), f>>
<1>1. a.type \notin {"PLAY", "PASS", "PENG", "CHI", "HU"}
  OBVIOUS
<1>2. DiffToEvents(s, a) = <<Decision(s, a)>> \o <<>> \o Follow
  BY <1>1 DEF DiffToEvents
<1> QED
  BY <1>2, PairOf

\* A PLAY is told by its DISCARD and by what follows it.
LEMMA PlayTold ==
    ASSUME Viewer, HandInv, NEW s \in Seats, NEW a, Play(s, a), me' = me,
           NEW b, Matches(b)
    PROVE  \E e, f, d : /\ DiffToEvents(s, a) = <<e, f>>
                        /\ d = After(After(b, e), f) /\ Matches(d)'
<1>1. a.type = "PLAY" /\ a \in LegalActions(s)
  BY DEF Play
<1>2. phase = "DISCARD" /\ s = actor /\ a.tile \in KindsIn(s)
  BY <1>1, LegalPlay
<1>3. PICK i \in Lowest(Copies(s, a.tile), 1) :
        /\ discards' = [discards EXCEPT ![s] = Append(@, i)]
        /\ IF Opportunities(a.tile, s) = {}
           THEN AdvanceToNextSeat(s, [concealed EXCEPT ![s] = @ \ {i}])
           ELSE /\ phase' = "CLAIM_WINDOW"
                /\ lastDiscard' = [seat |-> s, tile |-> a.tile]
                /\ concealed' = [concealed EXCEPT ![s] = @ \ {i}]
  BY DEF Play
<1>4. deck' = deck /\ melds' = melds
  BY DEF Play
<1>5. i \in concealed[s] /\ deck[i] = a.tile /\ deck[i] \in Kinds
  <2>1. i \in concealed[s] /\ deck[i] = a.tile
    BY <1>3 DEF Lowest, Copies
  <2> QED
    BY <1>2, <2>1, KindsOfHand DEF HandInv
<1>6. PICK con, hands, mel, dis : /\ con = concealed /\ hands = [concealed EXCEPT ![s] = @ \ {i}]
                                  /\ mel = melds /\ dis = discards
  OBVIOUS
<1>7. /\ con \in Hands /\ dis \in Piles /\ hands \in Hands
      /\ \A x \in Seats : IsFiniteSet(con[x]) /\ con[x] \subseteq 1 .. drawn
  BY <1>6, HandFinite, Positions, FewerTiles DEF HandInv
<1>8. hands = [con EXCEPT ![s] = @ \ {i}] /\ i \in con[s]
  BY <1>5, <1>6
<1>9. \A x \in Seats : IsFiniteSet(hands[x]) /\ hands[x] \subseteq 1 .. drawn
  <2>1. \A x \in Seats : hands[x] \subseteq con[x]
    BY <1>7, <1>8 DEF Hands
  <2> QED
    BY <1>7, <2>1, FS_Subset
<1>10. PICK e : e = [event |-> "DISCARD", seat |-> s, tile |-> deck[i]]
  OBVIOUS
<1>11. PICK c : c = After(b, e)
  OBVIOUS
<1>12. c = ApplyDiscard(b, e)
  <2>1. e.event = "DISCARD" /\ ProjectEvent(e, me) = e
    BY <1>10 DEF ProjectEvent
  <2> QED
    BY <1>11, <2>1 DEF After, ApplyEvent
<1>13. /\ Contents(c, hands, mel, [dis EXCEPT ![s] = Append(@, i)])
       /\ c.phase = b.phase /\ c.lastDrawn = None /\ c.lastDiscard = [seat |-> s, tile |-> deck[i]]
  <2>1. Contents(b, con, mel, dis)
    BY <1>6 DEF Matches
  <2>2. con \in Hands /\ dis \in Piles /\ IsFiniteSet(con[s]) /\ i \in con[s] /\ deck[i] \in Kinds
    BY <1>5, <1>7, <1>8
  <2>3. PICK q : q = [dis EXCEPT ![s] = Append(@, i)]
    OBVIOUS
  <2>4. hands = [con EXCEPT ![s] = @ \ {i}]
    BY <1>8
  <2>5. Contents(c, [con EXCEPT ![s] = @ \ {i}], mel, [dis EXCEPT ![s] = Append(@, i)])
    BY <1>10, <1>12, <2>1, <2>2, DiscardShown
  <2>6. c.phase = b.phase /\ c.lastDrawn = None /\ c.lastDiscard = [seat |-> s, tile |-> deck[i]]
    BY <1>10, <1>12, <2>1, DiscardTurn DEF Contents
  <2> QED
    BY <2>3, <2>4, <2>5, <2>6
<1>14. Contents(c, hands, melds', discards')
  BY <1>3, <1>4, <1>6, <1>13
<1>15. CASE Opportunities(a.tile, s) = {}
  <2>1. InternalDraw(NextSeat(s), hands)
    BY <1>3, <1>6, <1>15 DEF AdvanceToNextSeat
  <2>2. NextSeat(s) \in Seats
    BY DEF NextSeat, Seats
  <2>3. PICK f, d : Follow = <<f>> /\ d = After(c, f) /\ Matches(d)'
    BY <1>4, <1>7, <1>9, <1>14, <2>1, <2>2, DrawTold
  <2>4. DiffToEvents(s, a) = <<e, f>>
    BY <1>1, <1>5, <1>10, <2>3, PlayDiff
  <2> QED
    BY <1>11, <2>3, <2>4
<1>16. CASE Opportunities(a.tile, s) # {}
  <2>1. phase' = "CLAIM_WINDOW" /\ lastDiscard' = [seat |-> s, tile |-> deck[i]] /\ concealed' = hands
    BY <1>3, <1>5, <1>6, <1>16
  <2>2. PICK f : f = [event |-> "CLAIM_WINDOW"]
    OBVIOUS
  <2>3. Follow = <<f>>
    BY <2>1, <2>2 DEF Follow
  <2>4. DiffToEvents(s, a) = <<e, f>>
    BY <1>1, <1>5, <1>10, <2>3, PlayDiff
  <2>5. PICK d : d = After(c, f)
    OBVIOUS
  <2>6. d = [c EXCEPT !.phase = "CLAIM_WINDOW"]
    <3>1. f.event = "CLAIM_WINDOW" /\ ProjectEvent(f, me) = f
      BY <2>2 DEF ProjectEvent
    <3> QED
      BY <2>5, <3>1 DEF After, ApplyEvent
  <2>7. /\ IsBoard(d) /\ d.hand = c.hand /\ d.counts = c.counts /\ d.melds = c.melds
        /\ d.piles = c.piles /\ d.phase = "CLAIM_WINDOW" /\ d.lastDrawn = None
        /\ d.lastDiscard = [seat |-> s, tile |-> deck[i]]
    BY <1>13, <2>6 DEF Contents, IsBoard, Fields
  <2>8. Contents(d, concealed', melds', discards')
    BY <1>14, <2>1, <2>7 DEF Contents
  <2>9. Contents(d, concealed, melds, discards)'
    BY <1>4, <2>8, ContentsNext
  <2>10. Matches(d)'
    BY <2>1, <2>7, <2>9 DEF Matches
  <2> QED
    BY <1>11, <2>4, <2>5, <2>10
<1> QED
  BY <1>15, <1>16

\* A kong of one's own is told by its decision and by what follows it.
LEMMA SelfKongTold ==
    ASSUME Viewer, HandInv, SoundInv, NEW s \in Seats, NEW a,
           GangConcealed(s, a) \/ GangAdded(s, a), me' = me,
           NEW b, Matches(b)
    PROVE  \E e, f, d : /\ DiffToEvents(s, a) = <<e, f>>
                        /\ d = After(After(b, e), f) /\ Matches(d)'
<1>1. a.type = "GANG" /\ a.kind # "EXPOSED" /\ deck' = deck
  BY DEF GangConcealed, GangAdded
<1>2. PICK e, c : e = Decision(s, a) /\ c = After(b, e)
  OBVIOUS
<1>3. c = ApplySelfGang(b, Decision(s, a))
  <2>1. e.event = "CLAIM_DECISION" /\ e.action = a /\ ProjectEvent(e, me) = e
    BY <1>2 DEF Decision, ProjectEvent
  <2> QED
    BY <1>1, <1>2, <2>1 DEF After, ApplyEvent, ApplyClaimDecision
<1>4. Contents(b, concealed, melds, discards)
  BY DEF Matches
<1>5. PICK X \in SUBSET concealed[s] :
        /\ Contents(c, [concealed EXCEPT ![s] = @ \ X], melds', discards')
        /\ InternalDraw(s, [concealed EXCEPT ![s] = @ \ X])
  BY <1>3, <1>4, ConcealedShown, AddedShown
<1>6. PICK hands : hands = [concealed EXCEPT ![s] = @ \ X]
  OBVIOUS
<1>7. hands \in Hands /\ IsFiniteSet(hands[s]) /\ hands[s] \subseteq 1 .. drawn
  <2>1. hands \in Hands /\ concealed \in Hands
    BY <1>6, FewerTiles, Positions DEF HandInv
  <2>2. hands[s] \subseteq concealed[s]
    BY <1>6, <2>1 DEF Hands
  <2> QED
    BY <2>1, <2>2, HandFinite, FS_Subset
<1>8. PICK f, d : Follow = <<f>> /\ d = After(c, f) /\ Matches(d)'
  BY <1>1, <1>5, <1>6, <1>7, DrawTold
<1>9. DiffToEvents(s, a) = <<e, f>>
  BY <1>1, <1>2, <1>8, KongDiff
<1> QED
  BY <1>2, <1>8, <1>9

\* A win is told by the end of the hand.
LEMMA HuTold ==
    ASSUME NEW s, NEW a, Hu(s, a), me' = me, NEW b, Matches(b)
    PROVE  \E e, d : /\ Follow = <<e>> /\ e.event = "HAND_END"
                     /\ d = After(b, e) /\ Matches(d)'
<1>1. deck' = deck /\ phase' = "TERMINAL" /\ UNCHANGED <<concealed, melds, discards>>
  BY DEF Hu
<1>2. Contents(b, concealed', melds', discards')
  BY <1>1 DEF Matches
<1> QED
  BY <1>1, <1>2, EndTold

\* What a claim is told as.
LEMMA ClaimRead ==
    ASSUME NEW s, NEW a, NEW b, b.lastDiscard # None
    PROVE  After(b, Claimed(s, a)) = ApplyClaimed(b, Claimed(s, a))
<1>1. PICK e : e = Claimed(s, a)
  OBVIOUS
<1>2. e.event = "CLAIM_RESOLUTION" /\ e.outcome = "CLAIMED" /\ ProjectEvent(e, me) = e
  BY <1>1 DEF Claimed, ProjectEvent
<1> QED
  BY <1>1, <1>2 DEF After, ApplyEvent

\* A claim for a pung or a run is told by its resolution, ...
LEMMA PairTold ==
    ASSUME Viewer, HandInv, SoundInv, NEW s \in Seats, NEW a, Peng(s, a) \/ Chi(s, a), me' = me,
           NEW b, Matches(b), NEW d, d = After(b, Claimed(s, a))
    PROVE  Matches(d)'
<1>1. a \in LegalActions(s) /\ a.type \in {"PENG", "CHI"}
  BY DEF Peng, Chi
<1>2. phase = "CLAIM_WINDOW" /\ lastDiscard # None
  BY <1>1, LegalClaim
<1>3. lastDiscard.seat # s
  BY <1>1, <1>2 DEF LegalActions, ClaimActions
<1>4. b.lastDiscard = lastDiscard /\ (s = me => b.lastDrawn = None) /\ Contents(b, concealed, melds, discards)
  BY <1>2, <1>3 DEF Matches
<1>5. d = ApplyClaimed(b, Claimed(s, a))
  BY <1>2, <1>4, ClaimRead
<1>6. /\ Contents(d, concealed', melds', discards')
      /\ d.phase = "DISCARD" /\ d.actor = s /\ d.lastDrawn = b.lastDrawn
  BY <1>4, <1>5, PengShown, ChiShown
<1>7. phase' = "DISCARD" /\ actor' = s /\ lastDrawn' = None /\ deck' = deck
  BY DEF Peng, Chi, HandToClaimer
<1>8. Contents(d, concealed, melds, discards)'
  BY <1>6, <1>7, ContentsNext
<1> QED
  BY <1>4, <1>6, <1>7, <1>8 DEF Matches

\* ... for a kong by its resolution and by what follows it.
LEMMA KongTold ==
    ASSUME Viewer, HandInv, SoundInv, NEW s \in Seats, NEW a, GangExposed(s, a), me' = me,
           NEW b, Matches(b)
    PROVE  \E f, d : /\ Follow = <<f>>
                     /\ d = After(After(b, Claimed(s, a)), f) /\ Matches(d)'
<1>1. a \in LegalActions(s) /\ a.type = "GANG" /\ a.kind = "EXPOSED" /\ deck' = deck
  BY DEF GangExposed
<1>2. phase = "CLAIM_WINDOW" /\ lastDiscard # None
  BY <1>1, LegalClaim
<1>3. b.lastDiscard = lastDiscard /\ Contents(b, concealed, melds, discards)
  BY <1>2 DEF Matches
<1>4. PICK c : c = After(b, Claimed(s, a))
  OBVIOUS
<1>5. PICK X \in SUBSET concealed[s] :
        /\ Contents(c, [concealed EXCEPT ![s] = @ \ X], melds', discards')
        /\ InternalDraw(s, [concealed EXCEPT ![s] = @ \ X])
  BY <1>2, <1>3, <1>4, ClaimRead, GangShown
<1>6. PICK hands : hands = [concealed EXCEPT ![s] = @ \ X]
  OBVIOUS
<1>7. hands \in Hands /\ IsFiniteSet(hands[s]) /\ hands[s] \subseteq 1 .. drawn
  <2>1. hands \in Hands /\ concealed \in Hands
    BY <1>6, FewerTiles, Positions DEF HandInv
  <2>2. hands[s] \subseteq concealed[s]
    BY <1>6, <2>1 DEF Hands
  <2> QED
    BY <2>1, <2>2, HandFinite, FS_Subset
<1>8. PICK f, d : Follow = <<f>> /\ d = After(c, f) /\ Matches(d)'
  BY <1>1, <1>5, <1>6, <1>7, DrawTold
<1> QED
  BY <1>4, <1>8

\* A PASS is told by nothing, the last one by what follows it.
LEMMA PassTold ==
    ASSUME Viewer, HandInv, NEW s \in Seats, NEW a, Pass(s, a), me' = me, NEW b, Matches(b)
    PROVE  /\ phase' = "CLAIM_WINDOW" => Matches(b)'
           /\ phase' # "CLAIM_WINDOW" =>
                \E f, d : Follow = <<f>> /\ d = After(b, f) /\ Matches(d)'
<1>1. a.type = "PASS" /\ a \in LegalActions(s) /\ UNCHANGED <<deck, melds, discards>>
  BY DEF Pass
<1>2. phase = "CLAIM_WINDOW" /\ lastDiscard # None
  BY <1>1, LegalPass
<1>3. Contents(b, concealed, melds, discards)
  BY DEF Matches
<1>4. PICK rest : rest = {c \in pending : c.seat # s}
  OBVIOUS
<1>5. CASE rest = {}
  <2>1. InternalDraw(NextSeat(lastDiscard.seat), concealed)
    BY <1>4, <1>5 DEF Pass, AdvanceToNextSeat
  <2>2. NextSeat(lastDiscard.seat) \in Seats
    BY <1>2 DEF HandInv, TypeOK, NextSeat, Seats
  <2>3. concealed \in Hands /\ \A x \in Seats : IsFiniteSet(concealed[x]) /\ concealed[x] \subseteq 1 .. drawn
    BY HandFinite, Positions DEF HandInv
  <2>4. Contents(b, concealed, melds', discards')
    BY <1>1, <1>3
  <2>5. PICK t, hands : t = NextSeat(lastDiscard.seat) /\ hands = concealed
    OBVIOUS
  <2>6. \E f, d : Follow = <<f>> /\ d = After(b, f) /\ Matches(d)'
    BY <1>1, <2>1, <2>2, <2>3, <2>4, <2>5, DrawTold
  <2>7. phase' # "CLAIM_WINDOW"
    BY <2>1 DEF InternalDraw
  <2> QED
    BY <2>6, <2>7
<1>6. CASE rest # {}
  <2>1. UNCHANGED <<concealed, phase, actor, lastDrawn, lastDiscard>>
    BY <1>4, <1>6 DEF Pass
  <2>2. Contents(b, concealed', melds', discards')
    BY <1>1, <1>3, <2>1
  <2>3. Contents(b, concealed, melds, discards)'
    BY <1>1, <2>2, ContentsNext
  <2>4. Matches(b)'
    BY <1>2, <2>1, <2>3 DEF Matches
  <2> QED
    BY <1>2, <2>1, <2>4
<1> QED
  BY <1>5, <1>6

-----------------------------------------------------------------------------
(* The events of a step, one by one.                                       *)

\* What is still to be read of q, from event n + 1 on, makes board d of board b.
Reads(b, q, n, d) ==
    \E h : /\ h[n] = b /\ h[Len(q)] = d
           /\ \A i \in n + 1 .. Len(q) : h[i] = After(h[i - 1], q[i])

\* Nothing, one or two events are left to read.
LEMMA ReadNone == ASSUME NEW b, NEW q, NEW n, Len(q) = n PROVE Reads(b, q, n, b)
<1>1. PICK h : h = [i \in {n} |-> b]
  OBVIOUS
<1>2. ASSUME n \in Int, NEW i \in n + 1 .. Len(q) PROVE FALSE
  BY <1>2
<1> QED
  BY <1>1, <1>2 DEF Reads

LEMMA ReadOne ==
    ASSUME NEW b, NEW q, NEW n \in Nat, Len(q) = n + 1
    PROVE  Reads(b, q, n, After(b, q[n + 1]))
<1>1. PICK e, d : e = q[n + 1] /\ d = After(b, e)
  OBVIOUS
<1>2. PICK h : h = [i \in n .. n + 1 |-> IF i = n THEN b ELSE d]
  OBVIOUS
<1>3. h[n] = b /\ h[n + 1] = d
  BY <1>2
<1>4. \A i \in n + 1 .. Len(q) : i = n + 1
  OBVIOUS
<1> QED
  BY <1>1, <1>3, <1>4 DEF Reads

LEMMA ReadTwo ==
    ASSUME NEW b, NEW q, NEW n \in Nat, Len(q) = n + 2
    PROVE  Reads(b, q, n, After(After(b, q[n + 1]), q[n + 2]))
<1>1. PICK c, d : c = After(b, q[n + 1]) /\ d = After(c, q[n + 2])
  OBVIOUS
<1>2. PICK h : h = [i \in n .. n + 2 |-> IF i = n THEN b ELSE IF i = n + 1 THEN c ELSE d]
  OBVIOUS
<1>3. h[n] = b /\ h[n + 1] = c /\ h[n + 2] = d
  BY <1>2
<1>4. \A i \in n + 1 .. Len(q) : i = n + 1 \/ i = n + 2
  OBVIOUS
<1>5. (n + 1) - 1 = n /\ (n + 2) - 1 = n + 1
  OBVIOUS
<1> QED
  BY <1>1, <1>3, <1>4, <1>5 DEF Reads

\* The viewer is sent one more event.
LEMMA ReadOn ==
    ASSUME NEW b, NEW q, NEW d, NEW n \in Nat, Len(q) \in Nat, n < Len(q), Reads(b, q, n, d)
    PROVE  Reads(After(b, q[n + 1]), q, n + 1, d)
<1>1. PICK h : /\ h[n] = b /\ h[Len(q)] = d
               /\ \A i \in n + 1 .. Len(q) : h[i] = After(h[i - 1], q[i])
  BY DEF Reads
<1>2. h[n + 1] = After(b, q[n + 1])
  <2>1. n + 1 \in n + 1 .. Len(q) /\ (n + 1) - 1 = n
    OBVIOUS
  <2> QED
    BY <1>1, <2>1
<1>3. \A i \in (n + 1) + 1 .. Len(q) : i \in n + 1 .. Len(q)
  OBVIOUS
<1> QED
  BY <1>1, <1>2, <1>3 DEF Reads

\* Events that change nothing come first.
LEMMA ReadPast ==
    ASSUME NEW b, NEW q, NEW d, NEW n \in Nat, NEW m \in Nat, Len(q) \in Nat, n <= m, m <= Len(q),
           \A i \in n + 1 .. m : After(b, q[i]) = b, Reads(b, q, m, d)
    PROVE  Reads(b, q, n, d)
<1>1. PICK h : /\ h[m] = b /\ h[Len(q)] = d
               /\ \A i \in m + 1 .. Len(q) : h[i] = After(h[i - 1], q[i])
  BY DEF Reads
<1>2. PICK g : g = [i \in n .. Len(q) |-> IF i <= m THEN b ELSE h[i]]
  OBVIOUS
<1>3. g[n] = b /\ g[Len(q)] = d
  BY <1>1, <1>2
<1>4. ASSUME NEW i \in n + 1 .. Len(q) PROVE g[i] = After(g[i - 1], q[i])
  <2>1. CASE i <= m
    <3>1. g[i] = b /\ g[i - 1] = b
      BY <1>2, <2>1
    <3> QED
      BY <2>1, <3>1
  <2>2. CASE i > m
    <3>1. g[i] = h[i] /\ i \in m + 1 .. Len(q)
      BY <1>2, <2>2
    <3>2. g[i - 1] = h[i - 1]
      BY <1>1, <1>2, <2>2
    <3> QED
      BY <1>1, <3>1, <3>2
  <2> QED
    BY <2>1, <2>2
<1> QED
  BY <1>3, <1>4 DEF Reads

\* A decision about a window and its being passed out.
LEMMA DecisionIdle ==
    ASSUME NEW b, NEW s, NEW a, a.type = "GANG" => a.kind = "EXPOSED"
    PROVE  After(b, Decision(s, a)) = b
<1>1. PICK e : e = Decision(s, a)
  OBVIOUS
<1>2. e.event = "CLAIM_DECISION" /\ e.action = a /\ ProjectEvent(e, me) = e
  BY <1>1 DEF Decision, ProjectEvent
<1> QED
  BY <1>1, <1>2 DEF After, ApplyEvent, ApplyClaimDecision

\* That a window is passed out changes no board.
LEMMA PassedIdle == ASSUME NEW b PROVE After(b, Passed) = b
<1>1. PICK e : e = Passed
  OBVIOUS
<1>2. e.event = "CLAIM_RESOLUTION" /\ e.outcome # "CLAIMED" /\ ProjectEvent(e, me) = e
  BY <1>1 DEF Passed, ProjectEvent
<1> QED
  BY <1>1, <1>2 DEF After, ApplyEvent

\* The events of a discard make a board that matches one that matches again.
LEMMA DiscardRead ==
    ASSUME Viewer, TableAll, StepDiscard, me' = me, NEW b, Matches(b)
    PROVE  \E d : Reads(b, log', 0, d) /\ Matches(d)'
<1>1. PICK s, a : s = actor /\ a = reply[actor]
  OBVIOUS
<1>2. ApplyAction(s, a) /\ log' = DiffToEvents(s, a) /\ phase = "DISCARD"
  BY <1>1 DEF StepDiscard
<1>3. s \in Seats /\ HandInv /\ SoundInv
  BY <1>1 DEF TableAll, HandInv, TypeOK
<1>4. PICK q : q = log'
  OBVIOUS
<1>5. ASSUME NEW e, NEW f, q = <<e, f>>
      PROVE  Reads(b, q, 0, After(After(b, e), f))
  <2>1. Len(q) = 2 /\ q[1] = e /\ q[2] = f
    BY <1>5
  <2>2. PICK n : n = 0
    OBVIOUS
  <2>3. n \in Nat /\ Len(q) = n + 2 /\ q[n + 1] = e /\ q[n + 2] = f
    BY <2>1, <2>2
  <2>4. Reads(b, q, n, After(After(b, q[n + 1]), q[n + 2]))
    BY <2>3, ReadTwo
  <2> QED
    BY <2>2, <2>3, <2>4
<1>6. CASE Play(s, a)
  <2>1. PICK e, f, d : /\ DiffToEvents(s, a) = <<e, f>>
                       /\ d = After(After(b, e), f) /\ Matches(d)'
    BY <1>3, <1>6, PlayTold
  <2> QED
    BY <1>2, <1>4, <1>5, <2>1
<1>7. CASE GangConcealed(s, a) \/ GangAdded(s, a)
  <2>1. PICK e, f, d : /\ DiffToEvents(s, a) = <<e, f>>
                       /\ d = After(After(b, e), f) /\ Matches(d)'
    BY <1>3, <1>7, SelfKongTold
  <2> QED
    BY <1>2, <1>4, <1>5, <2>1
<1>8. CASE Hu(s, a)
  <2>1. PICK e, d : Follow = <<e>> /\ d = After(b, e) /\ Matches(d)'
    BY <1>8, HuTold
  <2>2. DiffToEvents(s, a) = Follow
    <3>1. a.type = "HU"
      BY <1>8 DEF Hu
    <3>2. a.type \notin {"PLAY", "PASS", "PENG", "CHI", "GANG"}
      BY <3>1
    <3> QED
      BY <3>1, <3>2 DEF DiffToEvents
  <2>3. PICK n : n = 0
    OBVIOUS
  <2>4. n \in Nat /\ Len(q) = n + 1 /\ q[n + 1] = e
    BY <1>2, <1>4, <2>1, <2>2, <2>3
  <2>5. Reads(b, q, n, After(b, q[n + 1]))
    BY <2>4, ReadOne
  <2> QED
    BY <1>4, <2>1, <2>3, <2>4, <2>5
<1>9. ~Pass(s, a) /\ ~Peng(s, a) /\ ~Chi(s, a) /\ ~GangExposed(s, a)
  <2>1. ~Pass(s, a)
    BY <1>2, LegalPass DEF Pass
  <2>2. ~Peng(s, a) /\ ~Chi(s, a) /\ ~GangExposed(s, a)
    BY <1>2, LegalClaim DEF Peng, Chi, GangExposed
  <2> QED
    BY <2>1, <2>2
<1> QED
  BY <1>2, <1>6, <1>7, <1>8, <1>9 DEF ApplyAction

\* The decisions of a window change no board.
LEMMA DecisionsIdle ==
    ASSUME TableAll, step = "asking", phase = "CLAIM_WINDOW", NEW b,
           NEW D, D = DecisionsOf(InSeatOrder(Prompted)), NEW i \in 1 .. Len(D)
    PROVE  After(b, D[i]) = b
<1>1. PICK S, n : S = Prompted /\ n = Cardinality(S)
  OBVIOUS
<1>2. S \in SUBSET Seats
  BY <1>1 DEF Prompted
<1>3. Len(D) = n /\ Told(D, n, S)
  BY <1>1, <1>2, Decided
<1>4. D[i] \in {D[j] : j \in 1 .. n}
  BY <1>3
<1>5. PICK s \in S : D[i] = Decision(s, reply[s])
  BY <1>3, <1>4 DEF Told
<1>6. reply[s] \in LegalActions(s)
  BY <1>1, <1>5 DEF TableAll, TableInv, RepliesLegal
<1>7. reply[s].type = "GANG" => reply[s].kind = "EXPOSED"
  BY <1>6, ClaimKinds
<1> QED
  BY <1>5, <1>7, DecisionIdle

\* What the action of the winner adds to the decisions.
LEMMA WinnerTold ==
    ASSUME Viewer, TableAll, phase = "CLAIM_WINDOW", NEW s \in Seats, NEW a, ApplyAction(s, a),
           a.type # "PASS", me' = me, NEW b, Matches(b)
    PROVE  \/ \E e, d : /\ WithoutDecision(DiffToEvents(s, a)) = <<e>>
                        /\ d = After(b, e) /\ Matches(d)'
           \/ \E e, f, d : /\ WithoutDecision(DiffToEvents(s, a)) = <<e, f>>
                           /\ d = After(After(b, e), f) /\ Matches(d)'
<1>1. HandInv /\ SoundInv
  BY DEF TableAll
<1>2. CASE Peng(s, a) \/ Chi(s, a)
  <2>1. PICK d : d = After(b, Claimed(s, a))
    OBVIOUS
  <2>2. Matches(d)'
    BY <1>1, <1>2, <2>1, PairTold
  <2>3. a.type \in {"PENG", "CHI"}
    BY <1>2 DEF Peng, Chi
  <2>4. DiffToEvents(s, a) = <<Decision(s, a), Claimed(s, a)>>
    BY <2>3 DEF DiffToEvents
  <2>5. WithoutDecision(DiffToEvents(s, a)) = <<Claimed(s, a)>>
    <3>1. PICK x, y : x = Decision(s, a) /\ y = Claimed(s, a)
      OBVIOUS
    <3>2. x.event = "CLAIM_DECISION"
      BY <3>1 DEF Decision
    <3>3. Head(<<x, y>>) = x /\ Tail(<<x, y>>) = <<y>>
      OBVIOUS
    <3> QED
      BY <2>4, <3>1, <3>2, <3>3 DEF WithoutDecision
  <2> QED
    BY <2>1, <2>2, <2>5
<1>3. CASE GangExposed(s, a)
  <2>1. PICK f, d : Follow = <<f>> /\ d = After(After(b, Claimed(s, a)), f) /\ Matches(d)'
    BY <1>1, <1>3, KongTold
  <2>2. a.type = "GANG" /\ a.kind = "EXPOSED"
    BY <1>3 DEF GangExposed
  <2>3. a.type \notin {"PLAY", "PASS", "PENG", "CHI", "HU"}
    BY <2>2
  <2>4. DiffToEvents(s, a) = <<Decision(s, a)>> \o <<Claimed(s, a)>> \o Follow
    BY <2>2, <2>3 DEF DiffToEvents
  <2>5. WithoutDecision(DiffToEvents(s, a)) = <<Claimed(s, a), f>>
    <3>1. PICK x, y : x = Decision(s, a) /\ y = Claimed(s, a)
      OBVIOUS
    <3>2. x.event = "CLAIM_DECISION"
      BY <3>1 DEF Decision
    <3>3. DiffToEvents(s, a) = <<x, y>> \o <<f>>
      BY <2>1, <2>4, <3>1, PairOf
    <3>4. <<x, y>> \o <<f>> = <<x, y, f>>
      BY TripleOf
    <3>5. Head(<<x, y, f>>) = x /\ Tail(<<x, y, f>>) = <<y, f>>
      OBVIOUS
    <3> QED
      BY <3>1, <3>2, <3>3, <3>4, <3>5 DEF WithoutDecision
  <2> QED
    BY <2>1, <2>5
<1>4. CASE Hu(s, a)
  <2>1. PICK e, d : Follow = <<e>> /\ e.event = "HAND_END" /\ d = After(b, e) /\ Matches(d)'
    BY <1>4, HuTold
  <2>2. DiffToEvents(s, a) = Follow
    <3>1. a.type = "HU"
      BY <1>4 DEF Hu
    <3>2. a.type \notin {"PLAY", "PASS", "PENG", "CHI", "GANG"}
      BY <3>1
    <3> QED
      BY <3>1, <3>2 DEF DiffToEvents
  <2>3. WithoutDecision(<<e>>) = <<e>>
    <3>1. Head(<<e>>) = e /\ e.event # "CLAIM_DECISION"
      BY <2>1
    <3> QED
      BY <3>1 DEF WithoutDecision
  <2> QED
    BY <2>1, <2>2, <2>3
<1>5. ~Play(s, a) /\ ~Pass(s, a) /\ ~GangConcealed(s, a) /\ ~GangAdded(s, a)
  BY LegalPlay, LegalKong DEF Play, Pass, GangConcealed, GangAdded
<1> QED
  BY <1>2, <1>3, <1>4, <1>5 DEF ApplyAction

\* So do the events of a window that somebody claims, the decisions of all and the
\* action of the winner.
LEMMA ClaimStepRead ==
    ASSUME Viewer, TableAll, StepClaim, me' = me, NEW b, Matches(b)
    PROVE  \E d : Reads(b, log', 0, d) /\ Matches(d)'
<1>1. step = "asking" /\ phase = "CLAIM_WINDOW"
  BY DEF StepClaim, AllIn
<1>2. PICK D, n : D = DecisionsOf(InSeatOrder(Prompted)) /\ n = Cardinality(Prompted)
  OBVIOUS
<1>3. PICK s \in ResolveClaimPriority :
        ApplyAction(s, reply[s]) /\ log' = D \o WithoutDecision(DiffToEvents(s, reply[s]))
  BY <1>2 DEF StepClaim
<1>4. s \in Seats /\ reply[s].type # "PASS"
  <2>1. PICK k \in 1 .. 4 : s \in Claimers(Priority[k])
    BY <1>3, Resolved
  <2>2. s \in Prompted /\ reply[s].type = Priority[k]
    BY <2>1 DEF Claimers
  <2> QED
    BY <2>1, <2>2 DEF Priority, Prompted
<1>5. StepLog(D, n, 0) /\ Len(D) = n /\ n \in Nat
  BY <1>2, Decided DEF Prompted
<1>6. PICK q, E : q = log' /\ E = WithoutDecision(DiffToEvents(s, reply[s]))
  OBVIOUS
<1>7. ASSUME NEW k \in Nat, Len(E) = k, \E T : E \in Seq(T)
      PROVE  Len(q) = n + k /\ (\A i \in 1 .. n : q[i] = D[i]) /\ (\A i \in 1 .. k : q[n + i] = E[i])
  <2>1. q = D \o E
    BY <1>3, <1>6
  <2>2. \E T : D \in Seq(T)
    BY <1>5 DEF StepLog
  <2>3. /\ Len(q) = Len(D) + Len(E) /\ \A i \in 1 .. Len(D) : q[i] = D[i]
        /\ \A i \in 1 .. Len(D) + Len(E) : i > Len(D) => q[i] = E[i - Len(D)]
    BY <1>7, <2>1, <2>2, Joins
  <2>4. ASSUME NEW i \in 1 .. k PROVE q[n + i] = E[i]
    <3>1. n + i \in 1 .. n + k /\ n + i > n /\ (n + i) - n = i
      BY <1>5
    <3> QED
      BY <1>5, <1>7, <2>3, <3>1
  <2> QED
    BY <1>5, <1>7, <2>3, <2>4
<1>8. ASSUME NEW d, Len(q) \in Nat, n <= Len(q), \A i \in 1 .. n : q[i] = D[i], Reads(b, q, n, d)
      PROVE  Reads(b, q, 0, d)
  <2>1. \A i \in 1 .. n : After(b, q[i]) = b
    BY <1>1, <1>2, <1>5, <1>8, DecisionsIdle
  <2>2. PICK z : z = 0
    OBVIOUS
  <2>3. z \in Nat /\ z <= n /\ \A i \in z + 1 .. n : After(b, q[i]) = b
    BY <1>5, <2>1, <2>2
  <2>4. Reads(b, q, z, d)
    BY <1>5, <1>8, <2>3, ReadPast
  <2> QED
    BY <2>2, <2>4
<1>9. CASE \E e, d : E = <<e>> /\ d = After(b, e) /\ Matches(d)'
  <2>1. PICK e, d : E = <<e>> /\ d = After(b, e) /\ Matches(d)'
    BY <1>9
  <2>2. PICK k : k = 1
    OBVIOUS
  <2>3. k \in Nat /\ Len(E) = k /\ E \in Seq({e}) /\ E[1] = e
    BY <2>1, <2>2
  <2>4. Len(q) = n + 1 /\ (\A i \in 1 .. n : q[i] = D[i]) /\ q[n + 1] = e
    BY <1>7, <2>2, <2>3
  <2>5. Reads(b, q, n, d)
    BY <1>5, <2>1, <2>4, ReadOne
  <2>6. Reads(b, q, 0, d)
    BY <1>5, <1>8, <2>4, <2>5
  <2> QED
    BY <1>6, <2>1, <2>6
<1>10. CASE \E e, f, d : E = <<e, f>> /\ d = After(After(b, e), f) /\ Matches(d)'
  <2>1. PICK e, f, d : E = <<e, f>> /\ d = After(After(b, e), f) /\ Matches(d)'
    BY <1>10
  <2>2. PICK k : k = 2
    OBVIOUS
  <2>3. k \in Nat /\ Len(E) = k /\ E \in Seq({e, f}) /\ E[1] = e /\ E[2] = f
    BY <2>1, <2>2
  <2>4. Len(q) = n + 2 /\ (\A i \in 1 .. n : q[i] = D[i]) /\ q[n + 1] = e /\ q[n + 2] = f
    BY <1>7, <2>2, <2>3
  <2>5. Reads(b, q, n, d)
    BY <1>5, <2>1, <2>4, ReadTwo
  <2>6. Reads(b, q, 0, d)
    BY <1>5, <1>8, <2>4, <2>5
  <2> QED
    BY <1>6, <2>1, <2>6
<1> QED
  BY <1>1, <1>3, <1>4, <1>6, <1>9, <1>10, WinnerTold

\* One PASS, or the last one and what the engine does then.
LEMMA PassRead ==
    ASSUME Viewer, TableAll, LogInv, ApplyAllPass, me' = me, NEW b, Matches(b),
           NEW n, n = Len(log)
    PROVE  /\ Len(log') \in Nat /\ n <= Len(log')
           /\ \E d : Reads(b, log', n, d) /\ Matches(d)'
<1>1. phase = "CLAIM_WINDOW" /\ \A t \in Asked : reply[t] = PASS
  BY AllPass
<1>2. PICK s \in Lowest(Asked, 1) :
        ApplyAction(s, reply[s]) /\ log' = log \o DiffToEvents(s, reply[s])
  BY DEF ApplyAllPass
<1>3. reply[s] = PASS /\ s \in Seats /\ HandInv /\ SoundInv /\ DrawnIsHeld
  <2>1. s \in Asked /\ HandInv /\ SoundInv /\ DrawnIsHeld
    BY <1>2 DEF Lowest, TableAll
  <2> QED
    BY <1>1, <2>1, PassLegal
<1>4. PICK a : a = PASS
  OBVIOUS
<1>5. a.type = "PASS" /\ ApplyAction(s, a) /\ log' = log \o DiffToEvents(s, a)
  BY <1>2, <1>3, <1>4 DEF PASS
<1>6. Pass(s, a)
  BY <1>5, ActionEnds
<1>7. \E T : log \in Seq(T)
  <2>1. step = "asking" \/ step = "passing"
    BY DEF ApplyAllPass, AllIn
  <2>2. CASE step = "asking"
    BY <2>2 DEF LogInv
  <2>3. CASE step = "passing"
    BY <2>3 DEF LogInv, StepLog
  <2> QED
    BY <2>1, <2>2, <2>3
<1>8. n \in Nat
  BY <1>7
<1>9. PICK q, E : q = log' /\ E = DiffToEvents(s, a)
  OBVIOUS
<1>10. ASSUME NEW k \in Nat, Len(E) = k, \E T : E \in Seq(T)
       PROVE  Len(q) = n + k /\ (\A i \in 1 .. k : q[n + i] = E[i])
  <2>1. q = log \o E
    BY <1>5, <1>9
  <2>2. PICK p : p = log
    OBVIOUS
  <2>3. /\ Len(q) = Len(p) + Len(E)
        /\ \A i \in 1 .. Len(p) + Len(E) : i > Len(p) => q[i] = E[i - Len(p)]
    BY <1>7, <1>10, <2>1, <2>2, Joins
  <2>4. ASSUME NEW i \in 1 .. k PROVE q[n + i] = E[i]
    <3>1. n + i \in 1 .. n + k /\ n + i > n /\ (n + i) - n = i
      BY <1>8
    <3> QED
      BY <1>8, <1>10, <2>2, <2>3, <3>1
  <2> QED
    BY <1>10, <2>2, <2>3, <2>4
<1>11. PICK x : x = Decision(s, a)
  OBVIOUS
<1>12. After(b, x) = b
  BY <1>5, <1>11, DecisionIdle
<1>13. CASE phase' = "CLAIM_WINDOW"
  <2>1. Matches(b)'
    BY <1>3, <1>6, <1>13, PassTold
  <2>2. E = <<x>>
    <3>1. DiffToEvents(s, a) = <<Decision(s, a)>> \o <<>>
      BY <1>5, <1>13 DEF DiffToEvents
    <3> QED
      BY <1>9, <1>11, <3>1, PairOf
  <2>3. PICK k : k = 1
    OBVIOUS
  <2>4. k \in Nat /\ Len(E) = k /\ E \in Seq({x}) /\ E[1] = x
    BY <2>2, <2>3
  <2>5. Len(q) = n + 1 /\ q[n + 1] = x
    BY <1>10, <2>3, <2>4
  <2>6. Reads(b, q, n, b)
    BY <1>8, <1>12, <2>5, ReadOne
  <2> QED
    BY <1>8, <1>9, <2>1, <2>5, <2>6
<1>14. CASE phase' # "CLAIM_WINDOW"
  <2>1. PICK f, d : Follow = <<f>> /\ d = After(b, f) /\ Matches(d)'
    BY <1>3, <1>6, <1>14, PassTold
  <2>2. PICK y : y = Passed
    OBVIOUS
  <2>3. After(b, y) = b
    BY <2>2, PassedIdle
  <2>4. E = <<x, y, f>>
    <3>1. DiffToEvents(s, a) = <<Decision(s, a)>> \o (<<Passed>> \o Follow)
      BY <1>5, <1>14 DEF DiffToEvents
    <3>2. <<y>> \o <<f>> = <<y, f>>
      BY PairOf
    <3>3. <<x>> \o <<y, f>> = <<x, y, f>>
      BY TripleOf
    <3> QED
      BY <1>9, <1>11, <2>1, <2>2, <3>1, <3>2, <3>3
  <2>5. PICK k : k = 3
    OBVIOUS
  <2>6. k \in Nat /\ Len(E) = k /\ E \in Seq({x, y, f}) /\ E[1] = x /\ E[2] = y /\ E[3] = f
    BY <2>4, <2>5
  <2>7. Len(q) = n + 3 /\ q[n + 1] = x /\ q[n + 2] = y /\ q[n + 3] = f
    BY <1>10, <2>5, <2>6
  <2>8. PICK m : m = n + 2
    OBVIOUS
  <2>9. m \in Nat /\ Len(q) = m + 1 /\ q[m + 1] = f /\ n <= m /\ m <= Len(q) /\ Len(q) \in Nat
    BY <1>8, <2>7, <2>8
  <2>10. Reads(b, q, m, d)
    BY <2>1, <2>9, ReadOne
  <2>11. \A i \in n + 1 .. m : After(b, q[i]) = b
    <3>1. \A i \in n + 1 .. m : i = n + 1 \/ i = n + 2
      BY <1>8, <2>8
    <3> QED
      BY <1>12, <2>3, <2>7, <3>1
  <2>12. Reads(b, q, n, d)
    BY <1>8, <2>9, <2>10, <2>11, ReadPast
  <2> QED
    BY <1>8, <1>9, <2>1, <2>7, <2>12
<1> QED
  BY <1>13, <1>14

-----------------------------------------------------------------------------
(* The viewer and the manager.                                             *)

\* What is to be read depends on the viewer alone, not on the state of the hand.
LEMMA ReadsNext ==
    ASSUME me' = me, NEW b, b = board', NEW q, q = log', NEW n, n = sent', NEW d, Reads(b, q, n, d)
    PROVE  Reads(board, log, sent, d)'
<1>1. \A x, e : After(x, e)' = After(x, e)
  BY DEF After
<1>2. PICK h : /\ h[n] = b /\ h[Len(q)] = d
               /\ \A i \in n + 1 .. Len(q) : h[i] = After(h[i - 1], q[i])
  BY DEF Reads
<1>3. \A i \in n + 1 .. Len(q) : h[i] = After(h[i - 1], q[i])'
  BY <1>1, <1>2
<1> QED
  BY <1>2, <1>3 DEF Reads

\* The claims that wait are not projected.
LEMMA SameProjection ==
    ASSUME me' = me, UNCHANGED <<deck, drawn, concealed, melds, discards, flowers, phase, actor,
                                 lastDrawn, lastDiscard, terminal>>
    PROVE  Project(me)' = Project(me)
<1>1. (IF me = None THEN EmptyBag ELSE KindsOf(concealed[me]))'
        = IF me = None THEN EmptyBag ELSE KindsOf(concealed[me])
  BY DEF KindsOf
<1>2. [s \in Seats \ {me} |-> Cardinality(concealed[s])]'
        = [s \in Seats \ {me} |-> Cardinality(concealed[s])]
  OBVIOUS
<1>3. [s \in Seats |-> ShownMelds(s)]' = [s \in Seats |-> ShownMelds(s)]
  BY DEF ShownMelds, Shown
<1>4. [s \in Seats |-> [n \in DOMAIN discards[s] |-> deck[discards[s][n]]]]'
        = [s \in Seats |-> [n \in DOMAIN discards[s] |-> deck[discards[s][n]]]]
  OBVIOUS
<1>5. [s \in Seats |-> Cardinality(flowers[s])]' = [s \in Seats |-> Cardinality(flowers[s])]
  OBVIOUS
<1>6. Wall' = Wall
  BY DEF Wall
<1> QED
  BY <1>1, <1>2, <1>3, <1>4, <1>5, <1>6 DEF Project

\* A board still matches where the hand stays.
LEMMA MatchesNext ==
    ASSUME me' = me, UNCHANGED <<deck, concealed, melds, discards, phase, actor, lastDrawn, lastDiscard>>,
           NEW d, Matches(d)
    PROVE  Matches(d)'
<1>1. Contents(d, concealed', melds', discards')
  BY DEF Matches
<1>2. Contents(d, concealed, melds, discards)'
  BY <1>1, ContentsNext
<1> QED
  BY <1>2 DEF Matches

\* No step puts a draw of another seat into a window.
LEMMA DrawnInWindow ==
    ASSUME HandInv, DrawnIsHeld, WindowDrawn, [Next]_vars
    PROVE  WindowDrawn'
<1>1. CASE UNCHANGED vars
  BY <1>1 DEF vars, WindowDrawn
<1>2. CASE Next
  <2>0. PICK s \in Seats : \E a \in LegalActions(s) : ApplyAction(s, a)
    BY <1>2 DEF Next
  <2>1. PICK a \in LegalActions(s) : ApplyAction(s, a)
    BY <2>0
  <2>2. CASE Play(s, a)
    <3>1. s = actor /\ phase = "DISCARD"
      BY <2>2, LegalPlay DEF Play
    <3>2. CASE Opportunities(a.tile, s) = {}
      BY <2>2, <3>2 DEF Play, AdvanceToNextSeat, InternalDraw, WindowDrawn
    <3>3. CASE Opportunities(a.tile, s) # {}
      <4>1. lastDrawn' = lastDrawn /\ lastDiscard' = [seat |-> s, tile |-> a.tile]
        BY <2>2, <3>3 DEF Play
      <4> QED
        BY <3>1, <4>1 DEF WindowDrawn, DrawnIsHeld
    <3> QED
      BY <3>2, <3>3
  <2>3. CASE Pass(s, a)
    <3>1. CASE {c \in pending : c.seat # s} = {}
      BY <2>3, <3>1 DEF Pass, AdvanceToNextSeat, InternalDraw, WindowDrawn
    <3>2. CASE {c \in pending : c.seat # s} # {}
      BY <2>3, <3>2 DEF Pass, WindowDrawn
    <3> QED
      BY <3>1, <3>2
  <2>4. CASE Peng(s, a) \/ Chi(s, a)
    BY <2>4 DEF Peng, Chi, HandToClaimer, WindowDrawn
  <2>5. CASE GangExposed(s, a) \/ GangConcealed(s, a) \/ GangAdded(s, a)
    BY <2>5 DEF GangExposed, GangConcealed, GangAdded, InternalDraw, WindowDrawn
  <2>6. CASE Hu(s, a)
    BY <2>6 DEF Hu, WindowDrawn
  <2> QED
    BY <2>1, <2>2, <2>3, <2>4, <2>5, <2>6 DEF ApplyAction
<1> QED
  BY <1>1, <1>2

\* The end of a hand is final.
LEMMA EndStays ==
    ASSUME TableAll, [TableNext]_tableVars, phase = "TERMINAL"
    PROVE  phase' = "TERMINAL"
<1>1. \A s : LegalActions(s) = {}
  BY DEF LegalActions
<1>2. ~Next
  BY <1>1 DEF Next
<1> QED
  BY <1>2, StepsOfHand DEF vars

\* A HAND_END among the events tells the end of the hand.
LEMMA EndLogged ==
    ASSUME LogInv, TableInv, step # "aborted", NEW i \in 1 .. Len(log), log[i].event = "HAND_END"
    PROVE  phase = "TERMINAL"
<1>1. step # "asking"
  <2>1. Len(<<>>) = 0 /\ 1 .. 0 = {}
    OBVIOUS
  <2> QED
    BY <2>1 DEF LogInv
<1>2. PICK k : k = Len(log)
  OBVIOUS
<1>3. step # "passing"
  <2> SUFFICES ASSUME step = "passing" PROVE FALSE
    OBVIOUS
  <2>1. StepLog(log, k, 0)
    BY <1>2 DEF LogInv
  <2>2. k \in Nat /\ i > k - 0
    BY <1>2, <2>1 DEF StepLog
  <2> QED
    BY <1>2, <2>2
<1>4. PICK n, e : StepTold(log, n, e, phase)
  BY <1>1, <1>3 DEF LogInv, TableInv, RepliesTyped
<1>5. k \in Nat /\ e \in {0, 1} /\ i > k - e
  BY <1>2, <1>4 DEF StepTold, StepLog
<1>6. e = 1
  BY <1>2, <1>5
<1> QED
  BY <1>4, <1>6 DEF StepTold

(***************************************************************************)
(* What the page shows is what the events it has been sent make of its      *)
(* snapshot: with those of the step that still wait, it becomes the board   *)
(* of the hand.  The snapshot that is served lags only while a finished     *)
(* step is being sent, and what waits in the buffer of a HELD seat is the   *)
(* end of a hand that has ended.                                            *)
(***************************************************************************)
SentInv ==
    /\ Len(log) \in Nat /\ sent \in 0 .. Len(log)
    /\ step = "aborted" => sent = Len(log)
ServedInv == step # "idle" => served = Project(me)
Followed == \E d : Reads(board, log, sent, d) /\ Matches(d)
ViewInv ==
    /\ ended => phase = "TERMINAL"
    /\ conn # "live" => board = None
    /\ conn = "live" => Followed

BoardInv == TableAll /\ LogInv /\ Viewer /\ WindowDrawn /\ SentInv /\ ServedInv /\ ViewInv

\* Everything is sent: the page shows the hand.
LEMMA AllSent ==
    ASSUME SentInv, ~Unsent, Followed
    PROVE  Matches(board)
<1>1. PICK n : n = Len(log)
  OBVIOUS
<1>2. n \in Nat /\ sent = n
  BY <1>1 DEF SentInv, Unsent
<1>3. PICK d : Reads(board, log, sent, d) /\ Matches(d)
  BY DEF Followed
<1>4. d = board
  BY <1>1, <1>2, <1>3 DEF Reads
<1> QED
  BY <1>3, <1>4

\* Between two steps the snapshot that is served is that of the hand.
LEMMA QuietServed ==
    ASSUME ServedInv, Quiet
    PROVE  served = Project(me)
BY DEF ServedInv, Quiet, Published

\* The manager takes its next step, when everything is sent.
LEMMA StepSent ==
    ASSUME BoardInv, StepBegins, LogInv', TableInv'
    PROVE  SentInv'
<1>1. PICK n : n = Len(log)
  OBVIOUS
<1>2. n \in Nat /\ sent = n /\ sent' = (IF log' = <<>> THEN 0 ELSE sent)
  BY <1>1 DEF BoardInv, SentInv, Unsent, Quiet, StepBegins
<1>3. CASE Ask
  <2>1. log' = <<>> /\ step' = "asking"
    BY <1>3 DEF Ask
  <2>2. Len(log') = 0 /\ sent' = 0
    BY <1>2, <2>1
  <2> QED
    BY <2>1, <2>2 DEF SentInv
<1>4. CASE StepDiscard \/ StepClaim
  <2>1. step = "asking" /\ step' = "idle"
    BY <1>4 DEF StepDiscard, StepClaim, AllIn, EndStep
  <2>2. n = 0
    BY <1>1, <2>1 DEF BoardInv, LogInv
  <2>3. sent' = 0
    BY <1>2, <2>2
  <2>4. Len(log') \in Nat
    BY <2>1 DEF LogInv, StepTold, StepLog
  <2> QED
    BY <2>1, <2>3, <2>4 DEF SentInv
<1>5. CASE ApplyAllPass
  <2>1. step' \in {"idle", "passing"}
    BY <1>5 DEF ApplyAllPass, EndStep
  <2>2. Len(log') \in Nat
    BY <2>1 DEF LogInv, StepTold, StepLog
  <2>3. n <= Len(log')
    <3>1. PICK b : b = Project(me)
      OBVIOUS
    <3>2. Matches(b) /\ me' = me
      BY <3>1, ProjectMatches DEF BoardInv, TableAll, StepBegins
    <3> QED
      BY <1>1, <1>5, <3>2, PassRead DEF BoardInv
  <2> QED
    BY <1>2, <2>1, <2>2, <2>3 DEF SentInv
<1>6. CASE Footer \/ Abort \/ \E s \in Seats : Answer(s)
  <2>1. log' = log
    BY <1>6 DEF Footer, Abort, Answer, Decide, DecideAuto, DecideFails, Settle
  <2>2. sent' = n /\ Len(log') = n
    BY <1>1, <1>2, <2>1
  <2> QED
    BY <1>2, <2>2 DEF SentInv
<1> QED
  BY <1>3, <1>4, <1>5, <1>6 DEF StepBegins, TableNext

\* The snapshot stays that of the hand until a step is over.
LEMMA StepServed ==
    ASSUME BoardInv, StepBegins
    PROVE  ServedInv'
<1>1. served = Project(me) /\ me' = me /\ served' = served
  BY QuietServed DEF BoardInv, StepBegins
<1>2. CASE Ask \/ Footer \/ Abort \/ \E s \in Seats : Answer(s)
  <2>1. UNCHANGED vars
    BY <1>2 DEF Ask, Footer, Abort, Answer, Decide, DecideAuto, DecideFails, Settle
  <2>2. Project(me)' = Project(me)
    BY <1>1, <2>1, SameProjection DEF vars
  <2> QED
    BY <1>1, <2>2 DEF ServedInv
<1>3. CASE StepDiscard \/ StepClaim
  BY <1>3 DEF StepDiscard, StepClaim, EndStep, ServedInv
<1>4. CASE ApplyAllPass
  <2>1. CASE phase' # "CLAIM_WINDOW"
    BY <1>4, <2>1 DEF ApplyAllPass, EndStep, ServedInv
  <2>2. CASE phase' = "CLAIM_WINDOW"
    <3>1. PICK s \in Lowest(Asked, 1) : ApplyAction(s, reply[s])
      BY <1>4 DEF ApplyAllPass
    <3>2. reply[s] = PASS
      BY <1>4, <3>1, AllPass DEF BoardInv, Lowest
    <3>3. PICK a : a = PASS
      OBVIOUS
    <3>4. Pass(s, a)
      <4>1. ApplyAction(s, a) /\ a.type = "PASS"
        BY <3>1, <3>2, <3>3 DEF PASS
      <4> QED
        BY <4>1, ActionEnds
    <3>5. UNCHANGED <<deck, drawn, concealed, melds, discards, flowers, phase, actor,
                      lastDrawn, lastDiscard, terminal>>
      <4>1. CASE {c \in pending : c.seat # s} = {}
        BY <2>2, <3>4, <4>1 DEF Pass, AdvanceToNextSeat, InternalDraw
      <4>2. CASE {c \in pending : c.seat # s} # {}
        BY <3>4, <4>2 DEF Pass
      <4> QED
        BY <4>1, <4>2
    <3>6. Project(me)' = Project(me)
      BY <1>1, <3>5, SameProjection
    <3> QED
      BY <1>1, <3>6 DEF ServedInv
  <2> QED
    BY <2>1, <2>2
<1> QED
  BY <1>2, <1>3, <1>4 DEF StepBegins, TableNext

\* What the step writes makes of the board that of the hand after the step.
LEMMA StepFollowed ==
    ASSUME BoardInv, StepBegins, SentInv', conn = "live"
    PROVE  Followed'
<1>1. PICK b : b = board
  OBVIOUS
<1>2. me' = me /\ board' = board /\ sent' = (IF log' = <<>> THEN 0 ELSE sent) /\ ~Unsent
  BY DEF StepBegins, Quiet
<1>3. Matches(b) /\ board' = b
  BY <1>1, <1>2, AllSent DEF BoardInv, ViewInv
<1>4. PICK q, m : q = log' /\ m = sent'
  OBVIOUS
<1>5. ASSUME NEW d, Reads(b, q, m, d), Matches(d)'
      PROVE  Followed'
  <2>1. Reads(board, log, sent, d)'
    BY <1>2, <1>3, <1>4, <1>5, ReadsNext
  <2> QED
    BY <1>5, <2>1 DEF Followed
<1>6. PICK n : n = Len(log)
  OBVIOUS
<1>7. n \in Nat /\ sent = n
  BY <1>2, <1>6 DEF BoardInv, SentInv, Unsent
<1>8. CASE Ask \/ Footer \/ Abort \/ \E s \in Seats : Answer(s)
  <2>1. UNCHANGED vars
    BY <1>8 DEF Ask, Footer, Abort, Answer, Decide, DecideAuto, DecideFails, Settle
  <2>2. Matches(b)'
    BY <1>2, <1>3, <2>1, MatchesNext DEF vars
  <2>3. m = Len(q)
    <3>1. CASE Ask
      <4>1. q = <<>> /\ m = 0
        BY <1>2, <1>4, <3>1 DEF Ask
      <4> QED
        BY <4>1
    <3>2. CASE Footer \/ Abort \/ \E s \in Seats : Answer(s)
      <4>1. q = log
        BY <1>4, <3>2 DEF Footer, Abort, Answer, Decide, DecideAuto, DecideFails, Settle
      <4>2. q = <<>> => Len(q) = 0
        OBVIOUS
      <4> QED
        BY <1>2, <1>4, <1>6, <1>7, <4>1, <4>2
    <3> QED
      BY <1>8, <3>1, <3>2
  <2>4. Reads(b, q, m, b)
    BY <2>3, ReadNone
  <2> QED
    BY <1>5, <2>2, <2>4
<1>9. CASE StepDiscard \/ StepClaim
  <2>1. m = 0
    <3>1. log = <<>>
      BY <1>9 DEF StepDiscard, StepClaim, AllIn, BoardInv, LogInv
    <3>2. sent = 0
      BY <1>6, <1>7, <3>1
    <3> QED
      BY <1>2, <1>4, <3>2
  <2>2. PICK d : Reads(b, log', 0, d) /\ Matches(d)'
    BY <1>2, <1>3, <1>9, DiscardRead, ClaimStepRead DEF BoardInv
  <2> QED
    BY <1>4, <1>5, <2>1, <2>2
<1>10. CASE ApplyAllPass
  <2>1. PICK d : Reads(b, log', n, d) /\ Matches(d)' /\ n <= Len(log')
    BY <1>2, <1>3, <1>6, <1>10, PassRead DEF BoardInv
  <2>2. m = n
    <3>1. log' = <<>> => Len(log') = 0
      OBVIOUS
    <3>2. log' = <<>> => n = 0
      BY <1>7, <2>1, <3>1
    <3> QED
      BY <1>2, <1>4, <1>7, <3>2
  <2> QED
    BY <1>4, <1>5, <2>1, <2>2
<1> QED
  BY <1>8, <1>9, <1>10 DEF StepBegins, TableNext

\* One event of the step reaches the viewer.
LEMMA ObserveKept ==
    ASSUME BoardInv, Observe, UNCHANGED tableVars
    PROVE  SentInv' /\ ServedInv' /\ ViewInv'
<1>1. /\ me' = me /\ conn' = conn /\ served' = served /\ sent' = sent + 1 /\ UNCHANGED vars
      /\ log' = log /\ step' = step
  BY DEF Observe, tableVars, managerVars
<1>2. PICK n, k : n = sent /\ k = Len(log)
  OBVIOUS
<1>3. n \in Nat /\ k \in Nat /\ n < k /\ step # "aborted"
  BY <1>2 DEF BoardInv, SentInv, Observe, Unsent
<1>4. SentInv'
  BY <1>1, <1>2, <1>3 DEF SentInv
<1>5. ServedInv'
  <2>1. Project(me)' = Project(me)
    BY <1>1, SameProjection DEF vars
  <2> QED
    BY <1>1, <2>1 DEF BoardInv, ServedInv
<1>6. PICK b, e, c : b = board /\ e = log[n + 1] /\ c = board'
  OBVIOUS
<1>7. /\ conn = "live" => c = After(b, e)
      /\ conn # "live" => c = b
      /\ ended' => ended \/ e.event = "HAND_END"
  <2>1. CASE me = None
    BY <1>2, <1>6, <2>1 DEF Observe, SpectatorObserves, After
  <2>2. CASE me # None
    BY <1>2, <1>6, <2>2 DEF Observe, SeatObserves, After
  <2> QED
    BY <2>1, <2>2
<1>8. ended' => phase' = "TERMINAL"
  <2>1. phase' = phase
    BY <1>1 DEF vars
  <2>2. e.event = "HAND_END" => phase = "TERMINAL"
    <3>1. n + 1 \in 1 .. Len(log)
      BY <1>2, <1>3
    <3>2. PICK i : i = n + 1
      OBVIOUS
    <3> QED
      BY <1>3, <1>6, <3>1, <3>2, EndLogged DEF BoardInv, TableAll
  <2> QED
    BY <1>7, <2>1, <2>2 DEF BoardInv, ViewInv
<1>9. conn' # "live" => board' = None
  BY <1>1, <1>6, <1>7 DEF BoardInv, ViewInv
<1>10. ASSUME conn = "live" PROVE Followed'
  <2>1. PICK d : Reads(b, log, n, d) /\ Matches(d)
    BY <1>2, <1>6, <1>10 DEF BoardInv, ViewInv, Followed
  <2>2. PICK q : q = log
    OBVIOUS
  <2>3. Len(q) \in Nat /\ n < Len(q) /\ Reads(b, q, n, d) /\ e = q[n + 1]
    BY <1>2, <1>3, <1>6, <2>1, <2>2
  <2>4. Reads(After(b, q[n + 1]), q, n + 1, d)
    BY <1>3, <2>3, ReadOn
  <2>5. PICK m : m = n + 1
    OBVIOUS
  <2>6. Reads(c, q, m, d)
    BY <1>7, <1>10, <2>3, <2>4, <2>5
  <2>7. c = board' /\ q = log' /\ m = sent'
    BY <1>1, <1>2, <1>6, <2>2, <2>5
  <2>8. Reads(board, log, sent, d)'
    BY <1>1, <2>6, <2>7, ReadsNext
  <2>9. Matches(d)'
    BY <1>1, <2>1, MatchesNext DEF vars
  <2> QED
    BY <2>8, <2>9 DEF Followed
<1> QED
  BY <1>1, <1>4, <1>5, <1>8, <1>9, <1>10 DEF ViewInv

\* A page comes between two steps, or goes; the snapshot is replaced.
LEMMA ComeAndGo ==
    ASSUME BoardInv, UNCHANGED tableVars, "within_step" \notin Moments,
           SeatReturns \/ Spectate \/ SocketDropped \/ OnHandState
    PROVE  SentInv' /\ ServedInv' /\ ViewInv'
<1>1. me' = me /\ sent' = sent /\ UNCHANGED vars /\ log' = log /\ step' = step
  BY DEF SeatReturns, Spectate, SocketDropped, OnHandState, tableVars, managerVars
<1>2. SentInv'
  BY <1>1 DEF BoardInv, SentInv
<1>3. Project(me)' = Project(me)
  BY <1>1, SameProjection DEF vars
<1>4. served' = served \/ served' = Project(me)
  BY DEF SeatReturns, Spectate, SocketDropped, OnHandState
<1>5. ServedInv'
  BY <1>1, <1>3, <1>4 DEF BoardInv, ServedInv
<1>6. phase' = phase
  BY <1>1 DEF vars
<1>7. CASE SocketDropped
  BY <1>2, <1>5, <1>6, <1>7 DEF SocketDropped, BoardInv, ViewInv
<1>8. CASE OnHandState
  <2>1. conn' = conn /\ board' = board /\ ended' = ended
    BY <1>8 DEF OnHandState
  <2>2. ASSUME Followed PROVE Followed'
    <3>1. PICK b, q, n : b = board /\ q = log /\ n = sent
      OBVIOUS
    <3>2. PICK d : Reads(b, q, n, d) /\ Matches(d)
      BY <2>2, <3>1 DEF Followed
    <3>3. b = board' /\ q = log' /\ n = sent'
      BY <1>1, <2>1, <3>1
    <3>4. Reads(board, log, sent, d)'
      BY <1>1, <3>2, <3>3, ReadsNext
    <3>5. Matches(d)'
      BY <1>1, <3>2, MatchesNext DEF vars
    <3> QED
      BY <3>4, <3>5 DEF Followed
  <2> QED
    BY <1>2, <1>5, <1>6, <2>1, <2>2 DEF BoardInv, ViewInv
<1>9. CASE SeatReturns \/ Spectate
  <2>1. BetweenSteps
    BY <1>9 DEF SeatReturns, Spectate, Moment
  <2>2. PICK p : p = Project(me)
    OBVIOUS
  <2>3. served = p /\ Matches(p)
    BY <2>1, <2>2, QuietServed, ProjectMatches DEF BetweenSteps, BoardInv, TableAll
  <2>4. PICK c : c = board'
    OBVIOUS
  <2>5. Matches(c)
    <3>1. CASE c = p
      BY <2>3, <3>1
    <3>2. CASE ended /\ c = ApplyHandEnd(p)
      <4>1. phase = "TERMINAL"
        BY <3>2 DEF BoardInv, ViewInv
      <4>2. c = [p EXCEPT !.phase = "TERMINAL", !.settled = @ + 1]
        BY <3>2 DEF ApplyHandEnd
      <4>3. Contents(p, concealed, melds, discards)
        BY <2>3 DEF Matches
      <4>4. /\ IsBoard(c) /\ c.hand = p.hand /\ c.counts = p.counts /\ c.melds = p.melds
            /\ c.piles = p.piles /\ c.phase = "TERMINAL"
        BY <4>2, <4>3 DEF Contents, IsBoard, Fields
      <4>5. Contents(c, concealed, melds, discards)
        BY <4>3, <4>4 DEF Contents
      <4> QED
        BY <4>1, <4>4, <4>5 DEF Matches
    <3> QED
      BY <1>9, <2>3, <2>4, <3>1, <3>2 DEF SeatReturns, Spectate
  <2>6. Matches(c)'
    BY <1>1, <2>5, MatchesNext DEF vars
  <2>7. PICK q, n : q = log /\ n = sent
    OBVIOUS
  <2>8. Len(q) = n
    BY <2>1, <2>7 DEF BetweenSteps, Quiet, Unsent, BoardInv, SentInv
  <2>9. Reads(c, q, n, c)
    BY <2>8, ReadNone
  <2>10. c = board' /\ q = log' /\ n = sent'
    BY <1>1, <2>4, <2>7
  <2>11. Reads(board, log, sent, c)'
    BY <1>1, <2>9, <2>10, ReadsNext
  <2>12. conn' = "live" /\ (ended' => ended)
    BY <1>9 DEF SeatReturns, Spectate
  <2> QED
    BY <1>2, <1>5, <1>6, <2>6, <2>11, <2>12 DEF Followed, BoardInv, ViewInv
<1> QED
  BY <1>7, <1>8, <1>9

\* The first state, and each step.
LEMMA BoardInit == ClientInit => BoardInv
<1> SUFFICES ASSUME ClientInit PROVE BoardInv
  OBVIOUS
<1>1. TableAll /\ LogInv
  <2>1. TableInit
    BY DEF ClientInit
  <2>2. TableAll
    BY <2>1, TableStarts
  <2> QED
    BY <2>1, <2>2, LogStarts
<1>2. phase = "DISCARD" /\ step = "idle" /\ log = <<>>
  BY DEF ClientInit, TableInit, Init, Deal
<1>3. Viewer
  BY ClientAssumption DEF ClientInit, Viewer, Seats
<1>4. WindowDrawn
  BY <1>2 DEF WindowDrawn
<1>5. SentInv /\ ServedInv
  BY <1>2 DEF ClientInit, SentInv, ServedInv
<1>6. ASSUME conn = "live" PROVE Followed
  <2>1. PICK p, q, n : p = board /\ q = log /\ n = sent
    OBVIOUS
  <2>2. p = Project(me) /\ Len(q) = n
    BY <1>2, <1>6, <2>1 DEF ClientInit
  <2>3. Matches(p)
    BY <1>1, <1>3, <1>4, <2>2, ProjectMatches DEF TableAll
  <2>4. Reads(p, q, n, p)
    BY <2>2, ReadNone
  <2> QED
    BY <2>1, <2>3, <2>4 DEF Followed
<1>7. ViewInv
  BY <1>6 DEF ViewInv, ClientInit
<1> QED
  BY <1>1, <1>3, <1>4, <1>5, <1>7 DEF BoardInv

LEMMA BoardKept ==
    ASSUME "within_step" \notin Moments, BoardInv, [ClientNext]_<<tableVars, clientVars>>
    PROVE  BoardInv'
<1>1. [TableNext]_tableVars /\ me' = me
  BY DEF ClientNext, StepBegins, Observe, OnHandState, SeatReturns, Spectate, SocketDropped, clientVars
<1>2. TableAll' /\ LogInv'
  BY <1>1, TableKept, LogKept DEF BoardInv
<1>3. Viewer'
  BY <1>1 DEF BoardInv, Viewer, Seats
<1>4. WindowDrawn'
  <2>1. [Next]_vars
    BY <1>1, StepsOfHand DEF BoardInv
  <2> QED
    BY <2>1, DrawnInWindow DEF BoardInv, TableAll
<1>5. SentInv' /\ ServedInv' /\ ViewInv'
  <2>1. CASE StepBegins
    <3>1. SentInv' /\ ServedInv'
      BY <1>2, <2>1, StepSent, StepServed DEF TableAll
    <3>2. conn = "live" => Followed'
      BY <2>1, <3>1, StepFollowed
    <3>3. conn' = conn /\ board' = board /\ ended' = ended
      BY <2>1 DEF StepBegins
    <3>4. ended' => phase' = "TERMINAL"
      BY <1>1, <3>3, EndStays DEF BoardInv, ViewInv
    <3> QED
      BY <3>1, <3>2, <3>3, <3>4 DEF BoardInv, ViewInv
  <2>2. CASE Observe /\ UNCHANGED tableVars
    BY <2>2, ObserveKept
  <2>3. CASE (SeatReturns \/ Spectate \/ SocketDropped \/ OnHandState) /\ UNCHANGED tableVars
    BY <2>3, ComeAndGo
  <2>4. CASE UNCHANGED <<tableVars, clientVars>>
    <3>1. /\ me' = me /\ conn' = conn /\ board' = board /\ served' = served /\ sent' = sent
          /\ ended' = ended /\ UNCHANGED vars /\ log' = log /\ step' = step
      BY <2>4 DEF clientVars, tableVars, managerVars
    <3>2. SentInv'
      BY <3>1 DEF BoardInv, SentInv
    <3>3. ServedInv'
      BY <3>1, SameProjection DEF vars, BoardInv, ServedInv
    <3>4. ASSUME Followed PROVE Followed'
      <4>1. PICK b, q, n : b = board /\ q = log /\ n = sent
        OBVIOUS
      <4>2. PICK d : Reads(b, q, n, d) /\ Matches(d)
        BY <3>4, <4>1 DEF Followed
      <4>3. b = board' /\ q = log' /\ n = sent'
        BY <3>1, <4>1
      <4>4. Reads(board, log, sent, d)'
        BY <3>1, <4>2, <4>3, ReadsNext
      <4>5. Matches(d)'
        BY <3>1, <4>2, MatchesNext DEF vars
      <4> QED
        BY <4>4, <4>5 DEF Followed
    <3>5. phase' = phase
      BY <3>1 DEF vars
    <3> QED
      BY <3>1, <3>2, <3>3, <3>4, <3>5 DEF BoardInv, ViewInv
  <2> QED
    BY <2>1, <2>2, <2>3, <2>4 DEF ClientNext
<1> QED
  BY <1>2, <1>3, <1>4, <1>5 DEF BoardInv

\* Whenever its page came between two steps, with however many events sent since,
\* lost or kept for its owner meanwhile, and however the hand goes on, the board of
\* a player or of a spectator shows the hand: the tiles, the melds, the piles and
\* whose turn it is.
THEOREM BoardTheorem ==
    ASSUME "within_step" \notin Moments
    PROVE  ClientSpec => []BoardFollows
<1>1. BoardInv => BoardFollows
  <2> SUFFICES ASSUME BoardInv, board # None, BetweenSteps PROVE Agrees(board)
    BY DEF BoardFollows
  <2>1. Followed /\ ~Unsent
    BY DEF BoardInv, ViewInv, BetweenSteps, Quiet
  <2>2. PICK b : b = board
    OBVIOUS
  <2>3. Matches(b)
    BY <2>1, <2>2, AllSent DEF BoardInv
  <2>4. Agrees(b)
    BY <2>3, MatchAgrees DEF BoardInv, TableAll
  <2> QED
    BY <2>2, <2>4
<1>2. BoardInv /\ [ClientNext]_<<tableVars, clientVars>> => BoardInv'
  BY BoardKept
<1> QED
  BY <1>1, <1>2, BoardInit, PTL DEF ClientSpec
=============================================================================
