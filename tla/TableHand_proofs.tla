-------------------------- MODULE TableHand_proofs --------------------------
(***************************************************************************)
(* The engine and run_hand, which drives it.  The first part is about the  *)
(* rules alone: tiles are conserved and every position is one of the game, *)
(* for every wall, hand size and winning rule.  The second is about the    *)
(* manager: it plays by these rules, what it applies was legal when it was *)
(* asked for and still is, who takes a discard depends on the claims       *)
(* alone, and the record is complete.                                      *)
(***************************************************************************)
EXTENDS TableHand, FiniteSetTheorems, SequenceTheorems, TLAPS

-----------------------------------------------------------------------------
(* The rules of a hand: where the tiles are.                               *)

\* The concealed tiles `con`, the flowers `fl`, the piles `dis` and the melds
\* `mel` hold each of the first n tiles of the wall, and nothing else ...
Covers(n, con, fl, dis, mel) ==
  \A i \in 1 .. n :
    \/ \E s \in Seats : i \in con[s] \/ i \in fl[s]
    \/ \E s \in Seats : \E k \in DOMAIN dis[s] : dis[s][k] = i
    \/ \E s \in Seats : \E m \in mel[s] : i \in m.tiles

Within(n, con, fl, dis, mel) ==
  \A s \in Seats :
    /\ con[s] \subseteq 1 .. n /\ fl[s] \subseteq 1 .. n
    /\ dis[s] \in Seq(1 .. n)
    /\ \A m \in mel[s] : m.tiles \subseteq 1 .. n

\* ... and no tile twice.
HandsApart(con, fl) ==
  \A s, t \in Seats :
    /\ con[s] \cap fl[t] = {}
    /\ s # t => con[s] \cap con[t] = {} /\ fl[s] \cap fl[t] = {}

PilesApart(con, fl, dis) ==
  \A s, t \in Seats : \A k \in DOMAIN dis[s] :
    /\ dis[s][k] \notin con[t] /\ dis[s][k] \notin fl[t]
    /\ \A l \in DOMAIN dis[t] : dis[s][k] = dis[t][l] => s = t /\ k = l

MeldsApart(con, fl, dis, mel) ==
  \A s, t \in Seats : \A m \in mel[s] :
    /\ m.tiles \cap con[t] = {} /\ m.tiles \cap fl[t] = {}
    /\ \A l \in DOMAIN dis[t] : dis[t][l] \notin m.tiles
    /\ \A o \in mel[t] : m.tiles \cap o.tiles # {} => s = t /\ m = o

Split(n, con, fl, dis, mel) ==
  /\ Covers(n, con, fl, dis, mel) /\ Within(n, con, fl, dis, mel)
  /\ HandsApart(con, fl) /\ PilesApart(con, fl, dis) /\ MeldsApart(con, fl, dis, mel)

Hands == [Seats -> SUBSET Nat]
Piles == [Seats -> Seq(Nat)]

-----------------------------------------------------------------------------
(* The moves of the engine keep the tiles split.                           *)

\* PLAY: a concealed tile goes to the end of the seat's pile.
LEMMA ToPile ==
  ASSUME NEW n \in Nat, NEW con \in Hands, NEW fl \in Hands, NEW dis \in Piles,
         NEW mel, Split(n, con, fl, dis, mel),
         NEW s \in Seats, NEW i \in con[s]
  PROVE  Split(n, [con EXCEPT ![s] = @ \ {i}], fl, [dis EXCEPT ![s] = Append(@, i)], mel)
<1> DEFINE c == [con EXCEPT ![s] = @ \ {i}]
           d == [dis EXCEPT ![s] = Append(@, i)]
<1>1. /\ \A t \in Seats : c[t] = IF t = s THEN con[s] \ {i} ELSE con[t]
      /\ \A t \in Seats : d[t] = IF t = s THEN Append(dis[s], i) ELSE dis[t]
  BY DEF Hands, Piles
<1> HIDE DEF c, d
<1>2. \A t \in Seats : DOMAIN dis[t] = 1 .. Len(dis[t]) /\ Len(dis[t]) \in Nat
  BY DEF Piles
<1>3. /\ DOMAIN d[s] = 1 .. Len(dis[s]) + 1
      /\ \A k \in 1 .. Len(dis[s]) : d[s][k] = dis[s][k]
      /\ d[s][Len(dis[s]) + 1] = i
  <2>1. d[s] = Append(dis[s], i) /\ dis[s] \in Seq(Nat) /\ i \in Nat
    BY <1>1 DEF Piles, Hands
  <2> QED
    BY <2>1
<1>4. d[s] \in Seq(1 .. n)
  <2>1. dis[s] \in Seq(1 .. n) /\ i \in 1 .. n
    BY DEF Split, Within
  <2>2. Append(dis[s], i) \in Seq(1 .. n)
    BY <2>1
  <2> QED
    BY <2>2, <1>1
<1>5. \A t \in Seats : \A k \in DOMAIN d[t] :
        \/ k \in DOMAIN dis[t] /\ d[t][k] = dis[t][k]
        \/ t = s /\ k = Len(dis[s]) + 1 /\ d[t][k] = i
  BY <1>1, <1>2, <1>3
<1>6. \A t \in Seats : \A k \in DOMAIN dis[t] : k \in DOMAIN d[t] /\ d[t][k] = dis[t][k]
  BY <1>1, <1>2, <1>3
<1>7. \E k \in DOMAIN d[s] : d[s][k] = i
  BY <1>2, <1>3
<1>8. Covers(n, c, fl, d, mel)
  BY <1>1, <1>6, <1>7 DEF Split, Covers
<1>9. Within(n, c, fl, d, mel)
  BY <1>1, <1>4 DEF Split, Within
<1>10. HandsApart(c, fl)
  BY <1>1 DEF Split, HandsApart
<1>11. PilesApart(c, fl, d)
  BY <1>1, <1>5 DEF Split, PilesApart, HandsApart
<1>12. MeldsApart(c, fl, d, mel)
  BY <1>1, <1>5 DEF Split, MeldsApart
<1> QED
  BY <1>8, <1>9, <1>10, <1>11, <1>12 DEF Split, c, d

\* A claim: tiles of the claimer and the last tile of a pile become a meld.
LEMMA ToMeld ==
  ASSUME NEW n \in Nat, NEW con \in Hands, NEW fl \in Hands, NEW dis \in Piles,
         NEW mel, DOMAIN mel = Seats, mel = [t \in Seats |-> mel[t]],
         Split(n, con, fl, dis, mel),
         NEW s \in Seats, NEW X \in SUBSET con[s],
         NEW f \in Seats, dis[f] # <<>>,
         NEW m, m.tiles = X \cup {dis[f][Len(dis[f])]}
  PROVE  Split(n, [con EXCEPT ![s] = @ \ X], fl,
               [dis EXCEPT ![f] = SubSeq(@, 1, Len(@) - 1)], [mel EXCEPT ![s] = @ \cup {m}])
<1> DEFINE c == [con EXCEPT ![s] = @ \ X]
           d == [dis EXCEPT ![f] = SubSeq(@, 1, Len(@) - 1)]
           e == [mel EXCEPT ![s] = @ \cup {m}]
           p == dis[f][Len(dis[f])]
<1>1. /\ \A t \in Seats : c[t] = IF t = s THEN con[s] \ X ELSE con[t]
      /\ \A t \in Seats : d[t] = IF t = f THEN SubSeq(dis[f], 1, Len(dis[f]) - 1) ELSE dis[t]
      /\ \A t \in Seats : e[t] = IF t = s THEN mel[s] \cup {m} ELSE mel[t]
  BY DEF Hands, Piles
<1>2. /\ Len(dis[f]) \in Nat \ {0} /\ Len(dis[f]) \in DOMAIN dis[f]
      /\ \A t \in Seats : DOMAIN dis[t] = 1 .. Len(dis[t])
  BY DEF Piles
<1>3. /\ DOMAIN d[f] = 1 .. Len(dis[f]) - 1
      /\ \A k \in 1 .. Len(dis[f]) - 1 : d[f][k] = dis[f][k]
  BY <1>1, <1>2 DEF Piles
<1> HIDE DEF c, d, e
<1>4. \A t \in Seats : \A k \in DOMAIN d[t] :
        /\ k \in DOMAIN dis[t] /\ d[t][k] = dis[t][k]
        /\ t = f => k # Len(dis[f])
  BY <1>1, <1>2, <1>3
<1>5. Covers(n, c, fl, d, e)
  <2>1. \A t \in Seats : \A k \in DOMAIN dis[t] :
          (k \in DOMAIN d[t] /\ d[t][k] = dis[t][k]) \/ dis[t][k] \in m.tiles
    BY <1>1, <1>2, <1>3
  <2>2. \A t \in Seats : \A i \in con[t] : i \in c[t] \/ i \in m.tiles
    BY <1>1
  <2>3. m \in e[s] /\ \A t \in Seats : \A o \in mel[t] : o \in e[t]
    BY <1>1
  <2> QED
    BY <2>1, <2>2, <2>3 DEF Split, Covers
<1>6. Within(n, c, fl, d, e)
  <2>1. \A t \in Seats : dis[t] \in Seq(1 .. n) /\ con[t] \subseteq 1 .. n
    BY DEF Split, Within
  <2>2. d[f] \in Seq(1 .. n)
    <3>1. SubSeq(dis[f], 1, Len(dis[f]) - 1) \in Seq(1 .. n)
      BY <1>2, <2>1, SubSeqProperties
    <3> QED
      BY <3>1, <1>1
  <2>3. dis[f][Len(dis[f])] \in 1 .. n
    BY <1>2, <2>1
  <2>4. m.tiles \subseteq 1 .. n
    BY <2>1, <2>3
  <2>5. ASSUME NEW t \in Seats, NEW q \in e[t] PROVE q.tiles \subseteq 1 .. n
    <3>1. \A o \in mel[t] : o.tiles \subseteq 1 .. n
      BY DEF Split, Within
    <3> QED
      BY <3>1, <2>5, <2>4, <1>1
  <2>6. ASSUME NEW t \in Seats PROVE c[t] \subseteq 1 .. n /\ d[t] \in Seq(1 .. n)
    BY <2>1, <2>2, <1>1
  <2> QED
    BY <2>5, <2>6 DEF Split, Within
<1>7. HandsApart(c, fl)
  BY <1>1 DEF Split, HandsApart
<1>8. PilesApart(c, fl, d)
  BY <1>1, <1>4 DEF Split, PilesApart
<1>9. p \notin con[s] /\ \A t \in Seats :
        /\ p \notin con[t] /\ p \notin fl[t]
        /\ \A o \in mel[t] : p \notin o.tiles
        /\ \A k \in DOMAIN d[t] : d[t][k] # p
  BY <1>2, <1>4 DEF Split, PilesApart, MeldsApart
<1> HIDE DEF p
<1>10. ASSUME NEW t \in Seats
       PROVE  /\ m.tiles \cap c[t] = {} /\ m.tiles \cap fl[t] = {}
              /\ \A l \in DOMAIN d[t] : d[t][l] \notin m.tiles
              /\ \A o \in mel[t] : m.tiles \cap o.tiles = {}
  <2>1. m.tiles = X \cup {p}
    BY DEF p
  <2>2. m.tiles \cap c[t] = {} /\ m.tiles \cap fl[t] = {}
    BY <2>1, <1>1, <1>9 DEF Split, HandsApart
  <2>3. \A l \in DOMAIN d[t] : d[t][l] \notin m.tiles
    BY <2>1, <1>4, <1>9 DEF Split, PilesApart
  <2>4. \A o \in mel[t] : m.tiles \cap o.tiles = {}
    BY <2>1, <1>9 DEF Split, MeldsApart
  <2> QED
    BY <2>2, <2>3, <2>4
<1>11. MeldsApart(c, fl, d, e)
  <2> SUFFICES ASSUME NEW t \in Seats, NEW q \in e[t], NEW u \in Seats
               PROVE  /\ q.tiles \cap c[u] = {} /\ q.tiles \cap fl[u] = {}
                      /\ \A l \in DOMAIN d[u] : d[u][l] \notin q.tiles
                      /\ \A o \in e[u] : q.tiles \cap o.tiles # {} => t = u /\ q = o
    BY DEF MeldsApart
  <2>1. CASE q \in mel[t]
    <3>1. /\ q.tiles \cap c[u] = {} /\ q.tiles \cap fl[u] = {}
          /\ \A l \in DOMAIN d[u] : d[u][l] \notin q.tiles
      BY <2>1, <1>1, <1>4 DEF Split, MeldsApart
    <3>2. ASSUME NEW o \in e[u], q.tiles \cap o.tiles # {} PROVE t = u /\ q = o
      <4>1. o \in mel[u]
        BY <3>2, <2>1, <1>1, <1>10
      <4> QED
        BY <4>1, <3>2, <2>1 DEF Split, MeldsApart
    <3> QED
      BY <3>1, <3>2
  <2>2. CASE q = m /\ t = s
    BY <2>2, <1>1, <1>10
  <2> QED
    BY <2>1, <2>2, <1>1
<1> QED
  BY <1>5, <1>6, <1>7, <1>8, <1>11 DEF Split, c, d, e

\* A concealed kong: tiles of a hand become a meld.
LEMMA ToConcealedMeld ==
  ASSUME NEW n \in Nat, NEW con \in Hands, NEW fl \in Hands, NEW dis \in Piles,
         NEW mel, DOMAIN mel = Seats, mel = [t \in Seats |-> mel[t]],
         Split(n, con, fl, dis, mel),
         NEW s \in Seats, NEW X \in SUBSET con[s],
         NEW m, m.tiles = X
  PROVE  Split(n, [con EXCEPT ![s] = @ \ X], fl, dis, [mel EXCEPT ![s] = @ \cup {m}])
<1> DEFINE c == [con EXCEPT ![s] = @ \ X]
           e == [mel EXCEPT ![s] = @ \cup {m}]
<1>1. /\ \A t \in Seats : c[t] = IF t = s THEN con[s] \ X ELSE con[t]
      /\ \A t \in Seats : e[t] = IF t = s THEN mel[s] \cup {m} ELSE mel[t]
  BY DEF Hands
<1> HIDE DEF c, e
<1>2. Covers(n, c, fl, dis, e)
  BY <1>1 DEF Split, Covers
<1>3. Within(n, c, fl, dis, e)
  <2>1. \A t \in Seats : con[t] \subseteq 1 .. n /\ \A o \in mel[t] : o.tiles \subseteq 1 .. n
    BY DEF Split, Within
  <2>2. ASSUME NEW t \in Seats, NEW q \in e[t] PROVE q.tiles \subseteq 1 .. n
    BY <2>1, <2>2, <1>1
  <2>3. \A t \in Seats : c[t] \subseteq 1 .. n
    BY <2>1, <1>1
  <2>4. \A t \in Seats : fl[t] \subseteq 1 .. n /\ dis[t] \in Seq(1 .. n)
    BY DEF Split, Within
  <2> QED
    BY <2>2, <2>3, <2>4 DEF Within
<1>4. HandsApart(c, fl)
  BY <1>1 DEF Split, HandsApart
<1>5. PilesApart(c, fl, dis)
  BY <1>1 DEF Split, PilesApart
<1>6. ASSUME NEW t \in Seats
      PROVE  /\ m.tiles \cap c[t] = {} /\ m.tiles \cap fl[t] = {}
             /\ \A l \in DOMAIN dis[t] : dis[t][l] \notin m.tiles
             /\ \A o \in mel[t] : m.tiles \cap o.tiles = {}
  BY <1>1 DEF Split, HandsApart, PilesApart, MeldsApart
<1>7. MeldsApart(c, fl, dis, e)
  <2> SUFFICES ASSUME NEW t \in Seats, NEW q \in e[t], NEW u \in Seats
               PROVE  /\ q.tiles \cap c[u] = {} /\ q.tiles \cap fl[u] = {}
                      /\ \A l \in DOMAIN dis[u] : dis[u][l] \notin q.tiles
                      /\ \A o \in e[u] : q.tiles \cap o.tiles # {} => t = u /\ q = o
    BY DEF MeldsApart
  <2>1. CASE q \in mel[t]
    <3>1. /\ q.tiles \cap c[u] = {} /\ q.tiles \cap fl[u] = {}
          /\ \A l \in DOMAIN dis[u] : dis[u][l] \notin q.tiles
      BY <2>1, <1>1 DEF Split, MeldsApart
    <3>2. ASSUME NEW o \in e[u], q.tiles \cap o.tiles # {} PROVE t = u /\ q = o
      <4>1. o \in mel[u]
        BY <3>2, <2>1, <1>1, <1>6
      <4> QED
        BY <4>1, <3>2, <2>1 DEF Split, MeldsApart
    <3> QED
      BY <3>1, <3>2
  <2>2. CASE q = m /\ t = s
    BY <2>2, <1>1, <1>6
  <2> QED
    BY <2>1, <2>2, <1>1
<1> QED
  BY <1>2, <1>3, <1>4, <1>5, <1>7 DEF Split, c, e

\* An added kong: a meld of the seat grows by tiles of its hand.
LEMMA ToGrownMeld ==
  ASSUME NEW n \in Nat, NEW con \in Hands, NEW fl \in Hands, NEW dis \in Piles,
         NEW mel, DOMAIN mel = Seats, mel = [t \in Seats |-> mel[t]],
         Split(n, con, fl, dis, mel),
         NEW s \in Seats, NEW X \in SUBSET con[s],
         NEW w \in mel[s], NEW m, m.tiles = w.tiles \cup X
  PROVE  Split(n, [con EXCEPT ![s] = @ \ X], fl, dis,
               [mel EXCEPT ![s] = (@ \ {w}) \cup {m}])
<1> DEFINE c == [con EXCEPT ![s] = @ \ X]
           e == [mel EXCEPT ![s] = (@ \ {w}) \cup {m}]
<1>1. /\ \A t \in Seats : c[t] = IF t = s THEN con[s] \ X ELSE con[t]
      /\ \A t \in Seats : e[t] = IF t = s THEN (mel[s] \ {w}) \cup {m} ELSE mel[t]
  BY DEF Hands
<1> HIDE DEF c, e
<1>2. Covers(n, c, fl, dis, e)
  <2>1. \A t \in Seats : \A i \in con[t] : i \in c[t] \/ i \in m.tiles
    BY <1>1
  <2>2. m \in e[s] /\ \A t \in Seats : \A o \in mel[t] : o \in e[t] \/ o = w
    BY <1>1
  <2>3. \A t \in Seats : \A o \in mel[t] : \A i \in o.tiles :
          i \in m.tiles \/ \E q \in e[t] : i \in q.tiles
    BY <2>2
  <2> QED
    BY <2>1, <2>2, <2>3 DEF Split, Covers
<1>3. Within(n, c, fl, dis, e)
  <2>1. \A t \in Seats : con[t] \subseteq 1 .. n /\ \A o \in mel[t] : o.tiles \subseteq 1 .. n
    BY DEF Split, Within
  <2>2. m.tiles \subseteq 1 .. n
    BY <2>1
  <2>3. ASSUME NEW t \in Seats, NEW q \in e[t] PROVE q.tiles \subseteq 1 .. n
    BY <2>1, <2>2, <2>3, <1>1
  <2> QED
    BY <2>1, <2>3, <1>1 DEF Split, Within
<1>4. HandsApart(c, fl)
  BY <1>1 DEF Split, HandsApart
<1>5. PilesApart(c, fl, dis)
  BY <1>1 DEF Split, PilesApart
<1>6. ASSUME NEW t \in Seats
      PROVE  /\ m.tiles \cap c[t] = {} /\ m.tiles \cap fl[t] = {}
             /\ \A l \in DOMAIN dis[t] : dis[t][l] \notin m.tiles
             /\ \A o \in mel[t] \ {w} : m.tiles \cap o.tiles = {}
  <2>1. X \cap c[t] = {} /\ X \cap fl[t] = {} /\ w.tiles \cap c[t] = {} /\ w.tiles \cap fl[t] = {}
    BY <1>1 DEF Split, HandsApart, MeldsApart
  <2>2. \A l \in DOMAIN dis[t] : dis[t][l] \notin X /\ dis[t][l] \notin w.tiles
    BY DEF Split, PilesApart, MeldsApart
  <2>3. \A o \in mel[t] \ {w} : X \cap o.tiles = {} /\ w.tiles \cap o.tiles = {}
    BY DEF Split, MeldsApart
  <2> QED
    BY <2>1, <2>2, <2>3
<1>7. w \in mel[s] /\ \A t \in Seats \ {s} : w \in mel[t] => w.tiles = {}
  BY DEF Split, MeldsApart
<1>8. MeldsApart(c, fl, dis, e)
  <2> SUFFICES ASSUME NEW t \in Seats, NEW q \in e[t], NEW u \in Seats
               PROVE  /\ q.tiles \cap c[u] = {} /\ q.tiles \cap fl[u] = {}
                      /\ \A l \in DOMAIN dis[u] : dis[u][l] \notin q.tiles
                      /\ \A o \in e[u] : q.tiles \cap o.tiles # {} => t = u /\ q = o
    BY DEF MeldsApart
  <2>1. CASE q \in mel[t]
    <3>1. /\ q.tiles \cap c[u] = {} /\ q.tiles \cap fl[u] = {}
          /\ \A l \in DOMAIN dis[u] : dis[u][l] \notin q.tiles
      BY <2>1, <1>1 DEF Split, MeldsApart
    <3>2. ASSUME NEW o \in e[u], q.tiles \cap o.tiles # {} PROVE t = u /\ q = o
      <4>1. CASE o \in mel[u]
        BY <4>1, <3>2, <2>1 DEF Split, MeldsApart
      <4>2. CASE o = m /\ u = s
        <5>1. CASE q = w
          BY <5>1, <4>2, <3>2, <2>1, <1>1, <1>7
        <5>2. CASE q # w
          BY <5>2, <4>2, <3>2, <2>1, <1>6
        <5> QED
          BY <5>1, <5>2
      <4> QED
        BY <4>1, <4>2, <3>2, <1>1
    <3> QED
      BY <3>1, <3>2
  <2>2. CASE q = m /\ t = s
    <3>1. ASSUME NEW o \in e[u], q.tiles \cap o.tiles # {} PROVE t = u /\ q = o
      <4>1. CASE o \in mel[u] /\ o # w
        BY <4>1, <3>1, <2>2, <1>6
      <4>2. CASE o = m /\ u = s
        BY <4>2, <2>2
      <4>3. CASE o = w /\ u # s /\ o \in mel[u]
        BY <4>3, <3>1, <2>2, <1>7
      <4> QED
        BY <4>1, <4>2, <4>3, <3>1, <1>1
    <3> QED
      BY <3>1, <2>2, <1>6
  <2> QED
    BY <2>1, <2>2, <1>1
<1> QED
  BY <1>2, <1>3, <1>4, <1>5, <1>8 DEF Split, c, e

\* A draw: positions n + 1 .. k leave the wall for one seat, the last as a
\* concealed tile or, when the wall is exhausted, all of them as flowers.
LEMMA FromWall ==
  ASSUME NEW n \in Nat, NEW k \in Nat, n <= k,
         NEW con \in Hands, NEW fl \in Hands, NEW dis \in Piles, NEW mel,
         Split(n, con, fl, dis, mel),
         NEW s \in Seats, NEW C \in SUBSET Nat, NEW F \in SUBSET Nat,
         C \cap F = {}, C \cup F = n + 1 .. k
  PROVE  Split(k, [con EXCEPT ![s] = @ \cup C], [fl EXCEPT ![s] = @ \cup F], dis, mel)
<1> DEFINE c == [con EXCEPT ![s] = @ \cup C]
           f == [fl EXCEPT ![s] = @ \cup F]
<1>1. /\ \A t \in Seats : c[t] = IF t = s THEN con[s] \cup C ELSE con[t]
      /\ \A t \in Seats : f[t] = IF t = s THEN fl[s] \cup F ELSE fl[t]
  BY DEF Hands
<1> HIDE DEF c, f
<1>2. /\ \A i \in C \cup F : i \in 1 .. k /\ i \notin 1 .. n
      /\ \A i \in 1 .. k : i \in 1 .. n \/ i \in C \cup F
      /\ 1 .. n \subseteq 1 .. k
  OBVIOUS
<1>3. Covers(k, c, f, dis, mel)
  <2> SUFFICES ASSUME NEW i \in 1 .. k
               PROVE  \/ \E t \in Seats : i \in c[t] \/ i \in f[t]
                      \/ \E t \in Seats : \E l \in DOMAIN dis[t] : dis[t][l] = i
                      \/ \E t \in Seats : \E m \in mel[t] : i \in m.tiles
    BY DEF Covers
  <2>1. CASE i \in 1 .. n
    BY <2>1, <1>1 DEF Split, Covers
  <2>2. CASE i \in C \cup F
    BY <2>2, <1>1
  <2> QED
    BY <2>1, <2>2, <1>2
<1>4. Within(k, c, f, dis, mel)
  <2>1. ASSUME NEW t \in Seats
        PROVE  /\ con[t] \subseteq 1 .. n /\ fl[t] \subseteq 1 .. n
               /\ dis[t] \in Seq(1 .. n) /\ \A m \in mel[t] : m.tiles \subseteq 1 .. n
    BY DEF Split, Within
  <2>2. ASSUME NEW t \in Seats PROVE dis[t] \in Seq(1 .. k)
    BY <2>1, <1>2
  <2>3. ASSUME NEW t \in Seats
        PROVE  c[t] \subseteq 1 .. k /\ f[t] \subseteq 1 .. k
    BY <2>1, <1>1, <1>2
  <2>4. ASSUME NEW t \in Seats, NEW m \in mel[t] PROVE m.tiles \subseteq 1 .. k
    BY <2>1, <1>2
  <2> QED
    BY <2>2, <2>3, <2>4 DEF Within
<1>5. \A t \in Seats : /\ (C \cup F) \cap con[t] = {} /\ (C \cup F) \cap fl[t] = {}
                       /\ \A l \in DOMAIN dis[t] : dis[t][l] \notin C \cup F
                       /\ \A m \in mel[t] : m.tiles \cap (C \cup F) = {}
  <2> SUFFICES ASSUME NEW t \in Seats
               PROVE  /\ (C \cup F) \cap con[t] = {} /\ (C \cup F) \cap fl[t] = {}
                      /\ \A l \in DOMAIN dis[t] : dis[t][l] \notin C \cup F
                      /\ \A m \in mel[t] : m.tiles \cap (C \cup F) = {}
    OBVIOUS
  <2>1. /\ con[t] \subseteq 1 .. n /\ fl[t] \subseteq 1 .. n
        /\ \A l \in DOMAIN dis[t] : dis[t][l] \in 1 .. n
        /\ \A m \in mel[t] : m.tiles \subseteq 1 .. n
    BY DEF Split, Within
  <2> QED
    BY <2>1, <1>2
<1>6. HandsApart(c, f)
  BY <1>1, <1>5 DEF Split, HandsApart
<1>7. PilesApart(c, f, dis)
  BY <1>1, <1>5 DEF Split, PilesApart
<1>8. MeldsApart(c, f, dis, mel)
  BY <1>1, <1>5 DEF Split, MeldsApart
<1> QED
  BY <1>3, <1>4, <1>6, <1>7, <1>8 DEF Split, c, f

-----------------------------------------------------------------------------
(* The hand as a state machine.                                            *)

\* Hands hold no bonus tiles.
HandsLive == \A s \in Seats : concealed[s] \subseteq Live(deck)

\* Claims are only ever decided on a tile that lies on a pile.
PileStands ==
  phase = "CLAIM_WINDOW" => lastDiscard # None /\ discards[lastDiscard.seat] # <<>>

HandInv ==
  /\ TypeOK /\ HandsLive /\ PileStands
  /\ Split(drawn, concealed, flowers, discards, melds)

\* What the type invariant says about sets of positions.
LEMMA Positions ==
  ASSUME TypeOK
  PROVE  /\ Len(deck) \in Nat /\ DOMAIN deck = 1 .. Len(deck) /\ drawn \in Nat
         /\ concealed \in Hands /\ flowers \in Hands /\ discards \in Piles
         /\ DOMAIN melds = Seats /\ melds = [t \in Seats |-> melds[t]]
<1>1. deck \in Seq(Kinds \cup {Flower})
  BY HandAssumption DEF TypeOK
<1>2. Len(deck) \in Nat /\ DOMAIN deck = 1 .. Len(deck)
  BY <1>1
<1>3. drawn \in Nat
  BY <1>2 DEF TypeOK
<1>4. concealed \in Hands /\ flowers \in Hands
  BY <1>2 DEF TypeOK, Hands
<1>5. discards \in Piles
  <2>1. \A t \in Seats : discards[t] \in Seq(Nat)
    BY <1>2 DEF TypeOK
  <2> QED
    BY <2>1 DEF TypeOK, Piles
<1> QED
  BY <1>2, <1>3, <1>4, <1>5 DEF TypeOK

\* The kinds in a hand without bonus tiles are kinds of the game.
LEMMA KindsOfHand ==
  ASSUME TypeOK, HandsLive, NEW s \in Seats
  PROVE  KindsIn(s) \subseteq Kinds
<1>1. deck \in Seq(Kinds \cup {Flower})
  BY HandAssumption DEF TypeOK
<1>2. \A i \in DOMAIN deck : deck[i] \in Kinds \cup {Flower}
  BY <1>1
<1> QED
  BY <1>2 DEF HandsLive, Live, KindsIn

\* internal_draw: however many bonus tiles come first, and when the wall runs
\* out, the tiles stay split.
LEMMA DrawSplits ==
  ASSUME TypeOK, NEW s \in Seats, NEW hands \in Hands, NEW dis \in Piles, NEW mel,
         Split(drawn, hands, flowers, dis, mel), InternalDraw(s, hands)
  PROVE  Split(drawn', concealed', flowers', dis, mel)
<1> DEFINE left == {i \in Wall : deck[i] # Flower}
<1>1. Len(deck) \in Nat /\ drawn \in Nat /\ drawn <= Len(deck) /\ flowers \in Hands
  BY Positions DEF TypeOK
<1>2. CASE left = {}
  <2>1. /\ drawn' = Len(deck) /\ concealed' = hands
        /\ flowers' = [flowers EXCEPT ![s] = @ \cup Wall]
    BY <1>2 DEF InternalDraw
  <2>2. hands = [hands EXCEPT ![s] = @ \cup {}]
    BY DEF Hands
  <2>3. Wall \in SUBSET Nat /\ {} \cap Wall = {} /\ {} \cup Wall = drawn + 1 .. Len(deck)
    BY <1>1 DEF Wall
  <2>4. Split(Len(deck), [hands EXCEPT ![s] = @ \cup {}],
              [flowers EXCEPT ![s] = @ \cup Wall], dis, mel)
    BY <1>1, <2>3, FromWall
  <2> QED
    BY <2>1, <2>2, <2>4
<1>3. CASE left # {}
  <2>1. PICK i \in Lowest(left, 1) :
          /\ drawn' = i
          /\ concealed' = [hands EXCEPT ![s] = @ \cup {i}]
          /\ flowers' = [flowers EXCEPT ![s] = @ \cup (drawn + 1 .. i - 1)]
    BY <1>3 DEF InternalDraw
  <2>2. i \in drawn + 1 .. Len(deck)
    BY <2>1 DEF Lowest, Wall
  <2>3. /\ i \in Nat /\ drawn <= i /\ {i} \in SUBSET Nat /\ drawn + 1 .. i - 1 \in SUBSET Nat
        /\ {i} \cap (drawn + 1 .. i - 1) = {}
        /\ {i} \cup (drawn + 1 .. i - 1) = drawn + 1 .. i
    BY <1>1, <2>2
  <2>4. Split(i, [hands EXCEPT ![s] = @ \cup {i}],
              [flowers EXCEPT ![s] = @ \cup (drawn + 1 .. i - 1)], dis, mel)
    BY <1>1, <2>3, FromWall
  <2> QED
    BY <2>1, <2>4
<1> QED
  BY <1>2, <1>3

\* internal_draw keeps the types and deals no bonus tile into a hand.
LEMMA DrawTypes ==
  ASSUME TypeOK, NEW s \in Seats,
         NEW hands \in [Seats -> SUBSET Live(deck)], InternalDraw(s, hands)
  PROVE  /\ drawn' \in 0 .. Len(deck)
         /\ concealed' \in [Seats -> SUBSET Live(deck)]
         /\ flowers' \in [Seats -> SUBSET DOMAIN deck]
         /\ phase' \in {"DISCARD", "TERMINAL"} /\ actor' \in Seats
         /\ lastDrawn' = None \/ lastDrawn' \in [seat : Seats, tile : Kinds]
<1> DEFINE left == {i \in Wall : deck[i] # Flower}
<1>1. /\ Len(deck) \in Nat /\ drawn \in Nat /\ drawn <= Len(deck)
      /\ DOMAIN deck = 1 .. Len(deck)
      /\ flowers \in [Seats -> SUBSET DOMAIN deck] /\ actor \in Seats
  BY Positions DEF TypeOK
<1>2. Wall \subseteq DOMAIN deck
  BY <1>1 DEF Wall
<1>3. CASE left = {}
  <2>1. /\ drawn' = Len(deck) /\ concealed' = hands
        /\ flowers' = [flowers EXCEPT ![s] = @ \cup Wall]
        /\ phase' = "TERMINAL" /\ actor' = actor /\ lastDrawn' = None
    BY <1>3 DEF InternalDraw
  <2> QED
    BY <2>1, <1>1, <1>2
<1>4. CASE left # {}
  <2>1. PICK i \in Lowest(left, 1) :
          /\ drawn' = i
          /\ concealed' = [hands EXCEPT ![s] = @ \cup {i}]
          /\ flowers' = [flowers EXCEPT ![s] = @ \cup (drawn + 1 .. i - 1)]
          /\ phase' = "DISCARD" /\ actor' = s
          /\ lastDrawn' = [seat |-> s, tile |-> deck[i]]
    BY <1>4 DEF InternalDraw
  <2>2. i \in drawn + 1 .. Len(deck) /\ deck[i] # Flower
    BY <2>1 DEF Lowest, Wall
  <2>3. i \in Live(deck) /\ drawn + 1 .. i - 1 \subseteq DOMAIN deck /\ i \in 0 .. Len(deck)
    BY <2>2, <1>1 DEF Live
  <2>4. deck[i] \in Kinds
    <3>1. deck \in Seq(Kinds \cup {Flower})
      BY HandAssumption DEF TypeOK
    <3> QED
      BY <3>1, <2>2, <2>3 DEF Live
  <2> QED
    BY <2>1, <2>3, <2>4, <1>1
<1> QED
  BY <1>3, <1>4

-----------------------------------------------------------------------------
(* What a legal action tells.                                              *)

LEMMA LegalPlay ==
  ASSUME NEW s, NEW a \in LegalActions(s), a.type = "PLAY"
  PROVE  phase = "DISCARD" /\ s = actor /\ a.tile \in KindsIn(s)
BY DEF LegalActions, DiscardActions, ClaimActions, ClaimsOn, PLAY, PASS, PENG, CHI, GANG, HU

LEMMA LegalPass ==
  ASSUME NEW s, NEW a \in LegalActions(s), a.type = "PASS"
  PROVE  phase = "CLAIM_WINDOW" /\ lastDiscard # None
BY DEF LegalActions, DiscardActions, ClaimActions, ClaimsOn, PLAY, PASS, PENG, CHI, GANG, HU

LEMMA LegalClaim ==
  ASSUME NEW s, NEW a \in LegalActions(s),
         a.type \in {"PENG", "CHI"} \/ (a.type = "GANG" /\ a.kind = "EXPOSED")
  PROVE  /\ phase = "CLAIM_WINDOW" /\ lastDiscard # None
         /\ a \in ClaimsOn(s, lastDiscard.tile, lastDiscard.seat)
         /\ a.type # "CHI" => a.tile = lastDiscard.tile
BY DEF LegalActions, DiscardActions, ClaimActions, ClaimsOn, PLAY, PASS, PENG, CHI, GANG, HU

LEMMA LegalKong ==
  ASSUME NEW s, NEW a \in LegalActions(s), a.type = "GANG", a.kind # "EXPOSED"
  PROVE  phase = "DISCARD" /\ s = actor /\ a.tile \in KindsIn(s)
BY DEF LegalActions, DiscardActions, ClaimActions, ClaimsOn, PLAY, PASS, PENG, CHI, GANG, HU

LEMMA LegalHu ==
  ASSUME NEW s, NEW a \in LegalActions(s), a.type = "HU"
  PROVE  phase \in {"DISCARD", "CLAIM_WINDOW"}
BY DEF LegalActions, DiscardActions, ClaimActions, ClaimsOn, PLAY, PASS, PENG, CHI, GANG, HU

\* The claims a discard opens are claims of seats.
LEMMA OpportunityTypes ==
  ASSUME NEW k, NEW from
  PROVE  Opportunities(k, from) \subseteq [seat : Seats, claim : Claims, run : Runs \cup {{}}]
<1>1. ASSUME NEW q \in Seats, NEW a \in ClaimsOn(q, k, from)
      PROVE  /\ a.type \in Claims
             /\ (IF a.type = "CHI" THEN a.run ELSE {}) \in Runs \cup {{}}
  BY DEF ClaimsOn, Claims, PENG, CHI, GANG, HU
<1> QED
  BY <1>1 DEF Opportunities

\* The tiles an action takes from a hand are in it.
LEMMA TakenTiles ==
  ASSUME NEW s, NEW k, NEW n
  PROVE  Lowest(Copies(s, k), n) \subseteq concealed[s]
BY DEF Lowest, Copies

-----------------------------------------------------------------------------
(* The actions.                                                            *)

\* Hands without some of their tiles still are hands without bonus tiles.
LEMMA FewerTiles ==
  ASSUME TypeOK, HandsLive, NEW s \in Seats, NEW X
  PROVE  /\ [concealed EXCEPT ![s] = @ \ X] \in Hands
         /\ [concealed EXCEPT ![s] = @ \ X] \in [Seats -> SUBSET Live(deck)]
BY Positions DEF TypeOK, HandsLive, Hands

LEMMA PlayStep ==
  ASSUME HandInv, NEW s \in Seats, NEW a, Play(s, a)
  PROVE  HandInv'
<1> USE DEF HandInv
<1>1. /\ phase = "DISCARD" /\ s = actor /\ a.tile \in KindsIn(s)
      /\ deck' = deck /\ melds' = melds
  BY LegalPlay DEF Play
<1>2. PICK i \in Lowest(Copies(s, a.tile), 1) :
        LET hands == [concealed EXCEPT ![s] = @ \ {i}]
            claims == Opportunities(a.tile, s)
        IN /\ discards' = [discards EXCEPT ![s] = Append(@, i)]
           /\ IF claims = {}
              THEN AdvanceToNextSeat(s, hands)
              ELSE /\ pending' = claims /\ phase' = "CLAIM_WINDOW" /\ actor' = NextSeat(s)
                   /\ lastDiscard' = [seat |-> s, tile |-> a.tile]
                   /\ concealed' = hands
                   /\ UNCHANGED <<drawn, flowers, lastDrawn, terminal>>
  BY DEF Play
<1> DEFINE hands == [concealed EXCEPT ![s] = @ \ {i}]
           piles == [discards EXCEPT ![s] = Append(@, i)]
<1>3. i \in concealed[s] /\ i \in DOMAIN deck
  BY TakenTiles DEF TypeOK
<1>4. hands \in Hands /\ hands \in [Seats -> SUBSET Live(deck)]
  BY FewerTiles
<1>5. piles \in [Seats -> Seq(DOMAIN deck)] /\ piles \in Piles /\ piles[s] # <<>>
  <2>1. \A t \in Seats : discards[t] \in Seq(DOMAIN deck) /\ discards[t] \in Seq(Nat)
    BY Positions DEF TypeOK, Piles
  <2>2. Append(discards[s], i) \in Seq(DOMAIN deck) /\ Append(discards[s], i) \in Seq(Nat)
    BY <2>1, <1>3, Positions
  <2>3. Append(discards[s], i) # <<>>
    BY <2>1, <1>3, AppendProperties
  <2> QED
    BY <2>2, <2>3, Positions DEF TypeOK, Piles
<1>6. Split(drawn, hands, flowers, piles, melds)
  BY <1>3, Positions, ToPile
<1>7. NextSeat(s) \in Seats
  BY DEF NextSeat, Seats
<1>8. discards' = piles
  BY <1>2
<1>9. a.tile \in Kinds
  BY <1>1, KindsOfHand
<1> HIDE DEF hands, piles
<1>10. CASE Opportunities(a.tile, s) = {}
  <2>1. lastDiscard' = None /\ pending' = {} /\ InternalDraw(NextSeat(s), hands)
    BY <1>10, <1>2 DEF AdvanceToNextSeat, hands
  <2>2. Split(drawn', concealed', flowers', piles, melds)
    BY <2>1, <1>4, <1>5, <1>6, <1>7, DrawSplits
  <2>3. /\ drawn' \in 0 .. Len(deck)
        /\ concealed' \in [Seats -> SUBSET Live(deck)]
        /\ flowers' \in [Seats -> SUBSET DOMAIN deck]
        /\ phase' \in {"DISCARD", "TERMINAL"} /\ actor' \in Seats
        /\ lastDrawn' = None \/ lastDrawn' \in [seat : Seats, tile : Kinds]
    BY <2>1, <1>4, <1>7, DrawTypes
  <2>4. TypeOK'
    BY <2>1, <2>3, <1>1, <1>5, <1>8 DEF TypeOK, Live, Melds
  <2>5. HandsLive' /\ PileStands'
    BY <2>3, <1>1 DEF HandsLive, PileStands, Live
  <2> QED
    BY <2>2, <2>4, <2>5, <1>1, <1>8
<1>11. CASE Opportunities(a.tile, s) # {}
  <2>1. /\ pending' = Opportunities(a.tile, s) /\ phase' = "CLAIM_WINDOW"
        /\ actor' = NextSeat(s) /\ lastDiscard' = [seat |-> s, tile |-> a.tile]
        /\ concealed' = hands
        /\ drawn' = drawn /\ flowers' = flowers /\ lastDrawn' = lastDrawn
    BY <1>11, <1>2 DEF hands
  <2>2. TypeOK'
    BY <2>1, <1>1, <1>4, <1>5, <1>7, <1>8, <1>9, OpportunityTypes DEF TypeOK, Live, Melds
  <2>3. HandsLive'
    BY <2>1, <1>1, <1>4 DEF HandsLive, Live
  <2>4. PileStands'
    <3>1. lastDiscard' # None
      BY <2>1, <1>9, HandAssumption
    <3>2. lastDiscard'.seat = s /\ discards'[s] # <<>>
      BY <2>1, <1>5, <1>8
    <3> QED
      BY <3>1, <3>2 DEF PileStands
  <2> QED
    BY <2>1, <2>2, <2>3, <2>4, <1>1, <1>6, <1>8
<1> QED
  BY <1>10, <1>11

LEMMA PassStep ==
  ASSUME HandInv, NEW s \in Seats, NEW a, Pass(s, a)
  PROVE  HandInv'
<1> USE DEF HandInv
<1> DEFINE rest == {c \in pending : c.seat # s}
<1>1. /\ phase = "CLAIM_WINDOW" /\ lastDiscard # None
      /\ deck' = deck /\ melds' = melds /\ discards' = discards
  BY LegalPass DEF Pass
<1>2. CASE rest = {}
  <2>1. /\ lastDiscard' = None /\ pending' = {}
        /\ InternalDraw(NextSeat(lastDiscard.seat), concealed)
    BY <1>2 DEF Pass, AdvanceToNextSeat
  <2>2. NextSeat(lastDiscard.seat) \in Seats
    BY <1>1 DEF TypeOK, NextSeat, Seats
  <2>3. Split(drawn', concealed', flowers', discards, melds)
    BY <2>1, <2>2, Positions, DrawSplits
  <2>4. concealed \in [Seats -> SUBSET Live(deck)]
    BY DEF TypeOK, HandsLive
  <2>5. /\ drawn' \in 0 .. Len(deck)
        /\ concealed' \in [Seats -> SUBSET Live(deck)]
        /\ flowers' \in [Seats -> SUBSET DOMAIN deck]
        /\ phase' \in {"DISCARD", "TERMINAL"} /\ actor' \in Seats
        /\ lastDrawn' = None \/ lastDrawn' \in [seat : Seats, tile : Kinds]
    BY <2>1, <2>2, <2>4, DrawTypes
  <2>6. TypeOK'
    BY <2>1, <2>5, <1>1 DEF TypeOK, Live, Melds
  <2>7. HandsLive' /\ PileStands'
    BY <2>5, <1>1 DEF HandsLive, PileStands, Live
  <2> QED
    BY <2>3, <2>6, <2>7, <1>1
<1>3. CASE rest # {}
  <2>1. /\ pending' = rest
        /\ UNCHANGED <<drawn, concealed, flowers, phase, actor, lastDrawn, lastDiscard, terminal>>
    BY <1>3 DEF Pass
  <2> QED
    BY <2>1, <1>1 DEF TypeOK, HandsLive, PileStands, Live, Melds
<1> QED
  BY <1>2, <1>3

\* The meld of a claim: the state after the tiles have moved.
LEMMA ClaimMoves ==
  ASSUME HandInv, NEW s \in Seats, phase = "CLAIM_WINDOW", lastDiscard # None,
         NEW X \in SUBSET concealed[s],
         NEW type \in {"PENG", "CHI", "GANG"}, NEW kind \in Kinds,
         AddMeld(s, type, kind, X \cup {Popped}), PopDiscard
  PROVE  /\ Split(drawn, [concealed EXCEPT ![s] = @ \ X], flowers, discards', melds')
         /\ melds' \in [Seats -> SUBSET Melds]
         /\ discards' \in [Seats -> Seq(DOMAIN deck)] /\ discards' \in Piles
<1> USE DEF HandInv
<1> DEFINE f == lastDiscard.seat
           m == [type |-> type, kind |-> kind, tiles |-> X \cup {Popped}]
<1>1. f \in Seats /\ discards[f] # <<>> /\ Popped = discards[f][Len(discards[f])]
  BY DEF TypeOK, PileStands, Popped
<1>2. m.tiles = X \cup {discards[f][Len(discards[f])]}
  BY <1>1
<1>3. /\ melds' = [melds EXCEPT ![s] = @ \cup {m}]
      /\ discards' = [discards EXCEPT ![f] = SubSeq(@, 1, Len(@) - 1)]
  BY DEF AddMeld, PopDiscard
<1> HIDE DEF f, m
<1>4. Split(drawn, [concealed EXCEPT ![s] = @ \ X], flowers,
            [discards EXCEPT ![f] = SubSeq(@, 1, Len(@) - 1)], [melds EXCEPT ![s] = @ \cup {m}])
  BY <1>1, <1>2, Positions, ToMeld
<1>5. discards[f] \in Seq(DOMAIN deck) /\ Len(discards[f]) \in Nat \ {0}
  BY <1>1 DEF TypeOK
<1>6. Popped \in DOMAIN deck
  BY <1>1, <1>5
<1>7. m \in Melds
  BY <1>6 DEF m, Melds, TypeOK
<1>8. melds' \in [Seats -> SUBSET Melds]
  BY <1>3, <1>7 DEF TypeOK
<1>9. SubSeq(discards[f], 1, Len(discards[f]) - 1) \in Seq(DOMAIN deck)
  BY <1>5, SubSeqProperties
<1>10. discards' \in [Seats -> Seq(DOMAIN deck)]
  BY <1>3, <1>9 DEF TypeOK
<1>11. discards' \in Piles
  <2>1. \A t \in Seats : discards'[t] \in Seq(Nat)
    BY <1>10, Positions
  <2> QED
    BY <2>1, <1>10 DEF Piles
<1> QED
  BY <1>3, <1>4, <1>8, <1>10, <1>11

\* PENG and CHI: the claimer is to discard.
LEMMA HandOver ==
  ASSUME HandInv, NEW s \in Seats, phase = "CLAIM_WINDOW", lastDiscard # None,
         NEW X \in SUBSET concealed[s],
         NEW type \in {"PENG", "CHI", "GANG"}, NEW kind \in Kinds,
         concealed' = [concealed EXCEPT ![s] = @ \ X],
         AddMeld(s, type, kind, X \cup {Popped}), ConsumeDiscard, HandToClaimer(s)
  PROVE  HandInv'
<1>1. /\ Split(drawn, concealed', flowers, discards', melds')
      /\ melds' \in [Seats -> SUBSET Melds]
      /\ discards' \in [Seats -> Seq(DOMAIN deck)]
  BY ClaimMoves DEF ConsumeDiscard
<1>2. concealed' \in [Seats -> SUBSET Live(deck)]
  BY FewerTiles DEF HandInv
<1>3. /\ phase' = "DISCARD" /\ actor' = s /\ lastDrawn' = None
      /\ lastDiscard' = None /\ pending' = {}
      /\ deck' = deck /\ drawn' = drawn /\ flowers' = flowers
  BY DEF HandToClaimer, ConsumeDiscard
<1>4. TypeOK'
  BY <1>1, <1>2, <1>3 DEF HandInv, TypeOK, Live, Melds
<1>5. HandsLive' /\ PileStands'
  BY <1>2, <1>3 DEF HandsLive, PileStands, Live
<1> QED
  BY <1>1, <1>3, <1>4, <1>5 DEF HandInv

LEMMA PengStep ==
  ASSUME HandInv, NEW s \in Seats, NEW a, Peng(s, a)
  PROVE  HandInv'
<1> DEFINE two == Lowest(Copies(s, a.tile), 2)
<1>1. phase = "CLAIM_WINDOW" /\ lastDiscard # None /\ a.tile = lastDiscard.tile
  BY LegalClaim DEF Peng
<1>2. a.tile \in Kinds
  BY <1>1 DEF HandInv, TypeOK
<1>3. two \in SUBSET concealed[s]
  BY TakenTiles
<1>4. /\ concealed' = [concealed EXCEPT ![s] = @ \ two]
      /\ AddMeld(s, "PENG", a.tile, two \cup {Popped})
      /\ ConsumeDiscard /\ HandToClaimer(s)
  BY DEF Peng
<1> HIDE DEF two
<1> QED
  BY <1>1, <1>2, <1>3, <1>4, HandOver

LEMMA ChiStep ==
  ASSUME HandInv, NEW s \in Seats, NEW a, Chi(s, a)
  PROVE  HandInv'
<1> DEFINE two == UNION {Lowest(Copies(s, k), 1) : k \in a.run \ {lastDiscard.tile}}
<1>1. phase = "CLAIM_WINDOW" /\ lastDiscard # None
  BY LegalClaim DEF Chi
<1>2. lastDiscard.tile \in Kinds
  BY <1>1 DEF HandInv, TypeOK
<1>3. two \in SUBSET concealed[s]
  BY TakenTiles
<1>4. /\ concealed' = [concealed EXCEPT ![s] = @ \ two]
      /\ AddMeld(s, "CHI", lastDiscard.tile, two \cup {Popped})
      /\ ConsumeDiscard /\ HandToClaimer(s)
  BY DEF Chi
<1> HIDE DEF two
<1> QED
  BY <1>1, <1>2, <1>3, <1>4, HandOver

\* A kong ends in a draw for the seat that made it.
LEMMA KongDraws ==
  ASSUME HandInv, NEW s \in Seats, NEW X,
         InternalDraw(s, [concealed EXCEPT ![s] = @ \ X]),
         Split(drawn, [concealed EXCEPT ![s] = @ \ X], flowers, discards', melds'),
         melds' \in [Seats -> SUBSET Melds],
         discards' \in [Seats -> Seq(DOMAIN deck)], discards' \in Piles,
         deck' = deck,
         lastDiscard' \in {lastDiscard, None}, pending' \in {pending, {}}
  PROVE  HandInv'
<1> DEFINE hands == [concealed EXCEPT ![s] = @ \ X]
<1>1. hands \in Hands /\ hands \in [Seats -> SUBSET Live(deck)] /\ TypeOK
  BY FewerTiles DEF HandInv
<1> HIDE DEF hands
<1>2. InternalDraw(s, hands) /\ Split(drawn, hands, flowers, discards', melds')
  BY DEF hands
<1>3. Split(drawn', concealed', flowers', discards', melds')
  BY <1>1, <1>2, DrawSplits
<1>4. /\ drawn' \in 0 .. Len(deck)
      /\ concealed' \in [Seats -> SUBSET Live(deck)]
      /\ flowers' \in [Seats -> SUBSET DOMAIN deck]
      /\ phase' \in {"DISCARD", "TERMINAL"} /\ actor' \in Seats
      /\ lastDrawn' = None \/ lastDrawn' \in [seat : Seats, tile : Kinds]
  BY <1>1, <1>2, DrawTypes
<1>5. TypeOK'
  BY <1>1, <1>4 DEF TypeOK, Live, Melds
<1>6. HandsLive' /\ PileStands'
  BY <1>4 DEF HandsLive, PileStands, Live
<1> QED
  BY <1>3, <1>5, <1>6 DEF HandInv

LEMMA GangExposedStep ==
  ASSUME HandInv, NEW s \in Seats, NEW a, GangExposed(s, a)
  PROVE  HandInv'
<1> DEFINE three == Lowest(Copies(s, a.tile), 3)
<1>1. phase = "CLAIM_WINDOW" /\ lastDiscard # None /\ a.tile = lastDiscard.tile
  BY LegalClaim DEF GangExposed
<1>2. a.tile \in Kinds
  BY <1>1 DEF HandInv, TypeOK
<1>3. three \in SUBSET concealed[s]
  BY TakenTiles
<1>4. /\ AddMeld(s, "GANG", a.tile, three \cup {Popped})
      /\ InternalDraw(s, [concealed EXCEPT ![s] = @ \ three])
      /\ PopDiscard /\ lastDiscard' = None /\ pending' = {} /\ deck' = deck
  BY DEF GangExposed, ConsumeDiscard
<1> HIDE DEF three
<1>5. /\ Split(drawn, [concealed EXCEPT ![s] = @ \ three], flowers, discards', melds')
      /\ melds' \in [Seats -> SUBSET Melds]
      /\ discards' \in [Seats -> Seq(DOMAIN deck)] /\ discards' \in Piles
  BY <1>1, <1>2, <1>3, <1>4, ClaimMoves
<1> QED
  BY <1>4, <1>5, KongDraws

LEMMA GangConcealedStep ==
  ASSUME HandInv, NEW s \in Seats, NEW a, GangConcealed(s, a)
  PROVE  HandInv'
<1> DEFINE four == Lowest(Copies(s, a.tile), 4)
           m == [type |-> "GANG", kind |-> a.tile, tiles |-> four]
<1>1. a.tile \in Kinds
  BY LegalKong, KindsOfHand DEF GangConcealed, HandInv
<1>2. four \in SUBSET concealed[s] /\ m.tiles = four
  BY TakenTiles
<1>3. /\ melds' = [melds EXCEPT ![s] = @ \cup {m}]
      /\ InternalDraw(s, [concealed EXCEPT ![s] = @ \ four])
      /\ UNCHANGED <<deck, discards, lastDiscard, pending>>
  BY DEF GangConcealed, AddMeld
<1>4. m \in Melds
  BY <1>1, <1>2 DEF Melds, HandInv, TypeOK
<1> HIDE DEF four, m
<1>5. Split(drawn, [concealed EXCEPT ![s] = @ \ four], flowers, discards, melds')
  BY <1>2, <1>3, Positions, ToConcealedMeld DEF HandInv
<1>6. melds' \in [Seats -> SUBSET Melds]
  BY <1>3, <1>4 DEF HandInv, TypeOK
<1>7. discards' \in [Seats -> Seq(DOMAIN deck)] /\ discards' \in Piles /\ discards' = discards
  BY <1>3, Positions DEF HandInv, TypeOK
<1> QED
  BY <1>3, <1>5, <1>6, <1>7, KongDraws

LEMMA GangAddedStep ==
  ASSUME HandInv, NEW s \in Seats, NEW a, GangAdded(s, a)
  PROVE  HandInv'
<1> DEFINE one == Lowest(Copies(s, a.tile), 1)
<1>1. a.tile \in Kinds
  BY LegalKong, KindsOfHand DEF GangAdded, HandInv
<1>2. one \in SUBSET concealed[s]
  BY TakenTiles
<1>3. PICK q \in melds[s] :
        /\ melds' = [melds EXCEPT ![s] = (@ \ {q}) \cup
              {[type |-> "GANG", kind |-> a.tile, tiles |-> q.tiles \cup one]}]
        /\ InternalDraw(s, [concealed EXCEPT ![s] = @ \ one])
  BY DEF GangAdded
<1>4. UNCHANGED <<deck, discards, lastDiscard, pending>>
  BY DEF GangAdded
<1> DEFINE m == [type |-> "GANG", kind |-> a.tile, tiles |-> q.tiles \cup one]
<1>5. m.tiles = q.tiles \cup one /\ melds' = [melds EXCEPT ![s] = (@ \ {q}) \cup {m}]
  BY <1>3
<1>6. m \in Melds
  BY <1>1, <1>2 DEF Melds, HandInv, TypeOK
<1> HIDE DEF one, m
<1>7. Split(drawn, [concealed EXCEPT ![s] = @ \ one], flowers, discards, melds')
  BY <1>2, <1>5, Positions, ToGrownMeld DEF HandInv
<1>8. melds' \in [Seats -> SUBSET Melds]
  BY <1>5, <1>6 DEF HandInv, TypeOK
<1>9. discards' \in [Seats -> Seq(DOMAIN deck)] /\ discards' \in Piles /\ discards' = discards
  BY <1>4, Positions DEF HandInv, TypeOK
<1> QED
  BY <1>3, <1>4, <1>7, <1>8, <1>9, KongDraws

LEMMA HuStep ==
  ASSUME HandInv, NEW s \in Seats, NEW a, Hu(s, a)
  PROVE  HandInv'
<1>1. /\ phase' = "TERMINAL" /\ lastDiscard' = None /\ lastDrawn' = None /\ pending' = {}
      /\ UNCHANGED <<deck, drawn, concealed, melds, discards, flowers, actor>>
  BY DEF Hu
<1> QED
  BY <1>1 DEF HandInv, TypeOK, HandsLive, PileStands, Live, Melds

-----------------------------------------------------------------------------
(* The deal.                                                               *)

LEMMA DealSeats ==
  ASSUME NEW d \in Decks, NEW i \in Nat, NEW dealer \in Seats, NEW n \in {0, 1}
  PROVE  SeatOfDraw(Nth(d, i) + n, dealer) \in Seats
<1>1. d \in Seq(Kinds \cup {Flower})
  BY HandAssumption
<1>2. IsFiniteSet(1 .. Len(d)) /\ {j \in Live(d) : j <= i} \subseteq 1 .. Len(d)
  BY <1>1, FS_Interval DEF Live
<1>3. Nth(d, i) \in Nat
  BY <1>2, FS_Subset, FS_CardinalityType DEF Nth
<1> QED
  BY <1>3 DEF SeatOfDraw, Seats

LEMMA DealSplits ==
  ASSUME NEW d \in Decks, NEW dealer \in Seats, NEW cut \in DOMAIN d, Deal(d, dealer, cut)
  PROVE  HandInv
<1>1. /\ d \in Seq(Kinds \cup {Flower}) /\ Len(d) \in Nat /\ DOMAIN d = 1 .. Len(d)
      /\ Live(d) \subseteq DOMAIN d /\ cut \in Live(d) /\ cut \in Nat
      /\ \A i \in Live(d) : d[i] \in Kinds
  <2>1. d \in Seq(Kinds \cup {Flower})
    BY HandAssumption
  <2>2. Len(d) \in Nat /\ DOMAIN d = 1 .. Len(d)
    BY <2>1
  <2>3. Live(d) \subseteq DOMAIN d /\ \A i \in Live(d) : d[i] \in Kinds
    BY <2>1 DEF Live
  <2>4. cut \in Live(d) /\ cut \in Nat
    BY <2>2 DEF Deal
  <2> QED
    BY <2>1, <2>2, <2>3, <2>4
<1>2. /\ deck = d /\ drawn = cut
      /\ concealed = [s \in Seats |->
              {i \in Live(d) : i <= cut /\ SeatOfDraw(Nth(d, i), dealer) = s}]
      /\ flowers = [s \in Seats |->
              {i \in DOMAIN d \ Live(d) : i < cut /\ SeatOfDraw(Nth(d, i) + 1, dealer) = s}]
      /\ melds = [s \in Seats |-> {}] /\ discards = [s \in Seats |-> <<>>]
      /\ phase = "DISCARD" /\ actor = dealer
      /\ lastDrawn = [seat |-> dealer, tile |-> d[cut]]
      /\ lastDiscard = None /\ pending = {}
  BY DEF Deal
<1>3. TypeOK
  <2>1. concealed \in [Seats -> SUBSET DOMAIN deck] /\ flowers \in [Seats -> SUBSET DOMAIN deck]
    BY <1>1, <1>2
  <2>2. discards \in [Seats -> Seq(DOMAIN deck)] /\ melds \in [Seats -> SUBSET Melds]
    BY <1>2
  <2> QED
    BY <1>1, <1>2, <2>1, <2>2 DEF TypeOK
<1>4. HandsLive /\ PileStands
  BY <1>2 DEF HandsLive, PileStands
<1>5. Covers(drawn, concealed, flowers, discards, melds)
  <2> SUFFICES ASSUME NEW i \in 1 .. cut
               PROVE  \E s \in Seats : i \in concealed[s] \/ i \in flowers[s]
    BY <1>2 DEF Covers
  <2>1. i \in DOMAIN d /\ i \in Nat /\ i <= cut
    BY <1>1
  <2>2. CASE i \in Live(d)
    <3>1. SeatOfDraw(Nth(d, i), dealer) \in Seats
      <4>1. SeatOfDraw(Nth(d, i) + 0, dealer) \in Seats /\ Nth(d, i) \in Nat
        <5>1. IsFiniteSet(1 .. Len(d)) /\ {j \in Live(d) : j <= i} \subseteq 1 .. Len(d)
          BY <1>1, FS_Interval
        <5>2. Nth(d, i) \in Nat
          BY <5>1, FS_Subset, FS_CardinalityType DEF Nth
        <5> QED
          BY <5>2, <2>1, DealSeats
      <4> QED
        BY <4>1
    <3> QED
      BY <3>1, <2>1, <2>2, <1>2
  <2>3. CASE i \notin Live(d)
    <3>1. SeatOfDraw(Nth(d, i) + 1, dealer) \in Seats
      BY <2>1, DealSeats
    <3>2. i < cut
      BY <2>1, <2>3, <1>1
    <3> QED
      BY <3>1, <3>2, <2>1, <2>3, <1>2
  <2> QED
    BY <2>2, <2>3
<1>6. Within(drawn, concealed, flowers, discards, melds)
  <2>1. ASSUME NEW s \in Seats
        PROVE  concealed[s] \subseteq 1 .. cut /\ flowers[s] \subseteq 1 .. cut
    BY <1>1, <1>2
  <2> QED
    BY <2>1, <1>2 DEF Within
<1>7. HandsApart(concealed, flowers)
  BY <1>2 DEF HandsApart
<1>8. PilesApart(concealed, flowers, discards) /\ MeldsApart(concealed, flowers, discards, melds)
  BY <1>2 DEF PilesApart, MeldsApart
<1> QED
  BY <1>3, <1>4, <1>5, <1>6, <1>7, <1>8 DEF HandInv, Split

-----------------------------------------------------------------------------
(* The theorems.                                                           *)

LEMMA HandKept == HandInv /\ [Next]_vars => HandInv'
<1> SUFFICES ASSUME HandInv, [Next]_vars PROVE HandInv'
  OBVIOUS
<1>1. ASSUME NEW s \in Seats, NEW a, ApplyAction(s, a) PROVE HandInv'
  BY <1>1, PlayStep, PassStep, PengStep, ChiStep, GangExposedStep, GangConcealedStep,
     GangAddedStep, HuStep DEF ApplyAction
<1>2. CASE UNCHANGED vars
  BY <1>2 DEF vars, HandInv, TypeOK, HandsLive, PileStands, Live, Melds
<1> QED
  BY <1>1, <1>2 DEF Next

LEMMA HandInit == Init => HandInv
BY DealSplits DEF Init

LEMMA HandInvariant == Spec => []HandInv
BY HandInit, HandKept, PTL DEF Spec

\* Each component of the engine's state keeps its type, whatever is played.
THEOREM TypeCorrect == Spec => []TypeOK
<1> HandInv => TypeOK
  BY DEF HandInv
<1> QED
  BY HandInvariant, PTL

\* Where one tile lies.
LEMMA OnePlace ==
  ASSUME HandInv, NEW i \in DOMAIN deck
  PROVE  \E p \in Places(i) : Places(i) = {p}
<1> USE DEF HandInv
<1>1. Len(deck) \in Nat /\ DOMAIN deck = 1 .. Len(deck) /\ drawn \in Nat /\ i \in Nat
  BY Positions
<1>2. CASE i \in Wall
  <2>1. \A s \in Seats : /\ i \notin concealed[s] /\ i \notin flowers[s]
                         /\ \A n \in DOMAIN discards[s] : discards[s][n] # i
                         /\ \A m \in melds[s] : i \notin m.tiles
    <3>1. i \notin 1 .. drawn
      BY <1>1, <1>2 DEF Wall
    <3>2. \A s \in Seats : discards[s] \in Seq(1 .. drawn)
      BY DEF Split, Within
    <3>3. ASSUME NEW s \in Seats, NEW n \in DOMAIN discards[s]
          PROVE  discards[s][n] \in 1 .. drawn
      <4>1. discards[s] \in Seq(1 .. drawn)
        BY <3>2
      <4>2. n \in 1 .. Len(discards[s])
        BY <4>1
      <4> QED
        BY <4>1, <4>2, ElementOfSeq
    <3> QED
      BY <3>1, <3>3 DEF Split, Within
  <2>2. Places(i) = {<<"wall">>}
    BY <2>1, <1>2 DEF Places, WallPlaces, HandPlaces, FlowerPlaces, PilePlaces, MeldPlaces
  <2> QED
    BY <2>2
<1>3. CASE i \notin Wall
  <2>1. i \in 1 .. drawn
    BY <1>1, <1>3 DEF Wall
  <2>2. CASE \E s \in Seats : i \in concealed[s]
    <3>1. PICK s \in Seats : i \in concealed[s]
      BY <2>2
    <3>2. /\ \A t \in Seats : (i \in concealed[t] <=> t = s) /\ i \notin flowers[t]
          /\ \A t \in Seats : \A n \in DOMAIN discards[t] : discards[t][n] # i
          /\ \A t \in Seats : \A m \in melds[t] : i \notin m.tiles
      BY <3>1 DEF Split, HandsApart, PilesApart, MeldsApart
    <3>3. Places(i) = {<<"hand", s>>}
      BY <3>2, <1>3 DEF Places, WallPlaces, HandPlaces, FlowerPlaces, PilePlaces, MeldPlaces
    <3> QED
      BY <3>3
  <2>3. CASE \E s \in Seats : i \in flowers[s]
    <3>1. PICK s \in Seats : i \in flowers[s]
      BY <2>3
    <3>2. /\ \A t \in Seats : (i \in flowers[t] <=> t = s) /\ i \notin concealed[t]
          /\ \A t \in Seats : \A n \in DOMAIN discards[t] : discards[t][n] # i
          /\ \A t \in Seats : \A m \in melds[t] : i \notin m.tiles
      BY <3>1 DEF Split, HandsApart, PilesApart, MeldsApart
    <3>3. Places(i) = {<<"flower", s>>}
      BY <3>2, <1>3 DEF Places, WallPlaces, HandPlaces, FlowerPlaces, PilePlaces, MeldPlaces
    <3> QED
      BY <3>3
  <2>4. CASE \E s \in Seats : \E n \in DOMAIN discards[s] : discards[s][n] = i
    <3>0. PICK s \in Seats : \E n \in DOMAIN discards[s] : discards[s][n] = i
      BY <2>4
    <3>1. PICK n \in DOMAIN discards[s] : discards[s][n] = i
      BY <3>0
    <3>2. /\ \A t \in Seats : i \notin concealed[t] /\ i \notin flowers[t]
          /\ \A t \in Seats : \A k \in DOMAIN discards[t] :
               discards[t][k] = i <=> t = s /\ k = n
          /\ \A t \in Seats : \A m \in melds[t] : i \notin m.tiles
      BY <3>1 DEF Split, PilesApart, MeldsApart
    <3>3. \A t \in Seats :
            {<<"pile", t, x>> : x \in {y \in DOMAIN discards[t] : discards[t][y] = i}}
              = IF t = s THEN {<<"pile", s, n>>} ELSE {}
      BY <3>1, <3>2
    <3>4. PilePlaces(i) = {<<"pile", s, n>>}
      BY <3>3 DEF PilePlaces
    <3>5. WallPlaces(i) = {} /\ HandPlaces(i) = {} /\ FlowerPlaces(i) = {} /\ MeldPlaces(i) = {}
      BY <3>2, <1>3 DEF WallPlaces, HandPlaces, FlowerPlaces, MeldPlaces
    <3>6. Places(i) = {<<"pile", s, n>>}
      BY <3>4, <3>5 DEF Places
    <3> QED
      BY <3>6
  <2>5. CASE \E s \in Seats : \E m \in melds[s] : i \in m.tiles
    <3>0. PICK s \in Seats : \E m \in melds[s] : i \in m.tiles
      BY <2>5
    <3>1. PICK m \in melds[s] : i \in m.tiles
      BY <3>0
    <3>2. /\ \A t \in Seats : i \notin concealed[t] /\ i \notin flowers[t]
          /\ \A t \in Seats : \A k \in DOMAIN discards[t] : discards[t][k] # i
          /\ \A t \in Seats : \A o \in melds[t] : i \in o.tiles <=> t = s /\ o = m
      BY <3>1 DEF Split, MeldsApart
    <3>3. \A t \in Seats :
            {<<"meld", t, o>> : o \in {x \in melds[t] : i \in x.tiles}}
              = IF t = s THEN {<<"meld", s, m>>} ELSE {}
      BY <3>1, <3>2
    <3>4. MeldPlaces(i) = {<<"meld", s, m>>}
      BY <3>3 DEF MeldPlaces
    <3>5. WallPlaces(i) = {} /\ HandPlaces(i) = {} /\ FlowerPlaces(i) = {} /\ PilePlaces(i) = {}
      BY <3>2, <1>3 DEF WallPlaces, HandPlaces, FlowerPlaces, PilePlaces
    <3>6. Places(i) = {<<"meld", s, m>>}
      BY <3>4, <3>5 DEF Places
    <3> QED
      BY <3>6
  <2> QED
    BY <2>1, <2>2, <2>3, <2>4, <2>5 DEF Split, Covers
<1> QED
  BY <1>2, <1>3

\* No claim, kong, replacement draw or exhausted wall loses a tile or leaves a
\* copy behind: apply_action keeps every tile of the wall in exactly one place,
\* for every wall and hand size.
THEOREM TilesTheorem == Spec => []TilesConserved
<1> HandInv => TilesConserved
  BY OnePlace DEF TilesConserved
<1> QED
  BY HandInvariant, PTL

\* The tile internal_draw records as drawn is in the hand of the seat to discard.
LEMMA DrawHolds ==
  ASSUME TypeOK, NEW s \in Seats, NEW hands \in Hands, InternalDraw(s, hands), deck' = deck
  PROVE  DrawnIsHeld'
<1> DEFINE left == {i \in Wall : deck[i] # Flower}
<1>1. CASE left = {}
  BY <1>1 DEF InternalDraw, DrawnIsHeld
<1>2. CASE left # {}
  <2>1. PICK i \in Lowest(left, 1) :
          /\ concealed' = [hands EXCEPT ![s] = @ \cup {i}]
          /\ actor' = s /\ lastDrawn' = [seat |-> s, tile |-> deck[i]]
    BY <1>2 DEF InternalDraw
  <2>2. i \in concealed'[s]
    BY <2>1 DEF Hands
  <2>3. lastDrawn'.seat = s /\ lastDrawn'.tile = deck[i]
    BY <2>1
  <2>4. lastDrawn'.tile \in KindsIn(s)'
    BY <2>2, <2>3 DEF KindsIn
  <2> QED
    BY <2>1, <2>3, <2>4 DEF DrawnIsHeld
<1> QED
  BY <1>1, <1>2

\* After a claim nothing counts as drawn, in an open window nobody discards, and
\* every other move draws.
LEMMA DrawnStep ==
  ASSUME HandInv, NEW s \in Seats, NEW a, ApplyAction(s, a)
  PROVE  DrawnIsHeld'
<1> USE DEF HandInv
<1>1. CASE Play(s, a)
  <2>1. PICK i \in Lowest(Copies(s, a.tile), 1) :
          LET hands == [concealed EXCEPT ![s] = @ \ {i}]
          IN IF Opportunities(a.tile, s) = {} THEN AdvanceToNextSeat(s, hands)
             ELSE phase' = "CLAIM_WINDOW"
    BY <1>1 DEF Play
  <2>2. NextSeat(s) \in Seats /\ deck' = deck
    BY <1>1 DEF NextSeat, Seats, Play
  <2>3. CASE Opportunities(a.tile, s) = {}
    BY <2>1, <2>2, <2>3, FewerTiles, DrawHolds DEF AdvanceToNextSeat
  <2>4. CASE Opportunities(a.tile, s) # {}
    BY <2>1, <2>4 DEF DrawnIsHeld
  <2> QED
    BY <2>3, <2>4
<1>2. CASE Pass(s, a)
  <2>1. phase = "CLAIM_WINDOW" /\ lastDiscard # None /\ deck' = deck
    BY <1>2, LegalPass DEF Pass
  <2>2. NextSeat(lastDiscard.seat) \in Seats
    BY <2>1 DEF TypeOK, NextSeat, Seats
  <2>3. AdvanceToNextSeat(lastDiscard.seat, concealed) \/ phase' = phase
    BY <1>2 DEF Pass
  <2>4. CASE AdvanceToNextSeat(lastDiscard.seat, concealed)
    BY <2>1, <2>2, <2>4, Positions, DrawHolds DEF AdvanceToNextSeat
  <2>5. CASE phase' = phase
    BY <2>1, <2>5 DEF DrawnIsHeld
  <2> QED
    BY <2>3, <2>4, <2>5
<1>3. CASE Peng(s, a) \/ Chi(s, a)
  BY <1>3 DEF Peng, Chi, HandToClaimer, DrawnIsHeld
<1>4. CASE GangExposed(s, a) \/ GangConcealed(s, a)
  BY <1>4, FewerTiles, DrawHolds DEF GangExposed, GangConcealed
<1>5. CASE GangAdded(s, a)
  BY <1>5, FewerTiles, DrawHolds DEF GangAdded
<1>6. CASE Hu(s, a)
  BY <1>6 DEF Hu, DrawnIsHeld
<1> QED
  BY <1>1, <1>2, <1>3, <1>4, <1>5, <1>6 DEF ApplyAction

LEMMA DrawnInit == Init => DrawnIsHeld
<1> SUFFICES ASSUME NEW d \in Decks, NEW dealer \in Seats, NEW cut \in DOMAIN d,
                    Deal(d, dealer, cut)
             PROVE  DrawnIsHeld
  BY DEF Init
<1>1. /\ deck = d /\ actor = dealer /\ cut \in Live(d) /\ Nth(d, cut) = 4 * HandSize + 1
      /\ lastDrawn = [seat |-> dealer, tile |-> d[cut]]
      /\ concealed = [s \in Seats |->
            {i \in Live(d) : i <= cut /\ SeatOfDraw(Nth(d, i), dealer) = s}]
  BY DEF Deal
<1>2. SeatOfDraw(Nth(d, cut), dealer) = dealer
  BY <1>1, HandAssumption DEF SeatOfDraw
<1>3. cut <= cut
  <2>1. d \in Seq(Kinds \cup {Flower})
    BY HandAssumption
  <2> QED
    BY <2>1
<1>4. cut \in concealed[dealer]
  BY <1>1, <1>2, <1>3
<1>5. lastDrawn.seat = actor /\ lastDrawn.tile = deck[cut]
  BY <1>1
<1>6. lastDrawn.tile \in KindsIn(actor)
  BY <1>1, <1>4, <1>5 DEF KindsIn
<1> QED
  BY <1>5, <1>6 DEF DrawnIsHeld

LEMMA DrawnKept == HandInv /\ DrawnIsHeld /\ [Next]_vars => DrawnIsHeld'
<1>1. ASSUME UNCHANGED vars, DrawnIsHeld PROVE DrawnIsHeld'
  BY <1>1 DEF vars, DrawnIsHeld, KindsIn
<1> QED
  BY <1>1, DrawnStep DEF Next

\* The default answer of a prompt, the tile just drawn, is always in the hand of
\* the seat that is asked: a timed-out seat never discards what it does not hold.
THEOREM DrawnTheorem == Spec => []DrawnIsHeld
BY DrawnInit, DrawnKept, HandInvariant, PTL DEF Spec

-----------------------------------------------------------------------------
(* Counting.                                                               *)

\* A set one to one with a finite set has its size.
LEMMA SameSize ==
  ASSUME NEW S, IsFiniteSet(S), NEW T, NEW f \in [S -> T],
         \A x, y \in S : f[x] = f[y] => x = y, \A z \in T : \E x \in S : f[x] = z
  PROVE  IsFiniteSet(T) /\ Cardinality(T) = Cardinality(S)
<1>1. f \in Bijection(S, T)
  BY DEF Bijection, Injection, Surjection, IsInjective
<1>2. ExistsBijection(S, T)
  BY <1>1 DEF ExistsBijection
<1> QED
  BY <1>2, FS_Bijection

\* The rank of an element of a finite set of positions: one to one with 1 .. |S|.
Rank(S, x) == Cardinality({y \in S : y < x}) + 1

LEMMA RankType ==
  ASSUME NEW S \in SUBSET Nat, IsFiniteSet(S), NEW x \in S
  PROVE  Rank(S, x) \in 1 .. Cardinality(S) /\ Cardinality(S) \in Nat
<1> DEFINE B == {y \in S : y < x}
<1>1. IsFiniteSet(S \ {x}) /\ Cardinality(S \ {x}) = Cardinality(S) - 1
  BY FS_RemoveElement
<1>2. B \in SUBSET (S \ {x})
  OBVIOUS
<1>3. IsFiniteSet(B) /\ Cardinality(B) <= Cardinality(S \ {x})
  BY <1>1, <1>2, FS_Subset
<1>4. Cardinality(B) \in Nat /\ Cardinality(S) \in Nat
  BY <1>3, FS_CardinalityType
<1> HIDE DEF B
<1>5. Rank(S, x) = Cardinality(B) + 1
  BY DEF Rank, B
<1> QED
  BY <1>1, <1>3, <1>4, <1>5

LEMMA RankOrder ==
  ASSUME NEW S \in SUBSET Nat, IsFiniteSet(S), NEW x \in S, NEW y \in S, x < y
  PROVE  Rank(S, x) < Rank(S, y)
<1> DEFINE B == {z \in S : z < x}
           C == {z \in S : z < y}
<1>1. B \in SUBSET S /\ C \in SUBSET S /\ B \cup {x} \in SUBSET C /\ x \notin B
  <2>1. x \in Nat /\ y \in Nat /\ x \in C /\ ~(x < x)
    OBVIOUS
  <2>2. ASSUME NEW z \in B PROVE z \in C
    <3>1. z \in Nat /\ z < x
      OBVIOUS
    <3>2. z < y
      BY <3>1, <2>1
    <3> QED
      BY <3>2
  <2> QED
    BY <2>1, <2>2
<1>2. IsFiniteSet(B) /\ IsFiniteSet(C)
  BY <1>1, FS_Subset
<1>3. IsFiniteSet(B \cup {x}) /\ Cardinality(B \cup {x}) = Cardinality(B) + 1
  BY <1>1, <1>2, FS_AddElement
<1>4. Cardinality(B \cup {x}) <= Cardinality(C)
  BY <1>1, <1>2, FS_Subset
<1>5. Cardinality(B) \in Nat /\ Cardinality(C) \in Nat
  BY <1>2, FS_CardinalityType
<1> HIDE DEF B, C
<1>6. Rank(S, x) = Cardinality(B) + 1 /\ Rank(S, y) = Cardinality(C) + 1
  BY DEF Rank, B, C
<1> QED
  BY <1>3, <1>4, <1>5, <1>6

LEMMA Ranks ==
  ASSUME NEW S \in SUBSET Nat, IsFiniteSet(S)
  PROVE  /\ \A x, y \in S : Rank(S, x) = Rank(S, y) => x = y
         /\ \A n \in 1 .. Cardinality(S) : \E x \in S : Rank(S, x) = n
<1> DEFINE r == [x \in S |-> Rank(S, x)]
<1>1. ASSUME NEW x \in S, NEW y \in S, Rank(S, x) = Rank(S, y) PROVE x = y
  <2>1. ~(x < y) /\ ~(y < x)
    BY <1>1, RankOrder, RankType
  <2> QED
    BY <2>1
<1>2. r \in [S -> 1 .. Cardinality(S)]
  BY RankType
<1>3. r \in Injection(S, 1 .. Cardinality(S))
  BY <1>1, <1>2 DEF Injection, IsInjective
<1>4. Cardinality(S) \in Nat
  BY FS_CardinalityType
<1>5. IsFiniteSet(1 .. Cardinality(S)) /\ Cardinality(1 .. Cardinality(S)) = Cardinality(S)
  BY <1>4, FS_Interval
<1>6. r \in Surjection(S, 1 .. Cardinality(S))
  BY <1>3, <1>5, FS_Injection
<1> QED
  BY <1>1, <1>6 DEF Surjection

\* The n lowest of a set with at least n elements are n.
LEMMA LowestSize ==
  ASSUME NEW S \in SUBSET Nat, IsFiniteSet(S), NEW n \in Nat, n <= Cardinality(S)
  PROVE  IsFiniteSet(Lowest(S, n)) /\ Cardinality(Lowest(S, n)) = n
<1>1. Lowest(S, n) = {x \in S : Rank(S, x) <= n}
  <2>1. ASSUME NEW x \in S PROVE Cardinality({y \in S : y < x}) \in Nat
    BY FS_Subset, FS_CardinalityType
  <2>2. \A x \in S : Cardinality({y \in S : y < x}) < n <=> Rank(S, x) <= n
    BY <2>1 DEF Rank
  <2> QED
    BY <2>2 DEF Lowest
<1> DEFINE L == {x \in S : Rank(S, x) <= n}
           r == [x \in L |-> Rank(S, x)]
<1>2. Cardinality(S) \in Nat
  BY FS_CardinalityType
<1>3. r \in [L -> 1 .. n]
  <2>1. \A x \in L : Rank(S, x) \in 1 .. n
    BY RankType
  <2> QED
    BY <2>1
<1>4. \A x, y \in L : r[x] = r[y] => x = y
  BY Ranks
<1>5. \A k \in 1 .. n : \E x \in L : r[x] = k
  <2> SUFFICES ASSUME NEW k \in 1 .. n PROVE \E x \in L : r[x] = k
    OBVIOUS
  <2>1. k \in 1 .. Cardinality(S) /\ k <= n
    BY <1>2
  <2>2. PICK x \in S : Rank(S, x) = k
    BY <2>1, Ranks
  <2> QED
    BY <2>1, <2>2
<1>6. IsFiniteSet(L)
  BY FS_Subset
<1> HIDE DEF L, r
<1>7. Cardinality(1 .. n) = Cardinality(L)
  BY <1>3, <1>4, <1>5, <1>6, SameSize
<1>8. Cardinality(1 .. n) = n
  BY FS_Interval
<1> QED
  BY <1>1, <1>6, <1>7, <1>8 DEF L

\* A part taken from a finite set.
LEMMA TakenAway ==
  ASSUME NEW S, IsFiniteSet(S), NEW X \in SUBSET S
  PROVE  /\ IsFiniteSet(S \ X) /\ IsFiniteSet(X)
         /\ Cardinality(S \ X) = Cardinality(S) - Cardinality(X)
<1>1. S \cap X = X
  OBVIOUS
<1>2. IsFiniteSet(X)
  BY FS_Subset
<1>3. IsFiniteSet(S \ X) /\ Cardinality(S \ X) = Cardinality(S) - Cardinality(S \cap X)
  BY FS_Difference
<1> QED
  BY <1>1, <1>2, <1>3

-----------------------------------------------------------------------------
(* The sizes of the hands.                                                 *)

SizeInv ==
  /\ HandSizes /\ \A s \in Seats : IsFiniteSet(melds[s])
  /\ phase # "TERMINAL" => terminal = None

\* Concealed tiles are finitely many positions.
LEMMA HandFinite ==
  ASSUME HandInv, NEW s \in Seats
  PROVE  /\ IsFiniteSet(concealed[s]) /\ Cardinality(concealed[s]) \in Nat
         /\ concealed[s] \in SUBSET Nat /\ concealed[s] \subseteq 1 .. drawn
<1>1. concealed[s] \in SUBSET (1 .. drawn) /\ drawn \in Nat
  BY Positions DEF HandInv, Split, Within
<1>2. IsFiniteSet(1 .. drawn)
  BY <1>1, FS_Interval
<1> QED
  BY <1>1, <1>2, FS_Subset, FS_CardinalityType

\* n of the copies of a kind in a hand ...
LEMMA CopiesTaken ==
  ASSUME HandInv, NEW s \in Seats, NEW k, NEW n \in Nat, n <= Cardinality(Copies(s, k)),
         NEW X, X = Lowest(Copies(s, k), n)
  PROVE  /\ X \in SUBSET concealed[s] /\ IsFiniteSet(X) /\ Cardinality(X) = n
         /\ \A i \in X : deck[i] = k
<1>1. Copies(s, k) \in SUBSET concealed[s]
  BY DEF Copies
<1>2. Copies(s, k) \in SUBSET Nat /\ IsFiniteSet(Copies(s, k))
  BY <1>1, HandFinite, FS_Subset
<1>3. IsFiniteSet(X) /\ Cardinality(X) = n
  BY <1>2, LowestSize
<1>4. X \in SUBSET concealed[s] /\ \A i \in X : deck[i] = k
  BY DEF Lowest, Copies
<1> QED
  BY <1>3, <1>4

\* ... taken from it.
LEMMA HandLeft ==
  ASSUME HandInv, NEW s \in Seats, NEW X \in SUBSET concealed[s], IsFiniteSet(X),
         NEW n, Cardinality(X) = n
  PROVE  /\ IsFiniteSet(concealed[s] \ X)
         /\ Cardinality(concealed[s] \ X) = Cardinality(concealed[s]) - n
BY HandFinite, TakenAway

\* A kind in a hand has a copy there.
LEMMA HeldKind ==
  ASSUME HandInv, NEW s \in Seats, NEW k \in KindsIn(s)
  PROVE  1 <= Cardinality(Copies(s, k))
<1>1. Copies(s, k) \in SUBSET concealed[s] /\ Copies(s, k) # {}
  BY DEF Copies, KindsIn
<1>2. IsFiniteSet(Copies(s, k))
  BY <1>1, HandFinite, FS_Subset
<1>3. Cardinality(Copies(s, k)) \in Nat /\ Cardinality(Copies(s, k)) # 0
  BY <1>1, <1>2, FS_CardinalityType, FS_EmptySet
<1> QED
  BY <1>3

\* A draw fills a hand that was a tile short, and an exhausted wall leaves every
\* hand at its size.
LEMMA DrawSizes ==
  ASSUME HandInv, terminal = None, NEW s \in Seats, NEW hands \in Hands,
         \A t \in Seats : /\ IsFiniteSet(hands[t]) /\ hands[t] \subseteq 1 .. drawn
                          /\ Cardinality(hands[t]) + 3 * Cardinality(melds'[t]) = HandSize,
         \A t \in Seats : IsFiniteSet(melds'[t]),
         InternalDraw(s, hands)
  PROVE  SizeInv'
<1> DEFINE left == {i \in Wall : deck[i] # Flower}
<1>1. CASE left = {}
  <2>1. concealed' = hands /\ phase' = "TERMINAL" /\ terminal' = [kind |-> "DRAW"]
    BY <1>1 DEF InternalDraw
  <2>2. terminal'.kind # "HU"
    BY <2>1
  <2>3. \A t \in Seats : ~HoldsOneMore(t)'
    BY <2>1, <2>2 DEF HoldsOneMore
  <2>4. ASSUME NEW t \in Seats
        PROVE  Cardinality(concealed'[t]) + 3 * Cardinality(melds'[t]) = HandSize + 0
    <3>1. HandSize \in Nat
      BY HandAssumption
    <3> QED
      BY <3>1, <2>1
  <2>5. HandSizes'
    BY <2>3, <2>4 DEF HandSizes
  <2> QED
    BY <2>1, <2>5 DEF SizeInv
<1>2. CASE left # {}
  <2>1. PICK i \in Lowest(left, 1) :
          /\ concealed' = [hands EXCEPT ![s] = @ \cup {i}]
          /\ phase' = "DISCARD" /\ actor' = s /\ terminal' = terminal
    BY <1>2 DEF InternalDraw
  <2>2. i \in Wall
    BY <2>1 DEF Lowest
  <2>3. i \notin hands[s]
    <3>1. drawn \in Nat /\ Len(deck) \in Nat
      BY Positions DEF HandInv
    <3> QED
      BY <3>1, <2>2 DEF Wall
  <2>4. /\ concealed'[s] = hands[s] \cup {i}
        /\ \A t \in Seats : t # s => concealed'[t] = hands[t]
    BY <2>1 DEF Hands
  <2>5. \A t \in Seats : HoldsOneMore(t)' <=> t = s
    BY <2>1 DEF HoldsOneMore
  <2>6. /\ \A t \in Seats : Cardinality(hands[t]) \in Nat /\ Cardinality(melds'[t]) \in Nat
        /\ HandSize \in Nat
    BY FS_CardinalityType, HandAssumption
  <2>7. Cardinality(concealed'[s]) = Cardinality(hands[s]) + 1
    BY <2>3, <2>4, FS_AddElement
  <2>8. ASSUME NEW t \in Seats
        PROVE  Cardinality(concealed'[t]) + 3 * Cardinality(melds'[t])
                 = HandSize + (IF HoldsOneMore(t)' THEN 1 ELSE 0)
    <3>1. Cardinality(hands[t]) + 3 * Cardinality(melds'[t]) = HandSize
      OBVIOUS
    <3>2. CASE t = s
      <4>1. (Cardinality(hands[s]) + 1) + 3 * Cardinality(melds'[s]) = HandSize + 1
        BY <3>1, <3>2, <2>6
      <4>2. (IF HoldsOneMore(t)' THEN 1 ELSE 0) = 1
        BY <3>2, <2>5
      <4> QED
        BY <3>2, <4>1, <4>2, <2>7
    <3>3. CASE t # s
      <4>1. (IF HoldsOneMore(t)' THEN 1 ELSE 0) = 0
        BY <3>3, <2>5
      <4> QED
        BY <3>1, <3>3, <4>1, <2>4, <2>6
    <3> QED
      BY <3>2, <3>3
  <2>9. HandSizes'
    BY <2>8 DEF HandSizes
  <2> QED
    BY <2>1, <2>9 DEF SizeInv
<1> QED
  BY <1>1, <1>2

\* A meld that takes a tile from a hand is a new one.
LEMMA NewMeld ==
  ASSUME HandInv, NEW s \in Seats, IsFiniteSet(melds[s]),
         NEW m, m.tiles \cap concealed[s] # {}
  PROVE  /\ m \notin melds[s] /\ IsFiniteSet(melds[s] \cup {m})
         /\ Cardinality(melds[s] \cup {m}) = Cardinality(melds[s]) + 1
         /\ Cardinality(melds[s]) \in Nat
<1>1. m \notin melds[s]
  BY DEF HandInv, Split, MeldsApart
<1> QED
  BY <1>1, FS_AddElement, FS_CardinalityType

\* The sizes of the other hands are those of a seat with no tile more.
LEMMA OtherSizes ==
  ASSUME SizeInv, HandInv, NEW s \in Seats,
         phase = "DISCARD" => s = actor, phase # "TERMINAL"
  PROVE  /\ terminal = None
         /\ \A t \in Seats : t # s =>
              Cardinality(concealed[t]) + 3 * Cardinality(melds[t]) = HandSize
         /\ Cardinality(concealed[s]) + 3 * Cardinality(melds[s])
              = HandSize + (IF phase = "DISCARD" THEN 1 ELSE 0)
<1>1. terminal = None
  BY DEF SizeInv
<1>2. \A t \in Seats : HoldsOneMore(t) <=> phase = "DISCARD" /\ t = actor
  BY <1>1 DEF HoldsOneMore
<1>3. HandSize \in Nat
  BY HandAssumption
<1>4. \A t \in Seats : t # s => ~HoldsOneMore(t)
  BY <1>2
<1>5. HoldsOneMore(s) <=> phase = "DISCARD"
  BY <1>2
<1>6. \A t \in Seats : Cardinality(concealed[t]) + 3 * Cardinality(melds[t])
                         = HandSize + (IF HoldsOneMore(t) THEN 1 ELSE 0)
  BY DEF SizeInv, HandSizes
<1>7. ASSUME NEW t \in Seats, t # s
      PROVE Cardinality(concealed[t]) + 3 * Cardinality(melds[t]) = HandSize
  <2>1. (IF HoldsOneMore(t) THEN 1 ELSE 0) = 0
    BY <1>4, <1>7
  <2> QED
    BY <2>1, <1>3, <1>6
<1> QED
  BY <1>1, <1>5, <1>6, <1>7

-----------------------------------------------------------------------------
(* The melds and the window.                                               *)

\* What MeldsWellFormed says of one meld.
Shaped(m) ==
  LET kinds == {deck[i] : i \in m.tiles}
  IN IF m.type = "CHI" THEN kinds \in Runs /\ m.kind \in kinds /\ Cardinality(m.tiles) = 3
     ELSE kinds = {m.kind} /\ Cardinality(m.tiles) = IF m.type = "PENG" THEN 3 ELSE 4

SoundInv == SizeInv /\ MeldsWellFormed /\ WindowStands

\* What a claim takes for granted.
LEMMA ClaimNeeds ==
  ASSUME NEW s, NEW k, NEW from, NEW a \in ClaimsOn(s, k, from)
  PROVE  /\ a.type = "PENG" => Cardinality(Copies(s, k)) >= 2
         /\ a.type = "GANG" => Cardinality(Copies(s, k)) >= 3
         /\ a.type = "CHI" => a.run \in Runs /\ k \in a.run /\ a.run \ {k} \subseteq KindsIn(s)
BY DEF ClaimsOn, PENG, CHI, GANG, HU

LEMMA KongNeeds ==
  ASSUME NEW s, NEW a \in LegalActions(s), a.type = "GANG", a.kind = "CONCEALED"
  PROVE  Cardinality(Copies(s, a.tile)) = 4
BY DEF LegalActions, DiscardActions, ClaimActions, ClaimsOn, PLAY, PASS, PENG, CHI, GANG, HU

\* The discarded tile is in no hand.
LEMMA PoppedApart ==
  ASSUME HandInv, phase = "CLAIM_WINDOW"
  PROVE  lastDiscard # None /\ \A t \in Seats : Popped \notin concealed[t]
<1>1. lastDiscard # None /\ lastDiscard.seat \in Seats /\ discards[lastDiscard.seat] # <<>>
  BY DEF HandInv, PileStands, TypeOK
<1>2. Len(discards[lastDiscard.seat]) \in DOMAIN discards[lastDiscard.seat]
  BY <1>1, Positions DEF HandInv, Piles
<1> QED
  BY <1>1, <1>2 DEF HandInv, Split, PilesApart, Popped

\* A new meld of a seat, made with tiles of its hand.
LEMMA MeldSizes ==
  ASSUME HandInv, SizeInv, NEW s \in Seats, NEW m, m.tiles \cap concealed[s] # {},
         melds' = [melds EXCEPT ![s] = @ \cup {m}]
  PROVE  /\ \A t \in Seats : IsFiniteSet(melds'[t]) /\ Cardinality(melds[t]) \in Nat
         /\ \A t \in Seats : t # s => melds'[t] = melds[t]
         /\ Cardinality(melds'[s]) = Cardinality(melds[s]) + 1
<1>1. \A t \in Seats : melds'[t] = IF t = s THEN melds[s] \cup {m} ELSE melds[t]
  BY Positions DEF HandInv
<1>2. \A t \in Seats : IsFiniteSet(melds[t])
  BY DEF SizeInv
<1> QED
  BY <1>1, <1>2, NewMeld, FS_CardinalityType

\* The melds stay well formed when a well-formed one is added.
LEMMA AddShaped ==
  ASSUME HandInv, MeldsWellFormed, NEW s \in Seats, NEW m, Shaped(m), NEW D,
         deck' = deck, melds' = [melds EXCEPT ![s] = (@ \ D) \cup {m}]
  PROVE  MeldsWellFormed'
<1>1. \A t \in Seats : \A o \in melds'[t] : o = m \/ o \in melds[t]
  BY Positions DEF HandInv
<1>2. \A t \in Seats : \A o \in melds'[t] : Shaped(o)
  BY <1>1 DEF MeldsWellFormed, Shaped
<1>3. \A o : Shaped(o)' <=> Shaped(o)
  BY DEF Shaped
<1>4. \A t \in Seats : \A o \in melds'[t] : Shaped(o)'
  BY <1>2, <1>3
<1> QED
  BY <1>4 DEF MeldsWellFormed, Shaped

\* Tiles of one kind and another tile of that kind.
LEMMA OneKind ==
  ASSUME NEW X, IsFiniteSet(X), NEW n \in Nat \ {0}, Cardinality(X) = n,
         NEW k, \A i \in X : deck[i] = k, NEW p, p \notin X, deck[p] = k
  PROVE  /\ {deck[i] : i \in X \cup {p}} = {k} /\ Cardinality(X \cup {p}) = n + 1
         /\ {deck[i] : i \in X} = {k}
<1>1. X # {}
  BY FS_EmptySet
<1> QED
  BY <1>1, FS_AddElement

\* The two tiles of a run that its claimer holds.
RunPair(s, r, k) == UNION {Lowest(Copies(s, x), 1) : x \in r \ {k}}

LEMMA RunTiles ==
  ASSUME HandInv, NEW s \in Seats, NEW r \in Runs, NEW k \in r, r \ {k} \subseteq KindsIn(s),
         NEW X, X = RunPair(s, r, k)
  PROVE  /\ X \in SUBSET concealed[s] /\ IsFiniteSet(X) /\ Cardinality(X) = 2
         /\ {deck[i] : i \in X} = r \ {k}
<1>1. PICK u \in Suits : \E v \in 1 .. TopRank - 2 : r = {<<u, v>>, <<u, v + 1>>, <<u, v + 2>>}
  BY DEF Runs
<1>2. PICK v \in 1 .. TopRank - 2 : r = {<<u, v>>, <<u, v + 1>>, <<u, v + 2>>}
  BY <1>1
<1>3. <<u, v>> # <<u, v + 1>> /\ <<u, v>> # <<u, v + 2>> /\ <<u, v + 1>> # <<u, v + 2>>
  BY HandAssumption
<1>4. \E x, y : x # y /\ r \ {k} = {x, y}
  <2>1. PICK A, B, C : A # B /\ A # C /\ B # C /\ r = {A, B, C}
    BY <1>2, <1>3
  <2>2. CASE k = A
    BY <2>1, <2>2
  <2>3. CASE k = B
    <3>1. r \ {k} = {A, C}
      BY <2>1, <2>3
    <3> QED
      BY <3>1, <2>1
  <2>4. CASE k = C
    <3>1. r \ {k} = {A, B}
      BY <2>1, <2>4
    <3> QED
      BY <3>1, <2>1
  <2> QED
    BY <2>1, <2>2, <2>3, <2>4
<1>5. PICK x, y : x # y /\ r \ {k} = {x, y}
  BY <1>4
<1>6. ASSUME NEW z \in KindsIn(s)
      PROVE  \E i \in concealed[s] : Lowest(Copies(s, z), 1) = {i} /\ deck[i] = z
  <2>0. PICK L : L = Lowest(Copies(s, z), 1)
    OBVIOUS
  <2>1. 1 <= Cardinality(Copies(s, z))
    BY <1>6, HeldKind
  <2>2. /\ L \in SUBSET concealed[s] /\ IsFiniteSet(L) /\ Cardinality(L) = 1
        /\ \A i \in L : deck[i] = z
    BY <2>0, <2>1, CopiesTaken
  <2>3. \E i : L = {i}
    BY <2>2, FS_Singleton
  <2> QED
    BY <2>0, <2>2, <2>3
<1>7. PICK i \in concealed[s] : Lowest(Copies(s, x), 1) = {i} /\ deck[i] = x
  BY <1>5, <1>6
<1>8. PICK j \in concealed[s] : Lowest(Copies(s, y), 1) = {j} /\ deck[j] = y
  BY <1>5, <1>6
<1>9. X = {i, j} /\ i # j
  <2>1. {Lowest(Copies(s, z), 1) : z \in {x, y}} = {{i}, {j}}
    BY <1>7, <1>8
  <2>2. X = UNION {{i}, {j}}
    BY <1>5, <2>1 DEF RunPair
  <2> QED
    BY <2>2, <1>5, <1>7, <1>8
<1>10. {i} \cup {j} = X /\ j \notin {i}
  BY <1>9
<1>11. IsFiniteSet({i}) /\ Cardinality({i}) = 1
  BY FS_Singleton
<1>12. IsFiniteSet(X) /\ Cardinality(X) = 2
  <2>1. /\ IsFiniteSet({i} \cup {j})
        /\ Cardinality({i} \cup {j}) = IF j \in {i} THEN Cardinality({i}) ELSE Cardinality({i}) + 1
    BY <1>11, FS_AddElement
  <2>2. Cardinality({i} \cup {j}) = Cardinality({i}) + 1
    BY <2>1, <1>10
  <2>3. PICK Y : Y = {i} \cup {j}
    OBVIOUS
  <2>4. Y = X
    BY <2>3, <1>10
  <2>5. IsFiniteSet(Y) /\ Cardinality(Y) = Cardinality({i}) + 1
    BY <2>1, <2>2, <2>3
  <2> QED
    BY <2>4, <2>5, <1>11
<1> QED
  BY <1>5, <1>7, <1>8, <1>9, <1>12

\* PENG and CHI: two tiles for a meld of three, and the claimer is to discard.
LEMMA HandOverSound ==
  ASSUME HandInv, SoundInv, NEW s \in Seats, phase = "CLAIM_WINDOW",
         NEW X \in SUBSET concealed[s], IsFiniteSet(X), Cardinality(X) = 2,
         NEW type, NEW kind,
         Shaped([type |-> type, kind |-> kind, tiles |-> X \cup {Popped}]),
         concealed' = [concealed EXCEPT ![s] = @ \ X],
         AddMeld(s, type, kind, X \cup {Popped}), HandToClaimer(s)
  PROVE  SoundInv'
<1> DEFINE m == [type |-> type, kind |-> kind, tiles |-> X \cup {Popped}]
<1>1. phase' = "DISCARD" /\ actor' = s /\ deck' = deck /\ terminal' = terminal
  BY DEF HandToClaimer
<1>2. m.tiles = X \cup {Popped} /\ Shaped(m) /\ melds' = [melds EXCEPT ![s] = @ \cup {m}]
  BY DEF AddMeld
<1> HIDE DEF m
<1>3. m.tiles \cap concealed[s] # {}
  <2>1. X # {}
    BY FS_EmptySet
  <2> QED
    BY <2>1, <1>2
<1>4. /\ \A t \in Seats : IsFiniteSet(melds'[t]) /\ Cardinality(melds[t]) \in Nat
      /\ \A t \in Seats : t # s => melds'[t] = melds[t]
      /\ Cardinality(melds'[s]) = Cardinality(melds[s]) + 1
  BY <1>2, <1>3, MeldSizes DEF SoundInv
<1>5. melds' = [melds EXCEPT ![s] = (@ \ {}) \cup {m}]
  BY <1>2
<1>6. MeldsWellFormed'
  BY <1>1, <1>2, <1>5, AddShaped DEF SoundInv
<1>7. /\ terminal = None
      /\ \A t \in Seats : t # s =>
           Cardinality(concealed[t]) + 3 * Cardinality(melds[t]) = HandSize
      /\ Cardinality(concealed[s]) + 3 * Cardinality(melds[s]) = HandSize + 0
  BY OtherSizes DEF SoundInv
<1>8. Cardinality(concealed[s] \ X) = Cardinality(concealed[s]) - 2
  BY HandFinite, TakenAway
<1>9. /\ concealed'[s] = concealed[s] \ X
      /\ \A t \in Seats : t # s => concealed'[t] = concealed[t]
  BY Positions DEF Hands, HandInv
<1>10. \A t \in Seats : HoldsOneMore(t)' <=> t = s
  BY <1>1, <1>7 DEF HoldsOneMore
<1>11. ASSUME NEW t \in Seats
       PROVE  Cardinality(concealed'[t]) + 3 * Cardinality(melds'[t])
                = HandSize + (IF HoldsOneMore(t)' THEN 1 ELSE 0)
  <2>0. HandSize \in Nat /\ Cardinality(concealed[s]) \in Nat /\ Cardinality(melds[s]) \in Nat
    BY HandAssumption, HandFinite, <1>4
  <2>1. CASE t = s
    <3>1. Cardinality(concealed'[s]) + 3 * Cardinality(melds'[s]) = HandSize + 1
      <4>1. Cardinality(concealed'[s]) = Cardinality(concealed[s]) - 2
        BY <1>8, <1>9
      <4>2. (Cardinality(concealed[s]) - 2) + 3 * (Cardinality(melds[s]) + 1) = HandSize + 1
        BY <1>7, <2>0
      <4> QED
        BY <4>1, <4>2, <1>4
    <3>2. (IF HoldsOneMore(t)' THEN 1 ELSE 0) = 1
      BY <2>1, <1>10
    <3> QED
      BY <3>1, <3>2, <2>1
  <2>2. CASE t # s
    <3>1. (IF HoldsOneMore(t)' THEN 1 ELSE 0) = 0
      BY <2>2, <1>10
    <3> QED
      BY <3>1, <2>0, <2>2, <1>4, <1>7, <1>9
  <2> QED
    BY <2>1, <2>2
<1>12. SizeInv'
  BY <1>1, <1>4, <1>7, <1>11 DEF SizeInv, HandSizes
<1>13. WindowStands'
  BY <1>1 DEF WindowStands
<1> QED
  BY <1>6, <1>12, <1>13 DEF SoundInv

\* What a seat may claim depends on its own hand and on the wall alone.
LEMMA SameClaims ==
  ASSUME NEW q, NEW k, NEW from, deck' = deck, drawn' = drawn, concealed'[q] = concealed[q]
  PROVE  ClaimsOn(q, k, from)' = ClaimsOn(q, k, from)
<1>1. \A x : Copies(q, x)' = Copies(q, x)
  BY DEF Copies
<1>2. KindsIn(q)' = KindsIn(q) /\ (Wall' = {}) = (Wall = {})
  BY DEF KindsIn, Wall
<1>3. Bag(q, k)' = Bag(q, k)
  BY <1>1 DEF Bag
<1> QED
  BY <1>1, <1>2, <1>3 DEF ClaimsOn

\* Melds nobody touched stay well formed.
LEMMA SameMelds ==
  ASSUME MeldsWellFormed, deck' = deck, melds' = melds
  PROVE  MeldsWellFormed'
<1>1. \A o : Shaped(o)' <=> Shaped(o)
  BY DEF Shaped
<1>2. \A t \in Seats : \A o \in melds[t] : Shaped(o)
  BY DEF MeldsWellFormed, Shaped
<1>3. \A t \in Seats : \A o \in melds'[t] : Shaped(o)'
  BY <1>1, <1>2
<1> QED
  BY <1>3 DEF MeldsWellFormed, Shaped

LEMMA PlaySound ==
  ASSUME HandInv, SoundInv, NEW s \in Seats, NEW a, Play(s, a)
  PROVE  SoundInv'
<1>1. /\ phase = "DISCARD" /\ s = actor /\ a.tile \in KindsIn(s)
      /\ deck' = deck /\ melds' = melds
  BY LegalPlay DEF Play
<1>2. PICK i \in Lowest(Copies(s, a.tile), 1) :
        LET hands == [concealed EXCEPT ![s] = @ \ {i}]
            claims == Opportunities(a.tile, s)
        IN /\ discards' = [discards EXCEPT ![s] = Append(@, i)]
           /\ IF claims = {}
              THEN AdvanceToNextSeat(s, hands)
              ELSE /\ pending' = claims /\ phase' = "CLAIM_WINDOW" /\ actor' = NextSeat(s)
                   /\ lastDiscard' = [seat |-> s, tile |-> a.tile]
                   /\ concealed' = hands
                   /\ UNCHANGED <<drawn, flowers, lastDrawn, terminal>>
  BY DEF Play
<1> DEFINE hands == [concealed EXCEPT ![s] = @ \ {i}]
<1>3. i \in concealed[s] /\ deck[i] = a.tile /\ i \in Nat
  <2>1. i \in concealed[s] /\ deck[i] = a.tile
    BY DEF Lowest, Copies
  <2> QED
    BY <2>1, HandFinite
<1>4. hands \in Hands
  BY FewerTiles DEF HandInv
<1>5. /\ \A t \in Seats : hands[t] = IF t = s THEN concealed[s] \ {i} ELSE concealed[t]
      /\ \A t \in Seats : IsFiniteSet(melds[t])
  BY Positions DEF Hands, HandInv, SoundInv, SizeInv
<1> HIDE DEF hands
<1>6. /\ terminal = None
      /\ \A t \in Seats : t # s =>
           Cardinality(concealed[t]) + 3 * Cardinality(melds[t]) = HandSize
      /\ Cardinality(concealed[s]) + 3 * Cardinality(melds[s]) = HandSize + 1
  BY <1>1, OtherSizes DEF SoundInv
<1>7. IsFiniteSet(hands[s]) /\ Cardinality(hands[s]) = Cardinality(concealed[s]) - 1
  <2>1. IsFiniteSet(concealed[s]) /\ hands[s] = concealed[s] \ {i}
    BY <1>5, HandFinite
  <2>2. /\ IsFiniteSet(concealed[s] \ {i})
        /\ Cardinality(concealed[s] \ {i}) = Cardinality(concealed[s]) - 1
    BY <2>1, <1>3, FS_RemoveElement
  <2> QED
    BY <2>1, <2>2
<1>8. ASSUME NEW t \in Seats
      PROVE  /\ IsFiniteSet(hands[t]) /\ hands[t] \subseteq 1 .. drawn
             /\ Cardinality(hands[t]) + 3 * Cardinality(melds'[t]) = HandSize
  <2>1. IsFiniteSet(hands[t]) /\ hands[t] \subseteq 1 .. drawn
    BY <1>5, <1>7, HandFinite
  <2>2. /\ Cardinality(concealed[s]) \in Nat /\ Cardinality(melds[s]) \in Nat
        /\ HandSize \in Nat
    BY <1>5, HandFinite, FS_CardinalityType, HandAssumption
  <2>3. CASE t = s
    <3>1. (Cardinality(concealed[s]) - 1) + 3 * Cardinality(melds[s]) = HandSize
      BY <1>6, <2>2
    <3> QED
      BY <2>1, <2>3, <3>1, <1>1, <1>7
  <2>4. CASE t # s
    BY <2>1, <2>4, <1>1, <1>5, <1>6
  <2> QED
    BY <2>3, <2>4
<1>9. \A t \in Seats : IsFiniteSet(melds'[t])
  BY <1>1, <1>5
<1>10. MeldsWellFormed'
  BY <1>1, SameMelds DEF SoundInv
<1>11. CASE Opportunities(a.tile, s) = {}
  <2>1. InternalDraw(NextSeat(s), hands)
    BY <1>11, <1>2 DEF AdvanceToNextSeat, hands
  <2>2. NextSeat(s) \in Seats
    BY DEF NextSeat, Seats
  <2>3. SizeInv'
    BY <2>1, <2>2, <1>4, <1>6, <1>8, <1>9, DrawSizes
  <2>4. phase' # "CLAIM_WINDOW"
    BY <2>1 DEF InternalDraw
  <2> QED
    BY <2>3, <2>4, <1>10 DEF SoundInv, WindowStands
<1>12. CASE Opportunities(a.tile, s) # {}
  <2>1. /\ pending' = Opportunities(a.tile, s) /\ phase' = "CLAIM_WINDOW"
        /\ lastDiscard' = [seat |-> s, tile |-> a.tile]
        /\ concealed' = hands /\ drawn' = drawn /\ terminal' = terminal
    BY <1>12, <1>2 DEF hands
  <2>2. \A t \in Seats : ~HoldsOneMore(t)'
    BY <2>1, <1>6 DEF HoldsOneMore
  <2>3. ASSUME NEW t \in Seats
        PROVE  Cardinality(concealed'[t]) + 3 * Cardinality(melds'[t])
                 = HandSize + (IF HoldsOneMore(t)' THEN 1 ELSE 0)
    <3>1. (IF HoldsOneMore(t)' THEN 1 ELSE 0) = 0
      BY <2>2
    <3>2. Cardinality(concealed'[t]) + 3 * Cardinality(melds'[t]) = HandSize
      BY <1>8, <2>1
    <3>3. HandSize = HandSize + 0
      BY HandAssumption
    <3> QED
      BY <3>1, <3>2, <3>3
  <2>4. SizeInv'
    BY <2>1, <2>3, <1>6, <1>9 DEF SizeInv, HandSizes
  <2>5. lastDiscard' # None /\ lastDiscard'.seat = s /\ lastDiscard'.tile = a.tile
    <3>1. a.tile \in Kinds
      BY <1>1, KindsOfHand DEF HandInv
    <3> QED
      BY <2>1, <3>1, HandAssumption
  <2>6. discards'[s] # <<>> /\ deck'[discards'[s][Len(discards'[s])]] = a.tile
    <3>1. discards[s] \in Seq(Nat) /\ discards'[s] = Append(discards[s], i)
      BY <1>2, Positions DEF HandInv, Piles
    <3>2. Append(discards[s], i) # <<>>
          /\ Append(discards[s], i)[Len(Append(discards[s], i))] = i
      BY <3>1, <1>3
    <3> QED
      BY <3>1, <3>2, <1>1, <1>3
  <2>7. ASSUME NEW c \in pending'
        PROVE  \E b \in ClaimActions(c.seat)' :
                 b.type = c.claim /\ (c.claim = "CHI" => b.run = c.run)
    <3>1. PICK q \in Seats \ {s} : \E b \in ClaimsOn(q, a.tile, s) :
            c = [seat |-> q, claim |-> b.type,
                 run |-> IF b.type = "CHI" THEN b.run ELSE {}]
      BY <2>1, <2>7 DEF Opportunities
    <3>2. PICK b \in ClaimsOn(q, a.tile, s) :
            c = [seat |-> q, claim |-> b.type,
                 run |-> IF b.type = "CHI" THEN b.run ELSE {}]
      BY <3>1
    <3>3. concealed'[q] = concealed[q]
      BY <2>1, <1>5
    <3>4. b \in ClaimsOn(q, a.tile, s)'
      BY <3>3, <2>1, <1>1, SameClaims
    <3>5. c.seat = q /\ c.claim = b.type /\ (b.type = "CHI" => c.run = b.run)
      BY <3>2
    <3>6. b \in ClaimActions(q)'
      BY <3>4, <2>5 DEF ClaimActions
    <3> QED
      BY <3>5, <3>6
  <2>8. WindowStands'
    BY <2>1, <2>5, <2>6, <2>7, <1>12 DEF WindowStands, Popped
  <2> QED
    BY <2>4, <2>8, <1>10 DEF SoundInv
<1> QED
  BY <1>11, <1>12

LEMMA PassSound ==
  ASSUME HandInv, SoundInv, NEW s \in Seats, NEW a, Pass(s, a)
  PROVE  SoundInv'
<1> DEFINE rest == {c \in pending : c.seat # s}
<1>1. /\ phase = "CLAIM_WINDOW" /\ lastDiscard # None
      /\ deck' = deck /\ melds' = melds /\ discards' = discards
  BY LegalPass DEF Pass
<1>2. MeldsWellFormed'
  BY <1>1, SameMelds DEF SoundInv
<1>3. CASE rest = {}
  <2>1. InternalDraw(NextSeat(lastDiscard.seat), concealed)
    BY <1>3 DEF Pass, AdvanceToNextSeat
  <2>2. NextSeat(lastDiscard.seat) \in Seats
    BY <1>1 DEF HandInv, TypeOK, NextSeat, Seats
  <2>3. ASSUME NEW t \in Seats
        PROVE  /\ IsFiniteSet(concealed[t]) /\ concealed[t] \subseteq 1 .. drawn
               /\ Cardinality(concealed[t]) + 3 * Cardinality(melds'[t]) = HandSize
               /\ IsFiniteSet(melds'[t])
    <3>1. Cardinality(concealed[t]) + 3 * Cardinality(melds[t]) = HandSize + 0
      BY <1>1, OtherSizes DEF SoundInv
    <3>2. HandSize + 0 = HandSize
      BY HandAssumption
    <3> QED
      BY <3>1, <3>2, <1>1, HandFinite DEF SoundInv, SizeInv
  <2>4. terminal = None
    BY <1>1 DEF SoundInv, SizeInv
  <2>5. SizeInv'
    BY <2>1, <2>2, <2>3, <2>4, Positions, DrawSizes DEF HandInv
  <2>6. phase' # "CLAIM_WINDOW"
    BY <2>1 DEF InternalDraw
  <2> QED
    BY <2>5, <2>6, <1>2 DEF SoundInv, WindowStands
<1>4. CASE rest # {}
  <2>1. /\ pending' = rest
        /\ UNCHANGED <<drawn, concealed, flowers, phase, actor, lastDrawn, lastDiscard, terminal>>
    BY <1>4 DEF Pass
  <2>2. SizeInv'
    BY <2>1, <1>1 DEF SoundInv, SizeInv, HandSizes, HoldsOneMore
  <2>3. ASSUME NEW q PROVE ClaimActions(q)' = ClaimActions(q)
    <3>1. \A k, from : ClaimsOn(q, k, from)' = ClaimsOn(q, k, from)
      BY <2>1, <1>1, SameClaims
    <3> QED
      BY <3>1, <2>1 DEF ClaimActions
  <2>4. WindowStands
    BY DEF SoundInv
  <2>5. ASSUME NEW c \in pending'
        PROVE  \E b \in ClaimActions(c.seat)' :
                 b.type = c.claim /\ (c.claim = "CHI" => b.run = c.run)
    <3>1. c \in pending
      BY <2>1, <2>5
    <3>2. \E b \in ClaimActions(c.seat) :
            b.type = c.claim /\ (c.claim = "CHI" => b.run = c.run)
      BY <3>1, <2>4, <1>1 DEF WindowStands
    <3>3. ClaimActions(c.seat)' = ClaimActions(c.seat)
      BY <2>3
    <3> QED
      BY <3>2, <3>3
  <2>6. WindowStands'
    BY <2>1, <2>4, <2>5, <1>1, <1>4 DEF WindowStands, Popped
  <2> QED
    BY <2>2, <2>6, <1>2 DEF SoundInv
<1> QED
  BY <1>3, <1>4

LEMMA PengSound ==
  ASSUME HandInv, SoundInv, NEW s \in Seats, NEW a, Peng(s, a)
  PROVE  SoundInv'
<1>1. /\ phase = "CLAIM_WINDOW" /\ lastDiscard # None /\ a.tile = lastDiscard.tile
      /\ a \in ClaimsOn(s, lastDiscard.tile, lastDiscard.seat) /\ a.type = "PENG"
  BY LegalClaim DEF Peng
<1>2. PICK X : X = Lowest(Copies(s, a.tile), 2)
  OBVIOUS
<1>3. 2 <= Cardinality(Copies(s, a.tile))
  <2>1. Cardinality(Copies(s, a.tile)) >= 2
    BY <1>1, ClaimNeeds
  <2>2. Copies(s, a.tile) \in SUBSET concealed[s]
    BY DEF Copies
  <2>3. Cardinality(Copies(s, a.tile)) \in Nat
    BY <2>2, HandFinite, FS_Subset, FS_CardinalityType
  <2> QED
    BY <2>1, <2>3
<1>4. /\ X \in SUBSET concealed[s] /\ IsFiniteSet(X) /\ Cardinality(X) = 2
      /\ \A i \in X : deck[i] = a.tile
  BY <1>2, <1>3, CopiesTaken
<1>5. /\ concealed' = [concealed EXCEPT ![s] = @ \ X]
      /\ AddMeld(s, "PENG", a.tile, X \cup {Popped}) /\ HandToClaimer(s)
  BY <1>2 DEF Peng
<1>6. Popped \notin X /\ deck[Popped] = a.tile
  BY <1>1, <1>4, PoppedApart DEF SoundInv, WindowStands
<1>7. {deck[i] : i \in X \cup {Popped}} = {a.tile} /\ Cardinality(X \cup {Popped}) = 2 + 1
  BY <1>4, <1>6, OneKind
<1>8. Shaped([type |-> "PENG", kind |-> a.tile, tiles |-> X \cup {Popped}])
  BY <1>7 DEF Shaped
<1> QED
  BY <1>1, <1>4, <1>5, <1>8, HandOverSound

LEMMA ChiSound ==
  ASSUME HandInv, SoundInv, NEW s \in Seats, NEW a, Chi(s, a)
  PROVE  SoundInv'
<1>1. /\ phase = "CLAIM_WINDOW" /\ lastDiscard # None
      /\ a \in ClaimsOn(s, lastDiscard.tile, lastDiscard.seat) /\ a.type = "CHI"
  BY LegalClaim DEF Chi
<1>2. PICK k : k = lastDiscard.tile
  OBVIOUS
<1>3. a.run \in Runs /\ k \in a.run /\ a.run \ {k} \subseteq KindsIn(s)
  BY <1>1, <1>2, ClaimNeeds
<1>4. PICK r \in Runs : r = a.run
  BY <1>3
<1>5. PICK X : X = RunPair(s, r, k)
  OBVIOUS
<1>6. /\ X \in SUBSET concealed[s] /\ IsFiniteSet(X) /\ Cardinality(X) = 2
      /\ {deck[i] : i \in X} = r \ {k}
  <2>1. k \in r /\ r \ {k} \subseteq KindsIn(s)
    BY <1>3, <1>4
  <2> QED
    BY <2>1, <1>5, RunTiles
<1>7. /\ concealed' = [concealed EXCEPT ![s] = @ \ X]
      /\ AddMeld(s, "CHI", k, X \cup {Popped}) /\ HandToClaimer(s)
  BY <1>2, <1>4, <1>5 DEF Chi, RunPair
<1>8. Popped \notin X /\ deck[Popped] = k
  BY <1>1, <1>2, <1>6, PoppedApart DEF SoundInv, WindowStands
<1>9. {deck[i] : i \in X \cup {Popped}} = r
  BY <1>3, <1>4, <1>6, <1>8
<1>10. Cardinality(X \cup {Popped}) = 3
  <2>1. Cardinality(X \cup {Popped}) = Cardinality(X) + 1
    BY <1>6, <1>8, FS_AddElement
  <2> QED
    BY <2>1, <1>6
<1>11. Shaped([type |-> "CHI", kind |-> k, tiles |-> X \cup {Popped}])
  BY <1>3, <1>4, <1>9, <1>10 DEF Shaped
<1> QED
  BY <1>1, <1>6, <1>7, <1>11, HandOverSound

\* A kong that adds a meld: three tiles of a claimer, or four of the seat to
\* discard, leave a hand a tile short, and the seat draws.
LEMMA KongSound ==
  ASSUME HandInv, SoundInv, NEW s \in Seats, phase # "TERMINAL",
         phase = "DISCARD" => s = actor,
         NEW X \in SUBSET concealed[s], IsFiniteSet(X), NEW n \in Nat, Cardinality(X) = n,
         phase = "DISCARD" => n = 4, phase # "DISCARD" => n = 3,
         NEW m, X \subseteq m.tiles, Shaped(m), deck' = deck,
         melds' = [melds EXCEPT ![s] = @ \cup {m}],
         InternalDraw(s, [concealed EXCEPT ![s] = @ \ X])
  PROVE  SoundInv'
<1> DEFINE hands == [concealed EXCEPT ![s] = @ \ X]
<1>1. hands \in Hands
  BY FewerTiles DEF HandInv
<1>2. \A t \in Seats : hands[t] = IF t = s THEN concealed[s] \ X ELSE concealed[t]
  BY Positions DEF Hands, HandInv
<1> HIDE DEF hands
<1>3. m.tiles \cap concealed[s] # {}
  <2>1. X # {}
    BY FS_EmptySet
  <2> QED
    BY <2>1
<1>4. /\ \A t \in Seats : IsFiniteSet(melds'[t]) /\ Cardinality(melds[t]) \in Nat
      /\ \A t \in Seats : t # s => melds'[t] = melds[t]
      /\ Cardinality(melds'[s]) = Cardinality(melds[s]) + 1
  BY <1>3, MeldSizes DEF SoundInv
<1>5. /\ terminal = None
      /\ \A t \in Seats : t # s =>
           Cardinality(concealed[t]) + 3 * Cardinality(melds[t]) = HandSize
      /\ Cardinality(concealed[s]) + 3 * Cardinality(melds[s])
           = HandSize + (IF phase = "DISCARD" THEN 1 ELSE 0)
  BY OtherSizes DEF SoundInv
<1>6. IsFiniteSet(concealed[s] \ X) /\ Cardinality(concealed[s] \ X) = Cardinality(concealed[s]) - n
  BY HandLeft
<1>7. (Cardinality(concealed[s]) - n) + 3 * (Cardinality(melds[s]) + 1) = HandSize
  <2>1. HandSize \in Nat /\ Cardinality(concealed[s]) \in Nat /\ Cardinality(melds[s]) \in Nat
    BY HandAssumption, HandFinite, <1>4
  <2>2. CASE phase = "DISCARD"
    <3>1. n = 4 /\ Cardinality(concealed[s]) + 3 * Cardinality(melds[s]) = HandSize + 1
      BY <2>2, <1>5
    <3> QED
      BY <3>1, <2>1
  <2>3. CASE phase # "DISCARD"
    <3>1. n = 3 /\ Cardinality(concealed[s]) + 3 * Cardinality(melds[s]) = HandSize + 0
      BY <2>3, <1>5
    <3> QED
      BY <3>1, <2>1
  <2> QED
    BY <2>2, <2>3
<1>8. ASSUME NEW t \in Seats
      PROVE  /\ IsFiniteSet(hands[t]) /\ hands[t] \subseteq 1 .. drawn
             /\ Cardinality(hands[t]) + 3 * Cardinality(melds'[t]) = HandSize
  <2>1. IsFiniteSet(hands[t]) /\ hands[t] \subseteq 1 .. drawn
    BY <1>2, <1>6, HandFinite
  <2>2. CASE t = s
    BY <2>1, <2>2, <1>2, <1>4, <1>6, <1>7
  <2>3. CASE t # s
    BY <2>1, <2>3, <1>2, <1>4, <1>5
  <2> QED
    BY <2>2, <2>3
<1>9. SizeInv'
  <2>1. InternalDraw(s, hands) /\ \A t \in Seats : IsFiniteSet(melds'[t])
    BY <1>4 DEF hands
  <2> QED
    BY <2>1, <1>1, <1>5, <1>8, DrawSizes
<1>10. MeldsWellFormed'
  <2>1. melds' = [melds EXCEPT ![s] = (@ \ {}) \cup {m}]
    OBVIOUS
  <2> QED
    BY <2>1, AddShaped DEF SoundInv
<1>11. WindowStands'
  BY DEF InternalDraw, WindowStands
<1> QED
  BY <1>9, <1>10, <1>11 DEF SoundInv

LEMMA GangExposedSound ==
  ASSUME HandInv, SoundInv, NEW s \in Seats, NEW a, GangExposed(s, a)
  PROVE  SoundInv'
<1>1. /\ phase = "CLAIM_WINDOW" /\ lastDiscard # None /\ a.tile = lastDiscard.tile
      /\ a \in ClaimsOn(s, lastDiscard.tile, lastDiscard.seat) /\ a.type = "GANG"
  BY LegalClaim DEF GangExposed
<1>2. PICK X : X = Lowest(Copies(s, a.tile), 3)
  OBVIOUS
<1>3. 3 <= Cardinality(Copies(s, a.tile))
  <2>1. Cardinality(Copies(s, a.tile)) >= 3
    BY <1>1, ClaimNeeds
  <2>2. Copies(s, a.tile) \in SUBSET concealed[s]
    BY DEF Copies
  <2>3. Cardinality(Copies(s, a.tile)) \in Nat
    BY <2>2, HandFinite, FS_Subset, FS_CardinalityType
  <2> QED
    BY <2>1, <2>3
<1>4. /\ X \in SUBSET concealed[s] /\ IsFiniteSet(X) /\ Cardinality(X) = 3
      /\ \A i \in X : deck[i] = a.tile
  BY <1>2, <1>3, CopiesTaken
<1>5. PICK m : m = [type |-> "GANG", kind |-> a.tile, tiles |-> X \cup {Popped}]
  OBVIOUS
<1>6. /\ melds' = [melds EXCEPT ![s] = @ \cup {m}] /\ deck' = deck
      /\ InternalDraw(s, [concealed EXCEPT ![s] = @ \ X])
  BY <1>2, <1>5 DEF GangExposed, AddMeld
<1>7. Popped \notin X /\ deck[Popped] = a.tile
  BY <1>1, <1>4, PoppedApart DEF SoundInv, WindowStands
<1>8. {deck[i] : i \in X \cup {Popped}} = {a.tile} /\ Cardinality(X \cup {Popped}) = 3 + 1
  BY <1>4, <1>7, OneKind
<1>9. Shaped(m) /\ X \subseteq m.tiles
  BY <1>5, <1>8 DEF Shaped
<1> QED
  <2>1. phase # "TERMINAL" /\ phase # "DISCARD"
    BY <1>1
  <2> QED
    BY <2>1, <1>4, <1>6, <1>9, KongSound

LEMMA GangConcealedSound ==
  ASSUME HandInv, SoundInv, NEW s \in Seats, NEW a, GangConcealed(s, a)
  PROVE  SoundInv'
<1>1. phase = "DISCARD" /\ s = actor /\ Cardinality(Copies(s, a.tile)) = 4
  BY LegalKong, KongNeeds DEF GangConcealed
<1>2. PICK X : X = Lowest(Copies(s, a.tile), 4)
  OBVIOUS
<1>3. /\ X \in SUBSET concealed[s] /\ IsFiniteSet(X) /\ Cardinality(X) = 4
      /\ \A i \in X : deck[i] = a.tile
  <2>1. 4 <= Cardinality(Copies(s, a.tile))
    BY <1>1
  <2> QED
    BY <2>1, <1>2, CopiesTaken
<1>4. PICK m : m = [type |-> "GANG", kind |-> a.tile, tiles |-> X]
  OBVIOUS
<1>5. /\ melds' = [melds EXCEPT ![s] = @ \cup {m}] /\ deck' = deck
      /\ InternalDraw(s, [concealed EXCEPT ![s] = @ \ X])
  BY <1>2, <1>4 DEF GangConcealed, AddMeld
<1>6. X # {}
  BY <1>3, FS_EmptySet
<1>7. {deck[i] : i \in X} = {a.tile}
  BY <1>3, <1>6
<1>8. Shaped(m) /\ X \subseteq m.tiles
  BY <1>3, <1>4, <1>7 DEF Shaped
<1> QED
  <2>1. phase # "TERMINAL" /\ phase = "DISCARD" /\ s = actor /\ 4 \in Nat
    BY <1>1
  <2> QED
    BY <2>1, <1>3, <1>5, <1>8, KongSound

\* An added kong turns a meld of three into one of four; the hand is a tile short.
LEMMA GangAddedSound ==
  ASSUME HandInv, SoundInv, NEW s \in Seats, NEW a, GangAdded(s, a)
  PROVE  SoundInv'
<1>1. phase = "DISCARD" /\ s = actor /\ a.tile \in KindsIn(s)
  BY LegalKong DEF GangAdded
<1>2. PICK X : X = Lowest(Copies(s, a.tile), 1)
  OBVIOUS
<1>3. /\ X \in SUBSET concealed[s] /\ IsFiniteSet(X) /\ Cardinality(X) = 1
      /\ \A i \in X : deck[i] = a.tile
  BY <1>1, <1>2, HeldKind, CopiesTaken
<1>4. PICK q \in melds[s] :
        /\ q.type = "PENG" /\ q.kind = a.tile
        /\ melds' = [melds EXCEPT ![s] = (@ \ {q}) \cup
              {[type |-> "GANG", kind |-> a.tile, tiles |-> q.tiles \cup X]}]
        /\ InternalDraw(s, [concealed EXCEPT ![s] = @ \ X])
  BY <1>2 DEF GangAdded
<1>5. PICK m : m = [type |-> "GANG", kind |-> a.tile, tiles |-> q.tiles \cup X]
  OBVIOUS
<1>6. melds' = [melds EXCEPT ![s] = (@ \ {q}) \cup {m}] /\ deck' = deck
  BY <1>4, <1>5 DEF GangAdded
<1>7. m.tiles = q.tiles \cup X /\ m.type = "GANG" /\ m.kind = a.tile
  BY <1>5
<1>8. PICK i : X = {i}
  BY <1>3, FS_Singleton
<1>9. {deck[j] : j \in q.tiles} = {a.tile} /\ Cardinality(q.tiles) = 3
  BY <1>4 DEF SoundInv, MeldsWellFormed
<1>10. i \notin q.tiles /\ deck[i] = a.tile
  BY <1>3, <1>8 DEF HandInv, Split, MeldsApart
<1>11. IsFiniteSet(q.tiles)
  <2>1. q.tiles \in SUBSET (1 .. drawn) /\ drawn \in Nat
    BY Positions DEF HandInv, Split, Within
  <2>2. IsFiniteSet(1 .. drawn)
    BY <2>1, FS_Interval
  <2> QED
    BY <2>1, <2>2, FS_Subset
<1>12. Cardinality(q.tiles \cup {i}) = 4 /\ {deck[j] : j \in q.tiles \cup {i}} = {a.tile}
  <2>1. Cardinality(q.tiles \cup {i}) = Cardinality(q.tiles) + 1
    BY <1>10, <1>11, FS_AddElement
  <2> QED
    BY <2>1, <1>9, <1>10
<1>13. Shaped(m)
  BY <1>7, <1>8, <1>12 DEF Shaped
<1>14. MeldsWellFormed'
  BY <1>6, <1>13, AddShaped DEF SoundInv
<1>15. m.tiles \cap concealed[s] # {}
  BY <1>3, <1>7, <1>8
<1>16. /\ \A t \in Seats : IsFiniteSet(melds'[t])
       /\ \A t \in Seats : Cardinality(melds'[t]) = Cardinality(melds[t])
       /\ \A t \in Seats : Cardinality(melds[t]) \in Nat
  <2>1. \A t \in Seats : melds'[t] = IF t = s THEN (melds[s] \ {q}) \cup {m} ELSE melds[t]
    BY <1>6, Positions DEF HandInv
  <2>2. \A t \in Seats : IsFiniteSet(melds[t]) /\ Cardinality(melds[t]) \in Nat
    BY FS_CardinalityType DEF SoundInv, SizeInv
  <2>3. m \notin melds[s] \ {q}
    BY <1>15, <2>2, NewMeld
  <2>4. PICK D : D = melds[s] \ {q}
    OBVIOUS
  <2>5. IsFiniteSet(D) /\ Cardinality(D) = Cardinality(melds[s]) - 1 /\ m \notin D
    BY <2>2, <2>3, <2>4, <1>4, FS_RemoveElement
  <2>6. IsFiniteSet(D \cup {m}) /\ Cardinality(D \cup {m}) = Cardinality(D) + 1
    BY <2>5, FS_AddElement
  <2>7. melds'[s] = D \cup {m}
    BY <2>1, <2>4
  <2>8. (Cardinality(melds[s]) - 1) + 1 = Cardinality(melds[s])
    BY <2>2
  <2>9. IsFiniteSet(melds'[s]) /\ Cardinality(melds'[s]) = Cardinality(melds[s])
    BY <2>5, <2>6, <2>7, <2>8
  <2> QED
    BY <2>1, <2>2, <2>9
<1>17. /\ terminal = None
       /\ \A t \in Seats : t # s =>
            Cardinality(concealed[t]) + 3 * Cardinality(melds[t]) = HandSize
       /\ Cardinality(concealed[s]) + 3 * Cardinality(melds[s]) = HandSize + 1
  BY <1>1, OtherSizes DEF SoundInv
<1> DEFINE hands == [concealed EXCEPT ![s] = @ \ X]
<1>18. hands \in Hands
  BY FewerTiles DEF HandInv
<1>19. \A t \in Seats : hands[t] = IF t = s THEN concealed[s] \ X ELSE concealed[t]
  BY Positions DEF Hands, HandInv
<1>20. InternalDraw(s, hands)
  BY <1>4
<1> HIDE DEF hands
<1>21. IsFiniteSet(concealed[s] \ X) /\ Cardinality(concealed[s] \ X) = Cardinality(concealed[s]) - 1
  BY <1>3, HandLeft
<1>22. ASSUME NEW t \in Seats
       PROVE  /\ IsFiniteSet(hands[t]) /\ hands[t] \subseteq 1 .. drawn
              /\ Cardinality(hands[t]) + 3 * Cardinality(melds'[t]) = HandSize
  <2>1. IsFiniteSet(hands[t]) /\ hands[t] \subseteq 1 .. drawn
    BY <1>19, <1>21, HandFinite
  <2>2. CASE t = s
    <3>1. HandSize \in Nat /\ Cardinality(concealed[s]) \in Nat /\ Cardinality(melds[s]) \in Nat
      BY HandAssumption, HandFinite, <1>16
    <3>2. (Cardinality(concealed[s]) - 1) + 3 * Cardinality(melds[s]) = HandSize
      BY <3>1, <1>17
    <3> QED
      BY <2>1, <2>2, <3>2, <1>16, <1>19, <1>21
  <2>3. CASE t # s
    BY <2>1, <2>3, <1>16, <1>17, <1>19
  <2> QED
    BY <2>2, <2>3
<1>23. SizeInv'
  BY <1>16, <1>17, <1>18, <1>20, <1>22, DrawSizes
<1>24. WindowStands'
  BY <1>20 DEF InternalDraw, WindowStands
<1> QED
  BY <1>14, <1>23, <1>24 DEF SoundInv

\* The winner of a self-drawn win keeps the tile; a claimed win leaves it on the pile.
LEMMA HuSound ==
  ASSUME HandInv, SoundInv, NEW s \in Seats, NEW a, Hu(s, a)
  PROVE  SoundInv'
<1>1. /\ phase' = "TERMINAL"
      /\ UNCHANGED <<deck, drawn, concealed, melds, discards, flowers, actor>>
      /\ a \in LegalActions(s) /\ a.type = "HU"
  BY DEF Hu
<1>2. MeldsWellFormed' /\ WindowStands'
  BY <1>1, SameMelds DEF SoundInv, WindowStands
<1>3. phase \in {"DISCARD", "CLAIM_WINDOW"}
  BY <1>1, LegalHu
<1>4. \A t \in Seats : HoldsOneMore(t)' <=> HoldsOneMore(t)
  <2>1. terminal = None
    BY <1>3 DEF SoundInv, SizeInv
  <2>2. CASE phase = "CLAIM_WINDOW"
    <3>1. lastDiscard # None /\ lastDiscard.seat # s
      BY <1>1, <2>2 DEF LegalActions, ClaimActions
    <3>2. terminal' = [kind |-> "HU", winner |-> s, tile |-> lastDiscard.tile,
                       from |-> lastDiscard.seat]
      BY <2>2 DEF Hu
    <3>3. terminal'.winner = s /\ terminal'.from = lastDiscard.seat
      BY <3>2
    <3> QED
      BY <3>1, <3>3, <2>1, <2>2, <1>1 DEF HoldsOneMore
  <2>3. CASE phase = "DISCARD"
    <3>1. s = actor /\ SelfDrawHu(s)
      BY <1>1, <2>3 DEF LegalActions, DiscardActions, PLAY, GANG, HU
    <3>2. terminal' = [kind |-> "HU", winner |-> s, tile |-> lastDrawn.tile, from |-> s]
      BY <2>3 DEF Hu
    <3>3. terminal'.winner = s /\ terminal'.from = s /\ terminal'.kind = "HU"
      BY <3>2
    <3>4. lastDrawn.tile \in Kinds
      BY <3>1, KindsOfHand DEF SelfDrawHu, HandInv
    <3>5. terminal' # None
      <4>1. terminal' \in [kind : {"HU"}, winner : Seats, tile : Kinds, from : Seats]
        BY <3>2, <3>4
      <4> QED
        BY <4>1, HandAssumption
    <3> QED
      BY <3>1, <3>3, <3>5, <2>1, <2>3, <1>1 DEF HoldsOneMore
  <2> QED
    BY <2>2, <2>3, <1>3
<1>5. SizeInv'
  BY <1>1, <1>4 DEF SoundInv, SizeInv, HandSizes
<1> QED
  BY <1>2, <1>5 DEF SoundInv

-----------------------------------------------------------------------------
(* The deal, counted.                                                      *)

\* The draws of the deal that go to one seat: as many as a hand has, and the last
\* one for the dealer.
LEMMA DrawsOfSeat ==
  ASSUME NEW s \in Seats, NEW dealer \in Seats
  PROVE  LET D == {n \in 1 .. 4 * HandSize + 1 : SeatOfDraw(n, dealer) = s}
         IN IsFiniteSet(D) /\ Cardinality(D) = HandSize + (IF s = dealer THEN 1 ELSE 0)
<1> DEFINE E == {n \in 1 .. 4 * HandSize : (n - 1) % 4 = s}
           D == {n \in 1 .. 4 * HandSize + 1 : SeatOfDraw(n, dealer) = s}
<1>1. HandSize \in Nat \ {0}
  BY HandAssumption
<1>2. IsFiniteSet(E) /\ Cardinality(E) = HandSize
  <2> DEFINE f == [k \in 1 .. HandSize |-> 4 * (k - 1) + s + 1]
  <2>1. \A k \in 1 .. HandSize : f[k] \in E
    <3> SUFFICES ASSUME NEW k \in 1 .. HandSize PROVE f[k] \in E
      OBVIOUS
    <3>1. s \in {0, 1, 2, 3} /\ k \in Nat /\ 1 <= k /\ k <= HandSize
      BY <1>1 DEF Seats
    <3>2. 4 * (k - 1) + s + 1 \in 1 .. 4 * HandSize
      BY <3>1, <1>1
    <3>3. ((4 * (k - 1) + s + 1) - 1) % 4 = s
      BY <3>1
    <3> QED
      BY <3>2, <3>3
  <2>2. \A k, l \in 1 .. HandSize : f[k] = f[l] => k = l
    <3> SUFFICES ASSUME NEW k \in 1 .. HandSize, NEW l \in 1 .. HandSize, f[k] = f[l]
                 PROVE  k = l
      OBVIOUS
    <3>1. s \in Int /\ k \in Int /\ l \in Int
      BY <1>1 DEF Seats
    <3>2. 4 * (k - 1) + s + 1 = 4 * (l - 1) + s + 1
      OBVIOUS
    <3> QED
      BY <3>1, <3>2
  <2>3. \A n \in E : \E k \in 1 .. HandSize : f[k] = n
    <3> SUFFICES ASSUME NEW n \in 1 .. 4 * HandSize, (n - 1) % 4 = s
                 PROVE  \E k \in 1 .. HandSize : f[k] = n
      OBVIOUS
    <3> DEFINE k == (n - 1 - s) \div 4 + 1
    <3>1. s \in {0, 1, 2, 3} /\ n \in Nat /\ 1 <= n /\ n <= 4 * HandSize
      BY <1>1 DEF Seats
    <3>2. k \in 1 .. HandSize /\ 4 * (k - 1) + s + 1 = n
      BY <3>1, <1>1
    <3> HIDE DEF k
    <3> QED
      BY <3>2
  <2>4. IsFiniteSet(1 .. HandSize) /\ Cardinality(1 .. HandSize) = HandSize
    BY <1>1, FS_Interval
  <2>5. f \in [1 .. HandSize -> E]
    BY <2>1
  <2> HIDE DEF f, E
  <2> QED
    BY <2>2, <2>3, <2>4, <2>5, SameSize
<1>3. 4 * HandSize + 1 \notin E
  BY <1>1
<1>4. D = IF s = dealer THEN E \cup {4 * HandSize + 1} ELSE E
  <2>1. \A n \in 1 .. 4 * HandSize : SeatOfDraw(n, dealer) = (n - 1) % 4
    BY <1>1 DEF SeatOfDraw
  <2>2. SeatOfDraw(4 * HandSize + 1, dealer) = dealer
    BY <1>1 DEF SeatOfDraw
  <2>3. \A n : n \in 1 .. 4 * HandSize + 1 <=> n \in 1 .. 4 * HandSize \/ n = 4 * HandSize + 1
    BY <1>1
  <2>4. \A n : n \in D <=> n \in E \/ (n = 4 * HandSize + 1 /\ s = dealer)
    BY <2>1, <2>2, <2>3
  <2> HIDE DEF D, E
  <2> QED
    BY <2>4
<1> HIDE DEF D, E
<1>5. /\ IsFiniteSet(E \cup {4 * HandSize + 1})
      /\ Cardinality(E \cup {4 * HandSize + 1}) = Cardinality(E) + 1
  BY <1>2, <1>3, FS_AddElement
<1>6. IsFiniteSet(D) /\ Cardinality(D) = HandSize + (IF s = dealer THEN 1 ELSE 0)
  <2>1. CASE s = dealer
    <3>1. D = E \cup {4 * HandSize + 1}
      BY <2>1, <1>4
    <3> QED
      BY <3>1, <2>1, <1>2, <1>5
  <2>2. CASE s # dealer
    <3>1. D = E
      BY <2>2, <1>4
    <3> QED
      BY <3>1, <2>2, <1>1, <1>2
  <2> QED
    BY <2>1, <2>2
<1> QED
  BY <1>6 DEF D

\* Every seat is dealt its tiles, and the dealer one more.
LEMMA DealSizes ==
  ASSUME NEW d \in Decks, NEW dealer \in Seats, NEW cut \in DOMAIN d, Deal(d, dealer, cut),
         NEW s \in Seats
  PROVE  Cardinality(concealed[s]) = HandSize + (IF s = dealer THEN 1 ELSE 0)
<1> DEFINE L == {i \in Live(d) : i <= cut}
           N == 4 * HandSize + 1
           D == {n \in 1 .. N : SeatOfDraw(n, dealer) = s}
<1>1. /\ Len(d) \in Nat /\ DOMAIN d = 1 .. Len(d) /\ Live(d) \subseteq 1 .. Len(d)
      /\ cut \in 1 .. Len(d) /\ Nth(d, cut) = N
  <2>1. d \in Seq(Kinds \cup {Flower})
    BY HandAssumption
  <2>2. Len(d) \in Nat /\ DOMAIN d = 1 .. Len(d)
    BY <2>1
  <2> QED
    BY <2>2 DEF Live, Deal
<1>2. L \in SUBSET Nat /\ IsFiniteSet(L) /\ Cardinality(L) = N
  <2>1. IsFiniteSet(1 .. Len(d)) /\ L \in SUBSET (1 .. Len(d))
    BY <1>1, FS_Interval
  <2>2. L = {j \in Live(d) : j <= cut}
    OBVIOUS
  <2> QED
    BY <2>1, <2>2, <1>1, FS_Subset DEF Nth
<1>3. ASSUME NEW i \in L PROVE Nth(d, i) = Rank(L, i)
  <2> DEFINE B == {j \in L : j < i}
  <2>1. \A j \in Live(d) : j \in Nat
    BY <1>1
  <2>2. {j \in Live(d) : j <= i} = B \cup {i} /\ i \notin B
    <3>1. i \in Nat /\ i <= cut /\ cut \in Nat
      BY <2>1, <1>1
    <3>2. \A j \in Live(d) : j <= i <=> (j <= cut /\ j < i) \/ j = i
      BY <2>1, <3>1
    <3>3. i \in Live(d) /\ ~(i < i)
      BY <3>1
    <3> QED
      BY <3>2, <3>3
  <2>3. IsFiniteSet(B)
    BY <1>2, FS_Subset
  <2>4. Cardinality(B \cup {i}) = Cardinality(B) + 1
    BY <2>2, <2>3, FS_AddElement
  <2> QED
    BY <2>2, <2>4 DEF Nth, Rank
<1>4. concealed[s] = {i \in L : SeatOfDraw(Rank(L, i), dealer) = s}
  <2>1. concealed[s] = {i \in Live(d) : i <= cut /\ SeatOfDraw(Nth(d, i), dealer) = s}
    BY DEF Deal
  <2> QED
    BY <2>1, <1>3
<1> HIDE DEF L
<1> DEFINE f == [i \in concealed[s] |-> Rank(L, i)]
<1>5. concealed[s] \in SUBSET L /\ IsFiniteSet(concealed[s])
  <2>1. concealed[s] \in SUBSET L
    BY <1>4
  <2> QED
    BY <2>1, <1>2, FS_Subset
<1>6. f \in [concealed[s] -> D]
  <2>1. ASSUME NEW i \in concealed[s] PROVE Rank(L, i) \in D
    <3>1. i \in L /\ SeatOfDraw(Rank(L, i), dealer) = s
      BY <1>4
    <3>2. Rank(L, i) \in 1 .. Cardinality(L)
      BY <3>1, <1>2, RankType
    <3>3. Rank(L, i) \in 1 .. N
      BY <3>2, <1>2
    <3> QED
      BY <3>1, <3>3
  <2> QED
    BY <2>1
<1>7. \A i, j \in concealed[s] : f[i] = f[j] => i = j
  <2>1. \A x, y \in L : Rank(L, x) = Rank(L, y) => x = y
    BY <1>2, Ranks
  <2>2. \A i \in concealed[s] : f[i] = Rank(L, i) /\ i \in L
    BY <1>5
  <2> QED
    BY <2>1, <2>2
<1>8. \A n \in D : \E i \in concealed[s] : f[i] = n
  <2> SUFFICES ASSUME NEW n \in 1 .. N, SeatOfDraw(n, dealer) = s
               PROVE  \E i \in concealed[s] : f[i] = n
    OBVIOUS
  <2>1. n \in 1 .. Cardinality(L)
    BY <1>2
  <2>2. PICK i \in L : Rank(L, i) = n
    BY <2>1, <1>2, Ranks
  <2>3. i \in concealed[s]
    BY <2>2, <1>4
  <2> QED
    BY <2>2, <2>3
<1>9. Cardinality(D) = HandSize + (IF s = dealer THEN 1 ELSE 0)
  BY DrawsOfSeat
<1> HIDE DEF f, D
<1>10. Cardinality(D) = Cardinality(concealed[s])
  BY <1>5, <1>6, <1>7, <1>8, SameSize
<1> QED
  BY <1>9, <1>10

LEMMA DealSound ==
  ASSUME NEW d \in Decks, NEW dealer \in Seats, NEW cut \in DOMAIN d, Deal(d, dealer, cut)
  PROVE  SoundInv
<1>1. /\ melds = [s \in Seats |-> {}] /\ phase = "DISCARD" /\ actor = dealer
      /\ terminal = None
  BY DEF Deal
<1>2. \A s \in Seats : HoldsOneMore(s) <=> s = dealer
  BY <1>1 DEF HoldsOneMore
<1>3. ASSUME NEW s \in Seats
      PROVE  /\ IsFiniteSet(melds[s])
             /\ Cardinality(concealed[s]) + 3 * Cardinality(melds[s])
                  = HandSize + (IF HoldsOneMore(s) THEN 1 ELSE 0)
  <2>1. IsFiniteSet(melds[s]) /\ Cardinality(melds[s]) = 0
    BY <1>1, FS_EmptySet
  <2>2. Cardinality(concealed[s]) = HandSize + (IF s = dealer THEN 1 ELSE 0)
    BY DealSizes
  <2>3. HandSize \in Nat
    BY HandAssumption
  <2>4. CASE s = dealer
    <3>1. Cardinality(concealed[s]) = HandSize + 1
      BY <2>2, <2>4
    <3>2. HoldsOneMore(s)
      BY <2>4, <1>2
    <3> QED
      BY <3>1, <3>2, <2>1, <2>3
  <2>5. CASE s # dealer
    <3>1. Cardinality(concealed[s]) = HandSize + 0
      BY <2>2, <2>5
    <3>2. ~HoldsOneMore(s)
      BY <2>5, <1>2
    <3> QED
      BY <3>1, <3>2, <2>1, <2>3
  <2> QED
    BY <2>4, <2>5
<1>4. SizeInv
  BY <1>1, <1>3 DEF SizeInv, HandSizes
<1>5. MeldsWellFormed /\ WindowStands
  BY <1>1 DEF MeldsWellFormed, WindowStands
<1> QED
  BY <1>4, <1>5 DEF SoundInv

LEMMA SoundInit == Init => SoundInv
BY DealSound DEF Init

LEMMA SoundKept == HandInv /\ SoundInv /\ [Next]_vars => SoundInv'
<1> SUFFICES ASSUME HandInv, SoundInv, [Next]_vars PROVE SoundInv'
  OBVIOUS
<1>1. ASSUME NEW s \in Seats, NEW a, ApplyAction(s, a) PROVE SoundInv'
  BY <1>1, PlaySound, PassSound, PengSound, ChiSound, GangExposedSound, GangConcealedSound,
     GangAddedSound, HuSound DEF ApplyAction
<1>2. CASE UNCHANGED vars
  <2>1. MeldsWellFormed'
    BY <1>2, SameMelds DEF vars, SoundInv
  <2>2. SizeInv'
    BY <1>2 DEF vars, SoundInv, SizeInv, HandSizes, HoldsOneMore
  <2>3. ASSUME NEW q PROVE ClaimActions(q)' = ClaimActions(q)
    <3>1. \A k, from : ClaimsOn(q, k, from)' = ClaimsOn(q, k, from)
      BY <1>2, SameClaims DEF vars
    <3> QED
      BY <3>1, <1>2 DEF vars, ClaimActions
  <2>4. WindowStands'
    BY <1>2, <2>3 DEF vars, SoundInv, WindowStands, Popped
  <2> QED
    BY <2>1, <2>2, <2>4 DEF SoundInv
<1> QED
  BY <1>1, <1>2 DEF Next

LEMMA SoundInvariant == Spec => []SoundInv
BY SoundInit, SoundKept, HandInvariant, PTL DEF Spec

\* Whatever has been claimed, drawn, konged or passed, the position is one of the
\* game: every hand has its size, every meld is three or four of a kind or a run
\* and holds the tile it claimed, an open window has claims that are still legal
\* on the tile that lies on the pile, and the default answer of the seat to
\* discard is legal.
THEOREM PositionTheorem == Spec => []PositionSound
<1>1. SoundInv /\ DrawnIsHeld => PositionSound
  BY DEF SoundInv, SizeInv, PositionSound
<1> QED
  BY <1>1, SoundInvariant, DrawnTheorem, PTL

-----------------------------------------------------------------------------
(* Why a hand ends.                                                        *)

\* The tiles that were not laid open yet, in the wall or in a hand.
Hidden == Wall \cup UNION {concealed[s] : s \in Seats}

\* A step takes no tile back that was drawn or laid open, and unless it ends the
\* hand it draws a tile, lays one open or withdraws claims of the window.
Forward ==
  /\ Wall' \subseteq Wall /\ Hidden' \subseteq Hidden
  /\ \/ phase' = "TERMINAL" \/ Wall' # Wall \/ Hidden' # Hidden
     \/ pending' \subseteq pending /\ pending' # pending

\* A tile leaves the hidden ones with the hand it was in.
LEMMA NoLongerHidden ==
  ASSUME HandInv, NEW s \in Seats, NEW i \in concealed[s], NEW hands \in Hands,
         \A t \in Seats : hands[t] \subseteq concealed[t], i \notin hands[s]
  PROVE  i \in Hidden /\ i \notin Wall \cup UNION {hands[t] : t \in Seats}
<1>1. i \in 1 .. drawn /\ drawn \in Nat /\ Len(deck) \in Nat
  BY Positions DEF HandInv, Split, Within
<1>2. i \notin Wall
  BY <1>1 DEF Wall
<1>3. ASSUME NEW t \in Seats
      PROVE  i \notin hands[t]
  <2>1. t # s => i \notin concealed[t]
    BY DEF HandInv, Split, HandsApart
  <2> QED
    BY <2>1
<1> QED
  BY <1>2, <1>3 DEF Hidden

\* A claim, or a discard that opens a window, lays tiles of a hand open.
LEMMA LaysOpen ==
  ASSUME HandInv, NEW s \in Seats, NEW X \in SUBSET concealed[s], X # {},
         concealed' = [concealed EXCEPT ![s] = @ \ X], drawn' = drawn, deck' = deck
  PROVE  Forward
<1>1. concealed' \in Hands
  BY FewerTiles DEF HandInv
<1>2. /\ \A t \in Seats : concealed'[t] \subseteq concealed[t]
      /\ concealed'[s] = concealed[s] \ X
  BY Positions DEF Hands, HandInv
<1>3. Wall' = Wall
  BY DEF Wall
<1>4. Hidden' \subseteq Hidden
  BY <1>2, <1>3 DEF Hidden
<1>5. PICK i \in X : TRUE
  OBVIOUS
<1>6. i \in Hidden /\ i \notin Wall \cup UNION {concealed'[t] : t \in Seats}
  <2>1. PICK hands : hands = concealed'
    OBVIOUS
  <2>2. /\ i \in concealed[s] /\ i \notin hands[s] /\ hands \in Hands
        /\ \A t \in Seats : hands[t] \subseteq concealed[t]
    BY <1>1, <1>2, <1>5, <2>1
  <2>3. i \in Hidden /\ i \notin Wall \cup UNION {hands[t] : t \in Seats}
    BY <2>2, NoLongerHidden
  <2> QED
    BY <2>1, <2>3
<1>7. i \notin Hidden'
  BY <1>3, <1>6 DEF Hidden
<1> QED
  BY <1>3, <1>4, <1>6, <1>7 DEF Forward

\* A draw takes from the wall what it gives to a hand, or ends the hand.
LEMMA DrawsForward ==
  ASSUME HandInv, NEW q \in Seats, NEW s \in Seats, NEW X, deck' = deck,
         InternalDraw(q, [concealed EXCEPT ![s] = @ \ X])
  PROVE  Forward
<1> DEFINE left == {i \in Wall : deck[i] # Flower}
           hands == [concealed EXCEPT ![s] = @ \ X]
<1>1. hands \in Hands
  BY FewerTiles DEF HandInv
<1>2. \A t \in Seats : hands[t] \subseteq concealed[t]
  BY Positions DEF Hands, HandInv
<1>3. drawn \in Nat /\ Len(deck) \in Nat
  BY Positions DEF HandInv
<1>4. InternalDraw(q, hands)
  OBVIOUS
<1> HIDE DEF hands
<1>5. CASE left = {}
  <2>1. drawn' = Len(deck) /\ concealed' = hands /\ phase' = "TERMINAL"
    BY <1>4, <1>5 DEF InternalDraw
  <2>2. Wall' = {}
    BY <2>1, <1>3 DEF Wall
  <2>3. Hidden' \subseteq Hidden
    BY <2>1, <2>2, <1>2 DEF Hidden
  <2> QED
    BY <2>1, <2>2, <2>3 DEF Forward
<1>6. CASE left # {}
  <2>1. PICK i \in Lowest(left, 1) :
          drawn' = i /\ concealed' = [hands EXCEPT ![q] = @ \cup {i}]
    BY <1>4, <1>6 DEF InternalDraw
  <2>2. i \in Wall /\ i \in drawn + 1 .. Len(deck)
    BY <2>1 DEF Lowest, Wall
  <2>3. Wall' \subseteq Wall /\ i \notin Wall'
    BY <2>1, <2>2, <1>3 DEF Wall
  <2>4. \A t \in Seats : concealed'[t] \subseteq concealed[t] \cup {i}
    BY <2>1, <1>1, <1>2 DEF Hands
  <2>5. Hidden' \subseteq Hidden
    BY <2>2, <2>3, <2>4 DEF Hidden
  <2> QED
    BY <2>2, <2>3, <2>5 DEF Forward
<1> QED
  BY <1>5, <1>6

LEMMA PlayForward ==
  ASSUME HandInv, NEW s \in Seats, NEW a, Play(s, a)
  PROVE  Forward
<1>1. deck' = deck
  BY DEF Play
<1>2. PICK i \in Lowest(Copies(s, a.tile), 1) :
        LET hands == [concealed EXCEPT ![s] = @ \ {i}]
        IN IF Opportunities(a.tile, s) = {}
           THEN AdvanceToNextSeat(s, hands)
           ELSE concealed' = hands /\ drawn' = drawn
  BY DEF Play
<1>3. {i} \in SUBSET concealed[s] /\ {i} # {}
  BY <1>2, TakenTiles
<1>4. CASE Opportunities(a.tile, s) # {}
  BY <1>1, <1>2, <1>3, <1>4, LaysOpen
<1>5. CASE Opportunities(a.tile, s) = {}
  <2>1. InternalDraw(NextSeat(s), [concealed EXCEPT ![s] = @ \ {i}])
    BY <1>2, <1>5 DEF AdvanceToNextSeat
  <2>2. NextSeat(s) \in Seats
    BY DEF NextSeat, Seats
  <2> QED
    BY <1>1, <2>1, <2>2, DrawsForward
<1> QED
  BY <1>4, <1>5

LEMMA PassForward ==
  ASSUME HandInv, NEW s \in Seats, NEW a, Pass(s, a)
  PROVE  Forward \/ UNCHANGED vars
<1> DEFINE rest == {c \in pending : c.seat # s}
<1>1. phase = "CLAIM_WINDOW" /\ lastDiscard # None /\ UNCHANGED <<deck, melds, discards>>
  BY LegalPass DEF Pass
<1>2. CASE rest = {}
  <2>1. lastDiscard.seat \in Seats
    BY <1>1 DEF HandInv, TypeOK
  <2>2. NextSeat(lastDiscard.seat) \in Seats
    BY <2>1 DEF NextSeat, Seats
  <2>3. InternalDraw(NextSeat(lastDiscard.seat), concealed)
    BY <1>2 DEF Pass, AdvanceToNextSeat
  <2>4. concealed = [concealed EXCEPT ![s] = @ \ {}]
    BY Positions DEF Hands, HandInv
  <2>5. InternalDraw(NextSeat(lastDiscard.seat), [concealed EXCEPT ![s] = @ \ {}])
    BY <2>3, <2>4
  <2> QED
    BY <1>1, <2>2, <2>5, DrawsForward
<1>3. CASE rest # {}
  <2>1. pending' = rest /\ UNCHANGED <<drawn, concealed, flowers, phase, actor, lastDrawn,
                                      lastDiscard, terminal>>
    BY <1>3 DEF Pass
  <2>2. Wall' = Wall /\ Hidden' = Hidden
    BY <1>1, <2>1 DEF Wall, Hidden
  <2>3. CASE rest = pending
    BY <1>1, <2>1, <2>3 DEF vars
  <2>4. CASE rest # pending
    BY <2>1, <2>2, <2>4 DEF Forward
  <2> QED
    BY <2>3, <2>4
<1> QED
  BY <1>2, <1>3

LEMMA PengForward ==
  ASSUME HandInv, NEW s \in Seats, NEW a, Peng(s, a)
  PROVE  Forward
<1>1. a.tile = lastDiscard.tile /\ a.type = "PENG"
      /\ a \in ClaimsOn(s, lastDiscard.tile, lastDiscard.seat)
  BY LegalClaim DEF Peng
<1>2. PICK X : X = Lowest(Copies(s, a.tile), 2)
  OBVIOUS
<1>3. 2 <= Cardinality(Copies(s, a.tile))
  <2>1. Cardinality(Copies(s, a.tile)) >= 2
    BY <1>1, ClaimNeeds
  <2>2. Copies(s, a.tile) \in SUBSET concealed[s]
    BY DEF Copies
  <2>3. Cardinality(Copies(s, a.tile)) \in Nat
    BY <2>2, HandFinite, FS_Subset, FS_CardinalityType
  <2> QED
    BY <2>1, <2>3
<1>4. X \in SUBSET concealed[s] /\ Cardinality(X) = 2
  BY <1>2, <1>3, CopiesTaken
<1>5. X # {}
  BY <1>4, FS_EmptySet
<1>6. concealed' = [concealed EXCEPT ![s] = @ \ X] /\ UNCHANGED <<deck, drawn>>
  BY <1>2 DEF Peng, HandToClaimer
<1> QED
  BY <1>4, <1>5, <1>6, LaysOpen

LEMMA ChiForward ==
  ASSUME HandInv, NEW s \in Seats, NEW a, Chi(s, a)
  PROVE  Forward
<1>1. a.type = "CHI" /\ a \in ClaimsOn(s, lastDiscard.tile, lastDiscard.seat)
  BY LegalClaim DEF Chi
<1>2. PICK k : k = lastDiscard.tile
  OBVIOUS
<1>3. PICK r \in Runs : r = a.run /\ k \in r /\ r \ {k} \subseteq KindsIn(s)
  BY <1>1, <1>2, ClaimNeeds
<1>4. PICK X : X = RunPair(s, r, k)
  OBVIOUS
<1>5. X \in SUBSET concealed[s] /\ Cardinality(X) = 2
  BY <1>3, <1>4, RunTiles
<1>6. X # {}
  BY <1>5, FS_EmptySet
<1>7. concealed' = [concealed EXCEPT ![s] = @ \ X] /\ UNCHANGED <<deck, drawn>>
  BY <1>2, <1>3, <1>4 DEF Chi, RunPair, HandToClaimer
<1> QED
  BY <1>5, <1>6, <1>7, LaysOpen

\* A kong draws a tile to replace the fourth, or ends the hand.
LEMMA KongForward ==
  ASSUME HandInv, NEW s \in Seats, NEW a,
         GangExposed(s, a) \/ GangConcealed(s, a) \/ GangAdded(s, a)
  PROVE  Forward
<1>1. deck' = deck
  BY DEF GangExposed, GangConcealed, GangAdded
<1>2. \E X : InternalDraw(s, [concealed EXCEPT ![s] = @ \ X])
  BY DEF GangExposed, GangConcealed, GangAdded
<1> QED
  BY <1>1, <1>2, DrawsForward

LEMMA HuForward ==
  ASSUME NEW s, NEW a, Hu(s, a)
  PROVE  Forward
BY DEF Hu, Forward, Wall, Hidden

\* Every step of a hand that changes anything uses up something there is only so
\* much of: no claim, kong or replacement draw puts a tile back, and what a step
\* leaves in place it has moved on, the wall, the hidden tiles or the open claims.
\* Each discard opens claims of its own, so that the claims alone are no measure.
THEOREM ForwardTheorem == Spec => [][Forward]_vars
<1>1. HandInv /\ [Next]_vars => [Forward]_vars
  <2> SUFFICES ASSUME HandInv, NEW s \in Seats, NEW a, ApplyAction(s, a)
               PROVE  Forward \/ UNCHANGED vars
    BY DEF Next
  <2> QED
    BY PlayForward, PassForward, PengForward, ChiForward, KongForward, HuForward
       DEF ApplyAction
<1> QED
  BY <1>1, HandInvariant, PTL DEF Spec

-----------------------------------------------------------------------------
(* The manager: what the seats have answered.                              *)

(***************************************************************************)
(* The seats that were asked and only they have answered, with an action   *)
(* that is legal in the state they were asked in, which no step has left;  *)
(* between two PASSes of a step that applies them, all answers are PASS.   *)
(***************************************************************************)
RepliesTyped ==
    /\ step \in {"idle", "asking", "passing", "over", "aborted"}
    /\ reply = [s \in Seats |-> reply[s]]

RepliesLegal ==
    /\ step = "asking" =>
        /\ phase \in {"DISCARD", "CLAIM_WINDOW"}
        /\ \A s \in Prompted : s \in Asked /\ reply[s] \in LegalActions(s)
    /\ step = "passing" =>
        /\ phase = "CLAIM_WINDOW"
        /\ \A s \in Asked : reply[s] = PASS
        /\ \A s \in Prompted : reply[s] = PASS

TableInv == RepliesTyped /\ RepliesLegal

\* A seat to discard has a tile to discard: the hand of thirteen and one drawn or
\* claimed tile is never all melds.
LEMMA SomethingToPlay ==
  ASSUME HandInv, SoundInv, phase = "DISCARD"
  PROVE  \E k \in KindsIn(actor) : PLAY(k) \in LegalActions(actor)
<1>1. actor \in Seats /\ terminal = None
  BY DEF HandInv, TypeOK, SoundInv, SizeInv
<1>2. HoldsOneMore(actor)
  BY DEF HoldsOneMore
<1>3. Cardinality(concealed[actor]) + 3 * Cardinality(melds[actor]) = HandSize + 1
  BY <1>1, <1>2 DEF SoundInv, SizeInv, HandSizes
<1>4. concealed[actor] # {}
  <2>1. Cardinality(melds[actor]) \in Nat /\ HandSize \in Nat /\ HandSize % 3 = 1
    BY <1>1, FS_CardinalityType, HandAssumption DEF SoundInv, SizeInv
  <2>2. 0 + 3 * Cardinality(melds[actor]) # HandSize + 1
    BY <2>1
  <2>3. Cardinality(concealed[actor]) # 0
    BY <2>2, <1>3
  <2> QED
    BY <2>3, FS_EmptySet
<1>5. PICK k \in KindsIn(actor) : TRUE
  BY <1>4 DEF KindsIn
<1>6. PLAY(k) \in LegalActions(actor)
  BY DEF LegalActions, DiscardActions
<1> QED
  BY <1>6

\* The default action of a prompt is legal.
LEMMA DefaultLegal ==
  ASSUME HandInv, SoundInv, DrawnIsHeld, phase \in {"DISCARD", "CLAIM_WINDOW"},
         NEW s \in Asked
  PROVE  s \in Seats /\ DefaultAction(s) \in LegalActions(s)
<1>1. CASE phase = "DISCARD"
  <2>1. s = actor /\ actor \in Seats
    BY <1>1 DEF Asked, HandInv, TypeOK
  <2>2. CASE lastDrawn # None /\ lastDrawn.seat = s
    <3>1. lastDrawn.tile \in KindsIn(s)
      BY <1>1, <2>1, <2>2 DEF DrawnIsHeld
    <3>2. PLAY(lastDrawn.tile) \in LegalActions(s)
      BY <1>1, <2>1, <3>1 DEF LegalActions, DiscardActions
    <3> QED
      BY <1>1, <2>1, <2>2, <3>2 DEF DefaultAction
  <2>3. CASE ~(lastDrawn # None /\ lastDrawn.seat = s)
    <3>1. \E a \in LegalActions(s) : a.type = "PLAY"
      BY <1>1, <2>1, SomethingToPlay DEF PLAY
    <3>2. DefaultAction(s) = CHOOSE a \in LegalActions(s) : a.type = "PLAY"
      BY <1>1, <2>3 DEF DefaultAction
    <3> QED
      BY <2>1, <3>1, <3>2
  <2> QED
    BY <2>2, <2>3
<1>2. CASE phase = "CLAIM_WINDOW"
  <2>1. PICK c \in pending : c.seat = s
    BY <1>2 DEF Asked
  <2>2. s \in Seats
    BY <2>1 DEF HandInv, TypeOK
  <2>3. \E a \in ClaimActions(s) : a.type = c.claim
    BY <1>2, <2>1 DEF SoundInv, WindowStands
  <2>4. PASS \in ClaimActions(s)
    BY <2>3 DEF ClaimActions
  <2> QED
    BY <1>2, <2>2, <2>4 DEF DefaultAction, LegalActions
<1> QED
  BY <1>1, <1>2

\* PASS is legal for every seat that an open window asks.
LEMMA PassLegal ==
  ASSUME HandInv, SoundInv, DrawnIsHeld, phase = "CLAIM_WINDOW", NEW s \in Asked
  PROVE  s \in Seats /\ PASS \in LegalActions(s)
BY DefaultLegal DEF DefaultAction

\* Where the state of the hand stays, so do the seats asked and the legal actions.
LEMMA SameHand ==
  ASSUME UNCHANGED vars
  PROVE  /\ Asked' = Asked /\ \A s : LegalActions(s)' = LegalActions(s)
         /\ \A s : DefaultAction(s)' = DefaultAction(s)
BY DEF vars, Asked, LegalActions, DiscardActions, ClaimActions, ClaimsOn, SelfDrawHu, PengKinds,
       Copies, KindsIn, Bag, Wall, DefaultAction

-----------------------------------------------------------------------------
(* The claims of a window.                                                 *)

\* What an answer in a window may be.
LEMMA ClaimKinds ==
  ASSUME phase = "CLAIM_WINDOW", NEW s, NEW a \in LegalActions(s)
  PROVE  /\ a.type \in {"PASS", "PENG", "GANG", "CHI", "HU"}
         /\ a.type = "PASS" => a = PASS
         /\ a.type = "HU" <=> a = HU
         /\ a.type = "GANG" => a.kind = "EXPOSED"
BY DEF LegalActions, ClaimActions, ClaimsOn, PASS, PENG, CHI, GANG, HU

\* A set of seats, or of priorities, has a lowest element.
LEMMA HasLowest ==
  ASSUME NEW S, S \in SUBSET (0 .. 4), S # {}
  PROVE  \E x \in S : Lowest(S, 1) = {x} /\ \A y \in S : x <= y
<1>1. S \in SUBSET Nat /\ IsFiniteSet(S)
  <2>1. 0 \in Int /\ 4 \in Int
    OBVIOUS
  <2>2. IsFiniteSet(0 .. 4)
    BY <2>1, FS_Interval
  <2>3. IsFiniteSet(S)
    BY <2>2, FS_Subset
  <2>4. \A x \in S : x \in Nat
    OBVIOUS
  <2> QED
    BY <2>3, <2>4
<1>2. 1 <= Cardinality(S)
  <2>1. Cardinality(S) \in Nat /\ Cardinality(S) # 0
    BY <1>1, FS_CardinalityType, FS_EmptySet
  <2> QED
    BY <2>1
<1>3. IsFiniteSet(Lowest(S, 1)) /\ Cardinality(Lowest(S, 1)) = 1
  BY <1>1, <1>2, LowestSize
<1>4. PICK x : Lowest(S, 1) = {x}
  BY <1>3, FS_Singleton
<1>5. x \in S /\ Cardinality({y \in S : y < x}) < 1
  BY <1>4 DEF Lowest
<1>6. {y \in S : y < x} = {}
  <2>1. IsFiniteSet({y \in S : y < x})
    BY <1>1, FS_Subset
  <2>2. Cardinality({y \in S : y < x}) = 0
    BY <2>1, <1>5, FS_CardinalityType
  <2> QED
    BY <2>1, <2>2, FS_EmptySet
<1>7. \A y \in S : x <= y
  BY <1>1, <1>5, <1>6
<1> QED
  BY <1>4, <1>5, <1>7

\* The seat resolve_claim_priority picks: none when nobody claims, or one whose
\* claim is of the strongest kind that was made and whose seat is the lowest of
\* those with that kind.
LEMMA Resolved ==
  ASSUME NEW w \in ResolveClaimPriority
  PROVE  \E n \in 1 .. 4 :
           /\ w \in Claimers(Priority[n])
           /\ \A s \in Claimers(Priority[n]) : w <= s
           /\ \A k \in 1 .. 4 : Claimers(Priority[k]) # {} => n <= k
<1> DEFINE kinds == {n \in DOMAIN Priority : Claimers(Priority[n]) # {}}
<1>1. DOMAIN Priority = 1 .. 4
  BY DEF Priority
<1>2. \A n \in 1 .. 4 : Claimers(Priority[n]) \in SUBSET (0 .. 4)
  BY DEF Claimers, Prompted, Seats
<1>3. PICK n \in Lowest(kinds, 1) : w \in Lowest(Claimers(Priority[n]), 1)
  BY DEF ResolveClaimPriority
<1>4. kinds \in SUBSET (0 .. 4) /\ kinds # {}
  BY <1>1, <1>3 DEF Lowest
<1>5. n \in kinds /\ \A k \in kinds : n <= k
  <2> HIDE DEF kinds
  <2>1. PICK x \in kinds : Lowest(kinds, 1) = {x} /\ \A y \in kinds : x <= y
    BY <1>4, HasLowest
  <2> QED
    BY <2>1, <1>3
<1>6. w \in Claimers(Priority[n]) /\ \A s \in Claimers(Priority[n]) : w <= s
  <2>1. PICK S : S = Claimers(Priority[n])
    OBVIOUS
  <2>2. S \in SUBSET (0 .. 4) /\ S # {}
    BY <2>1, <1>1, <1>2, <1>5
  <2>3. PICK x \in S : Lowest(S, 1) = {x} /\ \A y \in S : x <= y
    BY <2>2, HasLowest
  <2> QED
    BY <2>1, <2>3, <1>3
<1> QED
  BY <1>1, <1>5, <1>6

LEMMA NobodyClaims ==
  ASSUME ResolveClaimPriority = {}, NEW s \in Prompted
  PROVE  reply[s].type \notin {"HU", "PENG", "GANG", "CHI"}
<1> SUFFICES ASSUME reply[s].type \in {"HU", "PENG", "GANG", "CHI"} PROVE FALSE
  OBVIOUS
<1> DEFINE kinds == {n \in DOMAIN Priority : Claimers(Priority[n]) # {}}
<1>1. DOMAIN Priority = 1 .. 4
  BY DEF Priority
<1>2. \A n \in 1 .. 4 : Claimers(Priority[n]) \in SUBSET (0 .. 4)
  BY DEF Claimers, Prompted, Seats
<1>3. \E n \in 1 .. 4 : s \in Claimers(Priority[n])
  BY DEF Claimers, Priority
<1>4. kinds \in SUBSET (0 .. 4) /\ kinds # {}
  BY <1>1, <1>3
<1>5. \E n \in kinds : n \in Lowest(kinds, 1)
  <2> HIDE DEF kinds
  <2>1. PICK x \in kinds : Lowest(kinds, 1) = {x} /\ \A y \in kinds : x <= y
    BY <1>4, HasLowest
  <2> QED
    BY <2>1
<1>6. PICK n \in kinds : n \in Lowest(kinds, 1)
  BY <1>5
<1>7. PICK S : S = Claimers(Priority[n])
  OBVIOUS
<1>8. S \in SUBSET (0 .. 4) /\ S # {}
  BY <1>1, <1>2, <1>6, <1>7
<1>9. Lowest(S, 1) # {}
  <2>1. PICK x \in S : Lowest(S, 1) = {x} /\ \A y \in S : x <= y
    BY <1>8, HasLowest
  <2> QED
    BY <2>1
<1> QED
  BY <1>6, <1>7, <1>9 DEF ResolveClaimPriority

-----------------------------------------------------------------------------
(* The invariant.                                                          *)

TableAll == HandInv /\ SoundInv /\ DrawnIsHeld /\ TableInv

\* The manager moves the hand by the rules alone.
LEMMA StepsOfHand ==
  ASSUME TableAll, [TableNext]_tableVars
  PROVE  [Next]_vars
<1>1. ASSUME NEW s \in Seats, NEW a, ApplyAction(s, a) PROVE Next
  <2>1. a \in LegalActions(s)
    BY <1>1 DEF ApplyAction, Play, Pass, Peng, Chi, GangExposed, GangConcealed, GangAdded, Hu
  <2> QED
    BY <1>1, <2>1 DEF Next
<1>2. CASE StepDiscard
  <2>1. actor \in Seats
    BY DEF TableAll, HandInv, TypeOK
  <2> QED
    BY <1>1, <1>2, <2>1 DEF StepDiscard
<1>3. CASE StepClaim
  <2>1. PICK s \in ResolveClaimPriority : ApplyAction(s, reply[s])
    BY <1>3 DEF StepClaim
  <2>2. s \in Seats
    BY Resolved DEF Claimers, Prompted
  <2> QED
    BY <1>1, <2>1, <2>2
<1>4. CASE ApplyAllPass
  <2>1. PICK s \in Lowest(Asked, 1) : ApplyAction(s, reply[s])
    BY <1>4 DEF ApplyAllPass
  <2>2. s \in Seats
    BY <2>1 DEF Lowest, Asked, TableAll, HandInv, TypeOK
  <2> QED
    BY <1>1, <2>1, <2>2
<1>5. CASE Ask \/ Footer \/ Abort \/ UNCHANGED tableVars \/ \E s \in Seats : Answer(s)
  BY <1>5 DEF Ask, Footer, Abort, tableVars, Answer, Decide, DecideAuto, DecideFails, Settle
<1> QED
  BY <1>2, <1>3, <1>4, <1>5 DEF TableNext

\* When PASSes are applied, everybody has passed.
LEMMA AllPass ==
  ASSUME TableAll, ApplyAllPass
  PROVE  /\ phase = "CLAIM_WINDOW" /\ \A t \in Prompted : reply[t] = PASS
         /\ \A t \in Asked : reply[t] = PASS
<1> USE DEF TableAll, TableInv
<1>1. CASE step = "passing"
  BY <1>1 DEF RepliesLegal
<1>2. CASE AllIn /\ phase = "CLAIM_WINDOW" /\ ResolveClaimPriority = {}
  <2>1. ASSUME NEW t \in Prompted PROVE reply[t] = PASS
    <3>1. reply[t] \in LegalActions(t)
      BY <1>2 DEF AllIn, RepliesLegal
    <3> QED
      BY <3>1, <1>2, ClaimKinds, NobodyClaims
  <2>2. \A t \in Asked : t \in Prompted
    BY <1>2 DEF AllIn, Prompted, Asked, HandInv, TypeOK
  <2> QED
    BY <1>2, <2>1, <2>2
<1> QED
  BY <1>1, <1>2 DEF ApplyAllPass

LEMMA RepliesKept ==
  ASSUME TableAll, [TableNext]_tableVars
  PROVE  TableInv'
<1> USE DEF TableAll, TableInv
<1>1. CASE Ask
  <2>1. phase \in {"DISCARD", "CLAIM_WINDOW"} /\ UNCHANGED vars
    BY <1>1 DEF Ask, HandInv, TypeOK
  <2>2. step' = "asking" /\ reply' = [s \in Seats |-> None]
    BY <1>1 DEF Ask
  <2> QED
    BY <2>1, <2>2 DEF RepliesTyped, RepliesLegal, Prompted, vars
<1>2. CASE \E s \in Seats : Answer(s)
  <2>1. PICK s \in Seats : Answer(s)
    BY <1>2
  <2>2. step = "asking" /\ s \in Asked /\ step' = step /\ UNCHANGED vars
    BY <2>1 DEF Answer, Decide, DecideAuto, DecideFails, Settle
  <2>3. phase \in {"DISCARD", "CLAIM_WINDOW"}
    BY <2>2 DEF RepliesLegal
  <2>4. DefaultAction(s) \in LegalActions(s)
    BY <2>2, <2>3, DefaultLegal
  <2>5. PICK a \in LegalActions(s) : reply' = [reply EXCEPT ![s] = a]
    BY <2>1, <2>4 DEF Answer, Decide, DecideAuto, DecideFails, Settle
  <2>6. \A t \in Seats : reply'[t] = IF t = s THEN a ELSE reply[t]
    BY <2>5 DEF RepliesTyped
  <2>7. reply' = [t \in Seats |-> reply'[t]]
    BY <2>5, <2>6 DEF RepliesTyped
  <2>8. \A t \in Prompted' : t \in Asked /\ reply'[t] \in LegalActions(t)
    BY <2>2, <2>6 DEF RepliesLegal, Prompted
  <2>9. Asked' = Asked /\ \A t : LegalActions(t)' = LegalActions(t)
    BY <2>2, SameHand
  <2>10. \A t \in Prompted' : t \in Asked' /\ reply'[t] \in LegalActions(t)'
    BY <2>8, <2>9
  <2>11. phase' = phase
    BY <2>2 DEF vars
  <2> QED
    BY <2>2, <2>3, <2>7, <2>10, <2>11 DEF RepliesTyped, RepliesLegal
<1>3. CASE StepDiscard \/ StepClaim
  BY <1>3 DEF StepDiscard, StepClaim, EndStep, RepliesTyped, RepliesLegal
<1>4. CASE ApplyAllPass
  <2>1. PICK s \in Lowest(Asked, 1) : ApplyAction(s, reply[s])
    BY <1>4 DEF ApplyAllPass
  <2>2. s \in Asked /\ reply' = reply
    BY <1>4, <2>1 DEF ApplyAllPass, Lowest
  <2>3. /\ phase = "CLAIM_WINDOW" /\ \A t \in Prompted : reply[t] = PASS
        /\ \A t \in Asked : reply[t] = PASS
    BY <1>4, AllPass
  <2>4. CASE phase' = "CLAIM_WINDOW"
    <3>1. step' = "passing"
      BY <1>4, <2>4 DEF ApplyAllPass
    <3>2. Pass(s, PASS)
      <4>1. ApplyAction(s, PASS) /\ PASS.type = "PASS"
        BY <2>1, <2>2, <2>3 DEF PASS
      <4> QED
        BY <4>1 DEF ApplyAction, Play, Peng, Chi, GangExposed, GangConcealed, GangAdded, Hu
    <3>3. pending' \subseteq pending
      BY <3>2 DEF Pass, AdvanceToNextSeat
    <3>4. Asked' \subseteq Asked
      BY <2>3, <2>4, <3>3 DEF Asked
    <3> QED
      BY <2>2, <2>3, <2>4, <3>1, <3>4 DEF RepliesTyped, RepliesLegal, Prompted
  <2>5. CASE phase' # "CLAIM_WINDOW"
    BY <1>4, <2>5 DEF ApplyAllPass, EndStep, RepliesTyped, RepliesLegal
  <2> QED
    BY <2>4, <2>5
<1>5. CASE Footer \/ Abort
  BY <1>5 DEF Footer, Abort, RepliesTyped, RepliesLegal
<1>6. CASE UNCHANGED tableVars
  <2>1. UNCHANGED vars /\ reply' = reply /\ step' = step
    BY <1>6 DEF tableVars, managerVars
  <2>2. phase' = phase
    BY <2>1 DEF vars
  <2> QED
    BY <2>1, <2>2, SameHand DEF RepliesTyped, RepliesLegal, Prompted
<1> QED
  BY <1>1, <1>2, <1>3, <1>4, <1>5, <1>6 DEF TableNext

LEMMA TableStarts == TableInit => TableAll
<1>1. TableInit => TableInv
  BY DEF TableInit, TableInv, RepliesTyped, RepliesLegal
<1>2. TableInit => Init
  BY DEF TableInit
<1> QED
  BY <1>1, <1>2, HandInit, SoundInit, DrawnInit DEF TableAll

LEMMA TableKept == TableAll /\ [TableNext]_tableVars => TableAll'
<1> SUFFICES ASSUME TableAll, [TableNext]_tableVars PROVE TableAll'
  OBVIOUS
<1>1. [Next]_vars
  BY StepsOfHand
<1> QED
  BY <1>1, RepliesKept, HandKept, SoundKept, DrawnKept DEF TableAll

LEMMA TableInvariant == TableSpec => []TableAll
BY TableStarts, TableKept, PTL DEF TableSpec

\* run_hand plays by the rules: every step of it is a legal action of the engine
\* or leaves the hand alone, so whatever holds of every hand holds of its hands.
THEOREM PlaysByTheRules == TableSpec => Spec
<1>1. TableInit => Init
  BY DEF TableInit
<1>2. TableAll /\ [TableNext]_tableVars => [Next]_vars
  BY StepsOfHand
<1> QED
  BY <1>1, <1>2, TableInvariant, PTL DEF TableSpec, Spec

-----------------------------------------------------------------------------
(* Why run_hand ends.                                                      *)

\* The seats the step still waits for.
Unsettled == {s \in Asked : reply[s] = None}

\* A step that leaves the hand as it is begins or ends a round of prompts, or
\* settles one more of its answers.
RoundForward ==
  \/ step = "idle" /\ step' \in {"asking", "over"}
  \/ /\ step = "asking" /\ step' = "asking"
     /\ Unsettled' \subseteq Unsettled /\ Unsettled' # Unsettled
  \/ step \in {"asking", "passing"} /\ step' = "aborted"

\* Every step of run_hand moves the hand on or, within one position of it, the
\* round of prompts: no step repeats what was there before.
AlwaysForward == [][Forward \/ (UNCHANGED vars /\ RoundForward)]_tableVars

\* And nothing it needs to go on is missing: somebody is asked, each one still
\* waited for has its default to fall back on, once all are in the action to
\* apply is there, and as long as PASSes are applied one is left.
NothingMissing ==
  /\ step \in {"asking", "passing"} => Asked # {}
  /\ step = "asking" => \A s \in Unsettled : DefaultAction(s) \in LegalActions(s)
  /\ AllIn =>
       IF phase = "DISCARD" THEN reply[actor] \in LegalActions(actor)
       ELSE \/ \E s \in ResolveClaimPriority : reply[s] \in LegalActions(s)
            \/ \A s \in Asked : reply[s] = PASS /\ PASS \in LegalActions(s)

\* An answer is not None, which stands for an answer that is still due.
LEMMA AnswerIsAction ==
  ASSUME HandInv, phase \in {"DISCARD", "CLAIM_WINDOW"}, NEW s \in Seats,
         NEW a \in LegalActions(s)
  PROVE  a # None
<1>1. KindsIn(s) \subseteq Kinds
  BY KindsOfHand DEF HandInv
<1>2. CASE phase = "DISCARD"
  <2>1. \/ \E k \in KindsIn(s) : a \in {PLAY(k), GANG(k, "CONCEALED"), GANG(k, "ADDED")}
        \/ a = HU
    BY <1>2 DEF LegalActions, DiscardActions
  <2> QED
    BY <2>1, <1>1, TableAssumption
<1>3. CASE phase = "CLAIM_WINDOW"
  <2>1. lastDiscard # None /\ a \in {PASS} \cup ClaimsOn(s, lastDiscard.tile, lastDiscard.seat)
    BY <1>3 DEF LegalActions, ClaimActions
  <2>2. lastDiscard.tile \in Kinds
    BY <2>1 DEF HandInv, TypeOK
  <2>3. \/ a \in {PASS, HU, PENG(lastDiscard.tile), GANG(lastDiscard.tile, "EXPOSED")}
        \/ \E r \in Runs : a = CHI(r)
    BY <2>1 DEF ClaimsOn
  <2> QED
    BY <2>2, <2>3, TableAssumption
<1> QED
  BY <1>2, <1>3

\* Every action but a PASS moves the hand on.
LEMMA AppliedForward ==
  ASSUME HandInv, NEW s \in Seats, NEW a, ApplyAction(s, a), a.type # "PASS"
  PROVE  Forward
<1>1. ~Pass(s, a)
  BY DEF Pass
<1> QED
  BY <1>1, PlayForward, PengForward, ChiForward, KongForward, HuForward DEF ApplyAction

\* A PASS of a seat that is asked withdraws its claims.
LEMMA AskedPassForward ==
  ASSUME HandInv, phase = "CLAIM_WINDOW", NEW s \in Asked, Pass(s, PASS)
  PROVE  Forward
<1>1. PICK c \in pending : c.seat = s
  BY DEF Asked
<1>2. s \in Seats
  BY <1>1 DEF HandInv, TypeOK
<1>3. pending' # pending
  BY <1>1 DEF Pass, AdvanceToNextSeat
<1>4. ~UNCHANGED vars
  BY <1>3 DEF vars
<1> QED
  BY <1>2, <1>4, PassForward

LEMMA StepForward ==
  ASSUME TableAll, TableNext
  PROVE  Forward \/ (UNCHANGED vars /\ RoundForward)
<1> USE DEF TableAll, TableInv
<1>1. CASE Ask \/ Footer \/ Abort
  BY <1>1 DEF Ask, Footer, Abort, RoundForward
<1>2. ASSUME NEW s \in Seats, Answer(s)
      PROVE  UNCHANGED vars /\ RoundForward
  <2>1. step = "asking" /\ s \in Asked /\ reply[s] = None /\ step' = step /\ UNCHANGED vars
    BY <1>2 DEF Answer, Decide, DecideAuto, DecideFails, Settle
  <2>2. phase \in {"DISCARD", "CLAIM_WINDOW"}
    BY <2>1 DEF RepliesLegal
  <2>3. DefaultAction(s) \in LegalActions(s)
    BY <2>1, <2>2, DefaultLegal
  <2>4. PICK a \in LegalActions(s) : reply' = [reply EXCEPT ![s] = a]
    BY <1>2, <2>3 DEF Answer, Decide, DecideAuto, DecideFails, Settle
  <2>5. a # None
    BY <2>2, <2>4, AnswerIsAction
  <2>6. Asked' = Asked
    BY <2>1, SameHand
  <2>7. \A t \in Seats : reply'[t] = IF t = s THEN a ELSE reply[t]
    BY <2>4 DEF RepliesTyped
  <2>8. Asked \subseteq Seats
    BY DEF Asked, HandInv, TypeOK
  <2>9. s \in Unsettled /\ s \notin Unsettled' /\ Unsettled' \subseteq Unsettled
    BY <2>1, <2>5, <2>6, <2>7, <2>8 DEF Unsettled
  <2> QED
    BY <2>1, <2>9 DEF RoundForward
<1>3. CASE StepDiscard
  <2>1. actor \in Seats /\ actor \in Asked /\ phase = "DISCARD" /\ step = "asking"
    BY <1>3 DEF StepDiscard, AllIn, Asked, HandInv, TypeOK
  <2>2. reply[actor] \in LegalActions(actor)
    BY <1>3, <2>1 DEF StepDiscard, AllIn, Prompted, RepliesLegal
  <2>3. reply[actor].type # "PASS"
    BY <2>1, <2>2 DEF LegalActions, DiscardActions, PLAY, GANG, HU
  <2> QED
    BY <1>3, <2>1, <2>3, AppliedForward DEF StepDiscard
<1>4. CASE StepClaim
  <2>1. PICK s \in ResolveClaimPriority : ApplyAction(s, reply[s])
    BY <1>4 DEF StepClaim
  <2>2. s \in Seats /\ reply[s].type \in {"HU", "PENG", "GANG", "CHI"}
    BY Resolved DEF Claimers, Prompted, Priority
  <2> QED
    BY <2>1, <2>2, AppliedForward
<1>5. CASE ApplyAllPass
  <2>1. PICK s \in Lowest(Asked, 1) : ApplyAction(s, reply[s])
    BY <1>5 DEF ApplyAllPass
  <2>2. s \in Asked /\ phase = "CLAIM_WINDOW" /\ reply[s] = PASS
    BY <1>5, <2>1, AllPass DEF Lowest
  <2>3. Pass(s, PASS)
    <3>1. ApplyAction(s, PASS) /\ PASS.type = "PASS"
      BY <2>1, <2>2 DEF PASS
    <3> QED
      BY <3>1 DEF ApplyAction, Play, Peng, Chi, GangExposed, GangConcealed, GangAdded, Hu
  <2> QED
    BY <2>2, <2>3, AskedPassForward
<1> QED
  BY <1>1, <1>2, <1>3, <1>4, <1>5 DEF TableNext

LEMMA TableGoesOn ==
  ASSUME TableAll
  PROVE  NothingMissing
<1> USE DEF TableAll, TableInv
<1>1. ASSUME step \in {"asking", "passing"} PROVE Asked # {}
  <2>1. phase \in {"DISCARD", "CLAIM_WINDOW"}
    BY <1>1 DEF RepliesLegal
  <2>2. phase = "CLAIM_WINDOW" => pending # {}
    BY DEF SoundInv, WindowStands
  <2> QED
    BY <2>1, <2>2 DEF Asked
<1>2. ASSUME step = "asking", NEW s \in Unsettled PROVE DefaultAction(s) \in LegalActions(s)
  BY <1>2, DefaultLegal DEF Unsettled, RepliesLegal
<1>3. ASSUME AllIn, phase = "DISCARD" PROVE reply[actor] \in LegalActions(actor)
  <2>1. actor \in Prompted /\ step = "asking"
    BY <1>3 DEF AllIn, Asked, Prompted, HandInv, TypeOK
  <2> QED
    BY <2>1 DEF RepliesLegal
<1>4. ASSUME AllIn, phase # "DISCARD"
      PROVE  \/ \E s \in ResolveClaimPriority : reply[s] \in LegalActions(s)
             \/ \A s \in Asked : reply[s] = PASS /\ PASS \in LegalActions(s)
  <2>1. phase = "CLAIM_WINDOW" /\ step = "asking"
    BY <1>4 DEF AllIn, RepliesLegal
  <2>2. \A s \in Asked : s \in Prompted
    BY <1>4 DEF AllIn, Prompted, Asked, HandInv, TypeOK
  <2>3. CASE ResolveClaimPriority = {}
    <3>1. ASSUME NEW s \in Asked PROVE reply[s] = PASS /\ PASS \in LegalActions(s)
      <4>1. reply[s] \in LegalActions(s) /\ s \in Prompted
        BY <2>1, <2>2 DEF RepliesLegal
      <4>2. reply[s] = PASS
        BY <4>1, <2>1, <2>3, ClaimKinds, NobodyClaims
      <4> QED
        BY <4>1, <4>2
    <3> QED
      BY <3>1
  <2>4. CASE ResolveClaimPriority # {}
    <3>1. PICK s \in ResolveClaimPriority : TRUE
      BY <2>4
    <3>2. s \in Prompted
      BY Resolved DEF Claimers
    <3> QED
      BY <2>1, <3>1, <3>2 DEF RepliesLegal
  <2> QED
    BY <2>3, <2>4
<1> QED
  BY <1>1, <1>2, <1>3, <1>4 DEF NothingMissing

\* run_hand comes to its end: every step uses up the wall, the hidden tiles, the
\* claims of the window or the answers still due, and none of its waits is for
\* something that may not come, whoever fails to decide.  Which steps are taken
\* is left to the deadlines.
THEOREM RoundTheorem == TableSpec => []NothingMissing /\ AlwaysForward
<1>1. TableAll => NothingMissing
  BY TableGoesOn
<1>2. TableAll /\ [TableNext]_tableVars =>
        [Forward \/ (UNCHANGED vars /\ RoundForward)]_tableVars
  BY StepForward
<1> QED
  BY <1>1, <1>2, TableInvariant, PTL DEF TableSpec, AlwaysForward

-----------------------------------------------------------------------------
(* Legality.                                                               *)

\* What the adapters settled when a step of run_hand applies it.
AppliesLegally ==
    /\ step = "asking" => \A s \in Prompted : s \in Asked /\ reply[s] \in LegalActions(s)
    /\ step = "passing" => \A s \in Asked : reply[s] = PASS /\ PASS \in LegalActions(s)

\* Every action run_hand applies is one its seat was offered: nobody answers for
\* a seat that was not asked, defaults are legal, and while the PASSes of a
\* window are applied one by one each that is left still is a legal PASS.
THEOREM AppliesLegallyTheorem == TableSpec => []AppliesLegally
<1>1. TableAll => AppliesLegally
  <2> SUFFICES ASSUME TableAll PROVE AppliesLegally
    OBVIOUS
  <2>1. step = "passing" => \A s \in Asked : reply[s] = PASS /\ PASS \in LegalActions(s)
    BY PassLegal DEF TableAll, TableInv, RepliesLegal
  <2> QED
    BY <2>1 DEF TableAll, TableInv, RepliesLegal, AppliesLegally
<1> QED
  BY <1>1, TableInvariant, PTL

-----------------------------------------------------------------------------
(* Priority.                                                               *)

\* Copies of the discard in a hand with a claim on it.
LEMMA ClaimCopies ==
  ASSUME HandInv, NEW s \in Seats, NEW k, NEW n \in {2, 3},
         Cardinality(Copies(s, k)) >= n, NEW X, X = Lowest(Copies(s, k), n)
  PROVE  X # {} /\ X \subseteq concealed[s]
<1>1. Copies(s, k) \in SUBSET concealed[s]
  BY DEF Copies
<1>2. Cardinality(Copies(s, k)) \in Nat
  BY <1>1, HandFinite, FS_Subset, FS_CardinalityType
<1>3. n \in Nat /\ n <= Cardinality(Copies(s, k)) /\ n # 0
  BY <1>2
<1>4. X \in SUBSET concealed[s] /\ Cardinality(X) = n
  BY <1>3, CopiesTaken
<1> QED
  BY <1>3, <1>4, FS_EmptySet

\* A claim other than a win gives its seat one meld more.
LEMMA ClaimAddsMeld ==
  ASSUME HandInv, SoundInv, NEW s \in Seats, NEW a,
         Peng(s, a) \/ Chi(s, a) \/ GangExposed(s, a)
  PROVE  Cardinality(melds'[s]) = Cardinality(melds[s]) + 1
<1>1. /\ phase = "CLAIM_WINDOW" /\ lastDiscard # None
      /\ a \in ClaimsOn(s, lastDiscard.tile, lastDiscard.seat)
      /\ a.type # "CHI" => a.tile = lastDiscard.tile
  BY LegalClaim DEF Peng, Chi, GangExposed
<1>2. PICK k : k = lastDiscard.tile
  OBVIOUS
<1>3. \E m, X : /\ melds' = [melds EXCEPT ![s] = @ \cup {m}]
                /\ X # {} /\ X \subseteq concealed[s] /\ X \subseteq m.tiles
  <2>1. CASE Peng(s, a)
    <3>1. a.type = "PENG" /\ a.tile = k
      BY <2>1, <1>1, <1>2 DEF Peng
    <3>2. PICK X : X = Lowest(Copies(s, k), 2)
      OBVIOUS
    <3>3. Cardinality(Copies(s, k)) >= 2
      BY <3>1, <1>1, <1>2, ClaimNeeds
    <3>4. X # {} /\ X \subseteq concealed[s]
      BY <3>2, <3>3, ClaimCopies
    <3>5. AddMeld(s, "PENG", k, X \cup {Popped})
      BY <2>1, <3>1, <3>2 DEF Peng
    <3>6. PICK m : m = [type |-> "PENG", kind |-> k, tiles |-> X \cup {Popped}]
      OBVIOUS
    <3>7. melds' = [melds EXCEPT ![s] = @ \cup {m}] /\ X \subseteq m.tiles
      BY <3>5, <3>6 DEF AddMeld
    <3> QED
      BY <3>4, <3>7
  <2>2. CASE GangExposed(s, a)
    <3>1. a.type = "GANG" /\ a.tile = k
      BY <2>2, <1>1, <1>2 DEF GangExposed
    <3>2. PICK X : X = Lowest(Copies(s, k), 3)
      OBVIOUS
    <3>3. Cardinality(Copies(s, k)) >= 3
      BY <3>1, <1>1, <1>2, ClaimNeeds
    <3>4. X # {} /\ X \subseteq concealed[s]
      BY <3>2, <3>3, ClaimCopies
    <3>5. AddMeld(s, "GANG", k, X \cup {Popped})
      BY <2>2, <3>1, <3>2 DEF GangExposed
    <3>6. PICK m : m = [type |-> "GANG", kind |-> k, tiles |-> X \cup {Popped}]
      OBVIOUS
    <3>7. melds' = [melds EXCEPT ![s] = @ \cup {m}] /\ X \subseteq m.tiles
      BY <3>5, <3>6 DEF AddMeld
    <3> QED
      BY <3>4, <3>7
  <2>3. CASE Chi(s, a)
    <3>1. a.type = "CHI"
      BY <2>3 DEF Chi
    <3>2. a.run \in Runs /\ k \in a.run /\ a.run \ {k} \subseteq KindsIn(s)
      BY <3>1, <1>1, <1>2, ClaimNeeds
    <3>3. PICK r \in Runs : r = a.run
      BY <3>2
    <3>4. PICK X : X = RunPair(s, r, k)
      OBVIOUS
    <3>5. X \in SUBSET concealed[s] /\ Cardinality(X) = 2
      BY <3>2, <3>3, <3>4, RunTiles
    <3>6. X # {}
      BY <3>5, FS_EmptySet
    <3>7. AddMeld(s, "CHI", k, X \cup {Popped})
      BY <2>3, <1>2, <3>3, <3>4 DEF Chi, RunPair
    <3>8. PICK m : m = [type |-> "CHI", kind |-> k, tiles |-> X \cup {Popped}]
      OBVIOUS
    <3>9. melds' = [melds EXCEPT ![s] = @ \cup {m}] /\ X \subseteq m.tiles
      BY <3>7, <3>8 DEF AddMeld
    <3> QED
      BY <3>5, <3>6, <3>9
  <2> QED
    BY <2>1, <2>2, <2>3
<1>4. PICK m : \E X : /\ melds' = [melds EXCEPT ![s] = @ \cup {m}]
                      /\ X # {} /\ X \subseteq concealed[s] /\ X \subseteq m.tiles
  BY <1>3
<1>5. m.tiles \cap concealed[s] # {} /\ melds' = [melds EXCEPT ![s] = @ \cup {m}]
  BY <1>4
<1> QED
  BY <1>5, MeldSizes DEF SoundInv

\* The claim that beats all the others is the one that is resolved to.
LEMMA BestIsResolved ==
  ASSUME TableAll, step = "asking", phase = "CLAIM_WINDOW", NEW w \in ResolveClaimPriority,
         NEW s \in Prompted, reply[s] # PASS, \A t \in Prompted \ {s} : Beats(s, t)
  PROVE  w = s
<1>1. PICK n \in 1 .. 4 :
        /\ w \in Claimers(Priority[n])
        /\ \A t \in Claimers(Priority[n]) : w <= t
        /\ \A k \in 1 .. 4 : Claimers(Priority[k]) # {} => n <= k
  BY Resolved
<1>2. w \in Prompted /\ reply[w].type = Priority[n]
  BY <1>1 DEF Claimers
<1>3. reply[s].type \in {"PENG", "GANG", "CHI", "HU"}
  <2>1. reply[s] \in LegalActions(s)
    BY DEF TableAll, TableInv, RepliesLegal
  <2> QED
    BY <2>1, ClaimKinds
<1>4. SUFFICES ASSUME w # s PROVE FALSE
  OBVIOUS
<1>5. Beats(s, w)
  BY <1>2, <1>4
<1>6. PICK k \in 1 .. 4 : reply[s].type = Priority[k]
  BY <1>3 DEF Priority
<1>7. n <= k
  BY <1>1, <1>6 DEF Claimers
<1>8. w \in Nat /\ s \in Nat
  BY <1>2 DEF Prompted, Seats
<1>9. reply[s].type # reply[w].type
  <2> SUFFICES ASSUME reply[s].type = reply[w].type PROVE FALSE
    OBVIOUS
  <2>1. s \in Claimers(Priority[n])
    BY <1>2 DEF Claimers
  <2>2. w <= s
    BY <1>1, <2>1
  <2>3. s < w
    BY <1>3, <1>5 DEF Beats
  <2> QED
    BY <1>8, <2>2, <2>3
<1>10. LET rank == [HU |-> 3, PENG |-> 2, GANG |-> 2, CHI |-> 1, PASS |-> 0]
       IN rank[reply[s].type] > rank[reply[w].type]
  BY <1>5, <1>9 DEF Beats
<1> QED
  BY <1>2, <1>6, <1>7, <1>9, <1>10 DEF Priority

\* When a window closes, the best claim has been carried out.
LEMMA BestClaimServed ==
  ASSUME TableAll, TableNext, phase = "CLAIM_WINDOW", phase' # "CLAIM_WINDOW",
         NEW s \in Prompted, reply[s] # PASS, \A t \in Prompted \ {s} : Beats(s, t)
  PROVE  /\ reply[s] = HU =>
              terminal' # None /\ terminal'.kind = "HU" /\ terminal'.winner = s
         /\ reply[s] # HU => Cardinality(melds'[s]) = Cardinality(melds[s]) + 1
<1>1. ~(Ask \/ Footer \/ Abort \/ StepDiscard \/ \E t \in Seats : Answer(t))
  BY DEF Ask, Footer, Abort, StepDiscard, Answer, Decide, DecideAuto, DecideFails, Settle, vars
<1>2. ~ApplyAllPass
  <2> SUFFICES ASSUME ApplyAllPass PROVE FALSE
    OBVIOUS
  <2>1. CASE step = "passing"
    BY <2>1 DEF TableAll, TableInv, RepliesLegal
  <2>2. CASE AllIn /\ ResolveClaimPriority = {}
    <3>1. reply[s] \in LegalActions(s)
      BY <2>2 DEF AllIn, TableAll, TableInv, RepliesLegal
    <3> QED
      BY <2>2, <3>1, ClaimKinds, NobodyClaims
  <2> QED
    BY <2>1, <2>2 DEF ApplyAllPass
<1>3. StepClaim
  BY <1>1, <1>2 DEF TableNext
<1>4. step = "asking"
  BY <1>3 DEF StepClaim, AllIn
<1>5. PICK w \in ResolveClaimPriority : ApplyAction(w, reply[w])
  BY <1>3 DEF StepClaim
<1>6. ApplyAction(s, reply[s])
  BY <1>4, <1>5, BestIsResolved
<1>7. s \in Seats /\ reply[s] \in LegalActions(s)
  BY <1>4 DEF Prompted, TableAll, TableInv, RepliesLegal
<1>8. PICK a \in LegalActions(s) : a = reply[s]
  BY <1>7
<1>9. /\ a.type \in {"PENG", "GANG", "CHI", "HU"}
      /\ a.type = "HU" <=> a = HU
      /\ a.type = "GANG" => a.kind = "EXPOSED"
  BY <1>8, ClaimKinds
<1>10. CASE a = HU
  <2>1. Hu(s, a)
    BY <1>6, <1>8, <1>9, <1>10
       DEF ApplyAction, Play, Pass, Peng, Chi, GangExposed, GangConcealed, GangAdded
  <2>2. terminal' = [kind |-> "HU", winner |-> s, tile |-> lastDiscard.tile,
                     from |-> lastDiscard.seat]
    BY <2>1 DEF Hu
  <2>3. lastDiscard.tile \in Kinds /\ lastDiscard.seat \in Seats
    BY DEF TableAll, HandInv, TypeOK, SoundInv, WindowStands
  <2>4. terminal' \in [kind : {"HU"}, winner : Seats, tile : Kinds, from : Seats]
    BY <1>7, <2>2, <2>3
  <2>5. terminal' # None
    BY <2>4, HandAssumption
  <2> QED
    BY <1>8, <1>10, <2>2, <2>5
<1>11. CASE a # HU
  <2>1. Peng(s, a) \/ Chi(s, a) \/ GangExposed(s, a)
    BY <1>6, <1>8, <1>9, <1>11
       DEF ApplyAction, Play, Pass, Hu, GangConcealed, GangAdded
  <2>2. Cardinality(melds'[s]) = Cardinality(melds[s]) + 1
    BY <1>7, <2>1, ClaimAddsMeld DEF TableAll
  <2> QED
    BY <1>8, <1>11, <2>2
<1> QED
  BY <1>10, <1>11

\* Of several claims on a discard the best is carried out, whatever the order in
\* which the adapters answered and whoever let the deadline pass.
THEOREM PriorityTheorem == TableSpec => PriorityHolds
<1>1. ASSUME TableAll, TableNext, phase = "CLAIM_WINDOW", phase' # "CLAIM_WINDOW",
             NEW s \in Prompted, reply[s] # PASS, \A t \in Prompted \ {s} : Beats(s, t)
      PROVE  IF reply[s] = HU
             THEN terminal' # None /\ terminal'.kind = "HU" /\ terminal'.winner = s
             ELSE Cardinality(melds'[s]) = Cardinality(melds[s]) + 1
  BY <1>1, BestClaimServed
<1>2. ASSUME TableAll, [TableNext]_tableVars, phase = "CLAIM_WINDOW", phase' # "CLAIM_WINDOW"
      PROVE  TableNext
  BY <1>2 DEF tableVars, vars
<1>3. TableAll /\ [TableNext]_tableVars =>
        [phase = "CLAIM_WINDOW" /\ phase' # "CLAIM_WINDOW" =>
            \A s \in Prompted : reply[s] # PASS /\ (\A t \in Prompted \ {s} : Beats(s, t)) =>
                IF reply[s] = HU
                THEN terminal' # None /\ terminal'.kind = "HU" /\ terminal'.winner = s
                ELSE Cardinality(melds'[s]) = Cardinality(melds[s]) + 1]_tableVars
  BY <1>1, <1>2
<1> QED
  BY <1>3, TableInvariant, PTL DEF TableSpec, PriorityHolds

-----------------------------------------------------------------------------
(* The record.                                                             *)

(***************************************************************************)
(* The events of a step: n decisions first, then e ends of the hand (one   *)
(* or none) last, and others between them.                                 *)
(***************************************************************************)
StepLog(q, n, e) ==
    /\ \E S : q \in Seq(S)
    /\ n \in Nat /\ e \in {0, 1} /\ n + e <= Len(q)
    /\ \A i \in 1 .. Len(q) :
        /\ q[i].event = "CLAIM_DECISION" <=> i <= n
        /\ q[i].event = "HAND_END" <=> i > Len(q) - e

LEMMA Wider ==
  ASSUME NEW S, NEW T, NEW q \in Seq(S), S \subseteq T
  PROVE  q \in Seq(T)
<1>1. Len(q) \in Nat /\ q \in [1 .. Len(q) -> S]
  OBVIOUS
<1>2. q \in [1 .. Len(q) -> T]
  BY <1>1
<1> QED
  BY <1>1, <1>2

\* Two sequences, one after the other.
LEMMA Joins ==
  ASSUME NEW p, NEW q, \E S : p \in Seq(S), \E S : q \in Seq(S)
  PROVE  /\ \E S : p \o q \in Seq(S)
         /\ Len(p) \in Nat /\ Len(q) \in Nat /\ Len(p \o q) = Len(p) + Len(q)
         /\ \A i \in 1 .. Len(p) : (p \o q)[i] = p[i]
         /\ \A i \in 1 .. Len(p) + Len(q) : i > Len(p) => (p \o q)[i] = q[i - Len(p)]
<1>1. PICK S : p \in Seq(S)
  OBVIOUS
<1>2. PICK T : q \in Seq(T)
  OBVIOUS
<1>3. p \in Seq(S \cup T) /\ q \in Seq(S \cup T)
  BY <1>1, <1>2, Wider
<1>4. p \o q \in Seq(S \cup T)
  BY <1>3
<1> QED
  BY <1>3, <1>4

\* Events without decisions, or any after nothing but decisions, follow events
\* without an end.
LEMMA Joined ==
  ASSUME NEW p, NEW q, NEW n, NEW m, NEW e, StepLog(p, n, 0), StepLog(q, m, e),
         m = 0 \/ n = Len(p)
  PROVE  StepLog(p \o q, n + m, e)
<1> DEFINE r == p \o q
<1>1. \E S : r \in Seq(S)
  BY Joins DEF StepLog
<1>2. /\ Len(p) \in Nat /\ Len(q) \in Nat /\ Len(r) = Len(p) + Len(q)
      /\ \A i \in 1 .. Len(p) : r[i] = p[i]
      /\ \A i \in 1 .. Len(p) + Len(q) : i > Len(p) => r[i] = q[i - Len(p)]
  BY Joins DEF StepLog
<1>3. n \in Nat /\ m \in Nat /\ n <= Len(p) /\ e \in {0, 1} /\ m + e <= Len(q)
  BY <1>2 DEF StepLog
<1> HIDE DEF r
<1>4. ASSUME NEW i \in 1 .. Len(r)
      PROVE  /\ r[i].event = "CLAIM_DECISION" <=> i <= n + m
             /\ r[i].event = "HAND_END" <=> i > Len(r) - e
  <2>1. CASE i <= Len(p)
    <3>1. i \in 1 .. Len(p)
      BY <1>2, <2>1
    <3>2. /\ p[i].event = "CLAIM_DECISION" <=> i <= n
          /\ p[i].event = "HAND_END" <=> i > Len(p) - 0
      BY <3>1 DEF StepLog
    <3>3. ~(i > Len(p) - 0) /\ ~(i > Len(r) - e) /\ (i <= n <=> i <= n + m)
      BY <1>2, <1>3, <3>1
    <3> QED
      BY <1>2, <3>1, <3>2, <3>3
  <2>2. CASE i > Len(p)
    <3>1. PICK k : k = i - Len(p)
      OBVIOUS
    <3>2. k \in 1 .. Len(q) /\ i \in 1 .. Len(p) + Len(q)
      BY <1>2, <2>2, <3>1
    <3>3. r[i] = q[k]
      BY <1>2, <2>2, <3>1, <3>2
    <3>4. /\ q[k].event = "CLAIM_DECISION" <=> k <= m
          /\ q[k].event = "HAND_END" <=> k > Len(q) - e
      BY <3>2 DEF StepLog
    <3>5. (k <= m <=> i <= n + m) /\ (k > Len(q) - e <=> i > Len(r) - e)
      BY <1>2, <1>3, <2>2, <3>1, <3>2
    <3> QED
      BY <3>3, <3>4, <3>5
  <2> QED
    BY <1>2, <2>1, <2>2
<1>5. n + m \in Nat /\ (n + m) + e <= Len(r)
  BY <1>2, <1>3
<1> QED
  BY <1>1, <1>2, <1>3, <1>4, <1>5 DEF StepLog, r

\* An event of its own, and no event.
LEMMA OneEvent ==
  ASSUME NEW v, NEW n, NEW e,
         v.event = "CLAIM_DECISION" => n = 1 /\ e = 0,
         v.event = "HAND_END" => n = 0 /\ e = 1,
         v.event \notin {"CLAIM_DECISION", "HAND_END"} => n = 0 /\ e = 0
  PROVE  StepLog(<<v>>, n, e) /\ Len(<<v>>) = 1 /\ <<v>>[1] = v
<1>1. <<v>> \in Seq({v}) /\ Len(<<v>>) = 1 /\ <<v>>[1] = v
  OBVIOUS
<1>2. n \in Nat /\ e \in {0, 1} /\ n + e <= 1
  OBVIOUS
<1>3. ASSUME NEW i \in 1 .. 1
      PROVE  /\ v.event = "CLAIM_DECISION" <=> i <= n
             /\ v.event = "HAND_END" <=> i > 1 - e
  <2>1. i = 1
    OBVIOUS
  <2>2. CASE v.event = "CLAIM_DECISION"
    BY <2>1, <2>2
  <2>3. CASE v.event = "HAND_END"
    BY <2>1, <2>3
  <2>4. CASE v.event \notin {"CLAIM_DECISION", "HAND_END"}
    BY <2>1, <2>4
  <2> QED
    BY <2>2, <2>3, <2>4
<1>4. \A i \in 1 .. 1 : <<v>>[i] = v
  OBVIOUS
<1>5. PICK q : q = <<v>>
  OBVIOUS
<1>6. StepLog(q, n, e)
  BY <1>1, <1>2, <1>3, <1>4, <1>5 DEF StepLog
<1> QED
  BY <1>1, <1>5, <1>6

LEMMA NoEvent ==
  StepLog(<<>>, 0, 0) /\ Len(<<>>) = 0
<1>1. <<>> \in Seq({}) /\ Len(<<>>) = 0
  OBVIOUS
<1> QED
  BY <1>1 DEF StepLog

\* What the engine does by itself after an action has no decision in it, and ends
\* the hand where the hand is over.
LEMMA Follows ==
  ASSUME NEW e, phase' = "TERMINAL" => e = 1, phase' # "TERMINAL" => e = 0
  PROVE  StepLog(Follow, 0, e)
<1>1. CASE phase' = "CLAIM_WINDOW"
  BY <1>1, OneEvent DEF Follow
<1>2. CASE phase' = "DISCARD" /\ drawn' > drawn
  BY <1>2, OneEvent DEF Follow
<1>3. CASE phase' = "TERMINAL"
  BY <1>3, OneEvent DEF Follow
<1>4. CASE ~(phase' = "CLAIM_WINDOW" \/ (phase' = "DISCARD" /\ drawn' > drawn)
             \/ phase' = "TERMINAL")
  BY <1>4, NoEvent DEF Follow
<1> QED
  BY <1>1, <1>2, <1>3, <1>4

\* Without the first event, which is the only decision.
LEMMA Rests ==
  ASSUME NEW q, NEW e, StepLog(q, 1, e)
  PROVE  StepLog(Tail(q), 0, e)
<1>1. PICK S : q \in Seq(S)
  BY DEF StepLog
<1>2. Len(q) \in Nat /\ 1 + e <= Len(q) /\ e \in {0, 1}
  BY <1>1 DEF StepLog
<1>3. q # <<>>
  BY <1>1, <1>2
<1>4. PICK r : r = Tail(q)
  OBVIOUS
<1>5. r \in Seq(S) /\ Len(r) = Len(q) - 1 /\ \A i \in 1 .. Len(q) - 1 : r[i] = q[i + 1]
  BY <1>1, <1>3, <1>4
<1>6. ASSUME NEW i \in 1 .. Len(r)
      PROVE  /\ r[i].event = "CLAIM_DECISION" <=> i <= 0
             /\ r[i].event = "HAND_END" <=> i > Len(r) - e
  <2>1. PICK k : k = i + 1
    OBVIOUS
  <2>2. k \in 1 .. Len(q) /\ r[i] = q[k] /\ ~(k <= 1) /\ ~(i <= 0)
    BY <1>2, <1>5, <2>1
  <2>3. /\ q[k].event = "CLAIM_DECISION" <=> k <= 1
        /\ q[k].event = "HAND_END" <=> k > Len(q) - e
    BY <2>2 DEF StepLog
  <2>4. k > Len(q) - e <=> i > Len(r) - e
    BY <1>2, <1>5, <2>1
  <2> QED
    BY <2>2, <2>3, <2>4
<1>7. 0 + e <= Len(r)
  BY <1>2, <1>5
<1> QED
  BY <1>2, <1>4, <1>5, <1>6, <1>7 DEF StepLog

\* The events of one action: its decision, when it is one, and how the hand goes on.
LEMMA Diffs ==
  ASSUME NEW s, NEW a, NEW n, NEW e, e \in {0, 1},
         phase' = "TERMINAL" => e = 1, phase' # "TERMINAL" => e = 0,
         a.type \in {"PLAY", "PASS", "PENG", "CHI", "GANG", "HU"},
         a.type \in {"PLAY", "HU"} => n = 0, a.type \notin {"PLAY", "HU"} => n = 1,
         a.type \in {"PENG", "CHI"} => phase' # "TERMINAL",
         a.type = "HU" => phase' = "TERMINAL"
  PROVE  /\ StepLog(DiffToEvents(s, a), n, e) /\ Len(DiffToEvents(s, a)) \in Nat \ {0}
         /\ n = 1 => DiffToEvents(s, a)[1] = Decision(s, a)
<1>1. StepLog(Follow, 0, e)
  BY Follows
<1>2. StepLog(<<Decision(s, a)>>, 1, 0) /\ Len(<<Decision(s, a)>>) = 1
  BY OneEvent DEF Decision
<1>3. StepLog(<<Claimed(s, a)>>, 0, 0) /\ StepLog(<<Passed>>, 0, 0)
  BY OneEvent DEF Claimed, Passed
<1>4. StepLog(<<Passed>> \o Follow, 0, e)
  <2>1. StepLog(<<Passed>> \o Follow, 0 + 0, e)
    BY <1>1, <1>3, Joined
  <2> QED
    BY <2>1
<1>5. ASSUME NEW q, StepLog(q, 0, e)
      PROVE  /\ StepLog(<<Decision(s, a)>> \o q, 1, e)
             /\ Len(<<Decision(s, a)>> \o q) \in Nat \ {0}
             /\ (<<Decision(s, a)>> \o q)[1] = Decision(s, a)
  <2>1. PICK p : p = <<Decision(s, a)>>
    OBVIOUS
  <2>2. StepLog(p, 1, 0) /\ Len(p) = 1 /\ p[1] = Decision(s, a)
    BY <1>2, <2>1
  <2>3. StepLog(p \o q, 1 + 0, e)
    BY <2>2, <1>5, Joined
  <2>4. (p \o q)[1] = p[1] /\ Len(q) \in Nat /\ Len(p \o q) = Len(p) + Len(q)
    <3>1. (\E S : p \in Seq(S)) /\ (\E S : q \in Seq(S))
      BY <2>2, <1>5 DEF StepLog
    <3>2. /\ Len(q) \in Nat /\ Len(p \o q) = Len(p) + Len(q)
          /\ \A i \in 1 .. Len(p) : (p \o q)[i] = p[i]
      BY <3>1, Joins
    <3> QED
      BY <2>2, <3>2
  <2> QED
    BY <2>1, <2>2, <2>3, <2>4
<1>6. CASE a.type = "PLAY"
  <2>1. PICK p : p = <<[event |-> "DISCARD", seat |-> s, tile |-> a.tile]>>
    OBVIOUS
  <2>2. StepLog(p, 0, 0) /\ Len(p) = 1
    BY <2>1, OneEvent
  <2>3. StepLog(p \o Follow, 0 + 0, e) /\ n = 0
    BY <1>1, <1>6, <2>2, Joined
  <2>4. Len(Follow) \in Nat /\ Len(p \o Follow) = Len(p) + Len(Follow)
    BY <1>1, <2>2, Joins DEF StepLog
  <2>5. DiffToEvents(s, a) = p \o Follow
    BY <1>6, <2>1 DEF DiffToEvents
  <2> QED
    BY <2>2, <2>3, <2>4, <2>5
<1>7. CASE a.type = "PASS"
  <2>1. CASE phase' = "CLAIM_WINDOW"
    <3>1. e = 0 /\ n = 1 /\ DiffToEvents(s, a) = <<Decision(s, a)>> \o <<>>
      BY <1>7, <2>1 DEF DiffToEvents
    <3> QED
      BY <1>5, <3>1, NoEvent
  <2>2. CASE phase' # "CLAIM_WINDOW"
    <3>1. n = 1 /\ DiffToEvents(s, a) = <<Decision(s, a)>> \o (<<Passed>> \o Follow)
      BY <1>7, <2>2 DEF DiffToEvents
    <3> QED
      BY <1>4, <1>5, <3>1
  <2> QED
    BY <2>1, <2>2
<1>8. CASE a.type \in {"PENG", "CHI"}
  <2>1. PICK d, c : d = Decision(s, a) /\ c = Claimed(s, a)
    OBVIOUS
  <2>2. e = 0 /\ n = 1 /\ DiffToEvents(s, a) = <<d, c>>
    BY <1>8, <2>1 DEF DiffToEvents
  <2>3. <<d, c>> = <<d>> \o <<c>>
    <3>1. PICK x, y : x = <<d, c>> /\ y = <<d>> \o <<c>>
      OBVIOUS
    <3>2. x \in Seq({d, c}) /\ Len(x) = 2 /\ x[1] = d /\ x[2] = c
      BY <3>1
    <3>3. y \in Seq({d, c}) /\ Len(y) = 2 /\ y[1] = d /\ y[2] = c
      BY <3>1
    <3>4. \A i \in 1 .. 2 : x[i] = y[i]
      BY <3>2, <3>3
    <3>5. x = y
      BY <3>2, <3>3, <3>4
    <3> QED
      BY <3>1, <3>5
  <2> QED
    BY <1>3, <1>5, <2>1, <2>2, <2>3
<1>9. CASE a.type = "GANG"
  <2>1. PICK q : q = (IF a.kind = "EXPOSED" THEN <<Claimed(s, a)>> ELSE <<>>)
    OBVIOUS
  <2>2. StepLog(q, 0, 0)
    BY <1>3, <2>1, NoEvent
  <2>3. DiffToEvents(s, a) = (<<Decision(s, a)>> \o q) \o Follow
    BY <1>9, <2>1 DEF DiffToEvents
  <2>4. PICK p : p = <<Decision(s, a)>> \o q
    OBVIOUS
  <2>5. StepLog(p, 1, 0) /\ Len(p) \in Nat \ {0} /\ p[1] = Decision(s, a)
    <3>1. PICK o : o = <<Decision(s, a)>>
      OBVIOUS
    <3>2. StepLog(o, 1, 0) /\ Len(o) = 1 /\ o[1] = Decision(s, a)
      BY <1>2, <3>1
    <3>3. StepLog(o \o q, 1 + 0, 0)
      BY <2>2, <3>2, Joined
    <3>4. (o \o q)[1] = o[1] /\ Len(q) \in Nat /\ Len(o \o q) = Len(o) + Len(q)
      <4>1. (\E S : o \in Seq(S)) /\ (\E S : q \in Seq(S))
        BY <2>2, <3>2 DEF StepLog
      <4>2. /\ Len(q) \in Nat /\ Len(o \o q) = Len(o) + Len(q)
            /\ \A i \in 1 .. Len(o) : (o \o q)[i] = o[i]
        BY <4>1, Joins
      <4> QED
        BY <3>2, <4>2
    <3> QED
      BY <2>4, <3>1, <3>2, <3>3, <3>4
  <2>6. StepLog(p \o Follow, 1 + 0, e)
    BY <1>1, <2>5, Joined
  <2>7. (p \o Follow)[1] = p[1] /\ Len(Follow) \in Nat /\ Len(p \o Follow) = Len(p) + Len(Follow)
    BY <1>1, <2>5, Joins DEF StepLog
  <2>8. n = 1
    BY <1>9
  <2> QED
    BY <2>3, <2>4, <2>5, <2>6, <2>7, <2>8
<1>10. CASE a.type = "HU"
  <2>1. n = 0 /\ e = 1 /\ DiffToEvents(s, a) = Follow
    BY <1>10 DEF DiffToEvents
  <2>2. Len(Follow) \in Nat /\ 0 + 1 <= Len(Follow)
    BY <1>1, <2>1, Joins DEF StepLog
  <2> QED
    BY <1>1, <2>1, <2>2
<1> QED
  BY <1>6, <1>7, <1>8, <1>9, <1>10

\* The seats of a set in their order are the seats of the set.
LEMMA SeatOrder ==
  ASSUME NEW S \in SUBSET Seats
  PROVE  /\ Cardinality(S) \in Nat /\ InSeatOrder(S) \in Seq(S)
         /\ Len(InSeatOrder(S)) = Cardinality(S)
         /\ {InSeatOrder(S)[n] : n \in 1 .. Cardinality(S)} = S
<1>1. S \in SUBSET Nat /\ IsFiniteSet(S)
  <2>1. 0 \in Int /\ 3 \in Int
    OBVIOUS
  <2>2. IsFiniteSet(0 .. 3)
    BY <2>1, FS_Interval
  <2>3. IsFiniteSet(S)
    BY <2>2, FS_Subset DEF Seats
  <2>4. \A s \in S : s \in Nat
    BY DEF Seats
  <2> QED
    BY <2>3, <2>4
<1>2. PICK c : c = Cardinality(S)
  OBVIOUS
<1>3. c \in Nat
  BY <1>1, <1>2, FS_CardinalityType
<1>4. ASSUME NEW s \in S PROVE Cardinality({x \in S : x < s}) = Rank(S, s) - 1 /\ Rank(S, s) \in 1 .. c
  <2>1. Cardinality({x \in S : x < s}) \in Nat
    BY <1>1, FS_Subset, FS_CardinalityType
  <2> QED
    BY <2>1, <1>1, <1>2, RankType DEF Rank
<1>5. PICK q : q = InSeatOrder(S)
  OBVIOUS
<1>6. /\ q = [n \in 1 .. c |-> q[n]]
      /\ \A n \in 1 .. c : (\E s \in S : Cardinality({x \in S : x < s}) = n - 1) =>
            q[n] \in S /\ Cardinality({x \in S : x < q[n]}) = n - 1
  <2> DEFINE At(n) == CHOOSE s \in S : Cardinality({x \in S : x < s}) = n - 1
  <2>1. q = [n \in 1 .. c |-> At(n)]
    BY <1>2, <1>5 DEF InSeatOrder
  <2>2. \A n : (\E s \in S : Cardinality({x \in S : x < s}) = n - 1) =>
               At(n) \in S /\ Cardinality({x \in S : x < At(n)}) = n - 1
    OBVIOUS
  <2> HIDE DEF At
  <2>3. \A n \in 1 .. c : q[n] = At(n)
    BY <2>1
  <2> QED
    BY <2>1, <2>2, <2>3
<1>7. ASSUME NEW n \in 1 .. c PROVE q[n] \in S /\ Rank(S, q[n]) = n
  <2>1. PICK s \in S : Rank(S, s) = n
    BY <1>1, <1>2, Ranks
  <2>2. \E t \in S : Cardinality({x \in S : x < t}) = n - 1
    BY <2>1, <1>4
  <2>3. q[n] \in S /\ Cardinality({x \in S : x < q[n]}) = n - 1
    BY <2>2, <1>6
  <2>4. Rank(S, q[n]) \in 1 .. c /\ n - 1 = Rank(S, q[n]) - 1
    BY <2>3, <1>4
  <2> QED
    BY <2>3, <2>4
<1>8. q \in Seq(S) /\ Len(q) = c
  <2>1. q \in [1 .. c -> S]
    BY <1>6, <1>7
  <2> QED
    BY <2>1, <1>3
<1>9. ASSUME NEW s \in S PROVE \E n \in 1 .. c : q[n] = s
  <2>1. PICK n \in 1 .. c : n = Rank(S, s)
    BY <1>4
  <2>2. q[n] \in S /\ Rank(S, q[n]) = Rank(S, s)
    BY <2>1, <1>7
  <2>3. q[n] = s
    <3>1. PICK x \in S : x = q[n]
      BY <2>2
    <3>2. Rank(S, x) = Rank(S, s)
      BY <2>2, <3>1
    <3>3. x = s
      BY <3>2, <1>1, Ranks
    <3> QED
      BY <3>1, <3>3
  <2> QED
    BY <2>3
<1>10. {q[n] : n \in 1 .. c} = S
  BY <1>7, <1>9
<1> QED
  BY <1>2, <1>3, <1>5, <1>8, <1>10

\* What the decisions of a set of seats are, as the first events of a record.
Told(q, n, S) ==
    /\ n = Cardinality(S)
    /\ {q[i] : i \in 1 .. n} = {Decision(s, reply[s]) : s \in S}

LEMMA Decided ==
  ASSUME NEW S \in SUBSET Seats, NEW n, n = Cardinality(S),
         NEW q, q = DecisionsOf(InSeatOrder(S))
  PROVE  /\ StepLog(q, n, 0) /\ Len(q) = n /\ n \in Nat
         /\ Told(q, n, S)
<1>1. PICK o : o = InSeatOrder(S)
  OBVIOUS
<1>2. o \in Seq(S) /\ Len(o) = n /\ n \in Nat /\ {o[i] : i \in 1 .. n} = S
  BY <1>1, SeatOrder
<1>3. DOMAIN o = 1 .. n
  BY <1>2
<1>4. q = [i \in 1 .. n |-> Decision(o[i], reply[o[i]])]
  BY <1>1, <1>3 DEF DecisionsOf
<1>5. PICK D : D = {Decision(s, reply[s]) : s \in S}
  OBVIOUS
<1>6. \A i \in 1 .. n : o[i] \in S
  BY <1>2
<1>7. \A i \in 1 .. n : q[i] = Decision(o[i], reply[o[i]])
  BY <1>4
<1>8. \A i \in 1 .. n : q[i] \in D
  BY <1>5, <1>6, <1>7
<1>9. q \in Seq(D) /\ Len(q) = n
  <2>1. q \in [1 .. n -> D]
    BY <1>4, <1>8
  <2> QED
    BY <2>1, <1>2
<1>10. ASSUME NEW i \in 1 .. n PROVE q[i].event = "CLAIM_DECISION"
  <2>1. PICK s, a : s = o[i] /\ a = reply[s]
    OBVIOUS
  <2>2. q[i] = Decision(s, a)
    BY <1>7, <2>1
  <2> QED
    BY <2>2 DEF Decision
<1>11. StepLog(q, n, 0)
  BY <1>2, <1>9, <1>10 DEF StepLog
<1>12. {q[i] : i \in 1 .. n} = D
  <2>1. ASSUME NEW s \in S PROVE \E i \in 1 .. n : q[i] = Decision(s, reply[s])
    <3>1. PICK i \in 1 .. n : o[i] = s
      BY <1>2
    <3> QED
      BY <3>1, <1>7
  <2> QED
    BY <2>1, <1>5, <1>8
<1> QED
  BY <1>2, <1>5, <1>9, <1>11, <1>12 DEF Told

\* What the record says of a finished step.
StepTold(q, n, e, over) ==
    /\ StepLog(q, n, e) /\ (over = "TERMINAL" <=> e = 1)
    /\ n # 0 => Told(q, n, Prompted)

(***************************************************************************)
(* The events of a step are written when it is done, except that the PASSes *)
(* of a window come one by one: those of the seats that still are asked are *)
(* missing.                                                                *)
(***************************************************************************)
LogInv ==
    /\ step = "asking" => log = <<>>
    /\ step = "passing" =>
        /\ Asked \subseteq Prompted
        /\ StepLog(log, Len(log), 0) /\ Told(log, Len(log), Prompted \ Asked)
    /\ step \in {"idle", "over"} => \E n, e : StepTold(log, n, e, phase)

\* How an action leaves the phase.
LEMMA ActionEnds ==
  ASSUME NEW s, NEW a, ApplyAction(s, a)
  PROVE  /\ a.type \in {"PLAY", "PASS", "PENG", "CHI", "GANG", "HU"}
         /\ a \in LegalActions(s)
         /\ a.type \in {"PENG", "CHI"} => phase' # "TERMINAL"
         /\ a.type = "HU" => phase' = "TERMINAL"
         /\ a.type = "PASS" => Pass(s, a)
BY DEF ApplyAction, Play, Pass, Peng, Chi, GangExposed, GangConcealed, GangAdded, Hu,
       HandToClaimer

LEMMA DiscardWritten ==
  ASSUME TableAll, StepDiscard
  PROVE  \E n, e : StepTold(log', n, e, phase')
<1>1. PICK a : a = reply[actor]
  OBVIOUS
<1>2. ApplyAction(actor, a) /\ log' = DiffToEvents(actor, a)
  BY <1>1 DEF StepDiscard
<1>3. PICK e : /\ e \in {0, 1} /\ (phase' = "TERMINAL" <=> e = 1)
               /\ (phase' # "TERMINAL" => e = 0)
  <2>1. CASE phase' = "TERMINAL"
    BY <2>1
  <2>2. CASE phase' # "TERMINAL"
    <3>1. 0 \in {0, 1} /\ 0 # 1
      OBVIOUS
    <3> QED
      BY <2>2, <3>1
  <2> QED
    BY <2>1, <2>2
<1>4. PICK n : /\ a.type \in {"PLAY", "HU"} => n = 0
               /\ a.type \notin {"PLAY", "HU"} => n = 1
  <2>1. CASE a.type \in {"PLAY", "HU"}
    BY <2>1
  <2>2. CASE a.type \notin {"PLAY", "HU"}
    BY <2>2
  <2> QED
    BY <2>1, <2>2
<1>5. StepLog(log', n, e) /\ (n = 1 => log'[1] = Decision(actor, a))
  BY <1>2, <1>3, <1>4, ActionEnds, Diffs
<1>6. ASSUME n # 0 PROVE Told(log', n, Prompted)
  <2>1. n = 1
    BY <1>4, <1>6
  <2>2. Prompted = {actor}
    BY DEF StepDiscard, AllIn, Asked, Prompted, TableAll, TableInv, RepliesLegal, HandInv, TypeOK
  <2>3. Cardinality({actor}) = 1
    BY FS_Singleton
  <2>4. {log'[i] : i \in 1 .. 1} = {Decision(actor, a)}
    <3>1. 1 .. 1 = {1}
      OBVIOUS
    <3> QED
      BY <1>5, <2>1, <3>1
  <2> QED
    BY <1>1, <2>1, <2>2, <2>3, <2>4 DEF Told
<1> QED
  BY <1>3, <1>5, <1>6 DEF StepTold

LEMMA ClaimWritten ==
  ASSUME TableAll, StepClaim
  PROVE  \E n, e : StepTold(log', n, e, phase')
<1>1. PICK s \in ResolveClaimPriority :
        /\ ApplyAction(s, reply[s])
        /\ log' = DecisionsOf(InSeatOrder(Prompted)) \o WithoutDecision(DiffToEvents(s, reply[s]))
  BY DEF StepClaim
<1>2. PICK a : a = reply[s]
  OBVIOUS
<1>3. PICK e : /\ e \in {0, 1} /\ (phase' = "TERMINAL" <=> e = 1)
               /\ (phase' # "TERMINAL" => e = 0)
  <2>1. CASE phase' = "TERMINAL"
    BY <2>1
  <2>2. CASE phase' # "TERMINAL"
    <3>1. 0 \in {0, 1} /\ 0 # 1
      OBVIOUS
    <3> QED
      BY <2>2, <3>1
  <2> QED
    BY <2>1, <2>2
<1>4. PICK m : /\ a.type \in {"PLAY", "HU"} => m = 0
               /\ a.type \notin {"PLAY", "HU"} => m = 1
  <2>1. CASE a.type \in {"PLAY", "HU"}
    BY <2>1
  <2>2. CASE a.type \notin {"PLAY", "HU"}
    BY <2>2
  <2> QED
    BY <2>1, <2>2
<1>5. PICK x : x = DiffToEvents(s, a)
  OBVIOUS
<1>6. StepLog(x, m, e) /\ Len(x) \in Nat \ {0}
  <2>1. ApplyAction(s, a)
    BY <1>1, <1>2
  <2>2. /\ a.type \in {"PLAY", "PASS", "PENG", "CHI", "GANG", "HU"}
        /\ a.type \in {"PENG", "CHI"} => phase' # "TERMINAL"
        /\ a.type = "HU" => phase' = "TERMINAL"
    BY <2>1, ActionEnds
  <2> QED
    BY <2>2, <1>3, <1>4, <1>5, Diffs
<1>7. PICK y : y = WithoutDecision(x)
  OBVIOUS
<1>8. StepLog(y, 0, e)
  <2>1. 1 \in 1 .. Len(x) /\ Head(x) = x[1]
    BY <1>6 DEF StepLog
  <2>2. Head(x).event = "CLAIM_DECISION" <=> 1 <= m
    BY <1>6, <2>1 DEF StepLog
  <2>3. CASE m = 0
    BY <1>6, <1>7, <2>2, <2>3 DEF WithoutDecision
  <2>4. CASE m = 1
    BY <1>6, <1>7, <2>2, <2>4, Rests DEF WithoutDecision
  <2> QED
    BY <1>4, <2>3, <2>4
<1>9. PICK n, d : n = Cardinality(Prompted) /\ d = DecisionsOf(InSeatOrder(Prompted))
  OBVIOUS
<1>10. StepLog(d, n, 0) /\ Len(d) = n /\ n \in Nat /\ Told(d, n, Prompted)
  <2>1. Prompted \in SUBSET Seats
    BY DEF Prompted
  <2> QED
    BY <1>9, <2>1, Decided
<1>11. log' = d \o y
  BY <1>1, <1>2, <1>5, <1>7, <1>9
<1>12. StepLog(d \o y, n + 0, e)
  BY <1>8, <1>10, Joined
<1>13. Told(d \o y, n, Prompted)
  <2>1. (\E S : d \in Seq(S)) /\ (\E S : y \in Seq(S))
    BY <1>8, <1>10 DEF StepLog
  <2>2. \A i \in 1 .. n : (d \o y)[i] = d[i]
    BY <2>1, <1>10, Joins
  <2>3. {(d \o y)[i] : i \in 1 .. n} = {d[i] : i \in 1 .. n}
    BY <2>2
  <2> QED
    BY <1>10, <2>3 DEF Told
<1>14. n + 0 = n
  BY <1>10
<1> QED
  BY <1>3, <1>11, <1>12, <1>13, <1>14 DEF StepTold

\* The decision of one more seat.
LEMMA OneMoreTold ==
  ASSUME NEW p, NEW x, NEW S \in SUBSET Seats, NEW s \in Seats, s \notin S, NEW e,
         StepLog(p, Len(p), 0), Told(p, Len(p), S), StepLog(x, 1, e),
         x[1] = Decision(s, reply[s])
  PROVE  /\ StepLog(p \o x, Len(p) + 1, e) /\ Len(p) \in Nat
         /\ Told(p \o x, Len(p) + 1, S \cup {s})
<1>1. StepLog(p \o x, Len(p) + 1, e)
  BY Joined
<1>2. PICK k, r : k = Len(p) /\ r = p \o x
  OBVIOUS
<1>3. (\E T : p \in Seq(T)) /\ (\E T : x \in Seq(T))
  BY DEF StepLog
<1>4. /\ k \in Nat /\ Len(x) \in Nat /\ Len(r) = k + Len(x)
      /\ \A i \in 1 .. k : r[i] = p[i]
      /\ \A i \in 1 .. k + Len(x) : i > k => r[i] = x[i - k]
  BY <1>2, <1>3, Joins
<1>5. 1 <= Len(x)
  <2>1. 1 + e <= Len(x) /\ e \in {0, 1}
    BY DEF StepLog
  <2> QED
    BY <1>4, <2>1
<1>6. r[k + 1] = x[1]
  <2>1. k + 1 \in 1 .. k + Len(x) /\ k + 1 > k /\ (k + 1) - k = 1
    BY <1>4, <1>5
  <2> QED
    BY <1>4, <2>1
<1>7. {r[i] : i \in 1 .. k + 1} = {p[i] : i \in 1 .. k} \cup {x[1]}
  <2>1. \A i : i \in 1 .. k + 1 <=> i \in 1 .. k \/ i = k + 1
    BY <1>4
  <2> QED
    BY <1>4, <1>6, <2>1
<1>8. {p[i] : i \in 1 .. k} = {Decision(t, reply[t]) : t \in S} /\ k = Cardinality(S)
  BY <1>2 DEF Told
<1>9. {Decision(t, reply[t]) : t \in S \cup {s}} = {Decision(t, reply[t]) : t \in S} \cup {x[1]}
  OBVIOUS
<1>10. Cardinality(S \cup {s}) = k + 1
  <2>1. IsFiniteSet(S)
    <3>1. 0 \in Int /\ 3 \in Int
      OBVIOUS
    <3>2. IsFiniteSet(0 .. 3)
      BY <3>1, FS_Interval
    <3> QED
      BY <3>2, FS_Subset DEF Seats
  <2>2. Cardinality(S \cup {s}) = Cardinality(S) + 1
    BY <2>1, FS_AddElement
  <2> QED
    BY <2>2, <1>8
<1>11. Told(r, k + 1, S \cup {s})
  BY <1>7, <1>8, <1>9, <1>10 DEF Told
<1> QED
  BY <1>1, <1>2, <1>4, <1>11

\* A PASS that is applied is written; the record is written with the last.
LEMMA PassWritten ==
  ASSUME TableAll, LogInv, ApplyAllPass
  PROVE  /\ phase' = "CLAIM_WINDOW" =>
              /\ Asked' \subseteq Prompted
              /\ StepLog(log', Len(log'), 0) /\ Told(log', Len(log'), Prompted \ Asked')
         /\ phase' # "CLAIM_WINDOW" => \E n, e : StepTold(log', n, e, phase')
<1>1. PICK s \in Lowest(Asked, 1) :
        ApplyAction(s, reply[s]) /\ log' = log \o DiffToEvents(s, reply[s])
  BY DEF ApplyAllPass
<1>2. /\ phase = "CLAIM_WINDOW" /\ s \in Asked /\ reply[s] = PASS /\ s \in Seats
      /\ Asked \subseteq Seats
  BY <1>1, AllPass DEF Lowest, Asked, TableAll, HandInv, TypeOK
<1>3. PICK a : a = reply[s]
  OBVIOUS
<1>4. a = PASS /\ a.type = "PASS" /\ ApplyAction(s, a)
  BY <1>1, <1>2, <1>3 DEF PASS
<1>5. Pass(s, a)
  BY <1>4, ActionEnds
<1>6. /\ Asked \subseteq Prompted /\ StepLog(log, Len(log), 0)
      /\ Told(log, Len(log), Prompted \ Asked)
  <2>1. CASE step = "passing"
    BY <2>1 DEF LogInv
  <2>2. CASE AllIn
    <3>1. log = <<>> /\ Prompted \subseteq Asked
      BY <2>2 DEF AllIn, LogInv, TableAll, TableInv, RepliesLegal
    <3>2. Asked \subseteq Prompted
      BY <2>2, <1>2 DEF AllIn, Prompted
    <3>3. Len(log) = 0 /\ StepLog(log, Len(log), 0)
      BY <3>1, NoEvent
    <3>4. Prompted \ Asked = {} /\ Cardinality({}) = 0
      BY <3>1, FS_EmptySet
    <3>5. {log[i] : i \in 1 .. 0} = {} /\ {Decision(t, reply[t]) : t \in {}} = {}
      OBVIOUS
    <3>6. Told(log, Len(log), Prompted \ Asked)
      BY <3>3, <3>4, <3>5 DEF Told
    <3> QED
      BY <3>2, <3>3, <3>6
  <2> QED
    BY <2>1, <2>2 DEF ApplyAllPass
<1>7. PICK e : /\ e \in {0, 1} /\ (phase' = "TERMINAL" <=> e = 1)
               /\ (phase' # "TERMINAL" => e = 0)
  <2>1. CASE phase' = "TERMINAL"
    BY <2>1
  <2>2. CASE phase' # "TERMINAL"
    <3>1. 0 \in {0, 1} /\ 0 # 1
      OBVIOUS
    <3> QED
      BY <2>2, <3>1
  <2> QED
    BY <2>1, <2>2
<1>8. PICK x : x = DiffToEvents(s, a)
  OBVIOUS
<1>9. StepLog(x, 1, e) /\ x[1] = Decision(s, a)
  BY <1>4, <1>7, <1>8, Diffs
<1>10. PICK S, q : S = Prompted \ Asked /\ q = log
  OBVIOUS
<1>11. log' = q \o x
  BY <1>1, <1>3, <1>8, <1>10
<1>12. /\ StepLog(q \o x, Len(q) + 1, e) /\ Len(q) \in Nat
       /\ Told(q \o x, Len(q) + 1, S \cup {s})
  <2>1. S \in SUBSET Seats /\ s \notin S
    BY <1>2, <1>10 DEF Prompted
  <2>2. StepLog(q, Len(q), 0) /\ Told(q, Len(q), S)
    BY <1>6, <1>10
  <2>3. x[1] = Decision(s, reply[s])
    BY <1>3, <1>9
  <2> QED
    BY <1>2, <1>9, <2>1, <2>2, <2>3, OneMoreTold
<1>13. ASSUME phase' = "CLAIM_WINDOW"
       PROVE  /\ Asked' \subseteq Prompted
              /\ StepLog(log', Len(log'), 0) /\ Told(log', Len(log'), Prompted \ Asked')
  <2>1. pending' = {c \in pending : c.seat # s}
    BY <1>5, <1>13 DEF Pass, AdvanceToNextSeat, InternalDraw
  <2>2. Asked' = Asked \ {s}
    BY <1>2, <1>13, <2>1 DEF Asked
  <2>3. Prompted \ Asked' = S \cup {s}
    BY <1>2, <1>6, <1>10, <2>2
  <2>4. x = <<Decision(s, a)>> \o <<>>
    BY <1>4, <1>8, <1>13 DEF DiffToEvents
  <2>5. Len(x) = 1
    BY <2>4
  <2>6. Len(q \o x) = Len(q) + 1
    <3>1. (\E T : q \in Seq(T)) /\ (\E T : x \in Seq(T))
      BY <1>6, <1>9, <1>10 DEF StepLog
    <3>2. Len(q \o x) = Len(q) + Len(x)
      BY <3>1, Joins
    <3> QED
      BY <2>5, <3>2
  <2>7. e = 0
    BY <1>7, <1>13
  <2> QED
    BY <1>6, <1>11, <1>12, <2>2, <2>3, <2>6, <2>7
<1>14. ASSUME phase' # "CLAIM_WINDOW" PROVE \E n, f : StepTold(log', n, f, phase')
  <2>1. {c \in pending : c.seat # s} = {}
    BY <1>2, <1>5, <1>14 DEF Pass
  <2>2. \A t \in Asked : t = s
    BY <1>2, <2>1 DEF Asked
  <2>3. Prompted = S \cup {s}
    BY <1>2, <1>6, <1>10, <2>2
  <2>4. StepTold(log', Len(q) + 1, e, phase')
    BY <1>7, <1>11, <1>12, <2>3 DEF StepTold
  <2> QED
    BY <2>4
<1> QED
  BY <1>13, <1>14

LEMMA LogKept ==
  ASSUME TableAll, LogInv, [TableNext]_tableVars
  PROVE  LogInv'
<1>1. CASE Ask
  BY <1>1 DEF Ask, LogInv
<1>2. CASE \E s \in Seats : Answer(s)
  BY <1>2 DEF Answer, Decide, DecideAuto, DecideFails, Settle, LogInv
<1>3. CASE StepDiscard \/ StepClaim
  <2>1. reply' = reply /\ step' = "idle"
    BY <1>3 DEF StepDiscard, StepClaim, EndStep
  <2>2. PICK n, e : StepTold(log', n, e, phase')
    BY <1>3, DiscardWritten, ClaimWritten
  <2>3. StepTold(log, n, e, phase)'
    BY <2>1, <2>2 DEF StepTold, Told, StepLog, Prompted
  <2> QED
    BY <2>1, <2>3 DEF LogInv
<1>4. CASE ApplyAllPass
  <2>1. reply' = reply /\ (step' = "idle" \/ step' = "passing")
    BY <1>4 DEF ApplyAllPass, EndStep
  <2>2. CASE phase' = "CLAIM_WINDOW"
    <3>1. step' = "passing"
      BY <1>4, <2>2 DEF ApplyAllPass
    <3>2. PICK q, k, A, S : q = log' /\ k = Len(log') /\ A = Asked' /\ S = Prompted \ Asked'
      OBVIOUS
    <3>3. A \subseteq Prompted /\ StepLog(q, k, 0) /\ Told(q, k, S)
      BY <1>4, <2>2, <3>2, PassWritten
    <3>4. Prompted' = Prompted
      BY <2>1 DEF Prompted
    <3>5. StepLog(log, Len(log), 0)' /\ Told(log, Len(log), Prompted \ Asked)'
      BY <2>1, <3>2, <3>3, <3>4 DEF StepLog, Told
    <3> QED
      BY <3>1, <3>2, <3>3, <3>4, <3>5 DEF LogInv
  <2>3. CASE phase' # "CLAIM_WINDOW"
    <3>1. step' = "idle"
      BY <1>4, <2>3 DEF ApplyAllPass, EndStep
    <3>2. PICK n, e : StepTold(log', n, e, phase')
      BY <1>4, <2>3, PassWritten
    <3>3. StepTold(log, n, e, phase)'
      BY <2>1, <3>2 DEF StepTold, Told, StepLog, Prompted
    <3> QED
      BY <3>1, <3>3 DEF LogInv
  <2> QED
    BY <2>2, <2>3
<1>5. CASE Footer \/ Abort \/ UNCHANGED tableVars
  <2>1. /\ reply' = reply /\ log' = log /\ phase' = phase /\ UNCHANGED vars
        /\ step' \in {step, "over", "aborted"} /\ (step' = "over" => step \in {"idle", "over"})
    BY <1>5 DEF Footer, Abort, tableVars, managerVars, vars
  <2>2. Asked' = Asked /\ Prompted' = Prompted
    BY <2>1, SameHand DEF Prompted
  <2>3. StepLog(log, Len(log), 0)' <=> StepLog(log, Len(log), 0)
    BY <2>1 DEF StepLog
  <2>4. Told(log, Len(log), Prompted \ Asked)' <=> Told(log, Len(log), Prompted \ Asked)
    BY <2>1, <2>2 DEF Told
  <2>5. \A n, e : StepTold(log, n, e, phase) => StepTold(log, n, e, phase)'
    BY <2>1, <2>2 DEF StepTold, Told, StepLog
  <2>6. (step' \in {"idle", "over"} => \E n, e : StepTold(log, n, e, phase))
        /\ (step' = "asking" => step = "asking") /\ (step' = "passing" => step = "passing")
    BY <2>1 DEF LogInv
  <2>7. step' \in {"idle", "over"} => \E n, e : StepTold(log, n, e, phase)'
    BY <2>5, <2>6
  <2> QED
    BY <2>1, <2>2, <2>3, <2>4, <2>6, <2>7 DEF LogInv
<1> QED
  BY <1>1, <1>2, <1>3, <1>4, <1>5 DEF TableNext

LEMMA LogStarts == TableInit => LogInv
<1> SUFFICES ASSUME TableInit PROVE LogInv
  OBVIOUS
<1>1. step = "idle" /\ log = <<>> /\ phase = "DISCARD"
  BY DEF TableInit, Init, Deal
<1>2. StepLog(log, 0, 0) /\ ~(0 # 0) /\ 0 # 1
  BY <1>1, NoEvent
<1>3. StepTold(log, 0, 0, phase)
  BY <1>1, <1>2 DEF StepTold
<1> QED
  BY <1>1, <1>3 DEF LogInv

\* The record tells who decided what, and how the hand ended.
LEMMA LogInvariant == TableSpec => [](TableAll /\ LogInv)
<1>1. TableAll /\ LogInv /\ [TableNext]_tableVars => LogInv'
  BY LogKept
<1> QED
  BY <1>1, LogStarts, TableInvariant, PTL DEF TableSpec

\* The record of every step holds the decision of each seat that was asked, once,
\* and the end of the hand exactly when it has ended, once and as the last event:
\* for every hand, however many seats claim and however they fail.
THEOREM RecordTheorem == TableSpec => []RecordComplete
<1>1. TableAll /\ LogInv => RecordComplete
  <2> SUFFICES ASSUME LogInv PROVE RecordComplete
    OBVIOUS
  <2>1. CASE step \in {"idle", "over"}
    <3>1. PICK n, e : StepTold(log, n, e, phase)
      BY <2>1 DEF LogInv
    <3>2. PICK q, k : q = log /\ k = Len(log)
      OBVIOUS
    <3>3. DOMAIN log = 1 .. k /\ k \in Nat
      BY <3>1, <3>2 DEF StepTold, StepLog
    <3>4. /\ n \in Nat /\ e \in {0, 1} /\ n + e <= k
          /\ \A i \in 1 .. k : /\ q[i].event = "CLAIM_DECISION" <=> i <= n
                               /\ q[i].event = "HAND_END" <=> i > k - e
      BY <3>1, <3>2 DEF StepTold, StepLog
    <3>5. Where("CLAIM_DECISION") = 1 .. n
      BY <3>2, <3>3, <3>4 DEF Where
    <3>6. DecisionsRecorded
      <4> SUFFICES ASSUME 1 \in 1 .. n
                   PROVE  /\ {log[i] : i \in 1 .. n} = {Decision(s, reply[s]) : s \in Prompted}
                          /\ Cardinality(1 .. n) = Cardinality(Prompted)
        BY <3>5 DEF DecisionsRecorded
      <4>1. Told(log, n, Prompted)
        BY <3>1, <3>4 DEF StepTold
      <4>2. Cardinality(1 .. n) = n
        BY <3>4, FS_Interval
      <4> QED
        BY <4>1, <4>2 DEF Told
    <3>7. HandEndWritten
      <4>1. CASE phase = "TERMINAL"
        <5>1. e = 1
          BY <3>1, <4>1 DEF StepTold
        <5>2. \A i : i \in 1 .. k /\ i > k - 1 <=> i = k
          BY <3>3, <3>4, <5>1
        <5>3. Where("HAND_END") = {k}
          BY <3>2, <3>3, <3>4, <5>1, <5>2 DEF Where
        <5> QED
          BY <3>2, <4>1, <5>3 DEF HandEndWritten
      <4>2. CASE phase # "TERMINAL"
        <5>1. e = 0
          BY <3>1, <3>4, <4>2 DEF StepTold
        <5>2. Where("HAND_END") = {}
          BY <3>2, <3>3, <3>4, <5>1 DEF Where
        <5> QED
          BY <4>2, <5>2 DEF HandEndWritten
      <4> QED
        BY <4>1, <4>2
    <3> QED
      BY <3>6, <3>7 DEF RecordComplete
  <2>2. CASE step \notin {"idle", "over"}
    BY <2>2 DEF RecordComplete, DecisionsRecorded, HandEndWritten
  <2> QED
    BY <2>1, <2>2
<1> QED
  BY <1>1, LogInvariant, PTL
=============================================================================
