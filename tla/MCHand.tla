------------------------------- MODULE MCHand -------------------------------
(***************************************************************************)
(* Hands of four tiles: one suit of three ranks, two honors, one bonus     *)
(* tile.  A win is a pair, with one set beside it or none.                 *)
(***************************************************************************)
EXTENDS Hand

CONSTANTS w, E, N, H

A == <<w, 1>>
B == <<w, 2>>
C == <<w, 3>>

MCKinds == ({w} \X (1 .. 3)) \cup {E, N}
Total(b) == b[A] + b[B] + b[C] + b[E] + b[N]

WithPair(b) == \E k \in MCKinds : b[k] >= 2 /\ LET r == [b EXCEPT ![k] = @ - 2] IN
    \/ Total(r) = 0
    \/ Total(r) = 3 /\ \E x \in MCKinds : r[x] = 3
    \/ Total(r) = 3 /\ r[A] = 1 /\ r[B] = 1 /\ r[C] = 1

MCWinning == {b \in [MCKinds -> 0 .. 4] : WithPair(b)}

\* Walls with every kind of claim and kong; in the second a bonus tile comes
\* last, so that a kong can exhaust the wall.
MCDecks == {
    <<H, C, N, B, A, N, A, N, B, B, B, A, E, C, C, A, E, E, C, E, N>>,
    <<N, A, E, E, N, B, C, A, B, C, C, A, E, C, N, A, B, B, E, N, H>>}
=============================================================================
