--------------------------- MODULE MCSeatSession ---------------------------
(***************************************************************************)
(* One seat, two connections of one account and one of another.            *)
(***************************************************************************)
EXTENDS SeatSession, TLC

CONSTANTS c1, c2, c3, x, y

MCConns == {c1, c2, c3}
MCUsers == {x, y}
MCOwner == c1 :> x @@ c2 :> x @@ c3 :> y

\* A smaller seat for the liveness run: two connections of one account.
PairConns == {c1, c2}
PairOwner == c1 :> x @@ c2 :> x

\* c1 and c2 are interchangeable: same account, same initial state.
MCSymmetry == Permutations({c1, c2})
=============================================================================
