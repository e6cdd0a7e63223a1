------------------------------- MODULE Scoring -------------------------------
(***************************************************************************)
(* Points between hands: what a win pays (engine/scoring.py), how a match  *)
(* adds it up (table/match_score.py) and who deals next                    *)
(* (table/rotation.py).                                                    *)
(***************************************************************************)
EXTENDS Integers, Sequences

Seats == 0 .. 3

\* A `conversion` block of a ruleset file.
IsConversion(conv) ==
    /\ conv.each \in Int /\ conv.dealerIn \in Int /\ conv.other \in Int
    /\ conv.scheme # "mcr-official" => conv.tiers \in Seq([max : Int, x : Int]) /\ conv.tiers # <<>>

After(s, n) == (s + n) % 4

\* The losers' payments; the winner's delta is what they add up to.
Payout(winner, pays) ==
    [s \in Seats |-> IF s # winner THEN -pays[s]
                     ELSE pays[After(s, 1)] + pays[After(s, 2)] + pays[After(s, 3)]]

\* lookup_x: the first tier that reaches the fan total, the last one above all.
LookupX(fan, tiers) ==
    LET reach == {n \in DOMAIN tiers : fan <= tiers[n].max}
    IN IF reach = {} THEN tiers[Len(tiers)].x
       ELSE tiers[CHOOSE n \in reach : \A m \in reach : n <= m].x

\* Mutant: the loop over the other losers does not skip the discarder.
OfficialDeltaOverwritten(winner, fan, dealIn, conv) ==
    [Payout(winner, [s \in Seats |-> IF s = dealIn THEN fan + conv.dealerIn ELSE conv.other])
        EXCEPT ![dealIn] = -conv.other]

OfficialDelta(winner, fan, dealIn, conv) ==
    Payout(winner, [s \in Seats |-> IF dealIn = winner THEN fan + conv.each
                                    ELSE IF s = dealIn THEN fan + conv.dealerIn ELSE conv.other])

HouseTableDelta(winner, fan, dealIn, conv) ==
    LET x == LookupX(fan, conv.tiers)
    IN Payout(winner, [s \in Seats |-> IF dealIn = winner THEN conv.each * x
                                       ELSE IF s = dealIn THEN conv.dealerIn * x ELSE conv.other * x])

\* score_delta; a win by self-draw is one whose `dealIn` is the winner.
ScoreDelta(winner, fan, dealIn, conv) ==
    IF conv.scheme = "mcr-official" THEN OfficialDelta(winner, fan, dealIn, conv)
    ELSE HouseTableDelta(winner, fan, dealIn, conv)

NoPoints == [s \in Seats |-> 0]

\* hand_deltas and record_hand: a hand without a winner counts but moves nothing.
RecordHand(totals, deltas) == [s \in Seats |-> totals[s] + deltas[s]]

\* next_dealer: the seat after the dealer, unless the ruleset lets a dealer who
\* won keep the deal.
NextDealer(dealer, winner, repeat) ==
    IF repeat /\ winner = dealer THEN dealer ELSE After(dealer, 1)

Total(deltas) == deltas[0] + deltas[1] + deltas[2] + deltas[3]
=============================================================================
