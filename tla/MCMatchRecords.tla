--------------------------- MODULE MCMatchRecords ---------------------------
(***************************************************************************)
(* MatchRecords for TLC: one player among three bots.                      *)
(***************************************************************************)
EXTENDS History

CONSTANT alice

MCAccount == [s \in Seats |-> IF s = 0 THEN alice ELSE None]
\* She wins on a discard, and pays for another's self-draw.
MCHowWon == {[winner |-> 0, fan |-> 8, from |-> 2], [winner |-> 1, fan |-> 9, from |-> 1]}
MCConversion == [scheme |-> "mcr-official", each |-> 8, dealerIn |-> 8, other |-> 8]
=============================================================================
