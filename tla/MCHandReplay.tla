---------------------------- MODULE MCHandReplay ----------------------------
(***************************************************************************)
(* Hands played in two ways: by the table manager, whose record is read    *)
(* back by a replay, on one wall and with the flaky seat or the one before *)
(* it as dealer; and by the rules alone, every legal action of every seat  *)
(* in any order, on both walls and with every dealer.                      *)
(***************************************************************************)
EXTENDS HandReplay, MCTableHand

VARIABLE driver

mcVars == <<replayVars, driver>>

MCInit ==
    /\ ReplayInit
    /\ driver \in {"manager", "rules"}
    /\ driver = "manager" => deck \in OneDeck /\ actor \in {0, 1}

ByManager == driver = "manager" /\ ReplayNext

\* Nothing is recorded here: the replica goes along.
ByRules ==
    /\ driver = "rules" /\ Next /\ UNCHANGED <<managerVars, window, read, stuck>>
    /\ rdrawn' = drawn' /\ rconcealed' = concealed' /\ rmelds' = melds'
    /\ rdiscards' = discards' /\ rflowers' = flowers' /\ rphase' = phase'
    /\ ractor' = actor' /\ rlastDrawn' = lastDrawn' /\ rlastDiscard' = lastDiscard'
    /\ rpending' = pending' /\ rterminal' = terminal'

\* run_hand, one step of it being possible at a time.
Manage ==
    /\ driver = "manager"
    /\ Ask \/ StepDiscard \/ StepClaim \/ ApplyAllPass \/ Footer

MCSpec ==
    /\ MCInit /\ [][(ByManager \/ ByRules) /\ UNCHANGED driver]_mcVars
    /\ WF_vars(ByRules) /\ WF_replayVars(driver = "manager" /\ (ReadOn \/ ReadMove))
    /\ WF_tableVars(Manage)
    /\ \A s \in Seats : WF_tableVars(driver = "manager" /\ Answer(s))

-----------------------------------------------------------------------------
\* A hand ends, whoever plays it.
HandEnds ==
    /\ driver = "manager" => HandFinishes
    /\ driver = "rules" => Terminates
=============================================================================
