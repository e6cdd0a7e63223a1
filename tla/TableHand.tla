----------------------------- MODULE TableHand -----------------------------
(***************************************************************************)
(* run_hand of mahjong/table/manager.py: one hand of the engine (Hand)     *)
(* driven by four adapters.  The manager prompts the seats that have a     *)
(* choice, waits until each has answered or its deadline has passed,       *)
(* applies one action, and writes the events of the step to the record.    *)
(* A step of this module is the code between two points where it waits     *)
(* for adapters.                                                           *)
(***************************************************************************)
EXTENDS Hand

CONSTANTS
    StrikeLimit,   \* failures after which a seat is replaced for the hand
    Flaky          \* seats of an instance that may fail to decide

ASSUME TableAssumption ==
    /\ StrikeLimit \in Nat \ {0}
    /\ Flaky \subseteq Seats
    /\ None \notin {PASS, HU} \cup {CHI(r) : r \in Runs}
    /\ \A k \in Kinds : None \notin {PLAY(k), PENG(k)}
            \cup {GANG(k, how) : how \in {"EXPOSED", "CONCEALED", "ADDED"}}

VARIABLES
    step,      \* where run_hand stands
    reply,     \* the action settled for each seat that was prompted, or None
    failed,    \* the prompted seats for which the default stands in
    strikes,   \* strikes[seat]
    auto,      \* the seats an AutoPassAdapter plays
    log        \* the events this step has written

managerVars == <<step, reply, failed, strikes, auto, log>>
tableVars == <<vars, managerVars>>

TableInit ==
    /\ Init
    /\ step = "idle" /\ log = <<>>
    /\ reply = [s \in Seats |-> None] /\ failed = {}
    /\ strikes = [s \in Seats |-> 0] /\ auto = {}

-----------------------------------------------------------------------------
(* Events (records/diff.py).  An event is the part of its payload that     *)
(* replay and the players' boards read.                                    *)

Decision(s, a) == [event |-> "CLAIM_DECISION", seat |-> s, action |-> a]
Claimed(s, a) ==
    [event |-> "CLAIM_RESOLUTION", outcome |-> "CLAIMED", seat |-> s, action |-> a]
Passed == [event |-> "CLAIM_RESOLUTION", outcome |-> "PASSED"]

\* What the engine went on to do by itself after the action.
Follow ==
    CASE phase' = "CLAIM_WINDOW" -> <<[event |-> "CLAIM_WINDOW"]>>
      [] phase' = "DISCARD" /\ drawn' > drawn ->
            <<[event |-> "DRAW", seat |-> actor', tile |-> lastDrawn'.tile]>>
      [] phase' = "TERMINAL" ->
            <<[event |-> "HAND_END",
               winner |-> IF terminal'.kind = "HU" THEN {terminal'.winner} ELSE {}]>>
      [] OTHER -> <<>>

DiffToEvents(s, a) ==
    CASE a.type = "PLAY" ->
            <<[event |-> "DISCARD", seat |-> s, tile |-> a.tile]>> \o Follow
      [] a.type = "PASS" ->
            <<Decision(s, a)>>
            \o (IF phase' = "CLAIM_WINDOW" THEN <<>> ELSE <<Passed>> \o Follow)
      [] a.type \in {"PENG", "CHI"} -> <<Decision(s, a), Claimed(s, a)>>
      [] a.type = "GANG" ->
            <<Decision(s, a)>>
            \o (IF a.kind = "EXPOSED" THEN <<Claimed(s, a)>> ELSE <<>>)
            \o Follow
      [] a.type = "HU" -> Follow

-----------------------------------------------------------------------------
(* Prompts and answers.                                                    *)

\* The seats the step asks: the one to discard, or those with a claim.
Asked == IF phase = "DISCARD" THEN {actor} ELSE {c.seat : c \in pending}

\* PASS, the tile just drawn, or else the first legal PLAY.
DefaultAction(s) ==
    IF phase = "CLAIM_WINDOW" THEN PASS
    ELSE IF lastDrawn # None /\ lastDrawn.seat = s THEN PLAY(lastDrawn.tile)
    ELSE CHOOSE a \in LegalActions(s) : a.type = "PLAY"

Ask ==
    /\ step = "idle" /\ phase # "TERMINAL"
    /\ step' = "asking" /\ log' = <<>>
    /\ reply' = [s \in Seats |-> None] /\ failed' = {}
    /\ UNCHANGED <<vars, strikes, auto>>

Settle(s, a) ==
    /\ step = "asking" /\ s \in Asked /\ reply[s] = None
    /\ reply' = [reply EXCEPT ![s] = a]
    /\ UNCHANGED <<vars, step, strikes, auto, log>>

\* The adapter answers in time, with a legal action.
Decide(s) ==
    /\ s \notin auto
    /\ \E a \in LegalActions(s) : Settle(s, a)
    /\ UNCHANGED failed

\* Mutant: the replacement only answers claims.
DecideAutoForClaims(s) ==
    /\ s \in auto /\ phase = "CLAIM_WINDOW" /\ Settle(s, DefaultAction(s))
    /\ UNCHANGED failed

DecideAuto(s) == s \in auto /\ Settle(s, DefaultAction(s)) /\ UNCHANGED failed

\* The deadline passes, or the adapter raises, or its answer is not among the
\* legal actions: the default stands in.
DecideFails(s) ==
    /\ s \in Flaky \ auto
    /\ Settle(s, DefaultAction(s))
    /\ failed' = failed \cup {s}

AllIn == step = "asking" /\ \A s \in Asked : reply[s] # None

-----------------------------------------------------------------------------
(* The steps of run_hand.                                                  *)

Prompted == {s \in Seats : reply[s] # None}

\* Strikes of the step, winners and losers alike; the limit replaces the seat.
EndStep ==
    /\ step' = "idle"
    /\ strikes' = [s \in Seats |-> strikes[s] + (IF s \in failed THEN 1 ELSE 0)]
    /\ auto' = auto \cup {s \in Prompted : strikes'[s] >= StrikeLimit}

StepDiscard ==
    /\ AllIn /\ phase = "DISCARD"
    /\ ApplyAction(actor, reply[actor])
    /\ log' = DiffToEvents(actor, reply[actor])
    /\ EndStep
    /\ UNCHANGED <<reply, failed>>

Priority == <<"HU", "PENG", "GANG", "CHI">>
Claimers(kind) == {s \in Prompted : reply[s].type = kind}

\* Mutant: a pung goes before a win.
WinnersPengFirst ==
    IF Claimers("PENG") # {} THEN Claimers("PENG")
    ELSE IF Claimers("HU") # {} THEN Lowest(Claimers("HU"), 1)
    ELSE IF Claimers("GANG") # {} THEN Claimers("GANG") ELSE Claimers("CHI")

\* The seat whose claim takes the tile, if any: the strongest kind, and among
\* seats with the same kind the lowest seat.
ResolveClaimPriority ==
    LET kinds == {n \in DOMAIN Priority : Claimers(Priority[n]) # {}}
    IN UNION {Lowest(Claimers(Priority[n]), 1) : n \in Lowest(kinds, 1)}

\* The seats of a set, lowest first, and their decisions in this order.
InSeatOrder(S) ==
    [n \in 1 .. Cardinality(S) |-> CHOOSE s \in S : Cardinality({x \in S : x < s}) = n - 1]
DecisionsOf(order) == [n \in DOMAIN order |-> Decision(order[n], reply[order[n]])]

\* Mutant: the winner's decision is written twice.
WithoutDecisionNever(events) == events

\* The winner's own CLAIM_DECISION has been written already; a win has none.
WithoutDecision(events) ==
    IF Head(events).event = "CLAIM_DECISION" THEN Tail(events) ELSE events

\* Every claimer's decision in seat order, then the winner's action.
StepClaim ==
    /\ AllIn /\ phase = "CLAIM_WINDOW"
    /\ \E s \in ResolveClaimPriority :
        /\ ApplyAction(s, reply[s])
        /\ log' = DecisionsOf(InSeatOrder(Prompted))
                  \o WithoutDecision(DiffToEvents(s, reply[s]))
    /\ EndStep
    /\ UNCHANGED <<reply, failed>>

\* Nobody claims: the PASSes are applied one by one, in seat order, with the
\* observers awaited in between; the last one lets the engine go on.
ApplyAllPass ==
    /\ \/ AllIn /\ phase = "CLAIM_WINDOW" /\ ResolveClaimPriority = {}
       \/ step = "passing"
    /\ \E s \in Lowest(Asked, 1) :
        /\ ApplyAction(s, reply[s])
        /\ log' = log \o DiffToEvents(s, reply[s])
    /\ IF phase' = "CLAIM_WINDOW"
       THEN step' = "passing" /\ UNCHANGED <<strikes, auto>>
       ELSE EndStep
    /\ UNCHANGED <<reply, failed>>

\* The record is closed with its footer.
Footer ==
    /\ step = "idle" /\ phase = "TERMINAL"
    /\ step' = "over"
    /\ UNCHANGED <<vars, reply, failed, strikes, auto, log>>

\* The table is closed, or the watchdog stops a step that hangs: the record
\* stays without a footer.
Abort ==
    /\ step \in {"asking", "passing"}
    /\ step' = "aborted"
    /\ UNCHANGED <<vars, reply, failed, strikes, auto, log>>

Answer(s) == Decide(s) \/ DecideAuto(s) \/ DecideFails(s)

TableNext ==
    \/ Ask \/ StepDiscard \/ StepClaim \/ ApplyAllPass \/ Footer \/ Abort
    \/ \E s \in Seats : Answer(s)

TableSpec == TableInit /\ [][TableNext]_tableVars

\* run_hand goes on, and each prompted seat answers or its deadline passes:
\* wait_for bounds every decide.
TableFairness ==
    /\ WF_tableVars(Ask) /\ WF_tableVars(StepDiscard) /\ WF_tableVars(StepClaim)
    /\ WF_tableVars(ApplyAllPass) /\ WF_tableVars(Footer)
    /\ \A s \in Seats : WF_tableVars(Answer(s))

FairTable == TableSpec /\ TableFairness

-----------------------------------------------------------------------------
(* Properties.                                                             *)

\* Who takes a discard depends on the claims alone, not on the order in which
\* they came: a win before a pung or a kong, those before a chow, and the lower
\* of two winning seats.
Beats(s, t) ==
    LET rank == [HU |-> 3, PENG |-> 2, GANG |-> 2, CHI |-> 1, PASS |-> 0]
    IN \/ rank[reply[s].type] > rank[reply[t].type]
       \/ reply[s].type = reply[t].type /\ s < t

PriorityHolds ==
    [][phase = "CLAIM_WINDOW" /\ phase' # "CLAIM_WINDOW" =>
        \A s \in Prompted : reply[s] # PASS /\ (\A t \in Prompted \ {s} : Beats(s, t)) =>
            IF reply[s] = HU
            THEN terminal' # None /\ terminal'.kind = "HU" /\ terminal'.winner = s
            ELSE Cardinality(melds'[s]) = Cardinality(melds[s]) + 1]_tableVars

Where(kind) == {n \in DOMAIN log : log[n].event = kind}

\* The record keeps what every seat with a claim decided, once and as decided,
\* those who lost the tile included.
DecisionsRecorded ==
    step = "idle" /\ 1 \in Where("CLAIM_DECISION") =>
        /\ {log[n] : n \in Where("CLAIM_DECISION")} = {Decision(s, reply[s]) : s \in Prompted}
        /\ Cardinality(Where("CLAIM_DECISION")) = Cardinality(Prompted)

\* The event that releases the players from the hand is written exactly once,
\* when the hand is over and as the last event, however the hand ended.
HandEndWritten ==
    step = "over" \/ (step = "idle" /\ log # <<>>) =>
        Where("HAND_END") = IF phase = "TERMINAL" THEN {Len(log)} ELSE {}

\* The record of a hand is complete: the decision of every seat that could
\* claim, and exactly one end.
RecordComplete == DecisionsRecorded /\ HandEndWritten

\* The hand always completes, whoever fails to decide.
HandFinishes == <>(step \in {"over", "aborted"})
=============================================================================
