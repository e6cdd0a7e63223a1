--------------------------- MODULE HandLoop_proofs ---------------------------
(***************************************************************************)
(* The safety of HandLoop for any number of human seats, any match length  *)
(* and whatever the players do.                                            *)
(***************************************************************************)
EXTENDS HandLoop, TLAPS

\* The conjuncts of TypeOK are independent of each other but for Seats; each
\* step keeps them.
LEMMA TypeInit == Init => TypeOK
<1> SUFFICES ASSUME Init PROVE TypeOK
  OBVIOUS
<1>1. SeatTypeOK
  BY DEF Init, SeatTypeOK, States
<1>2. GateTypeOK
  BY DEF Init, GateTypeOK
<1>3. LoopTypeOK
  BY LoopAssumption DEF Init, LoopTypeOK, LoopSteps
<1>4. ServerTypeOK
  BY DEF Init, ServerTypeOK
<1> QED
  BY <1>1, <1>2, <1>3, <1>4 DEF TypeOK

LEMMA SeatTypeStep == TypeOK /\ [Next]_vars => SeatTypeOK'
<1> SUFFICES ASSUME TypeOK, [Next]_vars PROVE SeatTypeOK'
  OBVIOUS
<1> USE DEF TypeOK, SeatTypeOK, States
<1>1. ASSUME NEW s \in Seats, SeatNext(s) PROVE SeatTypeOK'
  BY <1>1 DEF SeatNext, Attach, Drop, Detach, HoldExpires, OnGatedSeatExpired,
              MarkReady, SeatReplaced, seatVars
<1>2. CASE LoopNext
  <2>1. CASE BeginNextHand
    BY <2>1 DEF BeginNextHand
  <2>2. CASE LoopCrashes
    BY <2>2 DEF LoopCrashes, ReleaseSeats
  <2>3. CASE StartHand \/ HandEnds \/ PauseStopped \/ GateOpens \/ GateChecks
             \/ GateWakes \/ NextHand
    BY <2>3 DEF StartHand, HandEnds, PauseStopped, GateOpens, GateChecks,
                GateWakes, NextHand, seatVars
  <2> QED
    BY <1>2, <2>1, <2>2, <2>3 DEF LoopNext
<1>3. CASE RequestStop \/ DrainTimesOut
  BY <1>3 DEF RequestStop, DrainTimesOut, seatVars
<1>4. CASE CloseTable \/ CloseAfterDrain
  BY <1>4 DEF CloseTable, CloseAfterDrain, Close, ReleaseSeats
<1>5. CASE UNCHANGED vars
  BY <1>5 DEF vars, seatVars
<1> QED
  BY <1>1, <1>2, <1>3, <1>4, <1>5 DEF Next

LEMMA GateTypeStep == TypeOK /\ [Next]_vars => GateTypeOK'
<1> SUFFICES ASSUME TypeOK, [Next]_vars PROVE GateTypeOK'
  OBVIOUS
<1> USE DEF TypeOK, GateTypeOK, GatedHumanSeats
<1>1. ASSUME NEW s \in Seats, SeatNext(s) PROVE GateTypeOK'
  BY <1>1 DEF SeatNext, Attach, Drop, Detach, HoldExpires, OnGatedSeatExpired,
              MarkReady, SeatReplaced, gateVars
<1>2. CASE LoopNext
  BY <1>2 DEF LoopNext, StartHand, HandEnds, PauseStopped, GateOpens, GateChecks,
              GateWakes, BeginNextHand, NextHand, LoopCrashes, gateVars
<1>3. CASE RequestStop \/ DrainTimesOut \/ CloseTable \/ CloseAfterDrain
  BY <1>3 DEF RequestStop, DrainTimesOut, CloseTable, CloseAfterDrain, Close, gateVars
<1>4. CASE UNCHANGED vars
  BY <1>4 DEF vars, gateVars
<1> QED
  BY <1>1, <1>2, <1>3, <1>4 DEF Next

\* Every hand begun is one of the match: the loop only comes to the boundary
\* between two hands while hands are left.
HandsLeft == loop \in {"pausing", "showing", "asleep", "boundary"} => hand < MaxHands

LEMMA LoopTypeStep ==
  TypeOK /\ HandsLeft /\ [Next]_vars => LoopTypeOK' /\ HandsLeft'
<1> SUFFICES ASSUME TypeOK, HandsLeft, [Next]_vars PROVE LoopTypeOK' /\ HandsLeft'
  OBVIOUS
<1> USE LoopAssumption DEF TypeOK, LoopTypeOK, LoopSteps, HandsLeft
<1>1. ASSUME NEW s \in Seats, SeatNext(s) PROVE LoopTypeOK' /\ HandsLeft'
  BY <1>1 DEF SeatNext, Attach, Drop, Detach, HoldExpires, OnGatedSeatExpired,
              MarkReady, SeatReplaced, loopVars
<1>2. CASE LoopNext
  BY <1>2 DEF LoopNext, StartHand, HandEnds, PauseStopped, GateOpens, GateChecks,
              GateWakes, BeginNextHand, NextHand, LoopCrashes
<1>3. CASE RequestStop \/ DrainTimesOut
  BY <1>3 DEF RequestStop, DrainTimesOut, loopVars
<1>4. CASE CloseTable \/ CloseAfterDrain
  BY <1>4 DEF CloseTable, CloseAfterDrain, Close
<1>5. CASE UNCHANGED vars
  BY <1>5 DEF vars, loopVars
<1> QED
  BY <1>1, <1>2, <1>3, <1>4, <1>5 DEF Next

LEMMA ServerTypeStep == TypeOK /\ [Next]_vars => ServerTypeOK'
<1> SUFFICES ASSUME TypeOK, [Next]_vars PROVE ServerTypeOK'
  OBVIOUS
<1> USE DEF TypeOK, ServerTypeOK, InProgress
<1>1. ASSUME NEW s \in Seats, SeatNext(s) PROVE ServerTypeOK'
  BY <1>1 DEF SeatNext, Attach, Drop, Detach, HoldExpires, OnGatedSeatExpired,
              MarkReady, SeatReplaced, serverVars
<1>2. CASE LoopNext
  BY <1>2 DEF LoopNext, StartHand, HandEnds, PauseStopped, GateOpens, GateChecks,
              GateWakes, BeginNextHand, NextHand, LoopCrashes, serverVars
<1>3. CASE RequestStop \/ DrainTimesOut \/ CloseTable \/ CloseAfterDrain
  BY <1>3 DEF RequestStop, DrainTimesOut, CloseTable, CloseAfterDrain, Close
<1>4. CASE UNCHANGED vars
  BY <1>4 DEF vars, serverVars
<1> QED
  BY <1>1, <1>2, <1>3, <1>4 DEF Next

\* A READY counts for the hand that just ended only: inside the gate whoever is
\* recorded as ready has clicked since that hand.
ReadyIsFresh == InGate => ready \subseteq clicked

\* What the drain knows: it began with a stop, and a hand task it does not wait
\* for was started after it began.  A hand that was cut is the last.
DrainKnows ==
  /\ phase = "draining" => stop
  /\ phase = "draining" /\ ~awaited /\ InProgress => late
  /\ cut # "no" => loop = "over"
  /\ DrainKeepsHand

LoopInv == TypeOK /\ HandsLeft /\ ReadyIsFresh /\ DrainKnows

LEMMA ReadyStep == TypeOK /\ ReadyIsFresh /\ [Next]_vars => ReadyIsFresh'
<1> SUFFICES ASSUME TypeOK, ReadyIsFresh, [Next]_vars PROVE ReadyIsFresh'
  OBVIOUS
<1> USE DEF ReadyIsFresh, InGate
<1>1. ASSUME NEW s \in Seats, SeatNext(s) PROVE ReadyIsFresh'
  BY <1>1 DEF SeatNext, Attach, Drop, Detach, HoldExpires, OnGatedSeatExpired,
              MarkReady, SeatReplaced, loopVars, gateVars
<1>2. CASE LoopNext
  BY <1>2 DEF LoopNext, StartHand, HandEnds, PauseStopped, GateOpens, GateChecks,
              GateWakes, BeginNextHand, NextHand, LoopCrashes, gateVars
<1>3. CASE RequestStop \/ DrainTimesOut
  BY <1>3 DEF RequestStop, DrainTimesOut, loopVars, gateVars
<1>4. CASE CloseTable \/ CloseAfterDrain
  BY <1>4 DEF CloseTable, CloseAfterDrain, Close
<1>5. CASE UNCHANGED vars
  BY <1>5 DEF vars, loopVars, gateVars
<1> QED
  BY <1>1, <1>2, <1>3, <1>4, <1>5 DEF Next

LEMMA DrainStep == TypeOK /\ DrainKnows /\ [Next]_vars => DrainKnows'
<1> SUFFICES ASSUME TypeOK, DrainKnows, [Next]_vars PROVE DrainKnows'
  OBVIOUS
<1> USE DEF DrainKnows, DrainKeepsHand, InProgress
<1>1. ASSUME NEW s \in Seats, SeatNext(s) PROVE DrainKnows'
  BY <1>1 DEF SeatNext, Attach, Drop, Detach, HoldExpires, OnGatedSeatExpired,
              MarkReady, SeatReplaced, loopVars, serverVars
<1>2. CASE LoopNext
  BY <1>2 DEF LoopNext, StartHand, HandEnds, PauseStopped, GateOpens, GateChecks,
              GateWakes, BeginNextHand, NextHand, LoopCrashes, serverVars
<1>3. CASE RequestStop
  BY <1>3 DEF RequestStop, loopVars
<1>4. CASE DrainTimesOut
  BY <1>4 DEF DrainTimesOut, loopVars
<1>5. CASE CloseTable
  BY <1>5 DEF CloseTable, Close
<1>6. CASE CloseAfterDrain
  BY <1>6 DEF CloseAfterDrain, Close, TypeOK, ServerTypeOK
<1>7. CASE UNCHANGED vars
  BY <1>7 DEF vars, loopVars, serverVars
<1> QED
  BY <1>1, <1>2, <1>3, <1>4, <1>5, <1>6, <1>7 DEF Next

LEMMA LoopInvariant == Spec => []LoopInv
<1>1. Init => LoopInv
  BY TypeInit DEF Init, LoopInv, HandsLeft, ReadyIsFresh, InGate, DrainKnows,
                  DrainKeepsHand, InProgress
<1>2. LoopInv /\ [Next]_vars => LoopInv'
  BY SeatTypeStep, GateTypeStep, LoopTypeStep, ServerTypeStep, ReadyStep, DrainStep
     DEF LoopInv, TypeOK
<1> QED
  BY <1>1, <1>2, PTL DEF Spec

\* The table's state keeps its types and no match plays more than its hands,
\* whatever order players, timers, hand task and operator act in.
THEOREM TypeCorrect == Spec => []TypeOK
<1> LoopInv => TypeOK
  BY DEF LoopInv
<1> QED
  BY LoopInvariant, PTL

\* A drain that waits (await_tables_drained) loses no hand it found running: a
\* hand cut by a drain that did not time out was started after it began.
THEOREM DrainTheorem == Spec => []DrainKeepsHand
<1> LoopInv => DrainKeepsHand
  BY DEF LoopInv, DrainKnows
<1> QED
  BY LoopInvariant, PTL

\* The ready gate (_await_table_ready) opens only on players who acknowledged
\* the hand that just ended, however many seats there are.
THEOREM GateTheorem == Spec => NobodySteamrolled
<1>1. LoopInv /\ [Next]_vars =>
        [loop # "boundary" /\ loop' = "boundary" => GatedHumanSeats \subseteq clicked]_vars
  <2> SUFFICES ASSUME LoopInv, [Next]_vars, loop # "boundary", loop' = "boundary"
               PROVE GatedHumanSeats \subseteq clicked
    OBVIOUS
  <2>1. GateOpens \/ GateChecks
    BY DEF Next, SeatNext, Attach, Drop, Detach, HoldExpires, OnGatedSeatExpired,
           MarkReady, SeatReplaced, LoopNext, StartHand, HandEnds, PauseStopped,
           GateWakes, BeginNextHand, NextHand, LoopCrashes, RequestStop,
           DrainTimesOut, CloseTable, CloseAfterDrain, Close, vars, loopVars
  <2>2. CASE GateOpens
    BY <2>2 DEF GateOpens
  <2>3. CASE GateChecks
    BY <2>3 DEF GateChecks, AllGatedReady, LoopInv, ReadyIsFresh, InGate
  <2> QED
    BY <2>1, <2>2, <2>3
<1> QED
  BY <1>1, LoopInvariant, PTL DEF Spec, NobodySteamrolled
-----------------------------------------------------------------------------
(* What the liveness of the loop rests on.                                 *)

\* Behaviours in which nobody leaves the gate by DETACH, which wakes nobody.
StayNext == Next /\ (InGate => ~\E s \in Seats : Detach(s))
StaySpec == Init /\ [][StayNext]_vars

\* A hand task asleep in the gate that could leave it is about to be woken: by
\* the stop, by the flag, or by the task of a hold expiry that has yet to set it.
NoWakeUpLost == loop = "asleep" /\ AllGatedReady => stop \/ changed \/ expiring # {}

LEMMA WakeUpStep == TypeOK /\ NoWakeUpLost /\ [StayNext]_vars => NoWakeUpLost'
<1> SUFFICES ASSUME TypeOK, NoWakeUpLost, [StayNext]_vars PROVE NoWakeUpLost'
  OBVIOUS
<1> USE DEF NoWakeUpLost, AllGatedReady, GatedHumanSeats
<1>1. ASSUME NEW s \in Seats, SeatNext(s) PROVE NoWakeUpLost'
  <2>1. CASE Attach(s)
    BY <2>1 DEF Attach, InProgress, TypeOK, SeatTypeOK, States, loopVars, serverVars
  <2>2. CASE Drop(s)
    BY <2>2 DEF Drop, TypeOK, SeatTypeOK, gateVars, loopVars, serverVars
  <2>3. CASE Detach(s)
    <3>1. seat' # seat
      BY <2>3 DEF Detach, TypeOK, SeatTypeOK
    <3> QED
      BY <2>3, <3>1 DEF StayNext, InGate, Detach, vars, seatVars, loopVars
  <2>4. CASE HoldExpires(s)
    BY <2>4 DEF HoldExpires
  <2>5. CASE OnGatedSeatExpired(s) \/ MarkReady(s) \/ SeatReplaced(s)
    BY <2>5 DEF OnGatedSeatExpired, MarkReady, SeatReplaced, loopVars
  <2> QED
    BY <1>1, <2>1, <2>2, <2>3, <2>4, <2>5 DEF SeatNext
<1>2. CASE LoopNext
  BY <1>2 DEF LoopNext, StartHand, HandEnds, PauseStopped, GateOpens, GateChecks,
              GateWakes, BeginNextHand, NextHand, LoopCrashes, seatVars
<1>3. CASE RequestStop \/ DrainTimesOut
  BY <1>3 DEF RequestStop, DrainTimesOut, loopVars, seatVars, gateVars
<1>4. CASE CloseTable \/ CloseAfterDrain
  BY <1>4 DEF CloseTable, CloseAfterDrain, Close
<1>5. CASE UNCHANGED vars
  BY <1>5 DEF vars, loopVars, seatVars, gateVars, serverVars
<1> QED
  BY <1>1, <1>2, <1>3, <1>4, <1>5 DEF StayNext, Next

\* _await_table_ready clears the flag only before it looks at the seats again: as
\* long as nobody leaves by DETACH it never sleeps through the last
\* acknowledgement, whatever expiries, drops and returns come in between.
THEOREM WakeUpTheorem == StaySpec => []NoWakeUpLost
<1>1. Init => LoopInv /\ NoWakeUpLost
  BY TypeInit DEF Init, LoopInv, HandsLeft, ReadyIsFresh, InGate, DrainKnows,
                  DrainKeepsHand, InProgress, NoWakeUpLost
<1>2. LoopInv /\ NoWakeUpLost /\ [StayNext]_vars => (LoopInv /\ NoWakeUpLost)'
  <2>1. [StayNext]_vars => [Next]_vars
    BY DEF StayNext
  <2> QED
    BY <2>1, SeatTypeStep, GateTypeStep, LoopTypeStep, ServerTypeStep, ReadyStep,
       DrainStep, WakeUpStep DEF LoopInv, TypeOK
<1> QED
  BY <1>1, <1>2, PTL DEF StaySpec

\* How many steps a stopped loop still has before it is over: the hand it plays,
\* its pause or its check of the gate is the last; a sleeper is woken first, and
\* a boundary begun goes through its seats and into one more hand.
StepsLeft ==
  CASE loop \in {"none", "over"} -> 0
    [] loop \in {"playing", "pausing", "showing"} -> 1
    [] loop = "asleep" -> 2
    [] loop = "boundary" -> 2 + (SeatCount - step)

\* Once the stop is requested every step of the hand task brings its end nearer,
\* and nothing anybody else does puts it off.
StopCountsDown ==
  [][stop /\ InProgress =>
       /\ StepsLeft' <= StepsLeft
       /\ LoopNext => StepsLeft' < StepsLeft]_vars

\* A stopped loop plays at most one more hand (the one a boundary has begun) and
\* waits for no player: its end is a count of its own steps, for any number of
\* seats.
THEOREM StopTheorem == Spec => StopCountsDown
<1>1. LoopInv /\ [Next]_vars =>
        [stop /\ InProgress =>
           /\ StepsLeft' <= StepsLeft
           /\ LoopNext => StepsLeft' < StepsLeft]_vars
  <2> SUFFICES ASSUME LoopInv, [Next]_vars, stop, InProgress
               PROVE StepsLeft' <= StepsLeft /\ (LoopNext => StepsLeft' < StepsLeft)
    OBVIOUS
  <2> USE LoopAssumption DEF StepsLeft, InProgress, LoopInv, TypeOK, LoopTypeOK, LoopSteps
  <2>1. StepsLeft \in Nat /\ StepsLeft > 0
    OBVIOUS
  <2>2. CASE LoopNext
    <3>1. CASE StartHand \/ GateOpens
      BY <3>1 DEF StartHand, GateOpens
    <3>2. CASE HandEnds \/ PauseStopped \/ GateChecks \/ GateWakes
      BY <3>2 DEF HandEnds, PauseStopped, GateChecks, GateWakes
    <3>3. CASE BeginNextHand
      BY <3>3 DEF BeginNextHand
    <3>4. CASE NextHand
      BY <3>4 DEF NextHand
    <3>5. CASE LoopCrashes
      BY <2>1, <3>5 DEF LoopCrashes
    <3>6. StepsLeft' < StepsLeft
      BY <2>2, <3>1, <3>2, <3>3, <3>4, <3>5 DEF LoopNext
    <3>7. StepsLeft' \in Nat
      BY LoopTypeStep
    <3> HIDE DEF StepsLeft
    <3> QED
      BY <2>1, <3>6, <3>7
  <2>3. CASE CloseTable \/ CloseAfterDrain
    <3>1. StepsLeft' = 0
      BY <2>3 DEF CloseTable, CloseAfterDrain, Close
    <3> HIDE DEF StepsLeft
    <3> QED
      BY <2>1, <3>1
  <2>4. CASE ~LoopNext /\ UNCHANGED <<loop, step>>
    BY <2>1, <2>4
  <2>5. ASSUME NEW s \in Seats, SeatNext(s) PROVE UNCHANGED <<loop, step>>
    BY <2>5 DEF SeatNext, Attach, Drop, Detach, HoldExpires, OnGatedSeatExpired,
                MarkReady, SeatReplaced, loopVars
  <2>6. LoopNext \/ CloseTable \/ CloseAfterDrain \/ UNCHANGED <<loop, step>>
    BY <2>5 DEF Next, RequestStop, DrainTimesOut, vars, loopVars
  <2> QED
    BY <2>2, <2>3, <2>4, <2>6
<1> QED
  BY <1>1, LoopInvariant, PTL DEF Spec, StopCountsDown
=============================================================================
