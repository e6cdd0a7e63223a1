------------------------- MODULE SeatSession_proofs -------------------------
(***************************************************************************)
(* Proofs about one seat, for every number of connections and accounts and *)
(* every choice of the operations whose awaits suspend.                    *)
(***************************************************************************)
EXTENDS SeatSession, SequenceTheorems, TLAPS

\* The hand task awaits a future exactly while it stands at "deciding", and a
\* HAND_END is in the buffer only after the hand ended.
Awaited == (table = "deciding") <=> (fut # "none")
EndedFirst == endFate = "buffered" => ended

\* A handler owes a HAND_END only between ATTACHED and the replay.
OwedWhileReplaying == \A c \in Conns : replay[c] => conn[c] = "replaying"

SeatInv ==
    /\ FieldsMatchState /\ NoOrphanPrompt
    /\ Awaited /\ EndedFirst /\ OwedWhileReplaying /\ BufferedEndKept

\* AppendBuffer keeps the buffer within its capacity and ends it with the
\* appended entry.
LEMMA AppendBufferLemma ==
    ASSUME NEW kind \in {"EVENT", "HAND_END"},
           buf \in Seq({"EVENT", "HAND_END"}), Len(buf) <= BufferCapacity,
           BufferCapacity \in Nat \ {0}, AppendBuffer(kind)
    PROVE  /\ buf' \in Seq({"EVENT", "HAND_END"})
           /\ Len(buf') <= BufferCapacity
           /\ \E i \in DOMAIN buf' : buf'[i] = kind
<1> DEFINE K == {"EVENT", "HAND_END"}
<1>1. CASE Len(buf) < BufferCapacity
  <2>1. buf' = Append(buf, kind)
    BY <1>1 DEF AppendBuffer
  <2>2. buf' \in Seq(K) /\ Len(buf') = Len(buf) + 1 /\ buf'[Len(buf) + 1] = kind
    BY <2>1, AppendProperties
  <2> QED
    BY <1>1, <2>2, LenProperties
<1>2. CASE ~(Len(buf) < BufferCapacity)
  <2>1. buf' = Append(Tail(buf), kind)
    BY <1>2 DEF AppendBuffer
  <2>2. buf # <<>>
    BY <1>2
  <2>3. Tail(buf) \in Seq(K) /\ Len(Tail(buf)) = Len(buf) - 1
    BY <2>2, HeadTailProperties
  <2>4. buf' \in Seq(K) /\ Len(buf') = Len(buf) /\ buf'[Len(buf)] = kind
    BY <2>1, <2>2, <2>3, AppendProperties, LenProperties
  <2> QED
    BY <2>2, <2>4, LenProperties, EmptySeq
<1> QED
  BY <1>1, <1>2

-----------------------------------------------------------------------------
(* Type correctness.  Each group of variables has its part of TypeOK, and  *)
(* an action leaves the parts of the groups it does not touch as they are. *)

LEMMA TypeStep == TypeOK /\ [Next]_vars => TypeOK'
<1> SUFFICES ASSUME TypeOK, [Next]_vars PROVE TypeOK'
  OBVIOUS
<1> USE SeatAssumption DEF TypeOK
<1>1. ASSUME NEW c \in Conns, AttachRejected(c) PROVE TypeOK'
  <2>1. ConnTypeOK'
    BY <1>1 DEF AttachRejected, ConnTypeOK, Pcs, connVars
  <2> QED
    BY <1>1, <2>1 DEF AttachRejected, seatVars, connVars, tableVars, clientVars, SeatTypeOK, BufferTypeOK, ConnTypeOK, TableTypeOK, ClientTypeOK
<1>2. ASSUME NEW c \in Conns, AttachFromUnbound(c) PROVE TypeOK'
  <2>1. SeatTypeOK'
    BY <1>2 DEF AttachFromUnbound, SeatTypeOK, Settled
  <2>2. BufferTypeOK'
    BY <1>2, EmptySeq DEF AttachFromUnbound, BufferTypeOK
  <2>3. ConnTypeOK'
    BY <1>2 DEF AttachFromUnbound, ConnTypeOK, Pcs, connVars
  <2>4. ClientTypeOK'
    BY <1>2 DEF AttachFromUnbound, ClientTypeOK
  <2> QED
    BY <1>2, <2>1, <2>2, <2>3, <2>4 DEF AttachFromUnbound, seatVars, connVars, tableVars, clientVars, SeatTypeOK, BufferTypeOK, ConnTypeOK, TableTypeOK, ClientTypeOK
<1>3. ASSUME NEW c \in Conns, Takeover(c) PROVE TypeOK'
  <2>1. ConnTypeOK'
    BY <1>3 DEF Takeover, SeatTypeOK, ConnTypeOK, Pcs, connVars
  <2>2. ClientTypeOK'
    BY <1>3 DEF Takeover, Deliver, ClientTypeOK
  <2> QED
    BY <1>3, <2>1, <2>2 DEF Takeover, seatVars, connVars, tableVars, clientVars, SeatTypeOK, BufferTypeOK, ConnTypeOK, TableTypeOK, ClientTypeOK
<1>4. ASSUME NEW c \in Conns, TakeoverCloseOld(c) PROVE TypeOK'
  <2>1. ConnTypeOK'
    BY <1>4 DEF TakeoverCloseOld, ConnTypeOK, Pcs, connVars
  <2> QED
    BY <1>4, <2>1 DEF TakeoverCloseOld, seatVars, connVars, tableVars, clientVars, SeatTypeOK, BufferTypeOK, ConnTypeOK, TableTypeOK, ClientTypeOK
<1>5. ASSUME NEW c \in Conns, TakeoverInstall(c) PROVE TypeOK'
  <2>1. SeatTypeOK'
    BY <1>5 DEF TakeoverInstall, Deliver, SeatTypeOK, Settled
  <2>2. BufferTypeOK'
    BY <1>5 DEF TakeoverInstall, Deliver, BufferTypeOK
  <2>3. ConnTypeOK'
    BY <1>5 DEF TakeoverInstall, Deliver, ConnTypeOK, Pcs, connVars
  <2>4. ClientTypeOK'
    BY <1>5 DEF TakeoverInstall, Deliver, Displaced, SeatTypeOK, ClientTypeOK
  <2> QED
    BY <1>5, <2>1, <2>2, <2>3, <2>4 DEF TakeoverInstall, seatVars, connVars, tableVars, clientVars, SeatTypeOK, BufferTypeOK, ConnTypeOK, TableTypeOK, ClientTypeOK
<1>6. ASSUME NEW c \in Conns, Resume(c) PROVE TypeOK'
  <2>1. SeatTypeOK'
    BY <1>6 DEF Resume, SeatTypeOK, Settled
  <2>2. BufferTypeOK'
    BY <1>6, EmptySeq DEF Resume, BufferTypeOK
  <2>3. ConnTypeOK'
    BY <1>6 DEF Resume, ConnTypeOK, Pcs, connVars
  <2>4. ClientTypeOK'
    BY <1>6 DEF Resume, ClientTypeOK
  <2> QED
    BY <1>6, <2>1, <2>2, <2>3, <2>4 DEF Resume, seatVars, connVars, tableVars, clientVars, SeatTypeOK, BufferTypeOK, ConnTypeOK, TableTypeOK, ClientTypeOK
<1>7. ASSUME NEW c \in Conns, ResumeReplay(c) PROVE TypeOK'
  <2>1. ConnTypeOK'
    BY <1>7 DEF ResumeReplay, ConnTypeOK, Pcs, connVars
  <2>2. ClientTypeOK'
    BY <1>7 DEF ResumeReplay, ClientTypeOK
  <2> QED
    BY <1>7, <2>1, <2>2 DEF ResumeReplay, seatVars, connVars, tableVars, clientVars, SeatTypeOK, BufferTypeOK, ConnTypeOK, TableTypeOK, ClientTypeOK
<1>8. ASSUME NEW c \in Conns, ResumeReprompt(c) PROVE TypeOK'
  <2>1. ConnTypeOK'
    BY <1>8 DEF ResumeReprompt, Waiting, ConnTypeOK, Pcs, connVars
  <2>2. ClientTypeOK'
    BY <1>8, SeatAssumption DEF ResumeReprompt, Waiting, Show, ClientTypeOK
  <2> QED
    BY <1>8, <2>1, <2>2 DEF ResumeReprompt, seatVars, connVars, tableVars, clientVars, SeatTypeOK, BufferTypeOK, ConnTypeOK, TableTypeOK, ClientTypeOK
<1>9. ASSUME NEW c \in Conns, GracefulDetach(c) PROVE TypeOK'
  <2>1. ConnTypeOK'
    BY <1>9 DEF GracefulDetach, ConnTypeOK, Pcs, connVars
  <2>2. ClientTypeOK'
    BY <1>9 DEF GracefulDetach, ClientTypeOK
  <2> QED
    BY <1>9, <2>1, <2>2 DEF GracefulDetach, seatVars, connVars, tableVars, clientVars, SeatTypeOK, BufferTypeOK, ConnTypeOK, TableTypeOK, ClientTypeOK
<1>10. ASSUME NEW c \in Conns, GracefulDetachRelease(c) PROVE TypeOK'
  <2>1. SeatTypeOK'
    BY <1>10 DEF GracefulDetachRelease, Resolve, TeardownToUnbound, Waiting, SeatTypeOK, Settled
  <2>2. BufferTypeOK'
    BY <1>10, EmptySeq DEF GracefulDetachRelease, Resolve, TeardownToUnbound, Waiting, BufferTypeOK
  <2>3. ConnTypeOK'
    BY <1>10 DEF GracefulDetachRelease, Resolve, TeardownToUnbound, Waiting, ConnTypeOK, Pcs, connVars
  <2>4. ClientTypeOK'
    BY <1>10 DEF GracefulDetachRelease, TeardownToUnbound, Displaced, SeatTypeOK, ClientTypeOK
  <2> QED
    BY <1>10, <2>1, <2>2, <2>3, <2>4 DEF GracefulDetachRelease, seatVars, connVars, tableVars, clientVars, SeatTypeOK, BufferTypeOK, ConnTypeOK, TableTypeOK, ClientTypeOK
<1>11. ASSUME NEW c \in Conns, SocketCloses(c) PROVE TypeOK'
  <2>1. ConnTypeOK'
    BY <1>11 DEF SocketCloses, ConnTypeOK, Pcs, connVars
  <2> QED
    BY <1>11, <2>1 DEF SocketCloses, seatVars, connVars, tableVars, clientVars, SeatTypeOK, BufferTypeOK, ConnTypeOK, TableTypeOK, ClientTypeOK
<1>12. ASSUME NEW c \in Conns, SocketDropped(c) PROVE TypeOK'
  <2>1. SeatTypeOK'
    BY <1>12 DEF SocketDropped, SeatTypeOK, Settled
  <2>2. BufferTypeOK'
    BY <1>12 DEF SocketDropped, BufferTypeOK
  <2>3. ConnTypeOK'
    BY <1>12 DEF SocketDropped, ConnTypeOK, Pcs, connVars
  <2> QED
    BY <1>12, <2>1, <2>2, <2>3 DEF SocketDropped, seatVars, connVars, tableVars, clientVars, SeatTypeOK, BufferTypeOK, ConnTypeOK, TableTypeOK, ClientTypeOK
<1>13. ASSUME NEW c \in Conns, HandleAction(c) PROVE TypeOK'
  <2>1. SeatTypeOK'
    BY <1>13 DEF HandleAction, Waiting, SeatTypeOK, Settled
  <2>2. BufferTypeOK'
    BY <1>13 DEF HandleAction, Waiting, BufferTypeOK
  <2>3. ClientTypeOK'
    BY <1>13 DEF HandleAction, Waiting, ClientTypeOK
  <2> QED
    BY <1>13, <2>1, <2>2, <2>3 DEF HandleAction, seatVars, connVars, tableVars, clientVars, SeatTypeOK, BufferTypeOK, ConnTypeOK, TableTypeOK, ClientTypeOK
<1>14. CASE StartHand
  <2>1. TableTypeOK'
    BY <1>14 DEF StartHand, TableTypeOK, TableSteps
  <2> QED
    BY <1>14, <2>1 DEF StartHand, seatVars, connVars, tableVars, clientVars, SeatTypeOK, BufferTypeOK, ConnTypeOK, TableTypeOK, ClientTypeOK
<1>15. CASE Decide
  <2>1. SeatTypeOK'
    BY <1>15 DEF Decide, SeatTypeOK, Settled
  <2>2. BufferTypeOK'
    BY <1>15 DEF Decide, BufferTypeOK
  <2>3. TableTypeOK'
    BY <1>15 DEF Decide, TableTypeOK, TableSteps
  <2>4. ClientTypeOK'
    BY <1>15, SeatAssumption DEF Decide, Show, ClientTypeOK
  <2> QED
    BY <1>15, <2>1, <2>2, <2>3, <2>4 DEF Decide, seatVars, connVars, tableVars, clientVars, SeatTypeOK, BufferTypeOK, ConnTypeOK, TableTypeOK, ClientTypeOK
<1>16. CASE DecideReturns
  <2>1. SeatTypeOK'
    BY <1>16 DEF DecideReturns, SeatTypeOK, Settled
  <2>2. BufferTypeOK'
    BY <1>16 DEF DecideReturns, BufferTypeOK
  <2>3. TableTypeOK'
    BY <1>16 DEF DecideReturns, TableTypeOK, TableSteps
  <2> QED
    BY <1>16, <2>1, <2>2, <2>3 DEF DecideReturns, seatVars, connVars, tableVars, clientVars, SeatTypeOK, BufferTypeOK, ConnTypeOK, TableTypeOK, ClientTypeOK
<1>17. CASE BeginNextHand
  <2>1. SeatTypeOK'
    BY <1>17 DEF BeginNextHand, Resolve, Deliver, Waiting, SeatTypeOK, Settled
  <2>2. BufferTypeOK'
    BY <1>17, EmptySeq DEF BeginNextHand, Resolve, Deliver, Waiting, BufferTypeOK
  <2>3. TableTypeOK'
    <3>1. hand' \in 1 .. MaxHands /\ prompts' \in 0 .. MaxPrompts
      BY <1>17 DEF BeginNextHand, TableTypeOK
    <3>2. ended' \in BOOLEAN /\ replaced' \in BOOLEAN
      BY <1>17 DEF BeginNextHand
    <3> QED
      BY <1>17, <3>1, <3>2 DEF BeginNextHand, TableTypeOK, TableSteps
  <2>4. ClientTypeOK'
    BY <1>17 DEF BeginNextHand, Resolve, Deliver, Waiting, ClientTypeOK
  <2> QED
    BY <1>17, <2>1, <2>2, <2>3, <2>4 DEF BeginNextHand, seatVars, connVars, tableVars, clientVars, SeatTypeOK, BufferTypeOK, ConnTypeOK, TableTypeOK, ClientTypeOK
<1>18. CASE BeginNextHandAttached
  <2>1. TableTypeOK'
    BY <1>18 DEF BeginNextHandAttached, Deliver, TableTypeOK, TableSteps
  <2>2. ClientTypeOK'
    BY <1>18 DEF BeginNextHandAttached, Deliver, ClientTypeOK
  <2> QED
    BY <1>18, <2>1, <2>2 DEF BeginNextHandAttached, seatVars, connVars, tableVars, clientVars, SeatTypeOK, BufferTypeOK, ConnTypeOK, TableTypeOK, ClientTypeOK
<1>19. CASE ShutdownClose
  <2>1. ConnTypeOK'
    BY <1>19 DEF ShutdownClose, ConnTypeOK, Pcs, connVars
  <2>2. TableTypeOK'
    BY <1>19 DEF ShutdownClose, TableTypeOK, TableSteps
  <2> QED
    BY <1>19, <2>1, <2>2 DEF ShutdownClose, seatVars, connVars, tableVars, clientVars, SeatTypeOK, BufferTypeOK, ConnTypeOK, TableTypeOK, ClientTypeOK
<1>20. CASE ShutdownRelease
  <2>1. SeatTypeOK'
    BY <1>20 DEF ShutdownRelease, Resolve, TeardownToUnbound, Waiting, SeatTypeOK, Settled
  <2>2. BufferTypeOK'
    BY <1>20, EmptySeq DEF ShutdownRelease, Resolve, TeardownToUnbound, Waiting, BufferTypeOK
  <2>3. TableTypeOK'
    BY <1>20 DEF ShutdownRelease, Resolve, TeardownToUnbound, Waiting, TableTypeOK, TableSteps
  <2>4. ClientTypeOK'
    BY <1>20 DEF ShutdownRelease, TeardownToUnbound, Displaced, SeatTypeOK, ClientTypeOK
  <2> QED
    BY <1>20, <2>1, <2>2, <2>3, <2>4 DEF ShutdownRelease, seatVars, connVars, tableVars, clientVars, SeatTypeOK, BufferTypeOK, ConnTypeOK, TableTypeOK, ClientTypeOK
<1>21. CASE ShutdownCancelled
  <2>1. TableTypeOK'
    BY <1>21 DEF ShutdownCancelled, TableTypeOK, TableSteps
  <2> QED
    BY <1>21, <2>1 DEF ShutdownCancelled, seatVars, connVars, tableVars, clientVars, SeatTypeOK, BufferTypeOK, ConnTypeOK, TableTypeOK, ClientTypeOK
<1>22. CASE HoldExpires
  <2>1. SeatTypeOK'
    BY <1>22 DEF HoldExpires, Resolve, TeardownToUnbound, Waiting, SeatTypeOK, Settled
  <2>2. BufferTypeOK'
    <3>1. CASE state = "HELD"
      BY <1>22, <3>1, EmptySeq DEF HoldExpires, TeardownToUnbound, BufferTypeOK
    <3>2. CASE state # "HELD"
      BY <1>22, <3>2 DEF HoldExpires, BufferTypeOK
    <3> QED
      BY <3>1, <3>2
  <2>3. ClientTypeOK'
    BY <1>22 DEF HoldExpires, Resolve, TeardownToUnbound, Waiting, ClientTypeOK
  <2> QED
    BY <1>22, <2>1, <2>2, <2>3 DEF HoldExpires, seatVars, connVars, tableVars, clientVars, SeatTypeOK, BufferTypeOK, ConnTypeOK, TableTypeOK, ClientTypeOK
<1>23. CASE PromptDeadline
  <2>1. SeatTypeOK'
    BY <1>23 DEF PromptDeadline, Waiting, SeatTypeOK, Settled
  <2>2. BufferTypeOK'
    BY <1>23 DEF PromptDeadline, Waiting, BufferTypeOK
  <2> QED
    BY <1>23, <2>1, <2>2 DEF PromptDeadline, seatVars, connVars, tableVars, clientVars, SeatTypeOK, BufferTypeOK, ConnTypeOK, TableTypeOK, ClientTypeOK
<1>24. CASE DecideTimesOut
  <2>1. SeatTypeOK'
    BY <1>24 DEF DecideTimesOut, SeatTypeOK, Settled
  <2>2. BufferTypeOK'
    BY <1>24 DEF DecideTimesOut, BufferTypeOK
  <2> QED
    BY <1>24, <2>1, <2>2 DEF DecideTimesOut, seatVars, connVars, tableVars, clientVars, SeatTypeOK, BufferTypeOK, ConnTypeOK, TableTypeOK, ClientTypeOK
<1>25. ASSUME NEW kind \in {"EVENT", "HAND_END"}, Observe(kind) PROVE TypeOK'
  <2>1. SeatTypeOK'
    BY <1>25 DEF Observe, SeatTypeOK, Settled
  <2>2. BufferTypeOK'
    BY <1>25, AppendBufferLemma DEF Observe, BufferTypeOK
  <2>3. TableTypeOK'
    BY <1>25 DEF Observe, TableTypeOK, TableSteps
  <2>4. ClientTypeOK'
    BY <1>25 DEF Observe, SeatTypeOK, ClientTypeOK
  <2> QED
    BY <1>25, <2>1, <2>2, <2>3, <2>4 DEF Observe, seatVars, connVars, tableVars, clientVars, SeatTypeOK, BufferTypeOK, ConnTypeOK, TableTypeOK, ClientTypeOK
<1>26. ASSUME NEW why \in Reasons, Shutdown(why) PROVE TypeOK'
  <2>1. SeatTypeOK'
    BY <1>26 DEF Shutdown, Deliver, SeatTypeOK, Settled
  <2>2. BufferTypeOK'
    BY <1>26 DEF Shutdown, Deliver, BufferTypeOK
  <2>3. TableTypeOK'
    <3>1. dying' \in Conns \cup {NoConn} /\ table' \in TableSteps
      BY <1>26 DEF Shutdown, SeatTypeOK, TableTypeOK, TableSteps
    <3>2. replaced' \in BOOLEAN
      BY <1>26 DEF Shutdown
    <3> QED
      BY <1>26, <3>1, <3>2 DEF Shutdown, TableTypeOK
  <2>4. ClientTypeOK'
    BY <1>26 DEF Shutdown, Deliver, ClientTypeOK
  <2> QED
    BY <1>26, <2>1, <2>2, <2>3, <2>4 DEF Shutdown, seatVars, connVars, tableVars, clientVars, SeatTypeOK, BufferTypeOK, ConnTypeOK, TableTypeOK, ClientTypeOK
<1>27. CASE UNCHANGED vars
  BY <1>27 DEF vars, seatVars, connVars, tableVars, clientVars, SeatTypeOK, BufferTypeOK, ConnTypeOK, TableTypeOK, ClientTypeOK
<1> QED
  BY <1>1, <1>2, <1>3, <1>4, <1>5, <1>6, <1>7, <1>8, <1>9, <1>10, <1>11, <1>12, <1>13, <1>14, <1>15, <1>16, <1>17, <1>18, <1>19, <1>20, <1>21, <1>22, <1>23, <1>24, <1>25, <1>26, <1>27 DEF Next, ConnNext, TableNext
-----------------------------------------------------------------------------
(* The inductive invariant.                                                *)

LEMMA SeatInvStep == TypeOK /\ SeatInv /\ [Next]_vars => SeatInv'
<1> SUFFICES ASSUME TypeOK, SeatInv, [Next]_vars PROVE SeatInv'
  OBVIOUS
<1> USE SeatAssumption DEF TypeOK, SeatTypeOK, ConnTypeOK, SeatInv, FieldsMatchState, NoOrphanPrompt, Awaited, EndedFirst, OwedWhileReplaying, BufferedEndKept
<1>1. ASSUME NEW c \in Conns, AttachRejected(c) PROVE SeatInv'
  BY <1>1 DEF AttachRejected, seatVars, tableVars, clientVars
<1>2. ASSUME NEW c \in Conns, AttachFromUnbound(c) PROVE SeatInv'
  BY <1>2 DEF AttachFromUnbound, tableVars
<1>3. ASSUME NEW c \in Conns, Takeover(c) PROVE SeatInv'
  BY <1>3 DEF Takeover, seatVars, tableVars
<1>4. ASSUME NEW c \in Conns, TakeoverCloseOld(c) PROVE SeatInv'
  BY <1>4 DEF TakeoverCloseOld, seatVars, tableVars, clientVars
<1>5. ASSUME NEW c \in Conns, TakeoverInstall(c) PROVE SeatInv'
  BY <1>5 DEF TakeoverInstall, tableVars
<1>6. ASSUME NEW c \in Conns, Resume(c) PROVE SeatInv'
  <2>1. (FieldsMatchState /\ NoOrphanPrompt /\ Awaited /\ EndedFirst /\ OwedWhileReplaying)'
    BY <1>6, EmptySeq DEF Resume, tableVars
  <2>2. SUFFICES ASSUME endFate' = "buffered" PROVE \E d \in Conns : replay'[d]
    BY <2>1
  <2>3. CASE \E i \in DOMAIN buf : buf[i] = "HAND_END"
    BY <1>6, <2>3 DEF Resume
  <2>4. CASE \E d \in Conns : replay[d] /\ d # c
    BY <1>6, <2>4 DEF Resume
  <2>5. ~replay[c]
    BY <1>6 DEF Resume
  <2> QED
    BY <1>6, <2>2, <2>3, <2>4, <2>5 DEF Resume
<1>7. ASSUME NEW c \in Conns, ResumeReplay(c) PROVE SeatInv'
  BY <1>7 DEF ResumeReplay, seatVars, tableVars
<1>8. ASSUME NEW c \in Conns, ResumeReprompt(c) PROVE SeatInv'
  BY <1>8 DEF ResumeReprompt, Waiting, seatVars, tableVars
<1>9. ASSUME NEW c \in Conns, GracefulDetach(c) PROVE SeatInv'
  BY <1>9 DEF GracefulDetach, seatVars, tableVars
<1>10. ASSUME NEW c \in Conns, GracefulDetachRelease(c) PROVE SeatInv'
  BY <1>10 DEF GracefulDetachRelease, Resolve, TeardownToUnbound, Waiting, tableVars
<1>11. ASSUME NEW c \in Conns, SocketCloses(c) PROVE SeatInv'
  BY <1>11 DEF SocketCloses, seatVars, tableVars, clientVars
<1>12. ASSUME NEW c \in Conns, SocketDropped(c) PROVE SeatInv'
  BY <1>12 DEF SocketDropped, tableVars, clientVars
<1>13. ASSUME NEW c \in Conns, HandleAction(c) PROVE SeatInv'
  BY <1>13 DEF HandleAction, Waiting, connVars, tableVars
<1>14. CASE StartHand
  BY <1>14 DEF StartHand, seatVars, connVars, clientVars
<1>15. CASE Decide
  BY <1>15 DEF Decide, connVars
<1>16. CASE DecideReturns
  BY <1>16 DEF DecideReturns, connVars, clientVars
<1>17. CASE BeginNextHand
  BY <1>17 DEF BeginNextHand, Resolve, Waiting, connVars
<1>18. CASE BeginNextHandAttached
  BY <1>18 DEF BeginNextHandAttached, seatVars, connVars
<1>19. CASE ShutdownClose
  BY <1>19 DEF ShutdownClose, seatVars, clientVars
<1>20. CASE ShutdownRelease
  BY <1>20 DEF ShutdownRelease, Resolve, TeardownToUnbound, Waiting, connVars
<1>21. CASE ShutdownCancelled
  BY <1>21 DEF ShutdownCancelled, seatVars, connVars, clientVars
<1>22. CASE HoldExpires
  BY <1>22 DEF HoldExpires, Resolve, TeardownToUnbound, Waiting, connVars, tableVars
<1>23. CASE PromptDeadline
  BY <1>23 DEF PromptDeadline, Waiting, connVars, tableVars, clientVars
<1>24. CASE DecideTimesOut
  BY <1>24 DEF DecideTimesOut, connVars, tableVars, clientVars
<1>25. ASSUME NEW kind \in {"EVENT", "HAND_END"}, Observe(kind) PROVE SeatInv'
  <2>1. (FieldsMatchState /\ NoOrphanPrompt /\ Awaited /\ EndedFirst /\ OwedWhileReplaying)'
    <3>1. (FieldsMatchState /\ NoOrphanPrompt /\ Awaited /\ OwedWhileReplaying)'
      BY <1>25 DEF Observe, connVars
    <3>2. CASE kind = "EVENT"
      BY <1>25, <3>1, <3>2 DEF Observe
    <3>3. CASE kind = "HAND_END"
      BY <1>25, <3>1, <3>3 DEF Observe
    <3> QED
      BY <3>2, <3>3
  <2>2. CASE state = "HELD"
    <3>1. \E i \in DOMAIN buf' : buf'[i] = kind
      BY <1>25, <2>2, AppendBufferLemma DEF Observe, BufferTypeOK
    <3> QED
      BY <1>25, <2>1, <2>2, <3>1 DEF Observe, connVars
  <2>3. CASE state # "HELD"
    BY <1>25, <2>1, <2>3 DEF Observe, connVars
  <2> QED
    BY <2>2, <2>3
<1>26. ASSUME NEW why \in Reasons, Shutdown(why) PROVE SeatInv'
  BY <1>26 DEF Shutdown, MayShutdown, connVars
<1>27. CASE UNCHANGED vars
  BY <1>27 DEF vars, seatVars, connVars, tableVars, clientVars
<1> QED
  BY <1>1, <1>2, <1>3, <1>4, <1>5, <1>6, <1>7, <1>8, <1>9, <1>10, <1>11, <1>12, <1>13, <1>14, <1>15, <1>16, <1>17, <1>18, <1>19, <1>20, <1>21, <1>22, <1>23, <1>24, <1>25, <1>26, <1>27 DEF Next, ConnNext, TableNext

-----------------------------------------------------------------------------
(* The theorems for every choice of Suspends.                        *)

LEMMA InitInv == Init => TypeOK /\ SeatInv
<1> SUFFICES ASSUME Init PROVE TypeOK /\ SeatInv
  OBVIOUS
<1> USE SeatAssumption DEF Init
<1>1. SeatTypeOK
  BY DEF SeatTypeOK
<1>2. BufferTypeOK
  BY EmptySeq DEF BufferTypeOK
<1>3. ConnTypeOK
  BY DEF ConnTypeOK, Pcs
<1>4. TableTypeOK
  <2>1. hand \in 1 .. MaxHands /\ prompts \in 0 .. MaxPrompts
    OBVIOUS
  <2> QED
    BY <2>1 DEF TableTypeOK, TableSteps
<1>5. ClientTypeOK
  BY DEF ClientTypeOK
<1>6. SeatInv
  BY DEF SeatInv, FieldsMatchState, NoOrphanPrompt, Awaited, EndedFirst,
         OwedWhileReplaying, BufferedEndKept
<1> QED
  BY <1>1, <1>2, <1>3, <1>4, <1>5, <1>6 DEF TypeOK

\* Every variable keeps to its type.
THEOREM TypeCorrect == Spec => []TypeOK
<1>1. Init => TypeOK
  BY InitInv
<1>2. TypeOK /\ [Next]_vars => TypeOK'
  BY TypeStep
<1> QED
  BY <1>1, <1>2, PTL DEF Spec

LEMMA SeatInvariant == Spec => []SeatInv
<1>1. Init => SeatInv
  BY InitInv
<1>2. TypeOK /\ SeatInv /\ [Next]_vars => SeatInv'
  BY SeatInvStep
<1> QED
  BY <1>1, <1>2, TypeCorrect, PTL DEF Spec

\* The asserts on the sink never fail while the seat is LIVE, and neither a
\* hold timer nor a buffer outlives the HELD state it belongs to.
THEOREM FieldsTheorem == Spec => []FieldsMatchState
<1>1. SeatInv => FieldsMatchState
  BY DEF SeatInv
<1> QED
  BY <1>1, SeatInvariant, PTL

\* A prompt the hand task waits for is always within reach of its timer.
THEOREM NoOrphanTheorem == Spec => []NoOrphanPrompt
<1>1. SeatInv => NoOrphanPrompt
  BY DEF SeatInv
<1> QED
  BY <1>1, SeatInvariant, PTL

\* A buffered HAND_END survives every event, drop and overflow until it is due.
THEOREM BufferedEndTheorem == Spec => []BufferedEndKept
<1>1. SeatInv => BufferedEndKept
  BY DEF SeatInv
<1> QED
  BY <1>1, SeatInvariant, PTL

-----------------------------------------------------------------------------
(* What ends a hold.                                                       *)

\* A HELD seat whose hold timer is not armed: nothing on the server's side will
\* ever release it.
Untimed == state = "HELD" /\ ~hold

\* A seat is HELD without its hold timer only from a begin_next_hand on, and so
\* never in the first hand of a table.
HoldIsTimed ==
    /\ [][Untimed' => Untimed \/ hand' = hand + 1]_vars
    /\ [](Untimed => hand > 1)

LEMMA HoldStep ==
  TypeOK /\ SeatInv /\ [Next]_vars => (Untimed' => Untimed \/ hand' = hand + 1)
<1> SUFFICES ASSUME TypeOK, SeatInv, [Next]_vars, Untimed'
             PROVE  Untimed \/ hand' = hand + 1
  OBVIOUS
<1> USE DEF Untimed
<1>1. ASSUME NEW c \in Conns, ConnNext(c) PROVE Untimed
  BY <1>1 DEF ConnNext, AttachRejected, AttachFromUnbound, Takeover, TakeoverCloseOld,
              TakeoverInstall, Resume, ResumeReplay, ResumeReprompt, GracefulDetach,
              GracefulDetachRelease, TeardownToUnbound, SocketCloses, SocketDropped,
              HandleAction, seatVars
<1>2. CASE TableNext
  <2>1. CASE BeginNextHand
    BY <2>1 DEF BeginNextHand
  <2>2. CASE ShutdownRelease
    BY <2>2 DEF ShutdownRelease, TeardownToUnbound
  <2>3. CASE StartHand \/ Decide \/ DecideReturns \/ BeginNextHandAttached
             \/ ShutdownClose \/ ShutdownCancelled
    BY <2>3 DEF StartHand, Decide, DecideReturns, BeginNextHandAttached,
                ShutdownClose, ShutdownCancelled, seatVars
  <2>4. ASSUME NEW kind \in {"EVENT", "HAND_END"}, Observe(kind) PROVE Untimed
    BY <2>4 DEF Observe
  <2>5. ASSUME NEW why \in Reasons, Shutdown(why) PROVE Untimed
    BY <2>5 DEF Shutdown
  <2> QED
    BY <1>2, <2>1, <2>2, <2>3, <2>4, <2>5 DEF TableNext
<1>3. CASE HoldExpires
  BY <1>3 DEF HoldExpires, TeardownToUnbound
<1>4. CASE PromptDeadline \/ DecideTimesOut
  BY <1>4 DEF PromptDeadline, DecideTimesOut
<1>5. CASE UNCHANGED vars
  BY <1>5 DEF vars, seatVars
<1> QED
  BY <1>1, <1>2, <1>3, <1>4, <1>5 DEF Next

\* The hand counter never goes back.
LEMMA HandStep == TypeOK /\ [Next]_vars => hand' \in {hand, hand + 1}
<1> SUFFICES ASSUME TypeOK, [Next]_vars PROVE hand' \in {hand, hand + 1}
  OBVIOUS
<1>1. ASSUME NEW c \in Conns, ConnNext(c) PROVE hand' = hand
  BY <1>1 DEF ConnNext, AttachRejected, AttachFromUnbound, Takeover, TakeoverCloseOld,
              TakeoverInstall, Resume, ResumeReplay, ResumeReprompt, GracefulDetach,
              GracefulDetachRelease, SocketCloses, SocketDropped, HandleAction, tableVars
<1>2. CASE TableNext
  BY <1>2 DEF TableNext, StartHand, Decide, DecideReturns, Observe, BeginNextHand,
              BeginNextHandAttached, Shutdown, ShutdownClose, ShutdownRelease,
              ShutdownCancelled
<1>3. CASE HoldExpires \/ PromptDeadline \/ DecideTimesOut
  BY <1>3 DEF HoldExpires, PromptDeadline, DecideTimesOut, tableVars
<1>4. CASE UNCHANGED vars
  BY <1>4 DEF vars, tableVars
<1> QED
  BY <1>1, <1>2, <1>3, <1>4 DEF Next

\* A drop arms the timer and only a resume, a release or begin_next_hand takes it
\* away again, under every interleaving of the awaits: a takeover that installs
\* its sink in a seat that went HELD meanwhile leaves the timer running.
THEOREM HoldTheorem == Spec => HoldIsTimed
<1>1. Init => (Untimed => hand > 1)
  BY DEF Init, Untimed
<1>2. TypeOK /\ (Untimed => hand > 1) /\ SeatInv /\ [Next]_vars
        => (Untimed => hand > 1)'
  <2> SUFFICES ASSUME TypeOK, Untimed => hand > 1, SeatInv, [Next]_vars, Untimed'
               PROVE  hand' > 1
    OBVIOUS
  <2>1. hand \in Nat \ {0}
    BY SeatAssumption DEF TypeOK, TableTypeOK
  <2> QED
    BY <2>1, HoldStep, HandStep
<1>3. TypeOK /\ SeatInv /\ [Next]_vars => [Untimed' => Untimed \/ hand' = hand + 1]_vars
  BY HoldStep
<1> QED
  BY <1>1, <1>2, <1>3, TypeCorrect, SeatInvariant, PTL DEF Spec, HoldIsTimed

-----------------------------------------------------------------------------
(* What one step can do to the owner, the prompt and its answer.           *)

Seated == UNCHANGED <<out, astray>>           \* the sink stays what it is
Binds == \E c \in Conns :
    /\ user = NoUser /\ user' = Owner[c] /\ out' = c /\ c \notin astray'
    /\ UNCHANGED <<fut, answer>>
Releases ==
    /\ user' = NoUser /\ out' = NoConn /\ UNCHANGED answer
    /\ \/ fut # "waiting" /\ fut' = fut
       \/ fut = "waiting" /\ fut' \in {"default", "expired"}
Asks ==
    /\ fut = "none" /\ fut' = "waiting" /\ answer' = NoConn
    /\ UNCHANGED user /\ Seated
Answers == \E c \in Conns :
    /\ fut = "waiting" /\ fut' = "action" /\ answer' = c /\ out = c
    /\ shown[Owner[c]] = "current" /\ UNCHANGED user /\ Seated
Lapses ==
    /\ fut = "waiting" /\ fut' \in {"default", "expired", "cancelled"}
    /\ UNCHANGED <<user, answer>> /\ Seated
Collects == fut # "none" /\ fut' = "none" /\ UNCHANGED <<user, answer>> /\ Seated
SeatStep ==
    \/ UNCHANGED <<user, fut, answer>>
    \/ Binds \/ Releases \/ Asks \/ Answers \/ Lapses \/ Collects

LEMMA StepKinds == TypeOK /\ SeatInv /\ [Next]_vars => SeatStep
<1> SUFFICES ASSUME TypeOK, SeatInv, [Next]_vars PROVE SeatStep
  OBVIOUS
<1> USE SeatAssumption DEF SeatStep, Seated
<1>1. ASSUME NEW c \in Conns, AttachRejected(c) PROVE SeatStep
  BY <1>1 DEF AttachRejected, seatVars, clientVars
<1>2. ASSUME NEW c \in Conns, AttachFromUnbound(c) PROVE SeatStep
  BY <1>2 DEF AttachFromUnbound, Binds, SeatInv, FieldsMatchState
<1>3. ASSUME NEW c \in Conns, Takeover(c) PROVE SeatStep
  BY <1>3 DEF Takeover, seatVars
<1>4. ASSUME NEW c \in Conns, TakeoverCloseOld(c) PROVE SeatStep
  BY <1>4 DEF TakeoverCloseOld, seatVars, clientVars
<1>5. ASSUME NEW c \in Conns, TakeoverInstall(c) PROVE SeatStep
  BY <1>5 DEF TakeoverInstall
<1>6. ASSUME NEW c \in Conns, Resume(c) PROVE SeatStep
  BY <1>6 DEF Resume
<1>7. ASSUME NEW c \in Conns, ResumeReplay(c) PROVE SeatStep
  BY <1>7 DEF ResumeReplay, seatVars
<1>8. ASSUME NEW c \in Conns, ResumeReprompt(c) PROVE SeatStep
  BY <1>8 DEF ResumeReprompt, Waiting, seatVars
<1>9. ASSUME NEW c \in Conns, GracefulDetach(c) PROVE SeatStep
  BY <1>9 DEF GracefulDetach, seatVars
<1>10. ASSUME NEW c \in Conns, GracefulDetachRelease(c) PROVE SeatStep
  BY <1>10 DEF GracefulDetachRelease, Resolve, TeardownToUnbound, Waiting, Releases, SeatInv, NoOrphanPrompt
<1>11. ASSUME NEW c \in Conns, SocketCloses(c) PROVE SeatStep
  BY <1>11 DEF SocketCloses, seatVars, clientVars
<1>12. ASSUME NEW c \in Conns, SocketDropped(c) PROVE SeatStep
  BY <1>12 DEF SocketDropped, clientVars
<1>13. ASSUME NEW c \in Conns, HandleAction(c) PROVE SeatStep
  BY <1>13 DEF HandleAction, Waiting, Answers
<1>14. CASE StartHand
  BY <1>14 DEF StartHand, seatVars, clientVars
<1>15. CASE Decide
  BY <1>15 DEF Decide, Asks, SeatInv, Awaited
<1>16. CASE DecideReturns
  BY <1>16 DEF DecideReturns, clientVars, Collects, SeatInv, Awaited
<1>17. CASE BeginNextHand
  BY <1>17 DEF BeginNextHand, Resolve, Waiting, Lapses
<1>18. CASE BeginNextHandAttached
  BY <1>18 DEF BeginNextHandAttached, seatVars
<1>19. CASE ShutdownClose
  BY <1>19 DEF ShutdownClose, seatVars, clientVars
<1>20. CASE ShutdownRelease
  BY <1>20 DEF ShutdownRelease, Resolve, TeardownToUnbound, Waiting, Releases, SeatInv, NoOrphanPrompt
<1>21. CASE ShutdownCancelled
  BY <1>21 DEF ShutdownCancelled, seatVars, clientVars
<1>22. CASE HoldExpires
  BY <1>22 DEF HoldExpires, Resolve, TeardownToUnbound, Waiting, Releases, SeatInv, NoOrphanPrompt
<1>23. CASE PromptDeadline
  BY <1>23 DEF PromptDeadline, Waiting, clientVars, Lapses
<1>24. CASE DecideTimesOut
  BY <1>24 DEF DecideTimesOut, clientVars, Lapses
<1>25. ASSUME NEW kind \in {"EVENT", "HAND_END"}, Observe(kind) PROVE SeatStep
  BY <1>25 DEF Observe
<1>26. ASSUME NEW why \in Reasons, Shutdown(why) PROVE SeatStep
  BY <1>26 DEF Shutdown, Collects, SeatInv, Awaited
<1>27. CASE UNCHANGED vars
  BY <1>27 DEF vars, seatVars, clientVars
<1> QED
  BY <1>1, <1>2, <1>3, <1>4, <1>5, <1>6, <1>7, <1>8, <1>9, <1>10, <1>11, <1>12, <1>13, <1>14, <1>15, <1>16, <1>17, <1>18, <1>19, <1>20, <1>21, <1>22, <1>23, <1>24, <1>25, <1>26, <1>27 DEF Next, ConnNext, TableNext

\* Once a prompt is resolved nothing else resolves it.
THEOREM FirstResolutionTheorem == Spec => FirstResolutionWins
<1>1. TypeOK /\ SeatInv /\ [Next]_vars
        => [(fut \in Settled) => (fut' \in {fut, "none"})]_vars
  BY StepKinds DEF SeatStep, Binds, Releases, Asks, Answers, Lapses, Collects, Settled
<1> QED
  BY <1>1, TypeCorrect, SeatInvariant, PTL DEF Spec, FirstResolutionWins

\* No step hands a seat from one account to another.
THEOREM HandoverTheorem == Spec => NoDirectHandover
<1>1. TypeOK /\ SeatInv /\ [Next]_vars
        => [(user # NoUser) => (user' \in {user, NoUser})]_vars
  BY StepKinds DEF SeatStep, Binds, Releases, Asks, Answers, Lapses, Collects
<1> QED
  BY <1>1, TypeCorrect, SeatInvariant, PTL DEF Spec, NoDirectHandover

-----------------------------------------------------------------------------
(***************************************************************************)
(* Who holds the sink of the seat.  Only a takeover whose check no longer  *)
(* holds after its await puts a sink in a seat that is not its account's,  *)
(* and it is astray from then on.                                          *)
(***************************************************************************)
LEMMA SinkStep == TypeOK /\ SeatInv /\ SinkIsOwners /\ [Next]_vars => SinkIsOwners'
<1> SUFFICES ASSUME TypeOK, SeatInv, SinkIsOwners, [Next]_vars PROVE SinkIsOwners'
  OBVIOUS
<1> USE SeatAssumption DEF SinkIsOwners
<1>1. ASSUME NEW c \in Conns, ConnNext(c) PROVE SinkIsOwners'
  <2>1. CASE AttachFromUnbound(c)
    BY <2>1 DEF AttachFromUnbound
  <2>2. CASE TakeoverInstall(c)
    BY <2>2 DEF TakeoverInstall, MayTakeOver
  <2>3. CASE Resume(c)
    BY <2>3 DEF Resume
  <2>4. CASE GracefulDetachRelease(c)
    BY <2>4 DEF GracefulDetachRelease, TeardownToUnbound
  <2>5. CASE SocketDropped(c)
    BY <2>5 DEF SocketDropped
  <2>6. CASE \/ AttachRejected(c) \/ Takeover(c) \/ TakeoverCloseOld(c) \/ ResumeReplay(c)
             \/ ResumeReprompt(c) \/ GracefulDetach(c) \/ SocketCloses(c) \/ HandleAction(c)
    BY <2>6 DEF AttachRejected, Takeover, TakeoverCloseOld, ResumeReplay, ResumeReprompt,
                GracefulDetach, SocketCloses, HandleAction, seatVars
  <2> QED
    BY <1>1, <2>1, <2>2, <2>3, <2>4, <2>5, <2>6 DEF ConnNext
<1>2. CASE TableNext
  <2>1. CASE ShutdownRelease
    BY <2>1 DEF ShutdownRelease, TeardownToUnbound
  <2>2. CASE \/ StartHand \/ Decide \/ DecideReturns \/ BeginNextHand \/ BeginNextHandAttached
             \/ ShutdownClose \/ ShutdownCancelled
    BY <2>2 DEF StartHand, Decide, DecideReturns, BeginNextHand, BeginNextHandAttached,
                ShutdownClose, ShutdownCancelled, seatVars
  <2>3. ASSUME NEW kind \in {"EVENT", "HAND_END"}, Observe(kind) PROVE SinkIsOwners'
    BY <2>3 DEF Observe
  <2>4. ASSUME NEW why \in Reasons, Shutdown(why) PROVE SinkIsOwners'
    BY <2>4 DEF Shutdown
  <2> QED
    BY <1>2, <2>1, <2>2, <2>3, <2>4 DEF TableNext
<1>3. CASE HoldExpires
  BY <1>3 DEF HoldExpires, TeardownToUnbound
<1>4. CASE PromptDeadline \/ DecideTimesOut
  BY <1>4 DEF PromptDeadline, DecideTimesOut
<1>5. CASE UNCHANGED vars
  BY <1>5 DEF vars, seatVars
<1> QED
  BY <1>1, <1>2, <1>3, <1>4, <1>5 DEF Next

\* Under every interleaving of the awaits the sink is a connection of the account
\* that holds the LIVE seat, or one that an overtaken takeover put there.
THEOREM SinkTheorem == Spec => []SinkIsOwners
<1>1. Init => SinkIsOwners
  BY DEF Init, SinkIsOwners
<1>2. TypeOK /\ SeatInv /\ SinkIsOwners /\ [Next]_vars => SinkIsOwners'
  BY SinkStep
<1> QED
  BY <1>1, <1>2, TypeCorrect, SeatInvariant, PTL DEF Spec

\* Only the sink of the seat, for a prompt its account is shown, answers it; and
\* unless that sink is astray, its account holds the seat at that moment.
THEOREM AnswerTheorem == Spec => AnsweredByOwner
<1>1. TypeOK /\ SeatInv /\ SinkIsOwners /\ [Next]_vars
        => [(fut' = "action" /\ fut # "action") =>
              /\ out = answer' /\ shown[Owner[out]] = "current"
              /\ out \notin astray => state = "LIVE" /\ user = Owner[out]]_vars
  <2> SUFFICES ASSUME TypeOK, SeatInv, SinkIsOwners, [Next]_vars,
                      fut' = "action", fut # "action"
               PROVE  /\ out = answer' /\ shown[Owner[out]] = "current"
                      /\ out \notin astray => state = "LIVE" /\ user = Owner[out]
    OBVIOUS
  <2>1. Answers
    BY StepKinds DEF SeatStep, Binds, Releases, Asks, Lapses, Collects
  <2>2. PICK c \in Conns : answer' = c /\ out = c /\ shown[Owner[c]] = "current"
    BY <2>1 DEF Answers
  <2> QED
    BY <2>2, SeatAssumption DEF SinkIsOwners
<1> QED
  BY <1>1, TypeCorrect, SeatInvariant, SinkTheorem, PTL DEF Spec, AnsweredByOwner

-----------------------------------------------------------------------------
(* The seat implements its contract.                                       *)

Guest == IF out \in astray THEN Owner[out] ELSE NoUser

LEMMA ContractInit == Init => Contract!Init
BY DEF Init, Contract!Init, Question

LEMMA ContractStep ==
    ASSUME TypeOK, SeatInv, SinkIsOwners, [Next]_vars
    PROVE  [Contract!Next]_(Contract!vars)
<1> USE SeatAssumption DEF Contract!Next, Contract!vars, Question
<1>1. astray \subseteq Conns /\ astray' \subseteq Conns
  BY TypeStep DEF TypeOK, ClientTypeOK
<1>2. CASE UNCHANGED <<user, fut, answer>>
  BY <1>1, <1>2 DEF Contract!Intrude
<1>3. CASE Binds
  BY <1>1, <1>3 DEF Binds, Contract!Bind
<1>4. CASE Releases
  <2>1. NoConn \notin astray'
    BY <1>1
  <2> QED
    BY <1>4, <2>1 DEF Releases, Contract!Release, TypeOK, SeatTypeOK, Settled
<1>5. CASE Asks
  BY <1>5 DEF Asks, Seated, Contract!Ask
<1>6. CASE Answers
  <2>1. PICK c \in Conns : answer' = c /\ out = c
    BY <1>6 DEF Answers
  <2>2. c \notin astray => user = Owner[c]
    BY <2>1 DEF SinkIsOwners
  <2>3. Owner[c] \in Users /\ Owner[c] # NoUser
    OBVIOUS
  <2> QED
    BY <1>6, <2>1, <2>2, <2>3 DEF Answers, Seated, Contract!Answer
<1>7. CASE Lapses
  BY <1>7 DEF Lapses, Seated, Contract!Lapse
<1>8. CASE Collects
  BY <1>8 DEF Collects, Seated, Contract!Collect, TypeOK, SeatTypeOK, Settled
<1> QED
  BY <1>2, <1>3, <1>4, <1>5, <1>6, <1>7, <1>8, StepKinds DEF SeatStep

\* Whatever sockets, timers and the hand loop do, the hand task and the players
\* see the contract: one owner at a time, and each question settled once, by a
\* default, a failure or an answer, which is the owner's or a guest's.
THEOREM ContractTheorem == Spec => ImplementsContract
<1>1. Init => Contract!Init
  BY ContractInit
<1>2. TypeOK /\ SeatInv /\ SinkIsOwners /\ [Next]_vars => [Contract!Next]_(Contract!vars)
  BY ContractStep
<1> QED
  BY <1>1, <1>2, TypeCorrect, SeatInvariant, SinkTheorem, PTL
     DEF Spec, ImplementsContract, Contract!Spec

-----------------------------------------------------------------------------
(***************************************************************************)
(* What the clients were told.                                             *)
(***************************************************************************)
InSeat(c) == conn[c] \in {"replaying", "reprompting", "seated"}
Attached(c) == c \notin astray /\ InSeat(c) /\ open[c] /\ told[c] = "attached"

AttachedHolds == \A c \in Conns : Attached(c) => out = c /\ state = "LIVE"

\* An operation that takes the seat away has closed the socket it remembers.
OldClosed == \A c \in Conns :
    conn[c] = "closing_old" => \A d \in Conns : d = old[c] => ~open[d]
DyingClosed ==
    /\ table \notin {"detaching", "closing"} => dying = NoConn
    /\ table = "closing" => \A d \in Conns : d = dying => ~open[d]

TellInv == AttachedHolds /\ OldClosed /\ DyingClosed

\* A step that keeps the sink and its seat, tells nobody it is attached and seats
\* nobody keeps the clients' view true.
LEMMA QuietTell ==
    ASSUME AttachedHolds, UNCHANGED <<out, state, astray>>,
           \A c \in Conns : Attached(c)' => Attached(c)
    PROVE  AttachedHolds'
BY DEF AttachedHolds

\* A handler attaches.
LEMMA TellAttach ==
    ASSUME TypeOK, SeatInv, TellInv, NEW c \in Conns,
           AttachFromUnbound(c) \/ Takeover(c) \/ TakeoverCloseOld(c)
           \/ TakeoverInstall(c) \/ Resume(c)
    PROVE  TellInv'
<1> USE SeatAssumption DEF TypeOK, TellInv, ConnTypeOK, ClientTypeOK, InSeat, Attached, Deliver
<1>1. CASE AttachFromUnbound(c)
  <2>1. AttachedHolds'
    BY <1>1 DEF AttachFromUnbound, AttachedHolds
  <2>2. (OldClosed /\ DyingClosed)'
    BY <1>1 DEF AttachFromUnbound, tableVars, OldClosed, DyingClosed
  <2> QED
    BY <2>1, <2>2
<1>2. CASE Takeover(c)
  <2>1. \A d \in Conns : Attached(d)' => Attached(d)
    BY <1>2 DEF Takeover
  <2>2. AttachedHolds'
    BY <1>2, <2>1, QuietTell DEF Takeover, seatVars
  <2>3. (OldClosed /\ DyingClosed)'
    BY <1>2 DEF Takeover, tableVars, OldClosed, DyingClosed
  <2> QED
    BY <2>2, <2>3
<1>3. CASE TakeoverCloseOld(c)
  <2>1. \A d \in Conns : open'[d] => open[d]
    BY <1>3 DEF TakeoverCloseOld
  <2>2. \A d \in Conns : Attached(d)' => Attached(d)
    BY <1>3, <2>1 DEF TakeoverCloseOld, clientVars
  <2>3. AttachedHolds'
    BY <1>3, <2>2, QuietTell DEF TakeoverCloseOld, seatVars
  <2>4. (OldClosed /\ DyingClosed)'
    BY <1>3, <2>1 DEF TakeoverCloseOld, tableVars, OldClosed, DyingClosed
  <2> QED
    BY <2>3, <2>4
<1>4. CASE TakeoverInstall(c)
  <2>1. /\ out' = c /\ UNCHANGED <<open, state, tableVars>> /\ conn[c] = "closing_old"
        /\ conn' = [conn EXCEPT ![c] = "seated"] /\ old' = [old EXCEPT ![c] = NoConn]
        /\ \A d \in Conns \ {c} : told'[d] = told[d]
        /\ c \notin astray' => state = "LIVE"
        /\ \A d \in Conns \ {c} : d \notin astray' => d \notin astray /\ (d = out => d = old[c])
    BY <1>4 DEF TakeoverInstall, MayTakeOver, Displaced
  <2>2. ASSUME NEW d \in Conns, d # c PROVE ~Attached(d)'
    BY <2>1, <2>2 DEF AttachedHolds, OldClosed
  <2>3. AttachedHolds'
    BY <2>1, <2>2 DEF AttachedHolds
  <2>4. (OldClosed /\ DyingClosed)'
    BY <2>1 DEF tableVars, OldClosed, DyingClosed
  <2> QED
    BY <2>3, <2>4
<1>5. CASE Resume(c)
  <2>1. AttachedHolds'
    BY <1>5 DEF Resume, AttachedHolds
  <2>2. (OldClosed /\ DyingClosed)'
    BY <1>5 DEF Resume, tableVars, OldClosed, DyingClosed
  <2> QED
    BY <2>1, <2>2
<1> QED
  BY <1>1, <1>2, <1>3, <1>4, <1>5

\* A handler goes on with its seat, or gives it up.
LEMMA TellConn ==
    ASSUME TypeOK, SeatInv, TellInv, NEW c \in Conns,
           \/ AttachRejected(c) \/ ResumeReplay(c) \/ ResumeReprompt(c) \/ GracefulDetach(c)
           \/ GracefulDetachRelease(c) \/ SocketCloses(c) \/ SocketDropped(c) \/ HandleAction(c)
    PROVE  TellInv'
<1> USE SeatAssumption DEF TypeOK, TellInv, ConnTypeOK, ClientTypeOK, InSeat, Attached
<1>1. CASE AttachRejected(c) \/ ResumeReplay(c) \/ ResumeReprompt(c) \/ GracefulDetach(c)
           \/ SocketCloses(c) \/ HandleAction(c)
  <2>1. \A d \in Conns : Attached(d)' => Attached(d)
    BY <1>1 DEF AttachRejected, ResumeReplay, ResumeReprompt, GracefulDetach, SocketCloses,
                HandleAction, connVars, clientVars
  <2>2. UNCHANGED <<out, state, astray, tableVars>>
    BY <1>1 DEF AttachRejected, ResumeReplay, ResumeReprompt, GracefulDetach, SocketCloses,
                HandleAction, seatVars
  <2>3. /\ \A d \in Conns : open'[d] => open[d]
        /\ \A d \in Conns : conn'[d] = "closing_old" => conn[d] = "closing_old"
        /\ UNCHANGED old
    BY <1>1 DEF AttachRejected, ResumeReplay, ResumeReprompt, GracefulDetach, SocketCloses,
                HandleAction, connVars
  <2> QED
    BY <2>1, <2>2, <2>3, QuietTell DEF tableVars, OldClosed, DyingClosed
<1>2. CASE GracefulDetachRelease(c)
  <2>1. /\ conn' = [conn EXCEPT ![c] = "lobby"] /\ UNCHANGED <<open, told, old, tableVars>>
        /\ \A d \in Conns : d \notin astray' => d \notin astray /\ (d = out => d = c)
    BY <1>2 DEF GracefulDetachRelease, Displaced
  <2>2. \A d \in Conns : ~Attached(d)'
    BY <2>1 DEF AttachedHolds
  <2> QED
    BY <2>1, <2>2 DEF AttachedHolds, OldClosed, DyingClosed, tableVars
<1>3. CASE SocketDropped(c)
  <2>1. /\ conn' = [conn EXCEPT ![c] = "gone"] /\ ~open[c]
        /\ UNCHANGED <<open, told, old, astray, tableVars>>
        /\ out = c \/ UNCHANGED <<out, state>>
    BY <1>3 DEF SocketDropped, clientVars
  <2>2. \A d \in Conns : Attached(d)' => Attached(d) /\ d # c
    BY <2>1
  <2> QED
    BY <2>1, <2>2 DEF AttachedHolds, OldClosed, DyingClosed, tableVars
<1> QED
  BY <1>1, <1>2, <1>3

\* The hand task and the timers.
LEMMA TellTable ==
    ASSUME TypeOK, SeatInv, SinkIsOwners, TellInv,
           TableNext \/ HoldExpires \/ PromptDeadline \/ DecideTimesOut
    PROVE  TellInv'
<1> USE SeatAssumption DEF TypeOK, TellInv, ConnTypeOK, ClientTypeOK, InSeat, Attached, Deliver
<1>1. CASE \/ StartHand \/ Decide \/ DecideReturns \/ BeginNextHand
           \/ (\E kind \in {"EVENT", "HAND_END"} : Observe(kind))
  <2>1. /\ UNCHANGED <<conn, open, old, state, out, astray, dying>>
        /\ table \notin {"detaching", "closing"} /\ table' \notin {"detaching", "closing"}
        /\ \A d \in Conns : told'[d] = "attached" => told[d] = "attached"
    BY <1>1 DEF StartHand, Decide, DecideReturns, BeginNextHand, Observe, seatVars, connVars, clientVars
  <2> QED
    BY <2>1, QuietTell DEF OldClosed, DyingClosed
<1>2. CASE BeginNextHandAttached
  <2>1. /\ UNCHANGED <<conn, open, old, state, out, astray, dying>>
        /\ table = "next_hand" /\ table' \in {"crashed", "idle"}
        /\ \A d \in Conns : told'[d] = "attached" => told[d] = "attached" \/ d = out
    BY <1>2 DEF BeginNextHandAttached, seatVars, connVars
  <2> QED
    BY <2>1 DEF AttachedHolds, SinkIsOwners, OldClosed, DyingClosed
<1>3. ASSUME NEW why \in Reasons, Shutdown(why) PROVE TellInv'
  <2>1. /\ UNCHANGED <<conn, open, old, state, out, astray>>
        /\ table' \in {"detaching", "closing"} /\ (table' = "closing" => dying' = dying)
    BY <1>3 DEF Shutdown, connVars
  <2>2. table \notin {"detaching", "closing"}
    BY <1>3 DEF Shutdown, MayShutdown, Reasons
  <2>3. \A d \in Conns : told'[d] = "attached" => told[d] = "attached"
    BY <1>3 DEF Shutdown
  <2> QED
    BY <2>1, <2>2, <2>3, QuietTell DEF OldClosed, DyingClosed
<1>4. CASE ShutdownClose
  <2>1. /\ UNCHANGED <<conn, old, told, state, out, astray, dying>> /\ table' = "closing"
        /\ open' = [open EXCEPT ![dying] = FALSE]
    BY <1>4 DEF ShutdownClose, seatVars, clientVars
  <2>2. \A d \in Conns : open'[d] => open[d] /\ d # dying
    BY <2>1
  <2> QED
    BY <2>1, <2>2, QuietTell DEF OldClosed, DyingClosed
<1>5. CASE ShutdownRelease
  <2>1. /\ UNCHANGED <<conn, open, old, told>> /\ dying' = NoConn /\ table = "closing"
        /\ table' \in {"idle", "dead", "over"}
        /\ \A d \in Conns : d \notin astray' => d \notin astray /\ (d = out => d = dying)
    BY <1>5 DEF ShutdownRelease, Displaced, connVars
  <2>2. \A d \in Conns : ~Attached(d)'
    BY <2>1 DEF AttachedHolds, DyingClosed
  <2> QED
    BY <2>1, <2>2 DEF AttachedHolds, OldClosed, DyingClosed
<1>6. CASE ShutdownCancelled
  <2>1. /\ UNCHANGED <<conn, open, old, told, state, out, astray>>
        /\ dying' = NoConn /\ table' = "idle"
    BY <1>6 DEF ShutdownCancelled, seatVars, connVars, clientVars
  <2> QED
    BY <2>1, QuietTell DEF OldClosed, DyingClosed
<1>7. CASE HoldExpires
  <2>1. /\ UNCHANGED <<conn, open, old, told, astray, table, dying>>
        /\ state = "HELD" \/ UNCHANGED <<state, out>>
    BY <1>7 DEF HoldExpires, connVars, tableVars
  <2> QED
    BY <2>1 DEF AttachedHolds, OldClosed, DyingClosed
<1>8. CASE PromptDeadline \/ DecideTimesOut
  <2>1. UNCHANGED <<conn, open, old, told, state, out, astray, table, dying>>
    BY <1>8 DEF PromptDeadline, DecideTimesOut, connVars, tableVars, clientVars
  <2> QED
    BY <2>1 DEF AttachedHolds, OldClosed, DyingClosed
<1> QED
  BY <1>1, <1>2, <1>3, <1>4, <1>5, <1>6, <1>7, <1>8 DEF TableNext

\* Under every interleaving, a client that was told it is attached, and still reads,
\* holds the seat, unless an operation begun before its attach went on over it.
THEOREM ToldTheorem == Spec => []ToldTruth
<1>1. TellInv => ToldTruth
  BY DEF TellInv, AttachedHolds, Attached, InSeat, ToldTruth
<1>2. Init => TellInv
  BY SeatAssumption DEF Init, TellInv, AttachedHolds, OldClosed, DyingClosed, Attached, InSeat
<1>3. TypeOK /\ SeatInv /\ SinkIsOwners /\ TellInv /\ [Next]_vars => TellInv'
  <2> SUFFICES ASSUME TypeOK, SeatInv, SinkIsOwners, TellInv, [Next]_vars PROVE TellInv'
    OBVIOUS
  <2>1. CASE UNCHANGED vars
    BY <2>1 DEF vars, seatVars, connVars, tableVars, clientVars, TellInv, AttachedHolds, OldClosed,
                DyingClosed, Attached, InSeat
  <2> QED
    BY <2>1, TellAttach, TellConn, TellTable DEF Next, ConnNext
<1> QED
  BY <1>1, <1>2, <1>3, TypeCorrect, SeatInvariant, SinkTheorem, PTL DEF Spec
=============================================================================
