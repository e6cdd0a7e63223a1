---------------------------- MODULE SeatSession ----------------------------
(***************************************************************************)
(* One seat of one table: the UNBOUND / LIVE / HELD machine of             *)
(* mahjong/sessions/mux.py, the connections that bind it and the hand      *)
(* loop's task that prompts it.  Everything runs on one asyncio loop, so   *)
(* a step of this module is the code between two awaits.  A coroutine      *)
(* that is inside an operation of the seat is recorded by its program      *)
(* counter (conn[c] for a connection's handler, table for the hand task),  *)
(* and others run while it waits.                                          *)
(***************************************************************************)
EXTENDS Naturals, Sequences, FiniteSets

CONSTANTS
    Conns,           \* WebSocket connections
    Users,           \* authenticated accounts
    Owner,           \* the account each connection authenticated as
    NoConn, NoUser,  \* None for _outbound and for _user_id
    BufferCapacity,  \* deque(maxlen=buffer_capacity)
    MaxHands,        \* bound: hands played at the table
    MaxPrompts,      \* bound: prompts put to the seat in one hand
    Suspends         \* the operations whose awaits may hand control over

AwaitPoints == {"takeover", "resume", "detach", "next_hand", "shutdown"}

ASSUME SeatAssumption ==
    /\ Owner \in [Conns -> Users]
    /\ NoConn \notin Conns
    /\ NoUser \notin Users
    /\ BufferCapacity \in Nat \ {0}
    /\ MaxHands \in Nat \ {0}
    /\ MaxPrompts \in Nat
    /\ Suspends \subseteq AwaitPoints

VARIABLES
    state,     \* SeatState
    user,      \* _user_id
    out,       \* _outbound.sink
    hold,      \* _hold_timer.armed
    buf,       \* _buffer
    parked,    \* _pending is not None
    fut,       \* the future of the latest prompt; "none" when nobody awaits it
    conn,      \* where each connection's handler stands
    open,      \* whether each WebSocket is open
    old,       \* the sink a takeover is closing (a local of _takeover)
    table,     \* where the hand task stands with respect to this seat
    dying,     \* the sink a shutdown is closing (a local of shutdown)
    retire,    \* why the running shutdown was called
    hand,      \* hands begun
    prompts,   \* prompts put to the seat in this hand
    ended,     \* HAND_END of this hand has been fanned out
    replaced,  \* the seat plays on as AutoPassAdapter for this hand
    replay,    \* a resuming handler still has a buffered HAND_END to send
    told,      \* the last ATTACHED / DETACH / DETACHED each client received
    shown,     \* the prompt an account's page displays, kept when its socket is
               \* replaced: none, the current, an old one
    answer,    \* history: whose ACTION resolved the current future
    endFate,   \* history: what became of this hand's HAND_END frame
    astray     \* history: the connections a suspended operation went on over,
               \* although what it had checked before its await held no more

seatVars == <<state, user, out, hold, buf, parked, fut>>
connVars == <<conn, open, old, replay>>
tableVars == <<table, dying, retire, hand, prompts, ended, replaced>>
clientVars == <<told, shown, answer, endFate>>
vars == <<seatVars, connVars, tableVars, clientVars, astray>>

Pcs == {"lobby", "detaching_old", "closing_old", "replaying", "reprompting",
        "acking", "seated", "gone"}
TableSteps == {"waiting", "idle", "deciding", "next_hand",
               "detaching", "closing", "crashed", "dead", "over"}
Reasons == {"replace", "close", "cancel", "abort"}
Settled == {"action", "default", "expired", "cancelled"}

SeatTypeOK ==
    /\ state \in {"UNBOUND", "LIVE", "HELD"}
    /\ user \in Users \cup {NoUser}
    /\ out \in Conns \cup {NoConn}
    /\ hold \in BOOLEAN
    /\ parked \in BOOLEAN
    /\ fut \in {"none", "waiting"} \cup Settled

BufferTypeOK == buf \in Seq({"EVENT", "HAND_END"}) /\ Len(buf) <= BufferCapacity

ConnTypeOK ==
    /\ conn \in [Conns -> Pcs]
    /\ open \in [Conns -> BOOLEAN]
    /\ old \in [Conns -> Conns \cup {NoConn}]
    /\ replay \in [Conns -> BOOLEAN]

TableTypeOK ==
    /\ table \in TableSteps
    /\ dying \in Conns \cup {NoConn}
    /\ retire \in {"none"} \cup Reasons
    /\ hand \in 1 .. MaxHands
    /\ prompts \in 0 .. MaxPrompts
    /\ ended \in BOOLEAN
    /\ replaced \in BOOLEAN

ClientTypeOK ==
    /\ told \in [Conns -> {"none", "attached", "detached"}]
    /\ shown \in [Users -> {"none", "current", "old"}]
    /\ answer \in Conns \cup {NoConn}
    /\ endFate \in {"none", "sent", "lost", "buffered"}
    /\ astray \subseteq Conns

TypeOK == SeatTypeOK /\ BufferTypeOK /\ ConnTypeOK /\ TableTypeOK /\ ClientTypeOK

Init ==
    /\ state = "UNBOUND" /\ user = NoUser /\ out = NoConn /\ hold = FALSE
    /\ buf = <<>> /\ parked = FALSE /\ fut = "none"
    /\ conn = [c \in Conns |-> "lobby"]
    /\ open = [c \in Conns |-> TRUE]
    /\ old = [c \in Conns |-> NoConn]
    /\ replay = [c \in Conns |-> FALSE]
    /\ table = "waiting" /\ dying = NoConn /\ retire = "none"
    /\ hand = 1 /\ prompts = 0 /\ ended = FALSE /\ replaced = FALSE
    /\ told = [c \in Conns |-> "none"]
    /\ shown = [u \in Users |-> "none"]
    /\ answer = NoConn /\ endFate = "none" /\ astray = {}

-----------------------------------------------------------------------------
(* Scheduling.  An operation whose await does not suspend (the fake sinks  *)
(* of the tests, a socket with room in its write buffer) runs to its end   *)
(* before any other coroutine or timer of the loop; Suspends names those   *)
(* whose awaits do let the loop run something else.                        *)

Point(pc) ==
    CASE pc \in {"detaching_old", "closing_old"} -> "takeover"
      [] pc \in {"replaying", "reprompting"} -> "resume"
      [] pc = "acking" -> "detach"
      [] pc = "next_hand" -> "next_hand"
      [] pc \in {"detaching", "closing"} -> "shutdown"
      [] OTHER -> "none"

Yielding(pc) == Point(pc) = "none" \/ Point(pc) \in Suspends

ConnTurn(c) ==
    /\ Yielding(table)
    /\ \A d \in Conns \ {c} : Yielding(conn[d])
TableTurn == \A c \in Conns : Yielding(conn[c])
TimerTurn == TableTurn /\ Yielding(table)

-----------------------------------------------------------------------------
(* Pieces shared by the operations.                                        *)

Waiting == parked /\ fut = "waiting"          \* not future.done()
\* Mutant: the prompt is forgotten, its future is not resolved.
ResolveNever(result) == fut' = fut

\* Mutant: no future.done() check.
ResolveAgain(result) == fut' = IF parked THEN result ELSE fut

Resolve(result) == fut' = IF Waiting THEN result ELSE fut
InProgress ==                                 \* the hand task is not done
    \/ table \in {"idle", "deciding", "next_hand", "crashed"}
    \/ table \in {"detaching", "closing"} /\ retire # "close"
Deliver(f, c, v) == IF c \in Conns /\ open[c] THEN [f EXCEPT ![c] = v] ELSE f
Show(f) ==                                    \* PROMPT to the current sink
    IF out \in Conns /\ open[out] THEN [f EXCEPT ![Owner[out]] = "current"] ELSE f

\* What _takeover checks before its awaits, and not again after them.
MayTakeOver(c) == state = "LIVE" /\ user = Owner[c]

\* The sink that an operation takes the seat from, if it is not d, the one it
\* told and closed before its await.
Displaced(d) == {out} \ {d, NoConn}

\* Mutant: a full buffer drops the new entry.
AppendBufferDropNewest(entry) ==
    buf' = IF Len(buf) < BufferCapacity THEN Append(buf, entry) ELSE buf

\* Overflow drops the oldest entry.
AppendBuffer(entry) ==
    buf' = IF Len(buf) < BufferCapacity THEN Append(buf, entry)
                                        ELSE Append(Tail(buf), entry)

\* Mutant: the hold timer is left armed.
TeardownKeepsTimer ==
    /\ state' = "UNBOUND" /\ user' = NoUser /\ out' = NoConn
    /\ buf' = <<>> /\ parked' = FALSE /\ hold' = hold
    /\ endFate' = IF endFate = "buffered" THEN "none" ELSE endFate

TeardownToUnbound ==
    /\ state' = "UNBOUND" /\ user' = NoUser /\ out' = NoConn
    /\ buf' = <<>> /\ parked' = FALSE /\ hold' = FALSE
    /\ endFate' = IF endFate = "buffered" THEN "none" ELSE endFate

-----------------------------------------------------------------------------
(* Connections: ATTACH and its three outcomes.                             *)

\* A bound seat and another account, a released seat of a running match, or a
\* closed table: an ERROR frame, and the handler returns.
AttachRejected(c) ==
    /\ conn[c] = "lobby" /\ open[c] /\ ConnTurn(c)
    /\ \/ state = "UNBOUND" /\ InProgress
       \/ state # "UNBOUND" /\ user # Owner[c]
       \/ table = "over"
    /\ conn' = [conn EXCEPT ![c] = "gone"]
    /\ open' = [open EXCEPT ![c] = FALSE]
    /\ UNCHANGED <<seatVars, old, replay, tableVars, clientVars, astray>>

AttachFromUnbound(c) ==
    /\ conn[c] = "lobby" /\ open[c] /\ ConnTurn(c)
    /\ state = "UNBOUND" /\ ~InProgress /\ table # "over"
    /\ user' = Owner[c] /\ out' = c /\ buf' = <<>> /\ state' = "LIVE"
    /\ told' = [told EXCEPT ![c] = "attached"]
    /\ conn' = [conn EXCEPT ![c] = "seated"]
    /\ astray' = astray \ {c}
    /\ UNCHANGED <<hold, parked, fut, open, old, replay, tableVars,
                   shown, answer, endFate>>

\* LIVE and the same account: DETACH goes to the old sink ...
Takeover(c) ==
    /\ conn[c] = "lobby" /\ open[c] /\ ConnTurn(c) /\ table # "over"
    /\ MayTakeOver(c)
    /\ old' = [old EXCEPT ![c] = out]
    /\ told' = Deliver(told, out, "detached")
    /\ conn' = [conn EXCEPT ![c] = "detaching_old"]
    /\ UNCHANGED <<seatVars, open, replay, tableVars, shown, answer, endFate,
                   astray>>

\* ... the old socket is closed ...
TakeoverCloseOld(c) ==
    /\ conn[c] = "detaching_old" /\ ConnTurn(c)
    /\ open' = [open EXCEPT ![old[c]] = FALSE]
    /\ conn' = [conn EXCEPT ![c] = "closing_old"]
    /\ UNCHANGED <<seatVars, old, replay, tableVars, clientVars, astray>>

\* ... and the new sink is installed.  State, user, prompt and hold timer are
\* left as they are, whatever they became while the close was awaited; the
\* prompt is not sent again.
TakeoverInstall(c) ==
    /\ conn[c] = "closing_old" /\ ConnTurn(c)
    /\ out' = c
    /\ old' = [old EXCEPT ![c] = NoConn]
    /\ told' = Deliver(told, c, "attached")
    /\ conn' = [conn EXCEPT ![c] = "seated"]
    /\ astray' = ((astray \cup Displaced(old[c])) \ {c}) \cup
                     (IF MayTakeOver(c) THEN {} ELSE {c})
    /\ UNCHANGED <<state, user, hold, buf, parked, fut, open, replay,
                   tableVars, shown, answer, endFate>>

\* Mutant: any account resumes a HELD seat.
ResumeByAnyone(c) ==
    /\ conn[c] = "lobby" /\ open[c] /\ ConnTurn(c) /\ table # "over"
    /\ state = "HELD"
    /\ hold' = FALSE /\ out' = c /\ state' = "LIVE" /\ buf' = <<>>
    /\ replay' = [replay EXCEPT ![c] = \E i \in DOMAIN buf : buf[i] = "HAND_END"]
    /\ told' = [told EXCEPT ![c] = "attached"]
    /\ conn' = [conn EXCEPT ![c] = "replaying"]
    /\ astray' = astray \ {c}
    /\ UNCHANGED <<user, parked, fut, open, old, tableVars, shown, answer,
                   endFate>>

\* HELD and the same account: ATTACHED with a fresh snapshot ...
Resume(c) ==
    /\ conn[c] = "lobby" /\ open[c] /\ ConnTurn(c) /\ table # "over"
    /\ state = "HELD" /\ user = Owner[c]
    /\ hold' = FALSE /\ out' = c /\ state' = "LIVE" /\ buf' = <<>>
    /\ replay' = [replay EXCEPT ![c] = \E i \in DOMAIN buf : buf[i] = "HAND_END"]
    /\ told' = [told EXCEPT ![c] = "attached"]
    /\ conn' = [conn EXCEPT ![c] = "replaying"]
    /\ astray' = astray \ {c}
    /\ UNCHANGED <<user, parked, fut, open, old, tableVars, shown, answer,
                   endFate>>

\* ... then the buffered HAND_END, to whoever is the sink by then ...
ResumeReplay(c) ==
    /\ conn[c] = "replaying" /\ ConnTurn(c)
    /\ endFate' = IF replay[c] /\ endFate = "buffered"
                  THEN IF out \in Conns /\ open[out] THEN "sent" ELSE "lost"
                  ELSE endFate
    /\ replay' = [replay EXCEPT ![c] = FALSE]
    /\ conn' = [conn EXCEPT ![c] = "reprompting"]
    /\ UNCHANGED <<seatVars, open, old, tableVars, told, shown, answer, astray>>

\* ... and the outstanding prompt.  _send_prompt asserts a sink: without one
\* the attach fails and the handler returns.
ResumeReprompt(c) ==
    /\ conn[c] = "reprompting" /\ ConnTurn(c)
    /\ shown' = IF Waiting THEN Show(shown) ELSE shown
    /\ IF Waiting /\ out = NoConn
       THEN /\ conn' = [conn EXCEPT ![c] = "gone"]
            /\ open' = [open EXCEPT ![c] = FALSE]
       ELSE /\ conn' = [conn EXCEPT ![c] = "seated"]
            /\ UNCHANGED open
    /\ UNCHANGED <<seatVars, old, replay, tableVars, told, answer, endFate,
                   astray>>

-----------------------------------------------------------------------------
(* Connections: leaving, losing the socket, answering.                     *)

\* DETACH from the sink's owner is acknowledged; from anyone else it only
\* returns the connection to the lobby.
GracefulDetach(c) ==
    /\ conn[c] = "seated" /\ open[c] /\ ConnTurn(c)
    /\ IF out = c
       THEN /\ told' = [told EXCEPT ![c] = "detached"]
            /\ conn' = [conn EXCEPT ![c] = "acking"]
       ELSE /\ conn' = [conn EXCEPT ![c] = "lobby"]
            /\ UNCHANGED told
    /\ UNCHANGED <<seatVars, open, old, replay, tableVars, shown, answer,
                   endFate, astray>>

GracefulDetachRelease(c) ==
    /\ conn[c] = "acking" /\ ConnTurn(c)
    /\ Resolve("expired")
    /\ TeardownToUnbound
    /\ astray' = astray \cup Displaced(c)
    /\ conn' = [conn EXCEPT ![c] = "lobby"]
    /\ UNCHANGED <<open, old, replay, tableVars, told, shown, answer>>

\* The client, or the network, closes the WebSocket.
SocketCloses(c) ==
    /\ open[c] /\ conn[c] # "gone"
    /\ open' = [open EXCEPT ![c] = FALSE]
    /\ UNCHANGED <<seatVars, conn, old, replay, tableVars, clientVars, astray>>

\* Mutant: the drop of a sink that was already swapped out counts.
SocketDroppedStale(c) ==
    /\ conn[c] \in {"lobby", "seated"} /\ ~open[c] /\ ConnTurn(c)
    /\ conn' = [conn EXCEPT ![c] = "gone"]
    /\ IF conn[c] = "seated" /\ state = "LIVE"
       THEN state' = "HELD" /\ out' = NoConn /\ hold' = TRUE
       ELSE UNCHANGED <<state, out, hold>>
    /\ UNCHANGED <<user, buf, parked, fut, open, old, replay, tableVars,
                   clientVars, astray>>

\* Mutant: the hold timer is not armed.
SocketDroppedUnarmed(c) ==
    /\ conn[c] \in {"lobby", "seated"} /\ ~open[c] /\ ConnTurn(c)
    /\ conn' = [conn EXCEPT ![c] = "gone"]
    /\ IF conn[c] = "seated" /\ out = c /\ state = "LIVE"
       THEN state' = "HELD" /\ out' = NoConn /\ UNCHANGED hold
       ELSE UNCHANGED <<state, out, hold>>
    /\ UNCHANGED <<user, buf, parked, fut, open, old, replay, tableVars,
                   clientVars, astray>>

\* The read loop of c finds its socket closed; only the current sink of a
\* LIVE seat moves the seat to HELD.
SocketDropped(c) ==
    /\ conn[c] \in {"lobby", "seated"} /\ ~open[c] /\ ConnTurn(c)
    /\ conn' = [conn EXCEPT ![c] = "gone"]
    /\ IF conn[c] = "seated" /\ out = c /\ state = "LIVE"
       THEN state' = "HELD" /\ out' = NoConn /\ hold' = TRUE
       ELSE UNCHANGED <<state, out, hold>>
    /\ UNCHANGED <<user, buf, parked, fut, open, old, replay, tableVars,
                   clientVars, astray>>

\* Mutant: the prompt_id of an ACTION is not compared.
HandleActionStale(c) ==
    /\ conn[c] = "seated" /\ open[c] /\ ConnTurn(c)
    /\ out = c /\ Waiting /\ shown[Owner[c]] # "none"
    /\ fut' = "action" /\ answer' = c
    /\ UNCHANGED <<state, user, out, hold, buf, parked, connVars, tableVars,
                   told, shown, endFate, astray>>

\* A legal ACTION for the outstanding prompt_id from the current sink.  Every
\* other ACTION (no prompt, old prompt_id, illegal) is an ERROR and no change.
HandleAction(c) ==
    /\ conn[c] = "seated" /\ open[c] /\ ConnTurn(c)
    /\ out = c /\ Waiting /\ shown[Owner[c]] = "current"
    /\ fut' = "action" /\ answer' = c
    /\ UNCHANGED <<state, user, out, hold, buf, parked, connVars, tableVars,
                   told, shown, endFate, astray>>

-----------------------------------------------------------------------------
(* Timers.                                                                 *)

HoldExpires ==
    /\ hold /\ TimerTurn
    /\ IF state = "HELD"
       THEN Resolve("expired") /\ TeardownToUnbound
       ELSE hold' = FALSE /\ UNCHANGED <<state, user, out, buf, parked, fut, endFate>>
    /\ UNCHANGED <<connVars, tableVars, told, shown, answer, astray>>

\* Mutant: the deadline is only honoured while somebody is connected.
PromptDeadlineLive ==
    /\ Waiting /\ state = "LIVE" /\ TimerTurn
    /\ fut' = "default"
    /\ UNCHANGED <<state, user, out, hold, buf, parked, connVars, tableVars,
                   clientVars, astray>>

PromptDeadline ==
    /\ Waiting /\ TimerTurn
    /\ fut' = "default"
    /\ UNCHANGED <<state, user, out, hold, buf, parked, connVars, tableVars,
                   clientVars, astray>>

\* The manager's wait_for has the same deadline as the session's own timer and
\* may be the one that fires.
DecideTimesOut ==
    /\ table = "deciding" /\ fut = "waiting" /\ TimerTurn
    /\ fut' = "cancelled"
    /\ UNCHANGED <<state, user, out, hold, buf, parked, connVars, tableVars,
                   clientVars, astray>>

-----------------------------------------------------------------------------
(* The hand task.                                                          *)

\* START_HAND: accepted only while the human seat is LIVE.
StartHand ==
    /\ table = "waiting" /\ state = "LIVE" /\ TableTurn
    /\ table' = "idle"
    /\ UNCHANGED <<seatVars, connVars, dying, retire, hand, prompts, ended,
                   replaced, clientVars, astray>>

\* decide() parks a future in every state, and sends PROMPT only when LIVE.
Decide ==
    /\ table = "idle" /\ TableTurn
    /\ ~ended /\ ~replaced /\ prompts < MaxPrompts
    /\ fut' = "waiting" /\ parked' = TRUE /\ answer' = NoConn
    /\ LET aged == [u \in Users |-> IF shown[u] = "none" THEN "none" ELSE "old"]
       IN shown' = IF state = "LIVE" THEN Show(aged) ELSE aged
    /\ table' = "deciding" /\ prompts' = prompts + 1
    /\ UNCHANGED <<state, user, out, hold, buf, connVars, dying, retire, hand,
                   ended, replaced, told, endFate, astray>>

DecideReturns ==
    /\ table = "deciding" /\ fut # "waiting" /\ TableTurn
    /\ fut' = "none" /\ parked' = FALSE /\ table' = "idle"
    /\ UNCHANGED <<state, user, out, hold, buf, connVars, dying, retire, hand,
                   prompts, ended, replaced, clientVars, astray>>

\* observe(): sent when LIVE, buffered when HELD, dropped when UNBOUND.
Observe(kind) ==
    /\ table = "idle" /\ TableTurn /\ ~ended /\ ~replaced
    /\ ended' = (kind = "HAND_END")
    /\ IF state = "HELD" THEN AppendBuffer(kind) ELSE UNCHANGED buf
    /\ endFate' = IF kind = "EVENT" \/ state = "UNBOUND" THEN endFate
                  ELSE IF state = "HELD" THEN "buffered"
                  ELSE IF open[out] THEN "sent" ELSE "lost"
    /\ UNCHANGED <<state, user, out, hold, parked, fut, connVars, table, dying,
                   retire, hand, prompts, replaced, told, shown, answer, astray>>

\* begin_next_hand: buffers are reset; a LIVE client is told DETACH(hand_ended)
\* and, after the await, ATTACHED; the hold timer of a HELD seat is cancelled.
BeginNextHand ==
    /\ table = "idle" /\ TableTurn /\ (ended \/ replaced) /\ hand < MaxHands
    /\ hand' = hand + 1 /\ prompts' = 0 /\ ended' = FALSE /\ replaced' = FALSE
    /\ Resolve("expired") /\ parked' = FALSE /\ buf' = <<>> /\ endFate' = "none"
    /\ IF state = "LIVE"
       THEN /\ told' = Deliver(told, out, "detached")
            /\ table' = "next_hand" /\ UNCHANGED hold
       ELSE /\ hold' = (hold /\ state # "HELD")
            /\ UNCHANGED <<told, table>>
    /\ UNCHANGED <<state, user, out, connVars, dying, retire, shown, answer,
                   astray>>

\* _send_attached asserts a sink; the assertion error ends the hand loop.
BeginNextHandAttached ==
    /\ table = "next_hand" /\ TableTurn
    /\ table' = IF out = NoConn THEN "crashed" ELSE "idle"
    /\ told' = Deliver(told, out, "attached")
    /\ UNCHANGED <<seatVars, connVars, dying, retire, hand, prompts, ended,
                   replaced, shown, answer, endFate, astray>>

\* shutdown() is called when the strike limit is reached (left("REPLACED")),
\* when the table is closed, its hand task cancelled first if one runs, and
\* when the hand loop crashed.
MayShutdown(why) ==
    CASE why = "replace" -> table = "idle" /\ ~replaced /\ ~ended
      [] why = "close"   -> table \in {"waiting", "dead"}
      [] why = "cancel"  -> table \in {"idle", "deciding", "next_hand"}
      [] why = "abort"   -> table = "crashed"

Shutdown(why) ==
    /\ MayShutdown(why) /\ TableTurn
    /\ retire' = why
    /\ replaced' = (replaced \/ why = "replace")
    /\ fut' = IF table = "deciding" THEN "none" ELSE fut
    /\ parked' = (parked /\ table # "deciding")
    /\ IF state = "LIVE"
       THEN /\ dying' = out /\ told' = Deliver(told, out, "detached")
            /\ table' = "detaching"
       ELSE /\ table' = "closing" /\ UNCHANGED <<dying, told>>
    /\ UNCHANGED <<state, user, out, hold, buf, connVars, hand, prompts, ended,
                   shown, answer, endFate, astray>>

ShutdownClose ==
    /\ table = "detaching" /\ TableTurn
    /\ open' = [open EXCEPT ![dying] = FALSE]
    /\ table' = "closing"
    /\ UNCHANGED <<seatVars, conn, old, replay, dying, retire, hand, prompts,
                   ended, replaced, clientVars, astray>>

ShutdownRelease ==
    /\ table = "closing" /\ TableTurn
    /\ Resolve("default")
    /\ TeardownToUnbound
    /\ astray' = astray \cup Displaced(dying)
    /\ dying' = NoConn /\ retire' = "none"
    /\ table' = CASE retire = "replace" -> "idle"
                  [] retire = "abort" -> "dead"
                  [] OTHER -> "over"
    /\ UNCHANGED <<connVars, hand, prompts, ended, replaced, told, shown,
                   answer>>

\* _safe_left bounds left("REPLACED"): a shutdown stuck in an await is
\* cancelled there and never reaches its teardown.
ShutdownCancelled ==
    /\ table \in {"detaching", "closing"} /\ retire = "replace" /\ dying # NoConn
    /\ "shutdown" \in Suspends /\ TableTurn
    /\ table' = "idle" /\ dying' = NoConn /\ retire' = "none"
    /\ UNCHANGED <<seatVars, connVars, hand, prompts, ended, replaced,
                   clientVars, astray>>

-----------------------------------------------------------------------------
ConnNext(c) ==
    \/ AttachRejected(c) \/ AttachFromUnbound(c)
    \/ Takeover(c) \/ TakeoverCloseOld(c) \/ TakeoverInstall(c)
    \/ Resume(c) \/ ResumeReplay(c) \/ ResumeReprompt(c)
    \/ GracefulDetach(c) \/ GracefulDetachRelease(c)
    \/ SocketCloses(c) \/ SocketDropped(c) \/ HandleAction(c)

TableNext ==
    \/ StartHand \/ Decide \/ DecideReturns
    \/ \E kind \in {"EVENT", "HAND_END"} : Observe(kind)
    \/ BeginNextHand \/ BeginNextHandAttached
    \/ \E why \in Reasons : Shutdown(why)
    \/ ShutdownClose \/ ShutdownRelease \/ ShutdownCancelled

Next ==
    \/ \E c \in Conns : ConnNext(c)
    \/ TableNext
    \/ HoldExpires \/ PromptDeadline \/ DecideTimesOut

Spec == Init /\ [][Next]_vars

\* The loop runs every ready coroutine and fires every armed timer; clients
\* and the network owe nothing.
Fairness ==
    /\ WF_vars(HoldExpires) /\ WF_vars(PromptDeadline) /\ WF_vars(DecideReturns)
    /\ WF_vars(BeginNextHandAttached) /\ WF_vars(ShutdownClose)
    /\ WF_vars(ShutdownRelease) /\ WF_vars(Shutdown("abort"))
    /\ \A c \in Conns :
        /\ WF_vars(TakeoverCloseOld(c)) /\ WF_vars(TakeoverInstall(c))
        /\ WF_vars(ResumeReplay(c)) /\ WF_vars(ResumeReprompt(c))
        /\ WF_vars(GracefulDetachRelease(c)) /\ WF_vars(SocketDropped(c))

FairSpec == Spec /\ Fairness

-----------------------------------------------------------------------------
(* Safety that no interleaving of the awaits may break.                    *)

\* The fields agree with the state: a released seat forgets its owner, a LIVE
\* seat has a sink (what the asserts of _send_attached and _send_prompt rely
\* on), and the hold timer and the buffer belong to HELD alone, so no resume
\* or timeout acts on what an earlier drop left behind.
FieldsMatchState ==
    /\ (state = "UNBOUND") <=> (user = NoUser)
    /\ state = "LIVE" => out # NoConn
    /\ hold => state = "HELD"
    /\ buf # <<>> => state = "HELD"

\* Whoever is awaited by the hand task can still be resolved: a teardown that
\* forgets the prompt without resolving it would leave the hand task waiting
\* on a future that no timer, client or shutdown can reach.
NoOrphanPrompt == fut = "waiting" => parked /\ table = "deciding"

\* The first of ACTION, deadline, hold expiry, detach, hand end and shutdown
\* to resolve a prompt wins; none of the others replaces its result.
FirstResolutionWins ==
    [][(fut \in Settled) => (fut' \in {fut, "none"})]_vars

\* A seat passes from one account to another only through UNBOUND.
NoDirectHandover == [][(user # NoUser) => (user' \in {user, NoUser})]_vars

\* A HAND_END that went to the buffer stays there, or with the resume that is
\* replaying it, until it is sent, the seat is released or the next hand begins.
BufferedEndKept ==
    endFate = "buffered" =>
        \/ \E i \in DOMAIN buf : buf[i] = "HAND_END"
        \/ \E c \in Conns : replay[c]

(* Safety of the connections that no suspended operation went on over.     *)

\* The sink is a connection of the account that holds a LIVE seat, unless a
\* takeover put it there that found another seat after its await than before.
SinkIsOwners == out \notin astray \cup {NoConn} => state = "LIVE" /\ user = Owner[out]

\* An accepted ACTION comes from the sink and answers the outstanding prompt,
\* which that account's page shows; the account holds the LIVE seat, unless the
\* sink came there astray.
AnsweredByOwner ==
    [][(fut' = "action" /\ fut # "action") =>
        /\ out = answer' /\ shown[Owner[out]] = "current"
        /\ out \notin astray => state = "LIVE" /\ user = Owner[out]]_vars

\* A client that was told it is attached, and still reads, holds the seat, unless
\* a takeover, a detach or a shutdown begun before its attach went on over it.
ToldTruth ==
    \A c \in Conns \ astray :
        conn[c] = "seated" /\ open[c] /\ told[c] = "attached"
            => out = c /\ state = "LIVE"

(* The contract the hand task and the players rely on.                     *)

Question ==
    CASE fut = "none" -> "idle"
      [] fut = "waiting" -> "open"
      [] fut = "action" -> "answered"
      [] fut \in {"default", "cancelled"} -> "defaulted"
      [] fut = "expired" -> "failed"

Contract == INSTANCE SeatContract WITH
    owner <- user,
    guest <- IF out \in astray THEN Owner[out] ELSE NoUser,
    question <- Question,
    answerer <- IF answer = NoConn THEN NoUser ELSE Owner[answer]

\* The seat implements the contract.
ImplementsContract == Contract!Spec

(* Liveness.                                                               *)

\* decide() always returns.
DecideResolves == fut = "waiting" ~> fut # "waiting"

\* A seat does not stay HELD for ever: its owner resumes, or it is released.
HoldEnds == state = "HELD" ~> state # "HELD"

-----------------------------------------------------------------------------
(* What a document and an assertion of the code promise, and the code breaks. *)

\* "Assert: B is LIVE" after a same-user takeover.
TakeoverEndsLive ==
    [][\A c \in Conns :
        conn[c] = "closing_old" /\ conn'[c] = "seated" => state' = "LIVE"]_vars

\* "assert self._outbound is not None" in _send_attached.
HandLoopSurvives == table # "crashed"
=============================================================================
