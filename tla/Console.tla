------------------------------- MODULE Console -------------------------------
(***************************************************************************)
(* The control panel: control/supervisor.py owns one `serve` process,      *)
(* control/plane.py turns commands into calls of it and answers with a     *)
(* STATUS, control/server.py sends that to every open page and repeats it  *)
(* on a timer.  Commands of several pages meet at the supervisor's lock,   *)
(* which they take in turn; a STATUS is read before an await and sent      *)
(* after it.                                                               *)
(***************************************************************************)
EXTENDS Absent, Tabs, Naturals, Sequences

VARIABLES
    state,      \* self._state of the supervisor
    child,      \* the process it names: "none", "booting", "ready", "dead"
    serving,    \* `serve` processes alive
    watcher,    \* the watcher task is armed
    unspawned,  \* the last attempt to spawn raised
    line,       \* who holds the lock (first) and who waits: [who, todo]
    at,         \* where the holder waits
    draft,      \* STATUS being built: page or timer -> None or [state, all]
    open,       \* the pages connected
    shown       \* page -> the state its last STATUS told
supervised == <<state, child, serving, watcher, unspawned>>
told == <<draft, open, shown>>
consoleVars == <<supervised, line, at, told>>

Timer == "timer"
ConsoleInit ==
    /\ state = "STOPPED" /\ child = "none" /\ serving = 0 /\ watcher = FALSE /\ unspawned = FALSE
    /\ line = <<>> /\ at = "begin"
    /\ draft = [b \in Pages \cup {Timer} |-> None]
    /\ open = {} /\ shown = [p \in Pages |-> None]

Alive == child \in {"booting", "ready"}
Holder == Head(line)
Doing(step) == line # <<>> /\ Head(Holder.todo) = step
Busy(p) == draft[p] # None \/ \E k \in 1 .. Len(line) : line[k].who = p

-----------------------------------------------------------------------------
(* The lock, and what follows an operation. *)

\* A STATUS: the state is read first, the server's report and its health take time.
BuildStatus(ofState, toAll) == [state |-> ofState, all |-> toAll]

(***************************************************************************)
(* An operation is over: the lock goes to the next in line, a restart      *)
(* queues again for its second half, and a finished command starts its     *)
(* STATUS with the state as it is now.                                     *)
(***************************************************************************)
Concludes ==
    /\ at' = "begin"
    /\ line' = IF Len(Holder.todo) > 1
               THEN Append(Tail(line), [Holder EXCEPT !.todo = Tail(@)])
               ELSE Tail(line)
    /\ draft' = IF Len(Holder.todo) = 1
                THEN [draft EXCEPT ![Holder.who] = BuildStatus(state', TRUE)]
                ELSE draft
    /\ UNCHANGED <<open, shown>>

Closed(pages) ==
    /\ open' = open \ pages
    /\ shown' = [p \in Pages |-> IF p \in pages THEN None ELSE shown[p]]

-----------------------------------------------------------------------------
(* start. *)

Started == state \in {"STARTING", "RUNNING"}
StartReturns ==
    /\ Doing("start") /\ at = "begin" /\ Started
    /\ UNCHANGED supervised /\ Concludes
StartSpawnsAgain ==     \* Mutant: a server that runs does not keep another from being spawned.
    /\ Doing("start") /\ at = "begin" /\ state # "STARTING"
    /\ state' = "STARTING" /\ child' = "booting" /\ serving' = serving + 1 /\ at' = "probing"
    /\ unspawned' = FALSE
    /\ UNCHANGED <<watcher, line, told>>
StartSpawns ==
    /\ Doing("start") /\ at = "begin" /\ ~Started
    /\ state' = "STARTING" /\ child' = "booting" /\ serving' = serving + 1 /\ at' = "probing"
    /\ unspawned' = FALSE
    /\ UNCHANGED <<watcher, line, told>>
\* The exception ends the page's handler; the state stays STARTING.
SpawnRaises ==
    /\ Doing("start") /\ at = "begin" /\ ~Started
    /\ state' = "STARTING" /\ unspawned' = TRUE
    /\ line' = Tail(line) /\ Closed({Holder.who})
    /\ UNCHANGED <<child, serving, watcher, at, draft>>
\* Exited before it was ready.
StartFails ==
    /\ at = "probing" /\ child = "dead" /\ state' = "CRASHED"
    /\ Concludes /\ UNCHANGED <<child, serving, watcher, unspawned>>
\* The probe is answered; by the time the answer is here the child may be gone.
ProbeAnswered ==
    /\ at = "probing" /\ child = "ready" /\ at' = "answered"
    /\ UNCHANGED <<supervised, line, told>>
StartSucceeds ==
    /\ at = "answered" /\ state' = "RUNNING" /\ watcher' = TRUE
    /\ Concludes /\ UNCHANGED <<child, serving, unspawned>>
StartTimesOut ==
    /\ at = "probing" /\ at' = "terminating"
    /\ UNCHANGED <<supervised, line, told>>

-----------------------------------------------------------------------------
(* stop, and the watcher. *)

StopReturns ==
    /\ Doing("stop") /\ at = "begin" /\ (child = "none" \/ state \in {"STOPPED", "CRASHED"})
    /\ state' = "STOPPED"
    /\ Concludes /\ UNCHANGED <<child, serving, watcher, unspawned>>
StopBegins ==
    /\ Doing("stop") /\ at = "begin" /\ child # "none" /\ state \notin {"STOPPED", "CRASHED"}
    /\ state' = "STOPPING" /\ watcher' = FALSE /\ at' = "terminating"
    /\ UNCHANGED <<child, serving, unspawned, line, told>>
\* SIGTERM, the wait, SIGKILL: of a stop, or of a start that took too long.
Terminated ==
    /\ at = "terminating" /\ state' = "STOPPED"
    /\ child' = "dead" /\ serving' = IF Alive THEN serving - 1 ELSE serving
    /\ Concludes /\ UNCHANGED <<watcher, unspawned>>
Watch ==
    /\ watcher /\ child = "dead" /\ watcher' = FALSE
    /\ state' = IF state = "RUNNING" THEN "CRASHED" ELSE state
    /\ UNCHANGED <<child, serving, unspawned, line, at, told>>

\* The process itself.
ChildBoots ==
    /\ child = "booting" /\ child' = "ready"
    /\ UNCHANGED <<state, serving, watcher, unspawned, line, at, told>>
ChildDies ==
    /\ Alive /\ child' = "dead" /\ serving' = serving - 1
    /\ UNCHANGED <<state, watcher, unspawned, line, at, told>>

-----------------------------------------------------------------------------
(* The pages. *)

Command(p) ==
    /\ p \in open /\ ~Busy(p)
    /\ \E todo \in {<<"start">>, <<"stop">>, <<"stop", "start">>} :
         line' = Append(line, [who |-> p, todo |-> todo])
    /\ UNCHANGED <<supervised, at, told>>
\* A page opens and is told at once; the first STATUS goes to it alone.
Opens(p) ==
    /\ p \notin open /\ ~Busy(p)
    /\ open' = open \cup {p} /\ UNCHANGED shown
    /\ draft' = [draft EXCEPT ![p] = BuildStatus(state, FALSE)]
    /\ UNCHANGED <<supervised, line, at>>
Leaves(p) ==
    /\ p \in open /\ Closed({p})
    /\ UNCHANGED <<supervised, line, at, draft>>
TimerTicks ==
    /\ draft[Timer] = None /\ open # {}
    /\ draft' = [draft EXCEPT ![Timer] = BuildStatus(state, TRUE)]
    /\ UNCHANGED <<supervised, line, at, open, shown>>
StatusSentToSender(b) ==    \* Mutant: a STATUS goes to the page that asked for it only.
    /\ draft[b] # None /\ draft' = [draft EXCEPT ![b] = None]
    /\ shown' = [p \in Pages |-> IF p \in open /\ p = b THEN draft[b].state ELSE shown[p]]
    /\ UNCHANGED <<supervised, line, at, open>>
StatusSent(b) ==
    /\ draft[b] # None /\ draft' = [draft EXCEPT ![b] = None]
    /\ shown' = [p \in Pages |->
                    IF p \in open /\ (draft[b].all \/ p = b) THEN draft[b].state ELSE shown[p]]
    /\ UNCHANGED <<supervised, line, at, open>>

Supervises ==
    \/ StartReturns \/ StartSpawns \/ StartFails \/ ProbeAnswered \/ StartSucceeds
    \/ StopReturns \/ StopBegins \/ Terminated
ConsoleNext ==
    \/ Supervises \/ SpawnRaises \/ StartTimesOut \/ Watch \/ ChildBoots \/ ChildDies
    \/ \E p \in Pages : Command(p) \/ Opens(p) \/ Leaves(p)
    \/ TimerTicks \/ \E b \in Pages \cup {Timer} : StatusSent(b)

(***************************************************************************)
(* The event loop runs what is ready, the timer fires, and every wait of   *)
(* the supervisor's ends: a probe within its deadline, a process within    *)
(* the grace or by SIGKILL.                                                *)
(***************************************************************************)
ConsoleFairness ==
    /\ WF_consoleVars(Supervises) /\ WF_consoleVars(StartTimesOut) /\ WF_consoleVars(Watch)
    /\ WF_consoleVars(TimerTicks) /\ \A b \in Pages \cup {Timer} : WF_consoleVars(StatusSent(b))
ConsoleSpec == ConsoleInit /\ [][ConsoleNext]_consoleVars /\ ConsoleFairness

-----------------------------------------------------------------------------
(***************************************************************************)
(* There is at most one server, and none that the console does not know    *)
(* of: when it says STOPPED or CRASHED no process serves, whatever the     *)
(* pages press at the same time and whichever start fails.                 *)
(***************************************************************************)
OneServer == serving <= 1 /\ (state \in {"STOPPED", "CRASHED"} => serving = 0)

(***************************************************************************)
(* No open page is left with a wrong idea of the server: again and again   *)
(* it shows a server that is up as RUNNING and one that is gone as CRASHED *)
(* or STOPPED, even where an older STATUS overtakes a newer one.  (After a *)
(* spawn that raised the state stays STARTING, and the pages show that.)   *)
(***************************************************************************)
ShowsTheServer(p) ==
    p \in open =>
       /\ child = "dead" => (unspawned \/ shown[p] \in {"CRASHED", "STOPPED"})
       /\ child = "ready" => shown[p] = "RUNNING"
PagesShowTheServer == \A p \in Pages : []<>ShowsTheServer(p)
=============================================================================
