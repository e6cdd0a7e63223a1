------------------------------- MODULE BotSeat -------------------------------
(***************************************************************************)
(* The seat of a bot that runs in a process of its own, for one hand:      *)
(* adapters/bot_runner.py and the calls table/manager.py makes of it       *)
(* (seated, decide, left), each under a deadline of the manager's that     *)
(* cancels the call wherever it waits.  The pipes carry requests down, and *)
(* answers (lines up to a sentinel) up; HELLO goes before every request,   *)
(* and a line said to it before every answer.  What the bot does is        *)
(* external; it is taken to answer a message at most once.                 *)
(***************************************************************************)
EXTENDS Absent, Naturals, Sequences

CONSTANTS
    MaxPrompts,     \* bound: how often the manager asks in the hand
    StrikeLimit     \* failures after which the manager replaces the seat

VARIABLES
    proc,       \* [state, hello, stdin, stdout] of self._proc and its two pipes
    orphans,    \* live processes self._proc no longer names
    mode,       \* self._mode
    wait,       \* where the adapter waits
    asked,      \* prompts so far; the number of the current one, 0 for HELLO
    decided,    \* outcome of the last decide
    strikes,
    debt        \* history: answers of this process that nobody will read for
                \* the message they answer
botVars == <<proc, orphans, mode, wait, asked, decided, strikes, debt>>

States == {"none", "running", "mute", "exited"}     \* mute: stdout closed, not exited
Waits == {"new", "hello", "drain_hello", "idle", "reading", "killing", "reaping", "leaving", "left"}
\* What a line said to HELLO is: an ack, text of any other kind, nothing at all,
\* longer than the limit of the StreamReader, or not UTF-8.
Lines == {"long_running", "short_running", "text", "blank", "overlong", "undecodable"}
\* What an answer is: its first line that is not blank an action, or none; or one of
\* its lines is too long, or not UTF-8.
Answers == {"action", "garbage", "overlong", "undecodable"}
NoChild == [state |-> "none", hello |-> "none", stdin |-> <<>>, stdout |-> <<>>]
ProcAlive == proc.state \in {"running", "mute"}

BotInit ==
    /\ proc = NoChild /\ orphans = 0 /\ mode = "long_running" /\ wait = "new"
    /\ asked = 0 /\ decided = None /\ strikes = 0 /\ debt = 0

-----------------------------------------------------------------------------
(* The process. *)

Spawn(hello, requests) ==
    /\ proc' = [state |-> "running", hello |-> hello, stdin |-> requests, stdout |-> <<>>]
    /\ orphans' = IF ProcAlive THEN orphans + 1 ELSE orphans
    /\ debt' = 0
Exited == [NoChild EXCEPT !.state = "exited"]

(***************************************************************************)
(* The bot takes HELLO, and says a line, a turn, both or neither; a turn   *)
(* is one answer too many, for HELLO is read as one line.                  *)
(***************************************************************************)
BotGreets ==
    /\ proc.state = "running" /\ proc.hello = "unread"
    /\ \E line \in Lines \cup {"none"} :
         \/ proc' = [proc EXCEPT !.hello = line] /\ debt' = debt
         \/ \E kind \in Answers :
              proc' = [proc EXCEPT !.hello = line, !.stdout = <<[kind |-> kind, of |-> 0]>>]
              /\ debt' = debt + 1
    /\ UNCHANGED <<orphans, mode, wait, asked, decided, strikes>>
\* It takes a request, and answers it or not.
BotActs ==
    /\ proc.state = "running" /\ proc.hello # "unread" /\ proc.stdin # <<>>
    /\ \/ proc' = [proc EXCEPT !.stdin = Tail(@)]
       \/ \E kind \in Answers :
            proc' = [proc EXCEPT !.stdin = Tail(@),
                                 !.stdout = Append(@, [kind |-> kind, of |-> Head(proc.stdin)])]
    /\ UNCHANGED <<orphans, mode, wait, asked, decided, strikes, debt>>
\* It dies, or closes its output and stays.
BotFails ==
    /\ ProcAlive
    /\ \/ proc' = [proc EXCEPT !.state = "exited"]
       \/ proc.state = "running" /\ proc' = [proc EXCEPT !.state = "mute"]
    /\ UNCHANGED <<orphans, mode, wait, asked, decided, strikes, debt>>

-----------------------------------------------------------------------------
(* seated. *)

Seated ==
    /\ wait = "new" /\ wait' = "hello" /\ Spawn("unread", <<>>)
    /\ UNCHANGED <<mode, asked, decided, strikes>>
SpawnFails ==
    /\ wait = "new" /\ wait' = "leaving"
    /\ UNCHANGED <<proc, orphans, mode, asked, decided, strikes, debt>>

(***************************************************************************)
(* One line is read: an ack settles the mode, and text means a bot that    *)
(* does not speak HELLO, unless it is JSON but no object.  A line that is  *)
(* too long or not UTF-8 raises, and the seat is replaced.                 *)
(***************************************************************************)
HelloLine ==
    /\ wait = "hello" /\ proc.hello \in Lines \ {"blank"}
    /\ mode' = IF proc.hello = "short_running" THEN proc.hello ELSE mode
    /\ wait' \in CASE proc.hello = "long_running" -> {"idle"}
                   [] proc.hello = "short_running" -> {"drain_hello"}
                   [] proc.hello = "text" -> {"idle", "leaving"}
                   [] OTHER -> {"leaving"}
    /\ proc' = [proc EXCEPT !.hello = "none"]
    /\ UNCHANGED <<orphans, asked, decided, strikes, debt>>
\* A turn said to HELLO loses its first line; the rest stays, up to the sentinel.
HelloTurn ==
    /\ wait = "hello" /\ proc.hello = "none" /\ proc.stdout # <<>>
    /\ wait' \in {"idle", "leaving"}
    /\ \E kind \in IF Head(proc.stdout).kind \in {"overlong", "undecodable"}
                  THEN {Head(proc.stdout).kind} ELSE {"action", "garbage"} :
         proc' = [proc EXCEPT !.stdout[1].kind = kind]
    /\ UNCHANGED <<orphans, mode, asked, decided, strikes, debt>>
HelloSkipped ==
    /\ wait \in {"hello", "drain_hello"} /\ wait' = "idle"
    /\ UNCHANGED <<proc, orphans, mode, asked, decided, strikes, debt>>
\* EOF, or a blank line that is taken for it: the child is reaped, and seated
\* fails when it has exited or the manager's deadline is over.
HelloEof ==
    /\ wait = "hello" /\ wait' = "leaving"
    /\ \/ proc.hello = "blank"
       \/ proc.hello \notin Lines /\ proc.stdout = <<>> /\ proc.state = "exited"
    /\ UNCHANGED <<proc, orphans, mode, asked, decided, strikes, debt>>
\* A bot that acked short_running has exited.
DrainedHello ==
    /\ wait = "drain_hello" /\ proc.state = "exited" /\ wait' = "idle"
    /\ UNCHANGED <<proc, orphans, mode, asked, decided, strikes, debt>>
\* The manager's deadline for seated: the seat is replaced.
SeatedCancelled ==
    /\ wait \in {"hello", "drain_hello"} /\ wait' = "leaving"
    /\ UNCHANGED <<proc, orphans, mode, asked, decided, strikes, debt>>

-----------------------------------------------------------------------------
(* decide. *)

(***************************************************************************)
(* How a decide ends, and what the manager makes of it: a failure is a     *)
(* strike, and the seat is replaced at the limit.                          *)
(***************************************************************************)
DecideEnds(outcome, of) ==
    /\ decided' = [prompt |-> asked, outcome |-> outcome, of |-> of, debt |-> debt]
    /\ strikes' = IF outcome = "action" THEN strikes ELSE strikes + 1
    /\ wait' = IF strikes' >= StrikeLimit THEN "leaving" ELSE "idle"

\* A child that is gone is spawned again, without HELLO, and the request is
\* written; the spawn may fail, or the exit not have been noticed yet.
Decide ==
    /\ wait = "idle" /\ asked < MaxPrompts
    /\ asked' = asked + 1
    /\ \/ /\ ProcAlive /\ wait' = "reading"
          /\ proc' = [proc EXCEPT !.stdin = Append(@, asked + 1)]
          /\ UNCHANGED <<orphans, debt>>
       \/ ~ProcAlive /\ wait' = "reading" /\ Spawn("none", <<asked + 1>>)
       \/ ~ProcAlive /\ wait' = "reaping" /\ UNCHANGED <<proc, orphans, debt>>
    /\ UNCHANGED <<mode, decided, strikes>>

\* A late line said to HELLO comes before the first answer.
Stray == proc.hello \in {"long_running", "short_running", "text"}
Overlong ==
    \/ proc.hello = "overlong"
    \/ proc.hello # "undecodable" /\ proc.stdout # <<>> /\ Head(proc.stdout).kind = "overlong"
Undecodable ==
    \/ proc.hello = "undecodable"
    \/ proc.hello # "overlong" /\ proc.stdout # <<>> /\ Head(proc.stdout).kind = "undecodable"
AnswerReady == proc.stdout # <<>> /\ ~Overlong /\ ~Undecodable

\* An action comes of the one token form of a Botzone action, of anything else an error.
ParseActionString == IF Stray \/ Head(proc.stdout).kind # "action" THEN "parse_error" ELSE "action"
(***************************************************************************)
(* The lines up to the first sentinel are one answer, and the first line   *)
(* that is not blank is the action.  A short-running bot is torn down      *)
(* first, and the manager's deadline may fall in that.                     *)
(***************************************************************************)
ReadAnswer ==
    /\ wait = "reading" /\ AnswerReady
    /\ proc' = IF mode = "short_running" THEN Exited
               ELSE [proc EXCEPT !.hello = "none", !.stdout = Tail(@)]
    /\ \/ DecideEnds(ParseActionString, Head(proc.stdout).of)
       \/ mode = "short_running" /\ DecideEnds("timeout", 0)
    /\ UNCHANGED <<orphans, mode, asked, debt>>
(***************************************************************************)
(* readline drops a line that is too long and raises ValueError, which     *)
(* decide does not catch: what follows stays, up to its sentinel.          *)
(***************************************************************************)
ReadRaises ==
    /\ wait = "reading" /\ Overlong /\ DecideEnds("crash", 0)
    /\ IF proc.hello = "overlong"
       THEN \E rest \in {"none", "text"} : proc' = [proc EXCEPT !.hello = rest]
       ELSE \E kind \in Answers \ {"undecodable"} :
              proc' = [proc EXCEPT !.hello = "none", !.stdout[1].kind = kind]
    /\ debt' = debt + 1
    /\ UNCHANGED <<orphans, mode, asked>>
\* The bot's own budget: its process is killed before decide fails.
ReadTimeoutAbandons ==      \* Mutant: the read is abandoned and the process kept.
    /\ wait = "reading" /\ ~AnswerReady /\ ~Overlong /\ ProcAlive /\ DecideEnds("read_timeout", 0)
    /\ UNCHANGED <<proc, orphans, mode, asked, debt>>
ReadTimeout ==
    /\ wait = "reading" /\ ~AnswerReady /\ ~Overlong /\ ProcAlive /\ wait' = "killing"
    /\ UNCHANGED <<proc, orphans, mode, asked, decided, strikes, debt>>
ReadUndecodable ==
    /\ wait = "reading" /\ Undecodable /\ wait' = "killing"
    /\ UNCHANGED <<proc, orphans, mode, asked, decided, strikes, debt>>
Killed ==
    /\ wait = "killing" /\ proc' = Exited
    /\ \E outcome \in {"read_timeout", "framing_error"} : DecideEnds(outcome, 0)
    /\ UNCHANGED <<orphans, mode, asked, debt>>
ReadEof ==
    /\ wait = "reading" /\ proc.stdout = <<>> /\ ~Overlong /\ ~Undecodable
    /\ proc.state \in {"mute", "exited"} /\ wait' = "reaping"
    /\ UNCHANGED <<proc, orphans, mode, asked, decided, strikes, debt>>
\* Noticed at the read, or already at the write.
Reaped ==
    /\ wait = "reaping" /\ proc.state = "exited"
    /\ \E outcome \in {"framing_error", "process_exit"} : DecideEnds(outcome, 0)
    /\ UNCHANGED <<proc, orphans, mode, asked, debt>>

(***************************************************************************)
(* The manager's deadline, or the end of the step, cancels decide where it *)
(* waits: in the grace of a kill the child is killed all the same, in a    *)
(* read it is left as it is, its answer still to come; the lines read so   *)
(* far are lost.                                                           *)
(***************************************************************************)
DecideCancelled ==
    /\ wait \in {"reading", "killing", "reaping"} /\ DecideEnds("timeout", 0)
    /\ IF wait = "killing" THEN proc' = Exited /\ debt' = debt
       ELSE /\ \/ proc' = proc
               \/ Stray /\ proc' = [proc EXCEPT !.hello = "none"]
            /\ debt' = debt + 1
    /\ UNCHANGED <<orphans, mode, asked>>

-----------------------------------------------------------------------------
(* left. *)

\* The hand ends, or the table closes.
HandOver ==
    /\ wait = "idle" /\ wait' = "leaving"
    /\ UNCHANGED <<proc, orphans, mode, asked, decided, strikes, debt>>
\* SIGTERM, the grace, SIGKILL; cut short by the manager, SIGKILL at once.
LeftUnlessShort ==          \* Mutant: a short-running bot is trusted to have exited.
    /\ wait = "leaving" /\ wait' = "left"
    /\ proc' = IF ProcAlive /\ mode = "long_running" THEN Exited ELSE proc
    /\ UNCHANGED <<orphans, mode, asked, decided, strikes, debt>>
Left ==
    /\ wait = "leaving" /\ wait' = "left"
    /\ proc' = IF ProcAlive THEN Exited ELSE proc
    /\ UNCHANGED <<orphans, mode, asked, decided, strikes, debt>>

BotNext ==
    \/ BotGreets \/ BotActs \/ BotFails
    \/ Seated \/ SpawnFails \/ HelloLine \/ HelloTurn \/ HelloSkipped \/ HelloEof
    \/ DrainedHello \/ SeatedCancelled
    \/ Decide \/ ReadAnswer \/ ReadRaises \/ ReadTimeout \/ ReadUndecodable \/ Killed
    \/ ReadEof \/ Reaped \/ DecideCancelled
    \/ HandOver \/ Left

BotSpec == BotInit /\ [][BotNext]_botVars

-----------------------------------------------------------------------------
(***************************************************************************)
(* An action the runner returns answers the prompt it was asked for, or is *)
(* late by no more answers than this process was left owing: one for each  *)
(* read that was cut short or that raised, and one for a turn said to      *)
(* HELLO.  Whatever else fails, times out or dies, its answer dies with it.*)
(***************************************************************************)
AnswersInTurn ==
    decided # None => (decided.outcome = "action" => decided.of + decided.debt >= decided.prompt)

(***************************************************************************)
(* No process outlives the hand: whatever failed, timed out or was         *)
(* cancelled, one process at a time is the seat's, and left ends it.       *)
(***************************************************************************)
NoProcessOutlives == orphans = 0 /\ (wait = "left" => ~ProcAlive)

-----------------------------------------------------------------------------
(* What a document promises, and the code breaks. *)

\* "Per-turn timeout terminates the subprocess; it does not just abandon the read."
TimeoutEndsProcess ==
    [][(decided' # decided /\ decided'.outcome \in {"timeout", "read_timeout"}) => ~ProcAlive']_botVars
=============================================================================
