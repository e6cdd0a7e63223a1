# A TLA+ model of the mahjong server

The program is a mahjong server: a rule engine for MCR mahjong, a table manager
that plays one hand with four seat adapters (people, bots, scripts), a session
layer that lets a person lose the socket and come back, a registry that plays
hand after hand at each table, and the stores, panels and pages around them.
The server runs on **one asyncio loop**, with a thread pool for the database:
there is little parallelism, but every `await` lets other coroutines and timers
run, and most of what can go wrong goes wrong there. Bots, the control panel,
self-play workers and the browser are processes of their own.

Contents: [the system](#the-system), [modules](#the-modules), [runs](#the-runs),
[disagreements](#where-code-and-documents-disagree),
[proofs](#the-proofs), [limits](#what-is-not-modelled-and-why),
[plan](#plan).

## The system

| component | state it keeps | operations | what is hard | what makes it correct | module |
|---|---|---|---|---|---|
| Seat session (`sessions/mux.py`, `sessions/timers.py`, `adapters/human.py`) | UNBOUND / LIVE / HELD, owner, sink, ring buffer, pending prompt, hold timer | attach (bind, takeover, resume), detach, socket drop, ACTION, decide, observe, begin_next_hand, shutdown, two timers | every send is an await in the middle of an operation; five parties race to resolve one future | fields agree with the state; a prompt is resolved once and by the owner; a dropped seat comes back or is released; nothing buffered is lost | `SeatSession` |
| Table handle and registry (`server/registry.py`, `cli/serve.py`) | hand task, hand index, ready set, stop event, tables | START_HAND, hand loop, pause, ready gate, drain, create, list, close | wake-ups between "clear", "check" and "wait"; stop at any point; START_HAND against a drain; a close that awaits | no lost wake-up; nobody is dealt into a hand unasked; a drain finishes what runs; a hand keeps its player | `HandLoop`, `Lobby` |
| Rule engine (`engine/`) | the game state (pure values) | deal, legal actions, apply_action | claims, three kinds of kong, replacement draws, an exhausted wall | tiles are conserved, hands keep their size, a hand ends | `Hand` |
| Table manager (`table/manager.py`, `adapters/autopass.py`) | adapters, strikes, the record writer | one step per phase: prompt, gather, resolve, apply, write and fan out; replace a seat; watchdog | answers in any order, timeouts and crashes of any seat, several claims on one tile | the outcome depends on the claims alone; the record is complete; the hand completes | `TableHand` |
| Records (`records/`) | a JSONL file per hand | diff, write, footer, read, replay | the event vocabulary is not one event per applied action | a record replays to the state that wrote it | `TableHand`, `HandReplay`, `MatchRecords` |
| Event stream and board (`engine/state.py`, `sessions/mux.py`, `web/static/apply_event.js`) | the snapshot a table serves, the page's board | snapshot, fan-out, filter, apply | snapshot and events overlap or leave a gap | the board equals the projection | `ClientView` |
| Persistence of hands (`persistence/hands.py`, `rebuild.py`, `achievements.py`) and match score (`table/match_score.py`, `rotation.py`, `engine/scoring.py`) | hand rows, participants, totals, dealer | reserve, finalize, sweep, report, rebuild, settle | a crash or a failed write between any two steps | rows, records and standings agree after any restart; zero sum | `MatchRecords`, `History`, `Scoring` |
| Accounts, sessions, invites, rate limiter (`persistence/auth.py`, `accounts.py`, `invites.py`, `server/ratelimit.py`) | accounts, sessions, invites, windows per address | register, login, resume, renew, revoke, disable | requests of several connections race through the executor | an invite is not used more often than it says, a disabled account stays out, budgets hold | `Auth` |
| Connections (`server/orchestrator.py`, `wire/server.py`) | phase and identity per connection | auth, list, create, attach, spectate, leave, close; history, profile, replay | the phase of the handler and the tables' books are separate; pages of a list that grows | a connection is bound where its handler is; an account is shown each of its hands once | `Auth`, `Lobby`, `History` |
| Bot runner (`adapters/bot_runner.py`) | a process, two pipes, a mode | spawn, HELLO, request, answer, kill | late answers, dead processes, a caller that cancels, a bot that answers HELLO with a turn | an answer belongs to its request, or the runner is known to be behind; no process is left | `BotSeat` |
| Self-play (`selfplay/runner.py`, `cli/selfplay.py`) | a directory of records | scan, recover, play, stop, resume | kills at any point, several workers in one directory | success means complete; what is complete stays | `SelfPlay` |
| Control panel (`control/`) | the server process, open pages | start, stop, restart, STATUS | commands of several pages, crashes, stale statuses | one server, and the pages show what it is | `Console` |
| Browser client (`web/static/app.js`) | view, token, retry, attached seat | connect, resume, rejoin, START_HAND, leave, profile | frames lost with the socket; replaced by another tab; a takeover that waits | the page knows whether it has its seat; the hand starts | `Rejoin` |
| Randomness (`engine/rng.py`, `hashing.py`), codec (`wire/codec.py`), configuration (`server/config.py`), policies (`bots/`) | none, or constant | pure functions | | | not modelled |

How they meet: a connection's handler authenticates against the stores, then
calls `TableHandle.attach` and `handle_inbound`, which call the seat's session;
the hand task calls the same session through `HumanAdapter` (decide, observe,
left) and between hands through `begin_next_hand`; `run_hand` calls the engine,
writes what `diff_to_events` makes of each step and sends it to the seats;
`replay` reads that back with the engine; the hand task reserves and finalizes
the row of each hand around `run_hand`; a hold expiry calls back from the session
into the registry, to wake the gate. The control panel knows the server as a
process and by its health port only; self-play calls `run_hand` with bots.

## The modules

| module | models | state and actions |
|---|---|---|
| `SeatSession` | one seat, its connections, the hand task and the timers | One step is the code between two awaits. `conn[c]` and `table` are the program counters of the handlers and of the hand task: `detaching_old` and `closing_old` are the two awaits of `_takeover`, `replaying` and `reprompting` those of `_resume`, `acking` that of `graceful_detach`, `next_hand` that of `begin_next_hand`, `detaching` and `closing` those of `shutdown`. `Suspends` names the operations whose awaits really let the loop run something else; with an operation left out its steps follow each other without a pause. `fut` is the prompt's future; `shown` is the prompt an account's page displays (an ACTION carries its prompt_id); `told`, `answer` and `endFate` record what was sent and accepted, for the properties only; so does `astray`, the connections over which a takeover, a detach or a shutdown went on although the seat it had checked before its await was no longer the same. |
| `SeatContract` | what the hand task and the players rely on | a seat is owned by one account at a time, and a question is settled once, by the owner, by default or by failure. `guest` is the account that a takeover which was overtaken during its await has put in the sink; it can answer too, and the contract says so |
| `HandLoop` | the hand loop, the gate, drain and close | `loop` is the hand task's program counter; `showing` is the await of the roster's sends, `asleep` the wait for READY or stop, `boundary` the awaits of `begin_next_hand`. `Moves` says what the players of a run do. |
| `Hand` | the rule engine | `apply_action` as a state machine. Tiles are positions in the shuffled wall, so two equal tiles stay apart and conservation can be stated; the code's lists of tokens are recovered by `deck[i]`. One action per `apply_*` function, with the draw or the window that follows inside it. |
| `TableHand` | `run_hand` over `Hand` | `step` is where the manager stands; `Ask`, one `Decide`, `DecideAuto` or `DecideFails` per prompted seat, then `StepDiscard`, `StepClaim` or `ApplyAllPass`, each with the events it writes (`log`) and the strikes it counts |
| `HandReplay` | `replay` next to `TableHand` | a second copy of `Hand` (`R == INSTANCE Hand WITH ...`) is the replay's state; `ReadOn` and `ReadMove` are the branches of its loop, `Only` its search of the window |
| `ClientView` | one viewer of `TableHand` | `board` is the page's, folded by one operator per `apply*` function of the reducer; `served` the snapshot the table would send; `sent` how far the events of the step were fanned out; `Moments` says when a viewer may come: within a step, or between two |
| `Scoring` | settlements, standings, dealer | operators: `ScoreDelta` for both schemes, `RecordHand`, `NextDealer` |
| `MatchRecords` | the hands of a table on disk | `pc` is the program counter of the hand loop around `run_hand`: reserve, open, header, play, footer, finalize, tally. `Crash` may come between any two, `AbortHand` ends the hand inside. `Start`, `MarkAborted` and `Listen` are the startup of `serve`, `RebuildFile` is one record of a rebuild; `failed` records rows whose write failed, for the properties only |
| `History` | what an account is shown of its hands | no state of its own: `HistoryPage`, `Profile` and `Replay` are the answers to GET_HISTORY, GET_PROFILE and GET_REPLAY, computed from the rows and files of `MatchRecords` whenever they are asked for. `FromDataDir` says that the server was started in its data directory, because GET_REPLAY opens the path a row stores from the working directory |
| `Auth` | the AUTH loop and the stores behind it | `phase[c]` with its awaits of the executor (`verify`); `RegisterWrites`, `LoginReads`, `ResumeReads` run in the pool under the façade's lock; an operator process disables accounts and revokes sessions between them |
| `Lobby` | what a connection does once it is in | `place[c]` and `phase[c]` are the handler's view, `seat[t]` and `watchers[t]` the tables'; `closing[a]` is a close_table that awaits; `player[t]` the account the running hand was dealt to |
| `BotSeat` | one bot process and the manager's calls of it | pipes as sequences of messages; each await of the runner is a value of `wait`, at which the manager's deadline may cancel it. The bot is external: it says any line to HELLO (an ack, other text, a blank line, one too long for the StreamReader or not UTF-8), a turn, or nothing, and answers a message at most once. What stays in the pipe stays: `debt` counts the answers of the process that nobody will read as what they are, one for each read that was cut short or raised and one for a turn said to HELLO |
| `SelfPlay` | parent, workers and the directory | a record is absent, opened, partial or complete; `WorkerDies`, `ParentDies` and `HostCrashes` anywhere. `StartRun` takes no lock and looks for nobody, as in the code; that runs do not overlap is the assumption `OneRunAtATime` on whoever starts them, stated apart |
| `Console` | supervisor, plane and admin socket | `line` is the supervisor's lock with its queue, `at` the await of its holder; `draft` a STATUS between its building and its sending |
| `Rejoin` | a page and its way back to its seat | `page[p]` what the page shows and knows: its view (the profile, or a replay opened from it, is one) and whether it takes itself for attached; `link`, `up`, `down` the socket and the frames in flight, which are lost with it; `handler[p]` the connection's handler, `taking` while a takeover of its waits for the old socket to close and `closing` while its own is being closed; `seat[u]` the seat; `ghosts[u]` takeovers by a socket that died meanwhile; `misled` records the pages that were told ATTACHED over a seat no longer LIVE, or put out of their seat without a close, for the properties only; `drops` and `clicks` bound what network and people do |
| `MCSeatSession`, `MCHandLoop`, `MCHand`, `MCTableHand`, `MCHandReplay`, `MCClientView`, `MCLobby`, `MCMatchRecords`, `MCBeside`, `MCReturn` | instances for TLC | `MCHandReplay` runs the manager with its replay on one wall and the bare rules on two; `MCLobby` starts at the door or in the house; `MCBeside` runs four parts that share no state, one in each behaviour: it extends `MCMatchRecords`, `BotSeat`, `SelfPlay` and `Console`; `MCReturn` runs one seat, or two pages of one account or of two |
| `Absent`, `Tabs` | nothing | declare `None` and `Pages` once for the modules `MCBeside` brings together |
| `SeatSession_proofs`, `HandLoop_proofs`, `TableHand_proofs`, `HandReplay_proofs`, `ClientView_proofs`, `MatchRecords_proofs`, `Lobby_proofs`, `Beside_proofs` | proofs | below |

Definitions whose comment starts with "Mutant" are plausible bugs, used to see
that the properties notice them; no specification uses them.

## The runs

Runs that pass:

| run | question | bounds | why they are enough |
|---|---|---|---|
| `SeatAnyOrder` | does the seat stay consistent whatever the awaits let through: do its fields agree, is a prompt resolved once, does the sink belong to the seat's account, does an answer come from the page that shows the prompt, is a client that was told it is attached attached, and does the seat keep its contract? | 3 connections, 2 accounts, 2 hands, 2 prompts per hand, buffer of 2; every await of every operation suspends | a takeover needs two connections of one account, a theft or a guest one of another; overflow needs three events for a buffer of two; what one hand leaves behind shows in the second. `SinkIsOwners`, `ToldTruth` and `AnsweredByOwner` exempt the connections in `astray`, by name: those a takeover installed, or ousted, over a seat that changed during its await, and those a detach or a shutdown tore down although they attached after it began. What may become of these is `SeatTakeoverRace`. `prompt_id` recurs from hand to hand in the code (`p_{seat}_{turn}_{kind}`); `shown` tells the outstanding prompt from earlier ones |
| `Return` | seat: does every decide return, and does HELD end? page: does it come to know whether it has its seat, whatever was clicked, taken over or lost, and does the hand start? | seat: 2 connections of one account, 2 prompts, one hand; page: 2 pages of 1 or 2 users, 1 drop, 2 clicks (join, leave, profile), 2 attempts at AUTH where the code allows 3; under fairness | begin_next_hand cancels the hold timer, see below: with a second hand `HoldEnds` is false. Two tabs replace each other; a drop may fall into a takeover; a profile may be opened and left at the table; two frames sent before the RESUME use the attempts up |
| `Loop` | is anybody dealt in unasked, does a drain keep the hand, does the gate advance, does a stop end the loop? | 2 human seats, 3 hands, every move; `GateAdvancesIfAllStay` speaks of the tables nobody leaves by DETACH | one seat can be ready and the other not; the gate is passed twice, so stale READYs show; a detach stalls the gate: `LoopDetachStall` |
| `Hands` | are the rules of a hand coherent, does the manager play and record every game right, does each record replay? | hands of 4 tiles, walls of 21 tiles, every dealer, every legal game on two walls; one of them played by the manager, with one seat that may time out and that or the seat before it as dealer, two strikes | the walls offer every claim and every kong, one ends in a kong's replacement draw; all orders of up to three answers; the flaky seat passes its limit; every kind of event and closer occurs |
| `Client` | does a board follow the game? | one viewer, a player or a spectator, that comes back or in at any point between two steps of any game | each event kind reaches a viewer of each seat; within a step it does not: `BoardGap` |
| `Lobby` | does the door let in whom it should, does a connection's place agree with the tables' books? | 2 connections; at the door: 3 names (two that differ in case), 1 invite of 2 uses, 2 attempts, 1 failed login and 2 registrations per window, 1 operator's intervention; in the house: 2 tables, 1 spectator | a race needs two; a limit is passed by the second; the window and the session end once |
| `Beside` | records: do rows, files and standings agree after any crash, and does an account see each of its hands once and as it ended? bot: is an answer behind its prompt by no more than the runner was left behind? corpus: is success complete? panel: is there one server? | records: a boot of 2 hands and one of 1, 1 fault, pages of 2, the server started in its data directory; bot: 4 prompts, 2 strikes; corpus: 4 hands, 2 workers, 3 runs, 2 configurations; panel: 2 pages, of which one stays open unless its connection breaks | a row left open is swept by the second boot, whose hands have the same numbers; three hands fill a page of two and begin another; a turn said to HELLO and a cut read put the answers two behind before the strikes end it; a resume of a resume with the other configuration; two pages are a restart against a stop |

Fairness. The asyncio loop runs every ready coroutine and fires every armed
timer, so the steps of coroutines that are past an await and the timers are
weakly fair. People and the network owe nothing: attaching, answering, closing
a socket and READY are never fair. `HandLoop` also assumes that a hand ends,
which is what `HandEnds` shows of it: each prompted seat answers or is timed out
by `wait_for`, and the watchdog ends a step that hangs. For the bare rules of
`Hands`, `HandEnds` assumes that somebody goes on playing. `MatchRecords` assumes
that the server goes on and is started again after a crash; without the second
an open row stays open. `Console` assumes that every wait of the supervisor ends
(each has a deadline) and that the STATUS timer ticks; commands, crashes and
pages are not fair. `Rejoin` assumes that a page's retry timer fires, that frames
on a live socket arrive in order, and that the server notices a dead socket in
the end (its ping); drops and clicks are bounded, because a page that is
dropped for ever settles nowhere.

Bounds are stated in the cfg files. `BufferCapacity` is 256 in the code,
`StrikeLimit` 3, `HandSize` 13, `Attempts` 3; `Decks` and `Winning` stand for the seed and the
external library that decides what wins. `MaxBoots`, `MaxFaults`, `MaxRuns`,
`MaxDrops`, `MaxClicks`, `MaxOps`, `MaxTime`, `MaxPrompts` and `MaxHands` bound
how long a behaviour goes on and have no counterpart.

The type invariants `TypeOK` of `SeatSession`, `HandLoop` and `Hand` are proved
and not run.

## Where code and documents disagree

Five runs check a sentence of a document, a docstring or an assertion that the
code breaks; `PROJECT.json` quotes the sentence and the lines.

| run | what happens |
|---|---|
| `SeatTakeoverRace` | while a takeover waits for the close of the old socket, the handler of that socket notices its end and puts the seat on hold; the new sink is installed and told ATTACHED, but the seat stays HELD with its hold timer running |
| `SeatNextHandCrash` | a drop inside `begin_next_hand` trips an assert and ends the match |
| `LoopDetachStall` | a detach at the gate wakes nobody; the others, all ready, wait on |
| `BoardGap` | a spectator who comes in after the events of a step were sent, and before the state after it is published, gets the snapshot from before it and none of its events; the board is wrong from then on. A seat that resumes at that moment is served the same snapshot |
| `BotDeadline` | the manager's deadline cancels the read of an answer and leaves the bot's process running with the request in its pipe, though its per-turn timeout is to terminate it |

Modelling the code showed further ones. The models contain the behaviour, no run
is spent on it.

Seats and tables:

* `begin_next_hand` cancels the hold timer of a HELD seat (`mux.py:825`), against
  "The hold timer is running" (`docs/specs/session-mux.md:81`): only the owner's
  return, or the end of the table, ends that HELD.
* After a hold expiry `decide` parks a future in the UNBOUND seat (`mux.py:592`)
  and the hand waits its deadline out, prompt after prompt, until the strike
  limit, where `session-mux.md:314` lets `decide` raise.
* A HAND_END sent to a socket that is closed but not yet noticed is swallowed
  (`mux.py:560`), against `session-mux.md:141`.
* A takeover of a LIVE seat does not send the outstanding prompt again
  (`mux.py:447`), against `docs/specs/reconnect-rejoin.md:49-51`.
* A READY that arrives in the pause before the gate is cleared when the gate
  opens (`registry.py:793`), and the client sends no second one.
* A seat that leaves by DETACH stays on the gate's roster (`registry.py:784`).
* A stop that arrives while `begin_next_hand` sends its frames does not keep the
  next hand from starting (`registry.py:948-951`).
* After a pung or a chow `last_drawn` is None, the case `manager.py:205` calls
  one that should not happen; the default of that prompt is the first legal PLAY.
* CLAIM_DECISIONs are written in seat order, not in the order of submission
  (`docs/specs/record-format.md:262`).
* An adapter that raises gets a strike instead of being replaced at once
  (`docs/specs/seat-port.md:163-171`).
* START_HAND is accepted after the drain began (`registry.py:693`); the drain
  does not wait for that hand, which is cut, against
  `docs/specs/server-lifecycle.md:13`. `DrainKeepsHand` says this is the only
  way to lose one.
* A table that is being closed can still be joined (`registry.py:1297`, against
  `server-lifecycle.md:255`): whoever comes during the close stays at a table
  that is in no list. A second close of it ends in a KeyError. The
  `shutting_down` answer of `wire-protocol.md:608` is never given, because no
  caller supplies the callback (`mux.py:877-907`).
* A table number is used up when the table's directory cannot be made.
* `MAHJONG_MAX_SPECTATORS_PER_TABLE` (`server/config.py:188`) is parsed and never
  passed on; the default always holds (`session-mux.md:202`).
* Spectators get no snapshot when the next hand begins, and the deal is no event:
  their board stays at the hand that ended (`session-mux.md:204`).
* Hand seeds are the table's seed plus the hand's index, and table seeds are the
  server's plus the table's number: neighbouring tables play the same walls, one
  hand apart (`registry.py:902`, `:1243`).

Records and the index:

* DRAW events always carry no flower replacements (`records/diff.py:313`, against
  `docs/specs/record-format.md:180`).
* A HAND_END that is replayed after a terminal snapshot is added to the scores of
  the board a second time, against "idempotent" in `session-mux.md:149`.
* A rebuild is no no-op on a healthy index: it rewrites rows with what a record
  alone says (`persistence/rebuild.py:229`, against
  `docs/specs/persistence-api.md:243`).
* The sweep at startup marks a hand ABORTED even where its record has a footer
  (`server-lifecycle.md:214`), and the report calls the empty checksums of aborted
  rows mismatches. No command line rebuilds the index, though `serve.py:124` names
  one.
* GET_REPLAY opens `record_path` relative to the working directory
  (`orchestrator.py:969`), the rows store it relative to the data directory
  (`registry.py:1026-1037`). With the repository's own first command,
  `MAHJONG_DATA_DIR=./var/mahjong` (`README.md:47-51`), the two differ and every
  replay is answered `replay_unavailable`: `FromDataDir` is FALSE there, and
  `HistoryTellsTruth` claims a recording only where it is TRUE. The tests pass
  absolute paths.

Accounts:

* The login limiter is checked before a call to the executor and charged after
  it (`orchestrator.py:416-436`): as many failed logins as there are connections
  verifying may pass the limit (`docs/specs/public-deployment.md:284`);
  `BudgetsHold` states the bound that holds. Its `sweep` is never called.
* The duplicate check for a name and the INSERT are two statements outside a
  transaction (`auth.py:400-407`). Within the server the façade's lock keeps them
  together; against the command line the loser's IntegrityError ends its handler.
* A role is read once, at login; `revoke_session` has no caller.

Bots, self-play, panel, page:

* The answer to a prompt whose `decide` was cut off (`BotDeadline`) is read as that to the
  next one, and so on until the process dies. The same follows from a turn said to HELLO
  (`bot_runner.py:391-398` reads one line; the rest and its sentinel stay in the
  queue), and from a line over the StreamReader's limit, whose ValueError nothing
  catches (`bot_runner.py:275-292`). `AnswersInTurn` says that nothing else does.
* A bot that acks HELLO late has the ack read as its first answer. One that closes
  its output without exiting holds `_reap` until the manager's deadline.
* A run of self-play that is killed between the opening of a record and its header
  leaves an empty file that every resume refuses
  (`docs/specs/selfplay-harness.md:118`); no record is fsynced, which the same line
  promises, so the model says nothing of a crash of the machine.
* An exception of the spawn leaves the panel's server STARTING for ever and closes
  the page that asked. `uptime_s` goes on counting after a crash
  (`docs/specs/admin-console.md:269`).
* The [ profile ] button is drawn at the table too (`app.js:3724`), `_openProfile` leaves
  the view of the table and `_closeProfile` goes to the lobby (`app.js:3104`), against
  "opened from the lobby, not mid-game" (`docs/specs/profile-and-settings.md:223`) and
  "lobby is the "between-tables" view" (`app.js:3475`): a player with a seat and a
  hand running sits in the lobby, LIVE. The ATTACH of a click on the row of the table is
  answered `unknown_kind`; the ATTACHED of the next hand, or of a new connection,
  brings the table back. `PageSettles` says that the page knows of its seat all the while.
* A page that came to a seat while a takeover of it was waiting is replaced without a word,
  and one that took over a seat which was released or put on hold meanwhile is told
  ATTACHED (`misled`): both take themselves for attached (`mux.py:440-451`).
* A second run of self-play in a directory where workers of an earlier one still write
  would delete their partial records: there is no lock (`selfplay/runner.py`).
* LIST_TABLES of an attached page is answered `unknown_kind`
  (`mux.py:1045-1073`), so the poll of `docs/specs/multi-human-seats.md:202` is
  never answered. Hands start because each ATTACHED asks for it (`HandStarts`).
* The lobby's refresh sends LIST_TABLES while a page resumes and costs it attempts.
* A leave clicked while the socket is down is lost, and the page rejoins by itself.
* A seat whose dead socket is not noticed yet is reported LIVE, so a page that
  resumes then does not rejoin (`docs/specs/reconnect-rejoin.md`).

The documents also say that several winners on one discard are told apart by a
random draw (`docs/specs/determinism.md`); the manager takes the lowest seat,
which is what `PriorityHolds` states.

## The proofs

TLC checks the instances above; the proof modules hold for every value of the
constants that satisfies the modules' assumptions.

`SeatSession_proofs` proves, for any set of connections and accounts, any
buffer size, any number of hands and any set of suspending operations:
`TypeCorrect`, `FieldsTheorem`, `NoOrphanTheorem`, `BufferedEndTheorem`,
`FirstResolutionTheorem`, `HandoverTheorem` and `HoldTheorem`. `TypeOK` is inductive
(`TypeStep`, one step per action). The safety invariants are not inductive one
by one: `SeatInv` joins them with what they need of each other. That no prompt
is orphaned needs `parked` to agree with the hand task's program counter; that a
buffered HAND_END is kept needs the buffer to be empty outside HELD. The two
action properties follow from a lemma (`StepKinds`) that says what a step can do
to the future and to the owner. `HoldTheorem` is about who ends a hold: whatever the
awaits let through, a seat is HELD without its timer only after a `begin_next_hand`
took the timer away (a divergence, see above), and so never in the first hand.

Four more are about the connections, and like all the others they hold with every await
open. `SinkTheorem` and `AnswerTheorem`: the sink is a connection of the account that holds
the LIVE seat, or is `astray`, put there by a takeover that found another seat after its
await than before; and an accepted ACTION comes from the sink and answers the prompt its
account is shown. `ContractTheorem` is the refinement of `SeatContract`, whose `guest` is
the account of an astray sink. `ToldTheorem`: a client that was told it is attached, and
still reads, holds the seat, unless it is astray; `TellInv` adds that an operation which
takes the seat away has closed the socket it remembers before it goes on. What is
exempted is not empty: `SeatTakeoverRace` reaches it.

`HandLoop_proofs` proves, for any number of human seats, any number of hands and
every set of moves: `TypeCorrect`, `DrainTheorem` and `GateTheorem`. `LoopInv`
joins the types with three facts. `HandsLeft` (between two hands the match has
hands left) bounds the hand count. `ReadyIsFresh` (inside the gate whoever is
recorded as ready has clicked since the hand that just ended) is why the gate
does not open on a stale READY. `DrainKnows` (a hand task the drain does not wait
for was started after it began) is why the close that follows cuts no other.
Two theorems say what the liveness of the loop rests on. `WakeUpTheorem`: unless
somebody leaves the gate by DETACH, a hand task asleep in a gate that could open has
a wake-up on its way, the stop, the flag or the task of an expired hold that has
yet to set it. `StopTheorem`: once the stop is requested, `StepsLeft` falls with every
step of the hand task and grows with nobody's.

The first part of `TableHand_proofs` is about the rules (`Hand`). It proves, for every set of walls that are long enough to deal, every
winning rule and every hand size that leaves 1 when divided by 3: `TypeCorrect`, `TilesTheorem`, `DrawnTheorem` and
`PositionTheorem`. `TilesConserved` counts the
places of a tile; its inductive form `Split` says that hands, flowers, piles and
melds cover the tiles drawn so far (`Covers`), hold no other (`Within`) and
share none. One lemma per way to move tiles (`ToPile`, `ToMeld`,
`ToConcealedMeld`, `ToGrownMeld`, `FromWall`) keeps the split, and each action is
one or two of them: a kong is a meld and a draw from the wall. `HandInv` adds
that hands hold no bonus tile and that the pile of the last discard is not empty
in a claim window, which popping it needs. `OnePlace` turns the split back into
`TilesConserved`. `SoundInv` is what the position adds: each seat holds `HandSize`
tiles, a meld counting three, and one more when it is its turn to discard; melds are
runs, triplets or kongs; and what an open window offers is still on the table.
`ForwardTheorem` is the argument of `HandEnds`, without the fairness: each step that
changes a hand ends it, draws a tile, lays one open or withdraws open claims, and none
puts a tile back, so that the sizes of the wall, of the hidden tiles and of the open
claims go down in this order. That hidden tiles leave a hand at all rests on the split:
a tile that is claimed or discarded is in no other hand. `RoundTheorem`, in the second
part, carries it over to the manager. The
walls are arbitrary, so the theorems also cover those of the real game, 144 tiles and
hands of thirteen.

Its second part is about `run_hand`, for any adapters, strike limit and walls.
`TableInv` says that the seats that were asked, and only they, have answered, each
with an action that is legal in the state it was asked in, which no step has left.
It needs all of the first part: a default PLAY is legal because the hand of the seat
to discard is not empty (`SoundInv`) and holds the drawn tile (`DrawnIsHeld`). From
it follow

* `PlaysByTheRules`, the refinement `TableSpec => Spec`: each step of the manager is
  a legal action of the engine or leaves the hand alone. Every theorem about `Hand`
  is thereby one about the hands the manager plays;
* `AppliesLegallyTheorem`: while several PASSes are applied one after the other, each
  is still legal when its turn comes;
* `RoundTheorem`: the manager never lacks what it needs to go on (somebody is asked,
  each seat that has not answered has a legal default, and once all have there is
  something to apply), and each of its steps moves the hand on, as `Forward` says, or
  settles one more answer of the round;
* `PriorityTheorem`: the claim carried out is a HU before a pung or kong, these before
  a chow, and of equals that of the lowest seat, whoever answers first and whoever
  fails to;
* `RecordTheorem`: the events of a step hold one decision of each seat that was asked,
  and HAND_END exactly when the hand ended, last. `LogInv` counts: decisions come
  first, the end last (`StepLog`), and in the middle of a window that is passed out
  the missing decisions are those of the seats still to be asked. `Diffs` says what
  `diff_to_events` makes of one action.

`HandReplay_proofs` is about the record as a whole: `ReplayTheorem` says that `replay`
can read back any hand the manager plays, for every set of walls, every winning rule
and whatever the seats decide or fail to. It needs `WallAssumption`, that a wall holds four
tiles of a kind at most (the table of `engine/tiles.py`): then a seat has one pung of
a kind, and an added kong says which (`TableTyped`). `RecordReplays` is not inductive: it
speaks of the moments when all has been read, and the manager applies a whole step
before the replay reads its first event. `ReplayInv` says where replay and manager
stand in between (`Whereabouts`):

* `InStep`: both are in the same state, and what is still to be read makes the replay
  do nothing;
* `Settling`: the manager has applied one action; the next events are decisions of the
  window, and the event after them makes the replay apply this very action (`Calls`),
  which is legal where the replay is and leads to where the manager is (`Leads`);
* `Passing`: some seats have passed, in the manager only; the window of the replay
  keeps their PASSes, and what is pending for the two differs by these seats;
* `Closing`: all have passed, and the replay has applied the first j PASSes, each of
  another seat and each legal, the last of which makes it draw.

Two families of lemmas carry it. `ActionLeads` and `DrawLeads` tell the step of the
manager from the state before it, and `ActionArrives` and `DrawArrives` say that the
same action of the replay ends there, because the choices of the engine (`LowestOne`) are
unique. `ActionTold`, `DiscardSettles`, `ClaimSettles` and `PassSettles` say what the
events of a step make the replay do; `CallMoves`, `ReadsCall`, `ReadsPass` that it does.
`ReaderOnlyReads` is why the theorems of `TableHand_proofs` hold here.

`ClientView_proofs` is about the page: `BoardTheorem` says that `BoardFollows` holds for
every set of walls, every winning rule, any adapters, and a player or a spectator
whose page comes, drops and comes back at any point between two steps. Its hypothesis,
`"within_step" \notin Moments`, is the setting of the run `Client`; without it the
statement is false, which `BoardGap` shows, because a snapshot served within a step is
the one from before it and the events already sent are lost on it. `Matches` says that
a board shows the hand exactly (the tiles, the phase, whose turn it is); it is the
equality that `Agrees` asks for where it matters. It holds between two steps only,
because the manager applies a whole step before the page hears of its first event. So
`BoardInv` speaks of what is still to be read: folding the events that were not sent yet
into the page's board gives one that `Matches` (`Reads`, `Followed`). The fold is a
sequence of boards, one per event, so no recursion is needed: `ReadOn` takes one event
off its front and `ReadPast` drops the decisions that change nothing. The other parts
say that the snapshot lags only while a step is being sent (`ServedInv`, `SentInv`), that
a HAND_END waits in the buffer of a HELD seat only when the hand is over (`ViewInv`),
and that a tile drawn before the window belongs to who discarded
(`WindowDrawn`). The lemmas come in three layers: what a move of tiles does to the
contents of a board (`TakenShown`, `DrawShown`, `PileShrinks`, `PengShown`, `ChiShown`,
`AddedShown`, ...), what the events of one action of the engine do (`PlayTold`, `KongTold`,
`PassTold`, ...), and what those of a whole step do (`DiscardRead`, `ClaimStepRead`,
`PassRead`).

`MatchRecords_proofs` is about the index, for any number of boots and hands, any
crashes and failed writes. `RecInv` ties the program counter to the file and the row
of the current hand (`FileKeepsPace`), puts every other hand in the past, and says
that a row that claims a win or a draw took its checksum from a footer (`Sealed`).
`ReportTheorem` and `RecordsTheorem` follow, and the first part of `TruthTheorem`: a
row tells what its record tells. The rest of it is `History`. Started hands are in a
total order (`InOrder`); a hand's rank, the number of later hands, falls strictly
along it (`RankDrops`), so a page cut off at a rank and the page before its earliest
hand share nothing and leave nothing out (`PageCut`, `PagesFit`). `BadgesTheorem` rests on `OpenInv`: the row of a hand that has not ended has no
scores, and the hand of the loop and those the sweep still has before it have not
ended. So a row that counts keeps what it counts for (`CountedStay`), and a hand that
comes to count is later than all that did, which leaves the old streaks whole.
`OpenRowsTheorem` follows from it too: while the server runs, a row that is open is that of
the hand loop or one that the sweep has before it, unless a write failed for it.
`ZeroSum` and `PointsTheorem` say that a win's points and the totals of a table add up to zero for
any conversion block; `TallyInv` is the invariant. `StandingsTheorem` adds that the totals
are the sums over the rows. A sum over a finite set is a fold, defined by recursion; that
it takes its elements in any order is proved with the induction as the search for a least
counterexample, which exists because < is well-founded on the naturals (`AddsExists`,
`SumUnfolds`, `AnyFirst`, `SumAdds`). `StandInv` is the rest: what was tallied are this
boot's hands below `played`, a hand is tallied right after its row was sealed with the
same result, and no later step writes to the row of a tallied hand.

`Lobby_proofs` is about `Auth` and `Lobby` interleaved, for any number of
connections, names, invites and tables. `AuthInv` follows a call of the store from
its check to its write: one call writes at a time (`OneWriter`), between the two only
the operator can take the name (`NameStaysFree`), and an account that was disabled
when the frame came in, and stayed so, passes no check (`CheckedIsNotBarred`). A login
that is being verified has its place in the budget of failures (`BudgetWithCalls`),
which is why the bound that holds is the configured one and one more for each other
connection. `DoorHeld` and `DisabledKeptOut` follow. In `LobbyInv`, whoever is at a table without being in its books was told, or came while it
was being closed (`InBooksOrWarned`), and a close has warned those it has passed
(`CloseHasWarned`); from it `BoundThere`, `NobodyLeftBehind` and `PlayerKept`.

`Beside_proofs` joins four parts that share nothing.

* The control panel: `OneServerTheorem`, for any number of pages. `ConsoleInv` says
  that `serving` counts the process the supervisor names and no other, and ties the
  supervisor's state to where the holder of its lock waits: a start that finds neither
  STARTING nor RUNNING finds no live process, because a stop that is under way holds
  the lock. `TruthIsDueTheorem` says that a state the pages see that is not true any
  more is about to be corrected: a dead process has its watcher or an operation under
  way that will say so, except after a spawn that raised, which may leave STARTING
  behind. It needs to know when the watcher is there (`WatchInv`) and what an operation
  leaves behind when it gives up the lock (`RestInv`).
* The bot runner: `NoProcessOutlivesTheorem` and `AnswerTheorem`, for any number of
  prompts. A process is spawned only where the seat has none (`ProcessInv`). What a
  process has said and what it was asked come in the order of the prompts, the oldest as
  far back as its debt (`PipesInv`); a read that ends with its answer takes the oldest, so
  the debt grows only when a read is cut short or raises, or a turn is said to HELLO,
  and it is 0 again after a spawn.
* Self-play: `SuccessTheorem` and `CorpusTheorem`, for a corpus of any size, any number
  of workers and of runs, under `Sizes` (numbers are numbers, None is no record) and
  `OneRunAtATime`, which is part of the specification.
  `CorpusInv` says where a worker stands in its slice: what is `Behind` it, or was found
  complete by its scan, is done with the run's own configuration; what is `Ahead` of it
  is not complete. Slices are disjoint (`SlicesApart`), so a worker that acts leaves the
  others where they stand (`OthersStand`); a worker that has no hand left has its whole
  slice behind it (`TurnsForward`), and the slices of all workers are the corpus.
* The page on its way back: `QuietTheorem` and `AskedTheorem`, for any pages and users, any
  number of deaths of sockets and of clicks, and any step of a takeover. `WayInv` says of
  each page what is in flight where it and its handler differ (`LinkInv`, `ViewInv`): a
  handler in the lobby while the page takes itself for attached has an AUTH_RESPONSE on
  its way down or a START_HAND on its way up, which it will answer by hanging up; a seat
  the page does not know of yet has an ATTACHED down or a DETACH up; a page that is
  attached has sent a START_HAND after each DETACH, which is why no late DETACH leaves it
  sitting there. `SeatsInv` says whose handler is at the table: a page that has its seat, or
  one that a takeover misled. So a page with nothing in flight knows whether it has its
  seat, or was misled. `AskedTheorem` is that of the first hand: who makes the last seat
  LIVE is told ATTACHED and answers START_HAND, and until that arrives no other step takes
  it away but one that loses the seat or its socket.
  Their hypothesis `PagesApart` says that None and the mark of a dead socket are no pages.

Only model-checked:

* liveness (`DecideResolves`, `HoldEnds`, `GateAdvancesIfAllStay`, `StopEndsLoop`,
  `HandEnds`, `ReservedEnds`, `PagesShowTheServer`, `PageSettles`, `HandStarts`): the
  prover has no rules for fairness. What they rest on is proved, that the step which
  fairness promises is there to be taken, or that steps bring the end nearer: in this
  order `NoOrphanTheorem`, `HoldTheorem`, `WakeUpTheorem`, `StopTheorem`, `ForwardTheorem` with
  `RoundTheorem`, `OpenRowsTheorem`, `TruthIsDueTheorem`, `QuietTheorem` and `AskedTheorem`.
  That the step then happens is TLC's part;
* the refutations, which are counterexamples.

## What is not modelled, and why

* Fan points: the fan count is an external library (PyMahjongGB); legality takes
  "clears the floor" as the constant `Winning`, settlements take the fan as a
  parameter.
* Wire formats, configuration, the text of records and of bot requests: pure
  conversions, without state, that the repository tests by example.
* SHA-256, the shuffle and seeds: walls are constants of `Hand`.
* Bot policies: any legal answer they may give is among those of `TableHand`.
* An abort in the middle of a step of the manager (the watchdog), which leaves
  part of the step's events in the record: `TableHand` aborts between steps;
  `MatchRecords` reads back records cut at any point, without their contents.
* Observers that are slower than the fan-out's timeout; chat, which changes no
  seat.
* Reports: health, admin status, feedback, logs, the panel's tunnel and metrics, the
  command lines around them. How a page draws a profile or a recording.
* What a page does to create a table, and its lobby's refresh; replays opened from the
  profile are the view of the profile.
* Self-play runs that overlap in one directory (`OneRunAtATime`), and bots that say more
  than one answer to a message.
* Rendering, sounds and settings of the page.
* Schema migrations: run by the operator, once, in order.

## Plan

1. Modelled: `SeatSession`, `SeatContract`, `HandLoop`, `Hand`, `TableHand`,
   `HandReplay`, `ClientView`, `Scoring`, `MatchRecords`, `History`, `Auth`, `Lobby`,
   `BotSeat`, `SelfPlay`, `Console`, `Rejoin`.
2. Proved: every safety property the passing runs check.
   Of the liveness properties, what they rest on.
3. To model next: an abort within a step of the manager, the panel's tunnel, the
   shuffle against a reference definition.
