------------------------------ MODULE SelfPlay ------------------------------
(***************************************************************************)
(* A self-play corpus: selfplay/runner.py and the parent of                *)
(* `selfplay --parallel-hands` in cli/selfplay.py.  Hands 0 .. Hands-1 are *)
(* dealt out to worker processes by hand_index % workers; each writes one  *)
(* record per hand, in order, into one directory.  A worker or the parent  *)
(* may die at any point, and the run is then resumed.  That no two runs    *)
(* overlap in a directory is left to its owner (OneRunAtATime): no code    *)
(* sees to it, and everything this module states rests on it.              *)
(***************************************************************************)
EXTENDS Absent, Integers, FiniteSets, FiniteSetsExt

CONSTANTS
    Hands,          \* --hands
    MaxWorkers,     \* bound: the largest --parallel-hands
    Configs,        \* seed, bots, rule set and rotation: what a run is started with
    MaxRuns         \* bound: how often a run is started

HandIds == 0 .. Hands - 1
WorkerIds == 0 .. MaxWorkers - 1

VARIABLES
    corpus,     \* hand -> the record on disk: None, or [upto, config]
    parent,     \* the parent: "idle", "preparing", "waiting", "done", "refused"
    worker,     \* worker -> [state, hand, skip]
    runs,       \* times started
    run         \* [config, resume, workers] of the run under way
selfPlayVars == <<corpus, parent, worker, runs, run>>

\* A record is "opened" until its HEADER is flushed, "partial" until its FOOTER is.
Fresh == [state |-> "none", hand |-> 0, skip |-> {}]
Running(w) == worker[w].state \in {"scanning", "between", "playing"}

SelfPlayInit ==
    /\ corpus = [h \in HandIds |-> None] /\ parent = "idle"
    /\ worker = [w \in WorkerIds |-> Fresh] /\ runs = 0 /\ run = None

-----------------------------------------------------------------------------
(* The scan of the directory. *)

On(hands) == {h \in hands : corpus[h] # None}
Upto(h) == IF corpus[h] = None THEN "absent" ELSE corpus[h].upto
\* Mutant: what lies below the highest completed hand is taken for done.
CompletedUpToMax(hands) == {h \in hands : \E m \in hands : Upto(m) = "complete" /\ h <= m}
Completed(hands) == {h \in hands : Upto(h) = "complete"}
(***************************************************************************)
(* A record whose HEADER cannot be read, or tells of another               *)
(* configuration, stops the run before it touches anything.                *)
(***************************************************************************)
Unusable(hands) == \E h \in On(hands) : Upto(h) = "opened" \/ corpus[h].config # run.config
\* What is left without its FOOTER is deleted, to be played again.
Recovered(hands) == [h \in HandIds |-> IF h \in hands /\ Upto(h) = "partial" THEN None ELSE corpus[h]]

\* Names are settled before anything is opened: a worker looks at its own only.
SliceOfAll(w) == HandIds    \* Mutant: a worker scans the whole directory.
Slice(w) == {h \in HandIds : h % run.workers = w}

-----------------------------------------------------------------------------
(* The parent. *)

\* A parent starts afresh: it neither locks the directory nor looks for who writes there.
StartRun ==
    /\ runs < MaxRuns /\ runs' = runs + 1 /\ parent' = "preparing"
    /\ run' \in [config : Configs, resume : BOOLEAN, workers : 1 .. MaxWorkers]
    /\ worker' = [w \in WorkerIds |-> Fresh]
    /\ UNCHANGED corpus

(***************************************************************************)
(* A directory with records in it needs --resume; the whole corpus is      *)
(* validated and recovered before any worker starts.                       *)
(***************************************************************************)
Refuse ==
    /\ parent = "preparing"
    /\ On(HandIds) # {} /\ (~run.resume \/ Unusable(HandIds))
    /\ parent' = "refused"
    /\ UNCHANGED <<corpus, worker, runs, run>>
Prepare ==
    /\ parent = "preparing"
    /\ On(HandIds) # {} => (run.resume /\ ~Unusable(HandIds))
    /\ corpus' = Recovered(HandIds)
    /\ parent' = "waiting"
    /\ worker' = [w \in WorkerIds |-> [Fresh EXCEPT !.state = IF w < run.workers THEN "scanning" ELSE "none"]]
    /\ UNCHANGED <<runs, run>>

\* It waits for every worker, whatever becomes of the others.
Reap ==
    /\ parent = "waiting" /\ \A w \in WorkerIds : ~Running(w)
    /\ parent' = IF \A w \in 0 .. run.workers - 1 : worker[w].state = "finished" THEN "done" ELSE "failed"
    /\ UNCHANGED <<corpus, worker, runs, run>>

-----------------------------------------------------------------------------
(* A worker. *)

\* The first hand of the slice, from h on, that is not done already.
NextOfSlice(w, h, skip) ==
    LET left == {k \in Slice(w) : k >= h /\ k \notin skip}
    IN  IF left = {} THEN Hands ELSE Min(left)
Turns(w, h, skip) ==
    LET next == NextOfSlice(w, h, skip)
    IN  [state |-> IF next = Hands THEN "finished" ELSE "between", hand |-> next, skip |-> skip]

Scan(w) ==
    /\ worker[w].state = "scanning"
    /\ IF Unusable(Slice(w))
       THEN /\ worker' = [worker EXCEPT ![w].state = "failed"]
            /\ UNCHANGED corpus
       ELSE /\ corpus' = Recovered(Slice(w))
            /\ worker' = [worker EXCEPT ![w] = Turns(w, 0, Completed(Slice(w)))]
    /\ UNCHANGED <<parent, runs, run>>

\* run_hand: the writer truncates and opens, the HEADER follows, the FOOTER ends it.
WorkerOpens(w) ==
    /\ worker[w].state = "between"
    /\ corpus' = [corpus EXCEPT ![worker[w].hand] = [upto |-> "opened", config |-> run.config]]
    /\ worker' = [worker EXCEPT ![w].state = "playing"]
    /\ UNCHANGED <<parent, runs, run>>
WorkerWritesHeader(w) ==
    /\ worker[w].state = "playing" /\ Upto(worker[w].hand) = "opened"
    /\ corpus' = [corpus EXCEPT ![worker[w].hand].upto = "partial"]
    /\ UNCHANGED <<parent, worker, runs, run>>
WorkerWritesFooter(w) ==
    /\ worker[w].state = "playing" /\ Upto(worker[w].hand) = "partial"
    /\ corpus' = [corpus EXCEPT ![worker[w].hand].upto = "complete"]
    /\ worker' = [worker EXCEPT ![w] = Turns(w, worker[w].hand + 1, worker[w].skip)]
    /\ UNCHANGED <<parent, runs, run>>

\* A hand raises, or the process is killed.
WorkerDies(w) ==
    /\ Running(w)
    /\ worker' = [worker EXCEPT ![w].state = "failed"]
    /\ UNCHANGED <<corpus, parent, runs, run>>
\* The host goes down.
HostCrashes ==
    /\ parent \in {"preparing", "waiting"}
    /\ parent' = "failed"
    /\ worker' = [w \in WorkerIds |-> IF Running(w) THEN [worker[w] EXCEPT !.state = "failed"] ELSE worker[w]]
    /\ UNCHANGED <<corpus, runs, run>>

\* The parent alone is killed: its workers know nothing of it and go on.
ParentDies ==
    /\ parent \in {"preparing", "waiting"} /\ parent' = "failed"
    /\ UNCHANGED <<corpus, worker, runs, run>>

\* An assumption on whoever starts the runs: nothing of an earlier one is left.
OneRunAtATime == parent \notin {"preparing", "waiting"} /\ \A w \in WorkerIds : ~Running(w)

SelfPlayNext ==
    \/ (OneRunAtATime /\ StartRun) \/ Refuse \/ Prepare \/ Reap \/ ParentDies \/ HostCrashes
    \/ \E w \in WorkerIds : Scan(w) \/ WorkerOpens(w) \/ WorkerWritesHeader(w) \/ WorkerWritesFooter(w) \/ WorkerDies(w)

SelfPlaySpec == SelfPlayInit /\ [][SelfPlayNext]_selfPlayVars

-----------------------------------------------------------------------------
(***************************************************************************)
(* A run that reports success leaves one complete record of every hand,    *)
(* all of its own configuration, however many runs died before it and      *)
(* wherever.                                                               *)
(***************************************************************************)
SuccessIsComplete ==
    parent = "done" => \A h \in HandIds : corpus[h] = [upto |-> "complete", config |-> run.config]

(***************************************************************************)
(* What is written stays written: no step, of any worker or any later run, *)
(* removes or reopens a complete record, nor takes a record from under the *)
(* worker that is writing it.                                              *)
(***************************************************************************)
CorpusStands ==
    [][\A h \in HandIds :
         corpus'[h] # corpus[h] =>
            /\ Upto(h) # "complete"
            /\ \A w \in WorkerIds :
                 (worker[w].state = "playing" /\ worker[w].hand = h) => corpus'[h] # None]_selfPlayVars
=============================================================================
