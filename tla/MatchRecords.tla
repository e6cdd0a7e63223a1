---------------------------- MODULE MatchRecords ----------------------------
(***************************************************************************)
(* The hands of a table on disk: the record file of each hand, its row in  *)
(* the hand index, the standings in memory, and what is left of them when  *)
(* the server stops between any two steps.                                 *)
(***************************************************************************)
EXTENDS Absent, Scoring, FiniteSets, FiniteSetsExt, TLC

CONSTANTS
    Accounts,
    Account,       \* [Seats -> Accounts or None]: None is a bot's seat
    HowWon,        \* the wins that occur: winner, fan total, discarder (the winner: self-draw)
    Conversion,    \* the ruleset's `conversion` block
    DealerRepeats, \* its dealer_repeat_on_win
    MaxBoots, MaxHands, MaxFaults

ASSUME RecordsAssumption ==
    /\ None \notin Accounts /\ Account \in [Seats -> Accounts \cup {None}]
    /\ None \notin {"HU", "EXHAUSTIVE_DRAW", "DRAW", "ABORTED"} /\ IsConversion(Conversion)
    /\ HowWon \subseteq [winner : Seats, fan : Nat, from : Seats] /\ DealerRepeats \in BOOLEAN
    /\ MaxBoots \in Nat \ {0} /\ MaxHands \in Nat \ {0} /\ MaxFaults \in Nat

VARIABLES
    boot,    \* number of times the server was started
    pc,      \* where the hand loop stands; "down": no process
    index,   \* _hand_index
    dealer,  \* _dealer_seat
    result,  \* what run_hand returned for the current hand, None if it raised
    totals,  \* MatchScore.cumulative
    played,  \* len(MatchScore.series)
    files,   \* record files
    rows,    \* hand_index with hand_participants
    sweep,   \* the unfinished hands the startup found and has not closed yet
    failed   \* hands a write to the index failed for (observed, not program state)

memory == <<index, dealer, result, totals, played, sweep>>
vars == <<boot, pc, memory, files, rows, failed>>

Ids == [boot : 1 .. MaxBoots, index : 0 .. MaxHands - 1]

\* Mutant: table ids restart at each boot and nothing else tells boots apart.
HandIdUnscoped(b, n) == [boot |-> 1, index |-> n]

\* Hand ids and record paths carry the id of the boot.
HandId(b, n) == [boot |-> b, index |-> n]
Current == HandId(boot, index)

Before(g, h) == g.boot < h.boot \/ (g.boot = h.boot /\ g.index < h.index)

\* Terminal states of a hand.
Draw == [kind |-> "DRAW", winner |-> None, fan |-> None, delta |-> NoPoints]
Won(w) ==
    [kind |-> "HU", winner |-> w.winner, fan |-> w.fan,
     delta |-> ScoreDelta(w.winner, w.fan, w.from, Conversion)]
Terminals == {Draw} \cup {Won(w) : w \in HowWon}

NoFile == [header |-> FALSE, dealer |-> None, end |-> None, footer |-> FALSE]

Init ==
    /\ boot = 0 /\ pc = "down"
    /\ index = 0 /\ dealer = 0 /\ result = None /\ totals = NoPoints /\ played = 0 /\ sweep = {}
    /\ files = [h \in {} |-> NoFile] /\ rows = [h \in {} |-> None] /\ failed = {}

Faulty == Cardinality(failed) < MaxFaults
Put(f, h, v) == [g \in DOMAIN f \cup {h} |-> IF g = h THEN v ELSE f[g]]

-----------------------------------------------------------------------------
(* The hand loop.                                                          *)

\* START_HAND: the hand task starts.
StartHand ==
    /\ pc = "idle" /\ pc' = "reserve"
    /\ UNCHANGED <<boot, memory, files, rows, failed>>

\* The row of a hand that is played: every seat without an identity is "canned".
LiveRow ==
    [match |-> boot, dealer |-> dealer, ended |-> FALSE, kind |-> None, winner |-> None,
     fan |-> None, checksum |-> None,
     seatKind |-> [s \in Seats |-> IF Account[s] = None THEN "canned" ELSE "human"],
     scores |-> [s \in Seats |-> None]]

\* reserve_hand, in one transaction; the primary key refuses a second row, and
\* a failure is logged and swallowed.
Reserve ==
    /\ pc = "reserve" /\ pc' = "open"
    /\ \/ Current \notin DOMAIN rows /\ rows' = Put(rows, Current, LiveRow) /\ UNCHANGED failed
       \/ (Current \in DOMAIN rows \/ Faulty) /\ failed' = failed \cup {Current} /\ UNCHANGED rows
    /\ UNCHANGED <<boot, memory, files>>

\* RecordWriter opens the file for writing, whatever was there.
OpenRecord ==
    /\ pc = "open" /\ pc' = "header"
    /\ files' = Put(files, Current, NoFile)
    /\ UNCHANGED <<boot, memory, rows, failed>>

WriteHeader ==
    /\ pc = "header" /\ pc' = "play"
    /\ files' = [files EXCEPT ![Current].header = TRUE, ![Current].dealer = dealer]
    /\ UNCHANGED <<boot, memory, rows, failed>>

\* The last step of the hand writes HAND_END and is fanned out.
WriteHandEnd ==
    /\ pc = "play" /\ pc' = "footer"
    /\ \E t \in Terminals :
        /\ files' = [files EXCEPT ![Current].end = t]
        /\ result' = t
    /\ UNCHANGED <<boot, index, dealer, totals, played, sweep, rows, failed>>

WriteFooter ==
    /\ pc = "footer" /\ pc' = "left"
    /\ files' = [files EXCEPT ![Current].footer = TRUE]
    /\ UNCHANGED <<boot, memory, rows, failed>>

\* Every adapter was told that the hand is over.
AdaptersLeft ==
    /\ pc = "left" /\ pc' = "finalize"
    /\ UNCHANGED <<boot, memory, files, rows, failed>>

\* An error, the watchdog or a close ends run_hand early: it returns no state.
\* The close may come as late as the wait for the adapters, after the footer.
AbortHand ==
    /\ pc \in {"open", "header", "play", "footer", "left"}
    /\ pc' = "finalize" /\ result' = None
    /\ UNCHANGED <<boot, index, dealer, totals, played, sweep, files, rows, failed>>

\* Mutant: the hand's result is taken from its HAND_END, footer or not.
OutcomeFromEnd(h) ==
    LET t == IF h \in DOMAIN files THEN files[h].end ELSE None
    IN IF t = None THEN [kind |-> "ABORTED", winner |-> None, fan |-> None, scores |-> NoPoints]
       ELSE [kind |-> IF t.kind = "DRAW" THEN "EXHAUSTIVE_DRAW" ELSE t.kind,
             winner |-> t.winner, fan |-> t.fan, scores |-> t.delta]

\* What _finalize_hand_row stores of the hand's result.
Outcome(h) ==
    IF result = None
    THEN [kind |-> "ABORTED", winner |-> None, fan |-> None, scores |-> NoPoints]
    ELSE [kind |-> IF result.kind = "DRAW" THEN "EXHAUSTIVE_DRAW" ELSE result.kind,
          winner |-> result.winner, fan |-> result.fan, scores |-> result.delta]

\* Mutant: the record is read before it is closed.
ChecksumEarly(h) == ""

\* _read_footer_checksum, or the empty string.
Checksum(h) == IF h \in DOMAIN files /\ files[h].footer THEN "footer" ELSE ""

\* finalize_hand: an UPDATE, without effect when there is no row.
Ended(row, out, checksum) ==
    [row EXCEPT !.ended = TRUE, !.kind = out.kind, !.winner = out.winner, !.fan = out.fan,
                !.checksum = checksum, !.scores = out.scores]

Finalize ==
    /\ pc = "finalize"
    /\ \/ /\ Current \in DOMAIN rows
          /\ rows' = [rows EXCEPT ![Current] = Ended(@, Outcome(Current), Checksum(Current))]
          /\ UNCHANGED failed
       \/ Current \notin DOMAIN rows /\ UNCHANGED <<rows, failed>>
       \/ Faulty /\ failed' = failed \cup {Current} /\ UNCHANGED rows
    /\ pc' = IF result = None THEN "over" ELSE "tally"
    /\ UNCHANGED <<boot, memory, files>>

\* Mutant: a win counts twice, once when it is recorded and once when it is shown.
TallyTwice ==
    /\ pc = "tally"
    /\ totals' = RecordHand(RecordHand(totals, result.delta), result.delta) /\ played' = played + 1
    /\ pc' = IF index + 1 >= MaxHands THEN "over" ELSE "between"
    /\ UNCHANGED <<boot, index, dealer, result, sweep, files, rows, failed>>

Tally ==
    /\ pc = "tally"
    /\ totals' = RecordHand(totals, result.delta) /\ played' = played + 1
    /\ pc' = IF index + 1 >= MaxHands THEN "over" ELSE "between"
    /\ UNCHANGED <<boot, index, dealer, result, sweep, files, rows, failed>>

\* The pause and the gate passed, the next hand is dealt; or a stop was asked for.
NextHand ==
    /\ pc = "between"
    /\ \/ pc' = "over" /\ UNCHANGED <<index, dealer>>
       \/ /\ pc' = "reserve" /\ index' = index + 1
          /\ dealer' = NextDealer(dealer, result.winner, DealerRepeats)
    /\ UNCHANGED <<boot, result, totals, played, sweep, files, rows, failed>>

-----------------------------------------------------------------------------
(* The process stops and starts.                                           *)

Forget ==
    /\ index' = 0 /\ dealer' = 0 /\ result' = None
    /\ totals' = NoPoints /\ played' = 0 /\ sweep' = {}

\* Power loss, kill, or a drain that had to give up on a hand: what was written stays.
Crash ==
    /\ pc # "down" /\ boot < MaxBoots
    /\ pc' = "down" /\ Forget
    /\ UNCHANGED <<boot, files, rows, failed>>

\* A drain that found no hand running.
Exit ==
    /\ pc \in {"idle", "over"} /\ pc' = "down" /\ Forget
    /\ UNCHANGED <<boot, files, rows, failed>>

\* find_in_progress_hands.
InProgress == {h \in DOMAIN rows : ~rows[h].ended}

\* Mutant: the startup closes every hand it finds.
StartSweepsAll ==
    /\ pc = "down" /\ boot < MaxBoots
    /\ boot' = boot + 1 /\ pc' = "startup" /\ sweep' = DOMAIN rows
    /\ UNCHANGED <<index, dealer, result, totals, played, files, rows, failed>>

Start ==
    /\ pc = "down" /\ boot < MaxBoots
    /\ boot' = boot + 1 /\ pc' = "startup" /\ sweep' = InProgress
    /\ UNCHANGED <<index, dealer, result, totals, played, files, rows, failed>>

\* _mark_in_progress_aborted, one row: the list query leaves `participants`
\* empty, so no score is set; a failure is logged and the next row is tried.
MarkAborted(h) ==
    /\ pc = "startup" /\ h \in sweep
    /\ sweep' = sweep \ {h}
    /\ \/ /\ rows' = [rows EXCEPT ![h].ended = TRUE, ![h].kind = "ABORTED", ![h].winner = None,
                                  ![h].fan = None, ![h].checksum = ""]
          /\ UNCHANGED failed
       \/ Faulty /\ failed' = failed \cup {h} /\ UNCHANGED rows
    /\ UNCHANGED <<boot, pc, index, dealer, result, totals, played, files>>

\* Mutant: the server listens before the hands of the last run are closed.
ListenEarly ==
    /\ pc = "startup" /\ pc' = "idle" /\ sweep' = {}
    /\ UNCHANGED <<boot, index, dealer, result, totals, played, files, rows, failed>>

\* orch.start, once the loop over the rows is through.
Listen ==
    /\ pc = "startup" /\ sweep = {} /\ pc' = "idle"
    /\ UNCHANGED <<boot, memory, files, rows, failed>>

-----------------------------------------------------------------------------
(* Rebuilding the index from the records.                                  *)

\* _participants_from_header: the kinds the adapters call themselves.
RebuiltSeatKind == [s \in Seats |-> IF Account[s] = None THEN "bot" ELSE "human"]

\* _terminal_from_hand_end, read only from a record with a footer; the scores of
\* any other stay empty.
RebuiltTerminal(f) ==
    IF f.footer
    THEN [ended |-> TRUE, kind |-> f.end.kind, winner |-> f.end.winner, fan |-> f.end.fan,
          checksum |-> "footer", scores |-> f.end.delta]
    ELSE [ended |-> FALSE, kind |-> "ABORTED", winner |-> None, fan |-> None,
          checksum |-> None, scores |-> [s \in Seats |-> None]]

\* The header says who dealt (the winds of the seats), and no match.
RebuiltRow(h) ==
    LET t == RebuiltTerminal(files[h]) IN
    [match |-> None, dealer |-> files[h].dealer, seatKind |-> RebuiltSeatKind,
     ended |-> t.ended, kind |-> t.kind, winner |-> t.winner, fan |-> t.fan,
     checksum |-> t.checksum, scores |-> t.scores]

\* _parse_header_and_events finds a hand in the file.
Readable(f) == f.header

\* read_record accepts the file.
Loadable(f) == f.header /\ f.footer

\* rebuild_index_from_records, one file of the walk, each in its transaction; a
\* file without a header is counted as an error and skipped.
RebuildFile(h) ==
    /\ pc = "down" /\ boot \in 1 .. MaxBoots - 1
    /\ h \in DOMAIN files /\ Readable(files[h])
    /\ rows' = Put(rows, h, RebuiltRow(h))
    /\ UNCHANGED <<boot, pc, memory, files, failed>>

-----------------------------------------------------------------------------
(* What is read from the index.                                            *)

\* integrity_check, for the hands that have ended: their file is gone, or is not
\* the one the row was sealed with; and the files no row points to.
MissingFiles == {h \in DOMAIN rows : rows[h].ended /\ h \notin DOMAIN files}
ChecksumMismatches ==
    {h \in DOMAIN rows \ MissingFiles :
        rows[h].ended /\ rows[h].checksum # None /\ (rows[h].checksum = "" \/ ~files[h].footer)}
OrphanedFiles == DOMAIN files \ DOMAIN rows

\* The rows account_stats and the achievements are computed from.
Counted(a) ==
    {p \in (DOMAIN rows) \X Seats :
        Account[p[2]] = a /\ rows[p[1]].ended /\ rows[p[1]].scores[p[2]] # None}
Wins(a) == {p \in Counted(a) : rows[p[1]].winner = p[2]}
Draws(a) == {p \in Counted(a) : rows[p[1]].kind = "EXHAUSTIVE_DRAW"}
BestWinFan(a) == Max({0} \cup {rows[p[1]].fan : p \in Wins(a)})

\* _longest_win_streak: the longest run of counted hands, in the order they were
\* started, that the account won.
WinStreak(a) ==
    LET counted == Counted(a)
        won == Wins(a)
        Run(p, q) == {r \in counted : ~Before(r[1], p[1]) /\ ~Before(q[1], r[1])}
    IN Max({0} \cup {Cardinality(run) : run \in {Run(p, q) : p \in won, q \in won} \cap SUBSET won})

\* What the badges of an account are measured by (account_achievements).
Metrics(a) == [wins |-> Cardinality(Wins(a)), hands |-> Cardinality(Counted(a)),
               bestFan |-> BestWinFan(a), streak |-> WinStreak(a), draws |-> Cardinality(Draws(a))]

-----------------------------------------------------------------------------
ServerStep ==
    \/ Reserve \/ OpenRecord \/ WriteHeader \/ WriteHandEnd \/ WriteFooter \/ AdaptersLeft
    \/ Finalize \/ Tally \/ NextHand
    \/ \E h \in sweep : MarkAborted(h)
    \/ Listen

Next ==
    \/ StartHand \/ ServerStep \/ AbortHand
    \/ Crash \/ Exit \/ Start
    \/ \E h \in DOMAIN files : RebuildFile(h)

Spec == Init /\ [][Next]_vars

\* The server goes on with what it started, and whoever runs it starts it again.
Fairness == WF_vars(ServerStep) /\ WF_vars(Start)
FairSpec == Spec /\ Fairness

-----------------------------------------------------------------------------
\* A win or a draw is in the index only when the record of the hand is complete
\* and says the same, down to the points (_finalize_hand_row against run_hand,
\* the startup sweep and the rebuild).
RowsTellTruth ==
    \A h \in DOMAIN rows :
        rows[h].kind \in {"HU", "EXHAUSTIVE_DRAW", "DRAW"} =>
            /\ h \in DOMAIN files /\ Loadable(files[h]) /\ rows[h].ended
            /\ rows[h].winner = files[h].end.winner /\ rows[h].fan = files[h].end.fan
            /\ rows[h].scores = files[h].end.delta
            /\ (rows[h].kind = "HU") = (files[h].end.kind = "HU")

\* The standings a table shows are the sum of its hands in the index, unless a
\* write to the index failed, and points are moved between the seats, never made:
\* the standings and each row add up to zero (record_hand, _finalize_hand_row,
\* score_delta).
StandingsAdd ==
    (pc # "down" /\ \A h \in failed : h.boot # boot) =>
          \A s \in Seats : totals[s] =
              MapThenSumSet(LAMBDA h : rows[h].scores[s],
                            {h \in DOMAIN rows : h.boot = boot /\ h.index < played})
PointsMove ==
    /\ Total(totals) = 0
    /\ \A h \in DOMAIN rows : None \notin {rows[h].scores[s] : s \in Seats} => Total(rows[h].scores) = 0
StandingsAgree == StandingsAdd /\ PointsMove

\* The startup report stays silent about a hand that was played through: the
\* files it calls orphaned are those whose row could not be written, and what it
\* calls missing or corrupt was aborted (integrity_check).
ReportIsFair ==
    /\ OrphanedFiles \subseteq failed
    /\ \A h \in MissingFiles \cup ChecksumMismatches : rows[h].kind = "ABORTED"

\* A complete record is never written again, whatever the later runs of the
\* server do (hand ids, RecordWriter opens for writing).
RecordsStand == [][\A h \in DOMAIN files : files[h].footer => files'[h] = files[h]]_files

\* No restart, sweep or rebuild takes a win from an account, and nothing but a
\* rebuild takes a played hand, a draw or a streak: a badge stays earned
\* (account_stats, account_achievements).
BadgesKept ==
    [][(rows' # rows) =>
        \A a \in Accounts :
            LET now == Metrics(a)
                then == Metrics(a)'
            IN \A m \in IF pc = "down" /\ pc' = "down" THEN {"wins", "bestFan"} ELSE DOMAIN now :
                  now[m] <= then[m]]_vars

\* A reserved hand does not stay open in the index: it is closed by the hand loop
\* or by a later startup, unless a write to its row failed.
ReservedEnds ==
    \A h \in Ids : (h \in DOMAIN rows /\ ~rows[h].ended) ~> ((h \in DOMAIN rows /\ rows[h].ended) \/ h \in failed)

=============================================================================
