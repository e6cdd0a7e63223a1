------------------------------ MODULE History ------------------------------
(***************************************************************************)
(* What an account is shown of its hands: the pages of GET_HISTORY, the    *)
(* summary of GET_PROFILE and the recording behind GET_REPLAY, each read   *)
(* from the index and the record files when it is asked for.               *)
(***************************************************************************)
EXTENDS MatchRecords

CONSTANTS
    PageSizes,    \* the `limit` of a request
    FromDataDir   \* the server was started in its data directory

ASSUME HistoryAssumption ==
    /\ PageSizes \subseteq 1 .. 100 /\ FromDataDir \in BOOLEAN
    /\ None \notin Int /\ None \notin [boot : Nat, index : Nat]

\* Of the seats it has in a hand, an account is shown the first.
SeatsOf(a) == {s \in Seats : Account[s] = a}
SeatOf(a) == IF SeatsOf(a) = {} THEN None ELSE CHOOSE s \in SeatsOf(a) : \A t \in SeatsOf(a) : s <= t
HandsOf(a) == IF SeatsOf(a) = {} THEN {} ELSE DOMAIN rows

\* The hands started before the cursor; an unknown cursor has none before it.
Earlier(a, cursor) ==
    {h \in HandsOf(a) : cursor = None \/ (cursor \in DOMAIN rows /\ Before(h, cursor))}

\* Mutant: the hand the cursor names is listed again.
FindHandsAgain(a, cursor, limit) ==
    LET listed == Earlier(a, cursor) \cup (HandsOf(a) \cap {cursor})
    IN {h \in listed : Cardinality({g \in listed : Before(h, g)}) < limit}

\* find_hands_by_account: the `limit` latest of them.
FindHands(a, cursor, limit) ==
    LET earlier == Earlier(a, cursor)
    IN {h \in earlier : Cardinality({g \in earlier : Before(h, g)}) < limit}

\* One row of "my games": the outcome from this account's seat.
HistoryRow(a, h) ==
    LET won == rows[h].kind = "HU" /\ rows[h].winner = SeatOf(a)
    IN [hand |-> h, match |-> rows[h].match, kind |-> rows[h].kind, seat |-> SeatOf(a), won |-> won,
        delta |-> rows[h].scores[SeatOf(a)], fan |-> IF won THEN rows[h].fan ELSE None]

\* A full page names its earliest hand as the next cursor, a short one is the last.
Earliest(page) == CHOOSE h \in page : \A g \in page : ~Before(g, h)
NextCursor(page, limit) == IF Cardinality(page) = limit THEN Earliest(page) ELSE None
HistoryPage(a, cursor, limit) ==
    LET page == FindHands(a, cursor, limit)
    IN [hands |-> {HistoryRow(a, h) : h \in page}, next |-> NextCursor(page, limit)]

DeltaOf(p) == rows[p[1]].scores[p[2]]
SumOf(counted) == MapThenSumSet(DeltaOf, counted)

\* account_score_series: the running sum over the latest `limit` counted hands,
\* which end in the order they start.
ScoreSeries(a, limit) ==
    LET counted == Counted(a)
        latest == {p \in counted : Cardinality({q \in counted : Before(p[1], q[1])}) < limit}
    IN [p \in latest |-> SumOf({q \in latest : ~Before(p[1], q[1])})]

Profile(a) ==
    [stats |-> Metrics(a), total |-> SumOf(Counted(a)), series |-> ScoreSeries(a, 200),
     recent |-> {HistoryRow(a, h) : h \in FindHands(a, None, 20)}]

\* The row names the file by its path below data_dir, and GET_REPLAY opens that
\* path from where the server was started.
Found(h) == FromDataDir /\ h \in DOMAIN files

Nothing(status) == [status |-> status, seat |-> None, end |-> None, winner |-> None, fan |-> None]

\* _build_replay_payload: a player of the hand sees their own seat's view, an
\* administrator the public one.
Replay(a, role, h) ==
    IF h \notin DOMAIN rows THEN Nothing("hand_not_found")
    ELSE IF SeatOf(a) = None /\ role # "admin" THEN Nothing("not_authorized")
    ELSE IF ~(Found(h) /\ Loadable(files[h])) THEN Nothing("replay_unavailable")
    ELSE [status |-> "ok", seat |-> SeatOf(a), end |-> files[h].end,
          winner |-> rows[h].winner, fan |-> rows[h].fan]

-----------------------------------------------------------------------------
\* The list shows a hand as won exactly when the statistics count it as a win of
\* that seat, and what it shows as played can be watched, and ends in the
\* recording with the outcome and the points the list shows (_history_row
\* against account_stats and _build_replay_payload).
HistoryTellsTruth ==
    \A a \in Accounts :
        LET wins == Wins(a) IN
        \A h \in HandsOf(a) :
           LET row == HistoryRow(a, h)
               seen == Replay(a, "user", h)
           IN
           /\ row.won = (<<h, row.seat>> \in wins)
           /\ (FromDataDir /\ row.kind \in {"HU", "EXHAUSTIVE_DRAW", "DRAW"}) =>
                /\ seen.status = "ok" /\ seen.winner = seen.end.winner /\ seen.fan = seen.end.fan
                /\ row.won = (seen.end.winner = row.seat) /\ row.delta = seen.end.delta[row.seat]

\* Page after page, whatever the size asked for, an account is shown all of its
\* hands and none twice (find_hands_by_account, _build_history_payload).
PagesPartition ==
    \A a \in Accounts, cursor \in {None} \cup DOMAIN rows, n \in PageSizes :
        LET page == FindHands(a, cursor, n)
            next == NextCursor(page, n)
            rest == IF next = None THEN {} ELSE Earlier(a, next)
        IN page \cap rest = {} /\ page \cup rest = Earlier(a, cursor)

\* The curve of the scores ends on the total, unless it is cut off
\* (account_score_series against account_stats).
SeriesEndsOnTotal ==
    \A a \in Accounts :
        LET counted == Counted(a)
            series == ScoreSeries(a, 200)
        IN Cardinality(counted) \in 1 .. 200 => \E p \in DOMAIN series : series[p] = SumOf(counted)

IndexTellsTruth == RowsTellTruth /\ HistoryTellsTruth /\ PagesPartition /\ SeriesEndsOnTotal
=============================================================================
