---------------------------- MODULE Beside_proofs ----------------------------
(***************************************************************************)
(* The processes beside the server: the bots of a table, for any number of *)
(* prompts and any strike limit; the workers of a self-play corpus, for    *)
(* any size and any number of runs; the control panel, for any number of   *)
(* pages; and a page that finds its way back, for any pages and users.     *)
(***************************************************************************)
EXTENDS BotSeat, SelfPlay, Console, Rejoin, SequenceTheorems, WellFoundedInduction, TLAPS

-----------------------------------------------------------------------------
(* The bot of a seat.                                                      *)

(***************************************************************************)
(* A process is spawned only where the seat has none: before the first     *)
(* there is none to forget, and decide looks.                              *)
(***************************************************************************)
NewHasNone == wait = "new" => ~ProcAlive
ProcessInv ==
    /\ wait \in Waits /\ orphans = 0
    /\ NewHasNone /\ (wait = "left" => ~ProcAlive)

LEMMA ProcessInvInit == BotInit => ProcessInv
  BY DEF BotInit, ProcessInv, Waits, NewHasNone, ProcAlive, NoChild

\* What the process does by itself never brings it back.
LEMMA ProcessInvBot == ASSUME ProcessInv, BotGreets \/ BotActs \/ BotFails PROVE ProcessInv'
<1>1. CASE BotGreets \/ BotActs
  <2>1. wait' = wait /\ orphans' = orphans /\ ProcAlive
    BY <1>1 DEF BotGreets, BotActs, ProcAlive
  <2> QED
    BY <2>1 DEF ProcessInv, NewHasNone
<1>2. CASE BotFails
  <2>1. wait' = wait /\ orphans' = orphans /\ ProcAlive
    BY <1>2 DEF BotFails
  <2> QED
    BY <2>1 DEF ProcessInv, NewHasNone
<1> QED
  BY <1>1, <1>2

\* seated.
LEMMA ProcessInvSeated ==
    ASSUME ProcessInv,
           Seated \/ SpawnFails \/ HelloLine \/ HelloTurn \/ HelloSkipped \/ HelloEof \/ DrainedHello \/ SeatedCancelled
    PROVE  ProcessInv'
<1> USE DEF ProcessInv, Waits, NewHasNone
<1>1. CASE Seated
  BY <1>1 DEF Seated, Spawn
<1>2. CASE SpawnFails \/ HelloSkipped \/ HelloEof \/ DrainedHello \/ SeatedCancelled
  BY <1>2 DEF SpawnFails, HelloSkipped, HelloEof, DrainedHello, SeatedCancelled
<1>3. CASE HelloLine \/ HelloTurn
  BY <1>3 DEF HelloLine, HelloTurn
<1> QED
  BY <1>1, <1>2, <1>3

\* decide and left.
LEMMA ProcessInvDecide ==
    ASSUME ProcessInv,
           \/ Decide \/ ReadAnswer \/ ReadRaises \/ ReadTimeout \/ ReadUndecodable
           \/ Killed \/ ReadEof \/ Reaped \/ DecideCancelled
    PROVE  ProcessInv'
<1> USE DEF ProcessInv, Waits, NewHasNone
<1>1. CASE Decide
  BY <1>1 DEF Decide, Spawn
<1>2. CASE ReadTimeout \/ ReadUndecodable \/ ReadEof
  BY <1>2 DEF ReadTimeout, ReadUndecodable, ReadEof
<1>3. ASSUME orphans' = orphans, wait' \in {"leaving", "idle"} PROVE ProcessInv'
  BY <1>3
<1>4. CASE ReadAnswer \/ ReadRaises
  BY <1>3, <1>4 DEF ReadAnswer, ReadRaises, DecideEnds
<1>5. CASE Killed
  BY <1>3, <1>5 DEF Killed, DecideEnds
<1>6. CASE Reaped
  BY <1>3, <1>6 DEF Reaped, DecideEnds
<1>7. CASE DecideCancelled
  BY <1>3, <1>7 DEF DecideCancelled, DecideEnds
<1> QED
  BY <1>1, <1>2, <1>4, <1>5, <1>6, <1>7

LEMMA ProcessInvStep == ProcessInv /\ [BotNext]_botVars => ProcessInv'
<1> SUFFICES ASSUME ProcessInv, [BotNext]_botVars PROVE ProcessInv'
  OBVIOUS
<1>1. CASE HandOver
  BY <1>1 DEF HandOver, ProcessInv, Waits, NewHasNone
<1>2. CASE Left
  BY <1>2 DEF Left, ProcessInv, Waits, NewHasNone, ProcAlive, Exited, NoChild
<1>3. CASE UNCHANGED botVars
  BY <1>3 DEF botVars, ProcessInv, NewHasNone, ProcAlive
<1> QED
  BY <1>1, <1>2, <1>3, ProcessInvBot, ProcessInvSeated, ProcessInvDecide DEF BotNext

\* One process at a time is the seat's, and left ends it, whatever failed, timed
\* out or was cancelled (bot_runner.py).
THEOREM NoProcessOutlivesTheorem == BotSpec => []NoProcessOutlives
<1>1. ProcessInv => NoProcessOutlives
  BY DEF ProcessInv, NoProcessOutlives
<1> QED
  BY <1>1, ProcessInvInit, ProcessInvStep, PTL DEF BotSpec

-----------------------------------------------------------------------------
(* Which prompt an action answers.                                         *)

Said == [kind : Answers, of : Nat]
Procs == [state : States, hello : Lines \cup {"none", "unread"}, stdin : Seq(Nat), stdout : Seq(Said)]
Open == IF wait \in {"reading", "killing", "reaping"} THEN 1 ELSE 0     \* prompts not ended yet

\* What was said, then what was asked and is not answered yet, in the order of prompts.
InOrder(q, r) ==
    /\ \A i, j \in 1 .. Len(q) : i < j => q[i].of < q[j].of
    /\ \A i, j \in 1 .. Len(r) : i < j => r[i] < r[j]
    /\ \A i \in 1 .. Len(q), j \in 1 .. Len(r) : q[i].of < r[j]
\* None of it is later than prompt n, nor d or more answers before prompt m.
Within(q, r, d, m, n) ==
    /\ \A i \in 1 .. Len(q) : m <= q[i].of + d /\ q[i].of <= n
    /\ \A j \in 1 .. Len(r) : m <= r[j] + d /\ r[j] <= n

(***************************************************************************)
(* While the process lives, or is still read from, what it has said and    *)
(* what it was asked comes in the order of the prompts, the oldest as far  *)
(* back as its debt; and HELLO, until it is read, is before all of it, and *)
(* as far back as that.                                                    *)
(***************************************************************************)
PipesInv ==
    /\ InOrder(proc.stdout, proc.stdin)
    /\ Within(proc.stdout, proc.stdin, debt, (asked + 1) - Open, asked)
    /\ proc.hello = "unread" =>
          /\ asked = debt + Open /\ proc.stdout = <<>>
          /\ \A j \in 1 .. Len(proc.stdin) : proc.stdin[j] > 0
TurnTypeOK ==
    /\ proc \in Procs /\ asked \in Nat /\ debt \in Nat /\ wait \in Waits
    /\ wait \in {"new", "hello", "drain_hello"} => asked = 0
TurnInv ==
    /\ TurnTypeOK /\ AnswersInTurn
    /\ (ProcAlive \/ wait = "reading") => PipesInv

LEMMA TurnInvInit == BotInit => TurnInv
<1> SUFFICES ASSUME BotInit PROVE TurnInv
  OBVIOUS
<1>1. proc = [state |-> "none", hello |-> "none", stdin |-> <<>>, stdout |-> <<>>]
  BY DEF BotInit, NoChild
<1>2. <<>> \in Seq(Nat) /\ <<>> \in Seq(Said)
  OBVIOUS
<1>3. TurnTypeOK
  BY <1>1, <1>2 DEF BotInit, TurnTypeOK, Procs, States, Waits
<1> QED
  BY <1>1, <1>3 DEF BotInit, TurnInv, AnswersInTurn, ProcAlive

LEMMA OfIsNat == ASSUME NEW a \in Said PROVE a.of \in Nat
BY DEF Said

\* A request leaves its pipe, and its answer enters the other.
LEMMA Answered ==
    ASSUME NEW q \in Seq(Said), NEW r \in Seq(Nat), r # <<>>, InOrder(q, r), NEW kind \in Answers,
           NEW d \in Nat, NEW m \in Nat, NEW n \in Nat, Within(q, r, d, m, n),
           NEW p, p = Append(q, [kind |-> kind, of |-> Head(r)])
    PROVE  /\ Head(r) \in Nat /\ Tail(r) \in Seq(Nat) /\ p \in Seq(Said)
           /\ InOrder(q, Tail(r)) /\ Within(q, Tail(r), d, m, n)
           /\ InOrder(p, Tail(r)) /\ Within(p, Tail(r), d, m, n)
<1>1. PICK k \in Nat, t \in Seq(Nat) :
        Len(r) = k + 1 /\ t = Tail(r) /\ Len(t) = k /\ \A i \in 1 .. k : t[i] = r[i + 1]
  <2>1. Len(r) \in Nat \ {0} /\ Tail(r) \in Seq(Nat) /\ Len(Tail(r)) = Len(r) - 1
    OBVIOUS
  <2>2. Len(r) = (Len(r) - 1) + 1 /\ Len(r) - 1 \in Nat /\ \A i \in 1 .. Len(r) - 1 : Tail(r)[i] = r[i + 1]
    BY <2>1
  <2> QED
    BY <2>1, <2>2
<1>2. PICK h \in Nat : h = Head(r) /\ h = r[1]
  OBVIOUS
<1>3. PICK a \in Said : a = [kind |-> kind, of |-> h] /\ a.of = h
  <2>1. [kind |-> kind, of |-> h] \in Said /\ [kind |-> kind, of |-> h].of = h
    BY DEF Said
  <2> QED
    BY <2>1
<1>4. /\ p \in Seq(Said) /\ Len(q) \in Nat /\ Len(p) = Len(q) + 1 /\ p[Len(q) + 1] = a
      /\ \A i \in 1 .. Len(q) : p[i] = q[i]
  BY <1>2, <1>3
<1>5. /\ \A i \in 1 .. Len(r) : r[i] \in Nat
      /\ \A i \in 1 .. Len(q) : q[i].of \in Nat
  <2>1. \A i \in 1 .. Len(q) : q[i] \in Said
    OBVIOUS
  <2> QED
    BY <2>1, OfIsNat
<1>6. \A i \in 1 .. k : i + 1 \in 1 .. Len(r) /\ 1 < i + 1
  BY <1>1
<1>7. 1 \in 1 .. Len(r)
  BY <1>1
<1>8. /\ \A i, j \in 1 .. k : i < j => t[i] < t[j]
      /\ \A i \in 1 .. Len(q), j \in 1 .. k : q[i].of < t[j]
      /\ \A j \in 1 .. k : h < t[j] /\ m <= t[j] + d /\ t[j] <= n
      /\ \A i \in 1 .. Len(q) : q[i].of < h
      /\ m <= h + d /\ h <= n
  <2>1. \A i \in 1 .. k : i + 1 \in 1 .. Len(r) /\ 1 < i + 1 /\ t[i] = r[i + 1]
    BY <1>1, <1>6
  <2>2. \A i, j \in 1 .. k : i < j => i + 1 < j + 1
    OBVIOUS
  <2>3. \A i, j \in 1 .. k : i < j => t[i] < t[j]
    <3> SUFFICES ASSUME NEW i \in 1 .. k, NEW j \in 1 .. k, i < j PROVE t[i] < t[j]
      OBVIOUS
    <3>1. r[i + 1] < r[j + 1]
      BY <2>1, <2>2 DEF InOrder
    <3> QED
      BY <2>1, <3>1
  <2>4. \A i \in 1 .. Len(q), j \in 1 .. k : q[i].of < t[j]
    BY <2>1 DEF InOrder
  <2>5. \A j \in 1 .. k : h < t[j] /\ m <= t[j] + d /\ t[j] <= n
    BY <1>2, <1>7, <2>1 DEF InOrder, Within
  <2>6. /\ \A i \in 1 .. Len(q) : q[i].of < h
        /\ m <= h + d /\ h <= n
    BY <1>2, <1>7 DEF InOrder, Within
  <2> QED
    BY <2>3, <2>4, <2>5, <2>6
<1>9. InOrder(q, t) /\ Within(q, t, d, m, n)
  BY <1>1, <1>8 DEF InOrder, Within
<1>10. \A i \in 1 .. Len(p) : i \in 1 .. Len(q) \/ i = Len(q) + 1
  <2>1. ASSUME NEW l \in Nat, NEW i \in 1 .. l + 1 PROVE i \in 1 .. l \/ i = l + 1
    OBVIOUS
  <2> QED
    BY <1>4, <2>1
<1>11. InOrder(p, t)
  <2>1. \A i, j \in 1 .. Len(p) : i < j => p[i].of < p[j].of
    <3> SUFFICES ASSUME NEW i \in 1 .. Len(p), NEW j \in 1 .. Len(p), i < j PROVE p[i].of < p[j].of
      OBVIOUS
    <3>1. i \in 1 .. Len(q) /\ p[i].of = q[i].of
      <4>1. i \in 1 .. Len(q)
        BY <1>4
      <4> QED
        BY <1>4, <4>1
    <3>2. CASE j \in 1 .. Len(q)
      <4>1. p[j] = q[j] /\ q[i].of < q[j].of
        BY <1>4, <3>1, <3>2 DEF InOrder
      <4> QED
        BY <3>1, <4>1
    <3>3. CASE j = Len(q) + 1
      <4>1. p[j].of = h /\ q[i].of < h
        BY <1>3, <1>4, <1>8, <3>1, <3>3
      <4> QED
        BY <3>1, <4>1
    <3> QED
      BY <1>10, <3>2, <3>3
  <2>2. \A i \in 1 .. Len(p), j \in 1 .. k : p[i].of < t[j]
    <3> SUFFICES ASSUME NEW i \in 1 .. Len(p), NEW j \in 1 .. k PROVE p[i].of < t[j]
      OBVIOUS
    <3>1. CASE i \in 1 .. Len(q)
      BY <1>4, <1>8, <3>1
    <3>2. CASE i = Len(q) + 1
      BY <1>3, <1>4, <1>8, <3>2
    <3> QED
      BY <1>10, <3>1, <3>2
  <2> QED
    BY <1>1, <1>8, <2>1, <2>2 DEF InOrder
<1>12. Within(p, t, d, m, n)
  <2>1. \A i \in 1 .. Len(p) : m <= p[i].of + d /\ p[i].of <= n
    <3> SUFFICES ASSUME NEW i \in 1 .. Len(p) PROVE m <= p[i].of + d /\ p[i].of <= n
      OBVIOUS
    <3>1. CASE i \in 1 .. Len(q)
      BY <1>4, <3>1 DEF Within
    <3>2. CASE i = Len(q) + 1
      BY <1>3, <1>4, <1>8, <3>2
    <3> QED
      BY <1>10, <3>1, <3>2
  <2> QED
    BY <1>1, <1>8, <2>1 DEF Within
<1> QED
  BY <1>1, <1>2, <1>4, <1>9, <1>11, <1>12

\* The first answer is taken; the others are later.
LEMMA FirstTaken ==
    ASSUME NEW q \in Seq(Said), NEW r \in Seq(Nat), q # <<>>, InOrder(q, r),
           NEW d \in Nat, NEW m \in Nat, NEW n \in Nat, Within(q, r, d, m, n)
    PROVE  /\ Head(q) \in Said /\ Tail(q) \in Seq(Said)
           /\ m <= Head(q).of + d
           /\ InOrder(Tail(q), r) /\ Within(Tail(q), r, d, m + 1, n)
<1>1. PICK k \in Nat, t \in Seq(Said) :
        Len(q) = k + 1 /\ t = Tail(q) /\ Len(t) = k /\ \A i \in 1 .. k : t[i] = q[i + 1]
  <2>1. Len(q) \in Nat \ {0} /\ Tail(q) \in Seq(Said) /\ Len(Tail(q)) = Len(q) - 1
    OBVIOUS
  <2>2. Len(q) = (Len(q) - 1) + 1 /\ Len(q) - 1 \in Nat /\ \A i \in 1 .. Len(q) - 1 : Tail(q)[i] = q[i + 1]
    BY <2>1
  <2> QED
    BY <2>1, <2>2
<1>2. PICK h \in Said : h = Head(q) /\ h = q[1]
  OBVIOUS
<1>3. PICK o \in Nat : o = h.of
  BY DEF Said
<1>4. /\ \A i \in 1 .. Len(r) : r[i] \in Nat
      /\ \A i \in 1 .. k : t[i].of \in Nat
  <2>1. \A i \in 1 .. k : t[i] \in Said
    BY <1>1
  <2> QED
    BY <2>1, OfIsNat
<1>5. \A i \in 1 .. k : i + 1 \in 1 .. Len(q) /\ 1 < i + 1
  BY <1>1
<1>6. 1 \in 1 .. Len(q)
  BY <1>1
<1>7. /\ \A i, j \in 1 .. k : i < j => t[i].of < t[j].of
      /\ \A i \in 1 .. k, j \in 1 .. Len(r) : t[i].of < r[j]
      /\ \A i \in 1 .. k : o < t[i].of /\ t[i].of <= n
      /\ \A j \in 1 .. Len(r) : o < r[j] /\ r[j] <= n
      /\ m <= o + d
  <2>1. \A i \in 1 .. k : i + 1 \in 1 .. Len(q) /\ 1 < i + 1 /\ t[i].of = q[i + 1].of
    BY <1>1, <1>5
  <2>2. \A i, j \in 1 .. k : i < j => i + 1 < j + 1
    OBVIOUS
  <2>3. \A i, j \in 1 .. k : i < j => t[i].of < t[j].of
    <3> SUFFICES ASSUME NEW i \in 1 .. k, NEW j \in 1 .. k, i < j PROVE t[i].of < t[j].of
      OBVIOUS
    <3>1. q[i + 1].of < q[j + 1].of
      BY <2>1, <2>2 DEF InOrder
    <3> QED
      BY <2>1, <3>1
  <2>4. \A i \in 1 .. k, j \in 1 .. Len(r) : t[i].of < r[j]
    BY <2>1 DEF InOrder
  <2>5. \A i \in 1 .. k : o < t[i].of /\ t[i].of <= n
    BY <1>2, <1>3, <1>6, <2>1 DEF InOrder, Within
  <2>6. /\ \A j \in 1 .. Len(r) : o < r[j] /\ r[j] <= n
        /\ m <= o + d
    BY <1>2, <1>3, <1>6 DEF InOrder, Within
  <2> QED
    BY <2>3, <2>4, <2>5, <2>6
<1>8. /\ \A i \in 1 .. k : m + 1 <= t[i].of + d
      /\ \A j \in 1 .. Len(r) : m + 1 <= r[j] + d
  <2>1. ASSUME NEW x \in Nat, o < x PROVE m + 1 <= x + d
    BY <1>7, <2>1
  <2> QED
    BY <1>4, <1>7, <2>1
<1>9. InOrder(t, r)
  BY <1>1, <1>7 DEF InOrder
<1>10. Within(t, r, d, m + 1, n)
  BY <1>1, <1>7, <1>8 DEF Within
<1> QED
  BY <1>1, <1>2, <1>3, <1>7, <1>9, <1>10

LEMMA Earlier ==
    ASSUME NEW l \in Nat, NEW i \in 1 .. l + 1, NEW j \in 1 .. l + 1, i < j
    PROVE  i \in 1 .. l /\ (j \in 1 .. l \/ j = l + 1)
OBVIOUS

\* A request is written behind the others.
LEMMA Written ==
    ASSUME NEW q \in Seq(Said), NEW r \in Seq(Nat), InOrder(q, r),
           NEW d \in Nat, NEW n \in Nat, Within(q, r, d, n + 1, n)
    PROVE  /\ Append(r, n + 1) \in Seq(Nat)
           /\ InOrder(q, Append(r, n + 1)) /\ Within(q, Append(r, n + 1), d, n + 1, n + 1)
<1>1. PICK s \in Seq(Nat) : s = Append(r, n + 1) /\ Len(r) \in Nat /\ Len(s) = Len(r) + 1 /\ s[Len(r) + 1] = n + 1
        /\ \A i \in 1 .. Len(r) : s[i] = r[i]
  <2>1. Len(r) \in Nat /\ n + 1 \in Nat
    OBVIOUS
  <2>2. /\ Append(r, n + 1) \in Seq(Nat) /\ Len(Append(r, n + 1)) = Len(r) + 1
        /\ Append(r, n + 1)[Len(r) + 1] = n + 1
        /\ \A i \in 1 .. Len(r) : Append(r, n + 1)[i] = r[i]
    BY <2>1
  <2> QED
    BY <2>1, <2>2
<1>2. /\ \A i \in 1 .. Len(r) : r[i] \in Nat
      /\ \A i \in 1 .. Len(q) : q[i].of \in Nat
  <2>1. \A i \in 1 .. Len(q) : q[i] \in Said
    OBVIOUS
  <2> QED
    BY <2>1, OfIsNat
<1>3. InOrder(q, s)
  <2>1. \A i, j \in 1 .. Len(s) : i < j => s[i] < s[j]
    <3> SUFFICES ASSUME NEW i \in 1 .. Len(s), NEW j \in 1 .. Len(s), i < j PROVE s[i] < s[j]
      OBVIOUS
    <3>0. Len(r) \in Nat /\ i \in 1 .. Len(r) + 1 /\ j \in 1 .. Len(r) + 1
      BY <1>1
    <3>1. i \in 1 .. Len(r) /\ (j \in 1 .. Len(r) \/ j = Len(r) + 1)
      BY <3>0, Earlier
    <3>2. CASE j \in 1 .. Len(r)
      BY <1>1, <3>1, <3>2 DEF InOrder
    <3>3. CASE j = Len(r) + 1
      BY <1>1, <1>2, <3>1, <3>3 DEF Within
    <3> QED
      BY <3>1, <3>2, <3>3
  <2>2. \A i \in 1 .. Len(q), j \in 1 .. Len(s) : q[i].of < s[j]
    BY <1>1, <1>2 DEF InOrder, Within
  <2> QED
    BY <2>1, <2>2 DEF InOrder
<1>4. Within(q, s, d, n + 1, n + 1)
  BY <1>1, <1>2 DEF Within
<1> QED
  BY <1>1, <1>3, <1>4

\* The first answer changes its kind.
Rekind(q, kind) == [q EXCEPT ![1].kind = kind]
LEMMA Rekinded ==
    ASSUME NEW q \in Seq(Said), q # <<>>, NEW kind \in Answers
    PROVE  /\ Rekind(q, kind) \in Seq(Said) /\ Len(Rekind(q, kind)) = Len(q)
           /\ \A i \in 1 .. Len(q) : Rekind(q, kind)[i].of = q[i].of
<1>0. PICK p : p = Rekind(q, kind)
  OBVIOUS
<1>1. 1 \in 1 .. Len(q) /\ \A i \in 1 .. Len(q) : q[i] \in Said
  OBVIOUS
<1>2. PICK a : a = [q[1] EXCEPT !.kind = kind]
  OBVIOUS
<1>3. a \in Said /\ a.of = q[1].of
  BY <1>1, <1>2 DEF Said
<1>4. p = [q EXCEPT ![1] = a]
  BY <1>0, <1>2 DEF Rekind
<1>5. p \in Seq(Said) /\ Len(p) = Len(q) /\ p[1] = a /\ \A i \in 1 .. Len(q) : i # 1 => p[i] = q[i]
  BY <1>1, <1>3, <1>4
<1> QED
  BY <1>0, <1>3, <1>5

\* More debt, or an earlier bound, asks for less.
LEMMA Looser ==
    ASSUME NEW q \in Seq(Said), NEW r \in Seq(Nat), NEW d \in Nat, NEW m \in Nat, NEW n \in Nat,
           Within(q, r, d, m, n)
    PROVE  Within(q, r, d + 1, m + 1, n) /\ Within(q, r, d + 1, m, n)
<1>1. \A i \in 1 .. Len(q) : q[i] \in Said
  OBVIOUS
<1>2. \A i \in 1 .. Len(q) : q[i].of \in Nat
  BY <1>1 DEF Said
<1>3. ASSUME NEW x \in Nat, m <= x + d PROVE m + 1 <= x + (d + 1) /\ m <= x + (d + 1)
  BY <1>3
<1>4. \A i \in 1 .. Len(q) : m <= q[i].of + d /\ q[i].of <= n
  BY DEF Within
<1>5. \A j \in 1 .. Len(r) : m <= r[j] + d /\ r[j] <= n /\ r[j] \in Nat
  BY DEF Within
<1>6. /\ \A i \in 1 .. Len(q) : m + 1 <= q[i].of + (d + 1) /\ m <= q[i].of + (d + 1)
      /\ \A j \in 1 .. Len(r) : m + 1 <= r[j] + (d + 1) /\ m <= r[j] + (d + 1)
  BY <1>2, <1>3, <1>4, <1>5
<1> QED
  BY <1>4, <1>5, <1>6 DEF Within

LEMMA SameOf ==
    ASSUME NEW q, NEW p, NEW r, Len(p) = Len(q), \A i \in 1 .. Len(q) : p[i].of = q[i].of, InOrder(q, r),
           NEW d, NEW m, NEW n, Within(q, r, d, m, n)
    PROVE  InOrder(p, r) /\ Within(p, r, d, m, n)
BY DEF InOrder, Within

\* The process as a record of its pipes.
LEMMA ProcShape ==
    ASSUME NEW st \in States, NEW hello \in Lines \cup {"none", "unread"},
           NEW r \in Seq(Nat), NEW q \in Seq(Said),
           NEW p, p = [state |-> st, hello |-> hello, stdin |-> r, stdout |-> q]
    PROVE  p \in Procs /\ p.state = st /\ p.hello = hello /\ p.stdin = r /\ p.stdout = q
BY DEF Procs

LEMMA ExitedShape == Exited \in Procs /\ Exited.state = "exited"
<1>1. Exited = [state |-> "exited", hello |-> "none", stdin |-> <<>>, stdout |-> <<>>]
  BY DEF Exited, NoChild
<1>2. "exited" \in States /\ <<>> \in Seq(Nat) /\ <<>> \in Seq(Said)
  BY DEF States
<1> QED
  BY <1>1, <1>2 DEF Procs

-----------------------------------------------------------------------------
(* The steps.                                                              *)

\* A dead process that nothing is read from owes nothing.
LEMMA GoneInv ==
    ASSUME TurnInv, proc' \in Procs, proc'.state \in {"none", "exited"}, wait' \in Waits \ {"new", "hello", "drain_hello", "reading"},
           debt' \in Nat, asked' \in Nat, AnswersInTurn'
    PROVE  TurnInv'
BY DEF TurnInv, TurnTypeOK, ProcAlive

\* The seat waits elsewhere, and the pipes are as they were.
LEMMA WaitsInv ==
    ASSUME TurnInv, proc' = proc, asked' = asked, debt' = debt, decided' = decided,
           wait' \in Waits \ {"new", "reading"}, Open' = Open,
           wait' \in {"hello", "drain_hello"} => wait \in {"new", "hello", "drain_hello"}
    PROVE  TurnInv'
<1>1. TurnTypeOK'
  BY DEF TurnInv, TurnTypeOK
<1>2. AnswersInTurn'
  BY DEF TurnInv, AnswersInTurn
<1>3. ProcAlive' => PipesInv'
  <2> SUFFICES ASSUME ProcAlive' PROVE PipesInv'
    OBVIOUS
  <2>1. PipesInv
    BY DEF TurnInv, ProcAlive
  <2> QED
    BY <2>1 DEF PipesInv
<1> QED
  BY <1>1, <1>2, <1>3 DEF TurnInv

\* The process, by itself.
LEMMA BotTurns == ASSUME TurnInv, BotGreets \/ BotActs \/ BotFails PROVE TurnInv'
<1>1. /\ wait' = wait /\ asked' = asked /\ decided' = decided /\ ProcAlive /\ Open' = Open
      /\ debt' \in {debt, debt + 1}
  BY DEF BotGreets, BotActs, BotFails, ProcAlive, Open
<1>2. /\ PipesInv /\ proc \in Procs /\ debt \in Nat /\ asked \in Nat /\ TurnTypeOK
  BY <1>1 DEF TurnInv, TurnTypeOK
<1>3. AnswersInTurn'
  BY <1>1 DEF TurnInv, AnswersInTurn
<1>4. PICK q \in Seq(Said), r \in Seq(Nat) : q = proc.stdout /\ r = proc.stdin
  BY <1>2 DEF Procs
<1>5. ASSUME proc' \in Procs, PipesInv' PROVE TurnInv'
  BY <1>1, <1>2, <1>3, <1>5 DEF TurnInv, TurnTypeOK
<1>6. CASE BotGreets
  <2>1. PICK greeting \in Lines \cup {"none"} :
          \/ proc' = [proc EXCEPT !.hello = greeting] /\ debt' = debt
          \/ \E kind \in Answers :
               proc' = [proc EXCEPT !.hello = greeting, !.stdout = <<[kind |-> kind, of |-> 0]>>]
               /\ debt' = debt + 1
    BY <1>6 DEF BotGreets
  <2>2. /\ asked = debt + Open /\ q = <<>> /\ Open \in {0, 1}
        /\ \A j \in 1 .. Len(r) : r[j] > 0
    BY <1>2, <1>4, <1>6 DEF BotGreets, PipesInv, Open
  <2>3. greeting \in Lines \cup {"none", "unread"} /\ greeting # "unread"
    BY <2>1 DEF Lines
  <2>4. CASE proc' = [proc EXCEPT !.hello = greeting] /\ debt' = debt
    <3>1. proc' \in Procs /\ proc'.hello = greeting /\ proc'.stdout = q /\ proc'.stdin = r
      BY <1>2, <1>4, <2>3, <2>4 DEF Procs
    <3>2. PipesInv'
      BY <1>1, <1>2, <1>4, <2>3, <2>4, <3>1 DEF PipesInv
    <3> QED
      BY <1>5, <3>1, <3>2
  <2>5. ASSUME NEW kind \in Answers,
               proc' = [proc EXCEPT !.hello = greeting, !.stdout = <<[kind |-> kind, of |-> 0]>>], debt' = debt + 1
        PROVE  TurnInv'
    <3>1. PICK a \in Said : a = [kind |-> kind, of |-> 0] /\ a.of = 0
      <4>1. [kind |-> kind, of |-> 0] \in Said
        BY DEF Said
      <4> QED
        BY <4>1
    <3>2. PICK p \in Seq(Said) : p = <<a>> /\ Len(p) = 1 /\ p[1] = a
      <4>1. <<a>> \in Seq(Said) /\ Len(<<a>>) = 1 /\ <<a>>[1] = a
        OBVIOUS
      <4> QED
        BY <4>1
    <3>3. proc' \in Procs /\ proc'.hello = greeting /\ proc'.stdout = p /\ proc'.stdin = r
      BY <1>2, <1>4, <2>3, <2>5, <3>1, <3>2 DEF Procs
    <3>4. InOrder(q, r) /\ Within(q, r, debt, (asked + 1) - Open, asked)
      BY <1>2, <1>4 DEF PipesInv
    <3>5. \A j \in 1 .. Len(r) : r[j] \in Nat
      OBVIOUS
    <3>6. InOrder(p, r)
      BY <2>2, <3>1, <3>2, <3>4 DEF InOrder
    <3>7. Within(p, r, debt + 1, (asked + 1) - Open, asked)
      BY <1>2, <2>2, <3>1, <3>2, <3>4, <3>5 DEF Within
    <3>8. PipesInv'
      BY <1>1, <2>3, <2>5, <3>3, <3>6, <3>7 DEF PipesInv
    <3> QED
      BY <1>5, <3>3, <3>8
  <2> QED
    BY <2>1, <2>4, <2>5
<1>7. CASE BotActs
  <2>1. /\ r # <<>> /\ proc.hello # "unread" /\ debt' = debt
        /\ \/ proc' = [proc EXCEPT !.stdin = Tail(@)]
           \/ \E kind \in Answers :
                proc' = [proc EXCEPT !.stdin = Tail(@), !.stdout = Append(@, [kind |-> kind, of |-> Head(proc.stdin)])]
    BY <1>4, <1>7 DEF BotActs
  <2>2. PICK m \in Nat : m = (asked + 1) - Open
    <3>1. (asked + 1) - Open \in Nat
      BY <1>2 DEF Open
    <3> QED
      BY <3>1
  <2>3. InOrder(q, r) /\ Within(q, r, debt, m, asked)
    BY <1>2, <1>4, <2>2 DEF PipesInv
  <2>4. ASSUME proc' \in Procs, proc'.hello = proc.hello, InOrder(proc'.stdout, proc'.stdin),
               Within(proc'.stdout, proc'.stdin, debt, m, asked)
        PROVE  TurnInv'
    <3>1. PipesInv'
      BY <1>1, <2>1, <2>2, <2>4 DEF PipesInv
    <3> QED
      BY <1>5, <2>4, <3>1
  <2>5. CASE proc' = [proc EXCEPT !.stdin = Tail(@)]
    <3>1. PICK kind \in Answers : TRUE
      BY DEF Answers
    <3>2. InOrder(q, Tail(r)) /\ Within(q, Tail(r), debt, m, asked) /\ Tail(r) \in Seq(Nat)
      BY <1>2, <2>1, <2>3, Answered
    <3>3. proc' \in Procs /\ proc'.hello = proc.hello /\ proc'.stdout = q /\ proc'.stdin = Tail(r)
      BY <1>2, <1>4, <2>5, <3>2 DEF Procs
    <3> QED
      BY <2>4, <3>2, <3>3
  <2>6. ASSUME NEW kind \in Answers,
               proc' = [proc EXCEPT !.stdin = Tail(@), !.stdout = Append(@, [kind |-> kind, of |-> Head(proc.stdin)])]
        PROVE  TurnInv'
    <3>1. PICK p : p = Append(q, [kind |-> kind, of |-> Head(r)])
      OBVIOUS
    <3>2. InOrder(p, Tail(r)) /\ Within(p, Tail(r), debt, m, asked) /\ Tail(r) \in Seq(Nat) /\ p \in Seq(Said)
      BY <1>2, <2>1, <2>3, <3>1, Answered
    <3>3. proc' \in Procs /\ proc'.hello = proc.hello /\ proc'.stdout = p /\ proc'.stdin = Tail(r)
      BY <1>2, <1>4, <2>6, <3>1, <3>2 DEF Procs
    <3> QED
      BY <2>4, <3>2, <3>3
  <2> QED
    BY <2>1, <2>5, <2>6
<1>8. CASE BotFails
  <2>1. PICK st \in States : proc' = [proc EXCEPT !.state = st]
    BY <1>8 DEF BotFails, States
  <2>2. /\ proc' \in Procs /\ proc'.hello = proc.hello /\ proc'.stdout = proc.stdout /\ proc'.stdin = proc.stdin
        /\ debt' = debt
    BY <1>2, <1>8, <2>1 DEF Procs, BotFails
  <2>3. PipesInv'
    BY <1>1, <1>2, <2>2 DEF PipesInv
  <2> QED
    BY <1>5, <2>2, <2>3
<1> QED
  BY <1>6, <1>7, <1>8

\* A new process owes nothing.
LEMMA SpawnShape ==
    ASSUME NEW hello \in {"none", "unread"}, NEW r \in Seq(Nat), Spawn(hello, r)
    PROVE  /\ proc' \in Procs /\ proc'.hello = hello /\ proc'.stdin = r /\ proc'.stdout = <<>>
           /\ debt' = 0
<1>1. "running" \in States /\ <<>> \in Seq(Said) /\ hello \in Lines \cup {"none", "unread"}
  BY DEF States
<1>2. proc' = [state |-> "running", hello |-> hello, stdin |-> r, stdout |-> <<>>] /\ debt' = 0
  BY DEF Spawn
<1> QED
  BY <1>1, <1>2 DEF Procs

\* seated.
LEMMA SeatedTurns ==
    ASSUME TurnInv,
           Seated \/ SpawnFails \/ HelloLine \/ HelloTurn \/ HelloSkipped \/ HelloEof \/ DrainedHello \/ SeatedCancelled
    PROVE  TurnInv'
<1>1. /\ wait \in {"new", "hello", "drain_hello"} /\ wait' \in Waits \ {"new", "reading"}
      /\ asked' = asked /\ decided' = decided /\ Open = 0 /\ Open' = 0
  BY DEF Seated, SpawnFails, HelloLine, HelloTurn, HelloSkipped, HelloEof, DrainedHello, SeatedCancelled,
         Waits, Open, Lines
<1>2. asked = 0 /\ proc \in Procs /\ debt \in Nat
  BY <1>1 DEF TurnInv, TurnTypeOK
<1>3. AnswersInTurn'
  BY <1>1 DEF TurnInv, AnswersInTurn
<1>4. ASSUME proc' \in Procs, debt' \in Nat, ProcAlive' => PipesInv' PROVE TurnInv'
  BY <1>1, <1>2, <1>3, <1>4 DEF TurnInv, TurnTypeOK
<1>5. CASE Seated
  <2>1. <<>> \in Seq(Nat) /\ Spawn("unread", <<>>)
    BY <1>5 DEF Seated
  <2>2. /\ proc' \in Procs /\ proc'.hello = "unread" /\ proc'.stdin = <<>> /\ proc'.stdout = <<>>
        /\ debt' = 0
    BY <2>1, SpawnShape
  <2>3. PipesInv'
    BY <1>1, <1>2, <2>2 DEF PipesInv, InOrder, Within
  <2> QED
    BY <1>4, <2>2, <2>3
<1>6. CASE SpawnFails \/ HelloSkipped \/ HelloEof \/ DrainedHello \/ SeatedCancelled
  <2>1. proc' = proc /\ debt' = debt
    BY <1>6 DEF SpawnFails, HelloSkipped, HelloEof, DrainedHello, SeatedCancelled
  <2> QED
    BY <1>1, <2>1, WaitsInv
<1>7. CASE HelloLine
  <2>1. proc' = [proc EXCEPT !.hello = "none"] /\ debt' = debt
    BY <1>7 DEF HelloLine
  <2>2. /\ proc' \in Procs /\ proc'.hello = "none" /\ proc'.stdin = proc.stdin /\ proc'.stdout = proc.stdout
        /\ proc'.state = proc.state
    BY <1>2, <2>1 DEF Procs
  <2>3. ASSUME ProcAlive' PROVE PipesInv'
    <3>1. PipesInv
      BY <2>2, <2>3 DEF ProcAlive, TurnInv
    <3> QED
      BY <1>1, <2>1, <2>2, <3>1 DEF PipesInv
  <2> QED
    BY <1>2, <1>4, <2>1, <2>2, <2>3
<1>8. CASE HelloTurn
  <2>1. PICK kind \in Answers : proc' = [proc EXCEPT !.stdout[1].kind = kind]
    BY <1>8 DEF HelloTurn, Answers
  <2>2. PICK q \in Seq(Said), r \in Seq(Nat) : q = proc.stdout /\ r = proc.stdin
    BY <1>2 DEF Procs
  <2>3. q # <<>> /\ proc.hello = "none" /\ debt' = debt
    BY <1>8, <2>2 DEF HelloTurn
  <2>4. PICK p \in Seq(Said) :
          p = Rekind(q, kind) /\ Len(p) = Len(q) /\ \A i \in 1 .. Len(q) : p[i].of = q[i].of
    BY <2>3, Rekinded
  <2>5. proc' = [proc EXCEPT !.stdout = p]
    BY <2>1, <2>2, <2>4 DEF Rekind
  <2>6. /\ proc' \in Procs /\ proc'.hello = "none" /\ proc'.stdin = r /\ proc'.stdout = p
        /\ proc'.state = proc.state
    BY <1>2, <2>2, <2>3, <2>5 DEF Procs
  <2>7. ASSUME ProcAlive' PROVE PipesInv'
    <3>1. PipesInv
      BY <2>6, <2>7 DEF ProcAlive, TurnInv
    <3>2. InOrder(q, r) /\ Within(q, r, debt, asked + 1, asked)
      BY <1>1, <1>2, <2>2, <3>1 DEF PipesInv
    <3>3. InOrder(p, r) /\ Within(p, r, debt, asked + 1, asked)
      BY <2>4, <3>2, SameOf
    <3> QED
      BY <1>1, <1>2, <2>3, <2>6, <3>3 DEF PipesInv
  <2> QED
    BY <1>2, <1>4, <2>3, <2>6, <2>7
<1> QED
  BY <1>5, <1>6, <1>7, <1>8

\* A prompt.
LEMMA DecideTurns == ASSUME TurnInv, Decide PROVE TurnInv'
<1>1. /\ wait = "idle" /\ wait' \in {"reading", "reaping"} /\ asked' = asked + 1 /\ decided' = decided
      /\ Open = 0 /\ Open' = 1
  BY DEF Decide, Open
<1>2. /\ proc \in Procs /\ debt \in Nat /\ asked \in Nat
      /\ asked' \in Nat /\ wait' \in Waits /\ wait' \notin {"new", "hello", "drain_hello"}
  BY <1>1 DEF TurnInv, TurnTypeOK, Waits
<1>3. AnswersInTurn'
  BY <1>1 DEF TurnInv, AnswersInTurn
<1>4. ASSUME proc' \in Procs, debt' \in Nat, PipesInv' PROVE TurnInv'
  BY <1>2, <1>3, <1>4 DEF TurnInv, TurnTypeOK
<1>5. CASE ProcAlive /\ proc' = [proc EXCEPT !.stdin = Append(@, asked + 1)] /\ debt' = debt
  <2>1. PICK q \in Seq(Said), r \in Seq(Nat) : q = proc.stdout /\ r = proc.stdin
    BY <1>2 DEF Procs
  <2>2. PipesInv
    BY <1>5 DEF TurnInv
  <2>3. InOrder(q, r) /\ Within(q, r, debt, asked + 1, asked)
    BY <1>1, <1>2, <2>1, <2>2 DEF PipesInv
  <2>4. PICK s \in Seq(Nat) : s = Append(r, asked + 1) /\ InOrder(q, s) /\ Within(q, s, debt, asked + 1, asked + 1)
    BY <1>2, <2>3, Written
  <2>5. proc' \in Procs /\ proc'.hello = proc.hello /\ proc'.stdin = s /\ proc'.stdout = q
    BY <1>2, <1>5, <2>1, <2>4 DEF Procs
  <2>6. /\ Len(r) \in Nat /\ Len(s) = Len(r) + 1 /\ s[Len(r) + 1] = asked + 1
        /\ \A i \in 1 .. Len(r) : s[i] = r[i]
    <3>1. asked + 1 \in Nat
      BY <1>2
    <3> QED
      BY <2>4, <3>1
  <2>7. ASSUME \A j \in 1 .. Len(r) : r[j] > 0 PROVE \A j \in 1 .. Len(s) : s[j] > 0
    <3>1. asked + 1 > 0
      BY <1>2
    <3>2. ASSUME NEW l \in Nat, NEW j \in 1 .. l + 1 PROVE j \in 1 .. l \/ j = l + 1
      OBVIOUS
    <3> QED
      BY <2>6, <2>7, <3>1, <3>2
  <2>8. /\ proc'.hello = "unread" => asked' = debt' + Open' /\ proc'.stdout = <<>>
        /\ proc'.hello = "unread" => \A j \in 1 .. Len(s) : s[j] > 0
    BY <1>1, <1>2, <1>5, <2>1, <2>2, <2>5, <2>7 DEF PipesInv
  <2>9. PipesInv'
    <3>1. (asked' + 1) - Open' = asked + 1 /\ asked' = asked + 1 /\ debt' = debt
      BY <1>1, <1>2, <1>5
    <3>2. InOrder(proc'.stdout, proc'.stdin) /\ Within(proc'.stdout, proc'.stdin, debt', (asked' + 1) - Open', asked')
      BY <2>4, <2>5, <3>1
    <3> QED
      BY <2>5, <2>8, <3>2 DEF PipesInv
  <2> QED
    BY <1>2, <1>4, <1>5, <2>5, <2>9
<1>6. CASE wait' = "reading" /\ Spawn("none", <<asked + 1>>)
  <2>1. PICK n \in Nat, s \in Seq(Nat) : n = asked + 1 /\ s = <<n>> /\ Len(s) = 1 /\ s[1] = n
    <3>1. asked + 1 \in Nat
      BY <1>2
    <3>2. <<asked + 1>> \in Seq(Nat) /\ Len(<<asked + 1>>) = 1 /\ <<asked + 1>>[1] = asked + 1
      BY <3>1
    <3> QED
      BY <3>1, <3>2
  <2>2. /\ proc' \in Procs /\ proc'.hello = "none" /\ proc'.stdin = s /\ proc'.stdout = <<>>
        /\ debt' = 0
    BY <1>6, <2>1, SpawnShape
  <2>3. InOrder(<<>>, s) /\ Within(<<>>, s, 0, n, n)
    BY <2>1 DEF InOrder, Within
  <2>4. PipesInv'
    BY <1>1, <1>2, <2>1, <2>2, <2>3 DEF PipesInv
  <2> QED
    BY <1>4, <2>2, <2>4
<1>7. CASE ~ProcAlive /\ wait' = "reaping" /\ proc' = proc /\ debt' = debt
  BY <1>2, <1>3, <1>7 DEF TurnInv, TurnTypeOK, ProcAlive
<1> QED
  BY <1>5, <1>6, <1>7 DEF Decide

\* How a decide ends, but for an action.
LEMMA EndsInTurn == ASSUME NEW outcome, outcome # "action", DecideEnds(outcome, 0) PROVE AnswersInTurn'
BY DEF DecideEnds, AnswersInTurn

\* An answer is read.
LEMMA ReadTurns == ASSUME TurnInv, ReadAnswer PROVE TurnInv'
<1>1. /\ wait = "reading" /\ proc.stdout # <<>> /\ asked' = asked /\ debt' = debt /\ Open = 1
  BY DEF ReadAnswer, AnswerReady, Open
<1>2. proc \in Procs /\ debt \in Nat /\ asked \in Nat /\ PipesInv
  BY <1>1 DEF TurnInv, TurnTypeOK
<1>3. PICK q \in Seq(Said), r \in Seq(Nat) : q = proc.stdout /\ r = proc.stdin
  BY <1>2 DEF Procs
<1>4. InOrder(q, r) /\ Within(q, r, debt, asked, asked)
  BY <1>1, <1>2, <1>3 DEF PipesInv
<1>5. /\ Head(q) \in Said /\ Tail(q) \in Seq(Said) /\ asked <= Head(q).of + debt
      /\ InOrder(Tail(q), r) /\ Within(Tail(q), r, debt, asked + 1, asked)
  BY <1>1, <1>2, <1>3, <1>4, FirstTaken
<1>6. DecideEnds(ParseActionString, Head(q).of) \/ DecideEnds("timeout", 0)
  BY <1>3 DEF ReadAnswer
<1>7. wait' \in {"idle", "leaving"} /\ Open' = 0
  BY <1>6 DEF DecideEnds, Open
<1>8. AnswersInTurn'
  <2>1. CASE DecideEnds("timeout", 0)
    BY <2>1, EndsInTurn
  <2>2. CASE DecideEnds(ParseActionString, Head(q).of)
    <3>1. decided'.of = Head(q).of /\ decided'.debt = debt /\ decided'.prompt = asked
      BY <2>2 DEF DecideEnds
    <3> QED
      BY <1>5, <3>1 DEF AnswersInTurn
  <2> QED
    BY <1>6, <2>1, <2>2
<1>9. CASE proc' = Exited
  BY <1>1, <1>2, <1>7, <1>8, <1>9, ExitedShape, GoneInv DEF Waits
<1>10. CASE proc' = [proc EXCEPT !.hello = "none", !.stdout = Tail(@)]
  <2>1. proc' \in Procs /\ proc'.hello = "none" /\ proc'.stdin = r /\ proc'.stdout = Tail(q)
    BY <1>2, <1>3, <1>5, <1>10 DEF Procs
  <2>2. PipesInv'
    BY <1>1, <1>2, <1>5, <1>7, <2>1 DEF PipesInv
  <2> QED
    BY <1>1, <1>2, <1>7, <1>8, <2>1, <2>2 DEF TurnInv, TurnTypeOK, Waits
<1> QED
  BY <1>9, <1>10 DEF ReadAnswer

\* A read is cut short, and what it was for is owed.
LEMMA OwedTurns ==
    ASSUME TurnInv, wait \in {"reading", "killing", "reaping"}, asked' = asked, debt' = debt + 1,
           NEW outcome, outcome # "action", DecideEnds(outcome, 0),
           proc' \in Procs, proc'.state = proc.state, proc'.hello = "unread" => proc.hello = "unread",
           proc'.stdin = proc.stdin, Len(proc'.stdout) = Len(proc.stdout),
           \A i \in 1 .. Len(proc.stdout) : proc'.stdout[i].of = proc.stdout[i].of,
           proc'.hello = "unread" => proc'.stdout = proc.stdout
    PROVE  TurnInv'
<1>1. wait' \in {"idle", "leaving"} /\ Open = 1 /\ Open' = 0 /\ AnswersInTurn'
  BY EndsInTurn DEF DecideEnds, Open
<1>2. proc \in Procs /\ debt \in Nat /\ debt' \in Nat /\ asked \in Nat
  BY DEF TurnInv, TurnTypeOK
<1>3. ASSUME ProcAlive' PROVE PipesInv'
  <2>1. PipesInv
    BY <1>3 DEF TurnInv, ProcAlive
  <2>2. PICK q \in Seq(Said), r \in Seq(Nat) : q = proc.stdout /\ r = proc.stdin
    BY <1>2 DEF Procs
  <2>3. InOrder(q, r) /\ Within(q, r, debt, asked, asked)
    BY <1>1, <1>2, <2>1, <2>2 DEF PipesInv
  <2>4. Within(q, r, debt + 1, asked + 1, asked)
    BY <1>2, <2>3, Looser
  <2>5. InOrder(proc'.stdout, r) /\ Within(proc'.stdout, r, debt + 1, asked + 1, asked)
    BY <2>2, <2>3, <2>4, SameOf
  <2>6. proc'.hello = "unread" =>
           /\ asked' = debt' + Open' /\ proc'.stdout = <<>>
           /\ \A j \in 1 .. Len(proc'.stdin) : proc'.stdin[j] > 0
    BY <1>1, <1>2, <2>1 DEF PipesInv
  <2>7. InOrder(proc'.stdout, proc'.stdin) /\ Within(proc'.stdout, proc'.stdin, debt', (asked' + 1) - Open', asked')
    BY <1>1, <1>2, <2>2, <2>5
  <2> QED
    BY <2>6, <2>7 DEF PipesInv
<1> QED
  BY <1>1, <1>2, <1>3 DEF TurnInv, TurnTypeOK, Waits

LEMMA RaisesTurns == ASSUME TurnInv, ReadRaises PROVE TurnInv'
<1>1. /\ wait = "reading" /\ asked' = asked /\ debt' = debt + 1 /\ DecideEnds("crash", 0)
  BY DEF ReadRaises
<1>2. proc \in Procs /\ PipesInv
  BY <1>1 DEF TurnInv, TurnTypeOK
<1>3. PICK q \in Seq(Said), r \in Seq(Nat) : q = proc.stdout /\ r = proc.stdin
  BY <1>2 DEF Procs
<1>4. CASE proc.hello = "overlong"
  <2>1. PICK rest \in {"none", "text"} : proc' = [proc EXCEPT !.hello = rest]
    BY <1>4 DEF ReadRaises
  <2>2. /\ proc' \in Procs /\ proc'.hello = rest /\ proc'.stdin = proc.stdin /\ proc'.stdout = proc.stdout
        /\ proc'.state = proc.state
    BY <1>2, <2>1 DEF Procs, Lines
  <2> QED
    BY <1>1, <2>2, OwedTurns
<1>5. CASE proc.hello # "overlong"
  <2>1. PICK kind \in Answers : proc' = [proc EXCEPT !.hello = "none", !.stdout[1].kind = kind]
    BY <1>5 DEF ReadRaises
  <2>2. q # <<>>
    BY <1>3, <1>5 DEF ReadRaises, Overlong
  <2>3. PICK p \in Seq(Said) :
          p = Rekind(q, kind) /\ Len(p) = Len(q) /\ \A i \in 1 .. Len(q) : p[i].of = q[i].of
    BY <2>2, Rekinded
  <2>4. proc' = [proc EXCEPT !.hello = "none", !.stdout = p]
    BY <1>3, <2>1, <2>3 DEF Rekind
  <2>5. /\ proc' \in Procs /\ proc'.hello = "none" /\ proc'.stdin = proc.stdin /\ proc'.stdout = p
        /\ proc'.state = proc.state
    BY <1>2, <2>4 DEF Procs
  <2> QED
    BY <1>1, <1>3, <2>3, <2>5, OwedTurns
<1> QED
  BY <1>4, <1>5

LEMMA CancelledTurns == ASSUME TurnInv, DecideCancelled PROVE TurnInv'
<1>1. wait \in {"reading", "killing", "reaping"} /\ asked' = asked /\ DecideEnds("timeout", 0)
  BY DEF DecideCancelled
<1>2. proc \in Procs /\ debt \in Nat /\ asked \in Nat
  BY DEF TurnInv, TurnTypeOK
<1>3. wait' \in {"idle", "leaving"} /\ AnswersInTurn'
  BY <1>1, EndsInTurn DEF DecideEnds
<1>4. CASE proc' = Exited /\ debt' = debt
  BY <1>1, <1>2, <1>3, <1>4, ExitedShape, GoneInv DEF Waits
<1>5. CASE proc' = proc /\ debt' = debt + 1
  BY <1>1, <1>2, <1>5, OwedTurns
<1>6. CASE proc' = [proc EXCEPT !.hello = "none"] /\ debt' = debt + 1
  <2>1. /\ proc' \in Procs /\ proc'.hello = "none" /\ proc'.stdin = proc.stdin /\ proc'.stdout = proc.stdout
        /\ proc'.state = proc.state
    BY <1>2, <1>6 DEF Procs
  <2> QED
    BY <1>1, <1>6, <2>1, OwedTurns
<1> QED
  BY <1>4, <1>5, <1>6 DEF DecideCancelled

\* The process is ended, or is gone.
LEMMA EndedTurns == ASSUME TurnInv, Killed \/ Reaped \/ Left PROVE TurnInv'
<1>1. proc \in Procs /\ debt' = debt /\ debt \in Nat /\ asked' = asked /\ asked \in Nat
  BY DEF TurnInv, TurnTypeOK, Killed, Reaped, Left
<1>2. CASE Killed
  <2>1. PICK outcome : outcome # "action" /\ DecideEnds(outcome, 0)
    BY <1>2 DEF Killed
  <2>2. wait' \in {"idle", "leaving"} /\ AnswersInTurn' /\ proc' = Exited
    BY <1>2, <2>1, EndsInTurn DEF DecideEnds, Killed
  <2> QED
    BY <1>1, <2>2, ExitedShape, GoneInv DEF Waits
<1>3. CASE Reaped
  <2>1. PICK outcome : outcome # "action" /\ DecideEnds(outcome, 0)
    BY <1>3 DEF Reaped
  <2>2. wait' \in {"idle", "leaving"} /\ AnswersInTurn' /\ proc' = proc /\ proc.state = "exited"
    BY <1>3, <2>1, EndsInTurn DEF DecideEnds, Reaped
  <2> QED
    BY <1>1, <2>2, GoneInv DEF Waits
<1>4. CASE Left
  <2>1. wait' = "left" /\ AnswersInTurn' /\ (proc' = Exited \/ (proc' = proc /\ ~ProcAlive))
    BY <1>4 DEF Left, TurnInv, AnswersInTurn
  <2>2. proc' \in Procs /\ proc'.state \in {"none", "exited"}
    BY <1>1, <2>1, ExitedShape DEF Procs, States, ProcAlive
  <2> QED
    BY <1>1, <2>1, <2>2, GoneInv DEF Waits
<1> QED
  BY <1>2, <1>3, <1>4

LEMMA TurnInvStep == TurnInv /\ [BotNext]_botVars => TurnInv'
<1> SUFFICES ASSUME TurnInv, [BotNext]_botVars PROVE TurnInv'
  OBVIOUS
<1>1. CASE ReadTimeout \/ ReadUndecodable \/ ReadEof \/ HandOver
  <2>1. /\ proc' = proc /\ asked' = asked /\ debt' = debt /\ decided' = decided /\ Open' = Open
        /\ wait' \in {"killing", "reaping", "leaving"}
    BY <1>1 DEF ReadTimeout, ReadUndecodable, ReadEof, HandOver, Open
  <2> QED
    BY <2>1, WaitsInv DEF Waits
<1>2. CASE UNCHANGED botVars
  <2>1. TurnTypeOK' /\ AnswersInTurn' /\ ProcAlive' = ProcAlive /\ wait' = wait /\ PipesInv' = PipesInv
    BY <1>2 DEF botVars, TurnInv, TurnTypeOK, AnswersInTurn, ProcAlive, PipesInv, Open
  <2> QED
    BY <2>1 DEF TurnInv
<1> QED
  BY <1>1, <1>2, BotTurns, SeatedTurns, DecideTurns, ReadTurns, RaisesTurns, CancelledTurns, EndedTurns
  DEF BotNext

\* An action answers the prompt it was asked for, or is late by no more than the
\* process was left owing: whatever else failed, timed out or died, its answer died
\* with it (bot_runner.py, manager.py).
THEOREM AnswerTheorem == BotSpec => []AnswersInTurn
<1>1. TurnInv => AnswersInTurn
  BY DEF TurnInv
<1> QED
  BY <1>1, TurnInvInit, TurnInvStep, PTL DEF BotSpec

-----------------------------------------------------------------------------
(* Self-play.                                                              *)

\* What the command line gives: --hands, the workers of a machine, and None is
\* not something else.
Sizes ==
    /\ Hands \in Nat /\ MaxWorkers \in Nat \ {0}
    /\ None \notin [upto : {"opened", "partial", "complete"}, config : Configs]

Records == [upto : {"opened", "partial", "complete"}, config : Configs]
Runs == [config : Configs, resume : BOOLEAN, workers : 1 .. MaxWorkers]
WorkerStates == {"none", "scanning", "between", "playing", "finished", "failed"}

Done(h) == corpus[h] = [upto |-> "complete", config |-> run.config]

TypeOK ==
    /\ corpus \in [HandIds -> Records \cup {None}]
    /\ worker \in [WorkerIds -> [state : WorkerStates, hand : 0 .. Hands, skip : SUBSET HandIds]]
    /\ parent # "idle" => run \in Runs

(***************************************************************************)
(* A worker stands at a hand of its own slice.  What comes before it, and  *)
(* what its scan found complete, is done; the rest of the slice is not.    *)
(***************************************************************************)
AtWork(w) == worker[w].state \in {"between", "playing"}
Behind(w) == \A k \in Slice(w) : (k \in worker[w].skip \/ k < worker[w].hand) => Done(k)
Ahead(w) == \A k \in Slice(w) : (k \notin worker[w].skip /\ k >= worker[w].hand) => Upto(k) # "complete"
Stands(w) == worker[w].hand \in Slice(w) /\ worker[w].hand \notin worker[w].skip
WorkerInv(w) ==
    /\ AtWork(w) => (Stands(w) /\ Ahead(w))
    /\ worker[w].state \in {"between", "playing", "finished"} => Behind(w)
    /\ worker[w].state = "finished" => worker[w].hand = Hands
    /\ worker[w].state = "playing" =>
          corpus[worker[w].hand] # None /\ corpus[worker[w].hand].config = run.config

ParentInv ==
    /\ parent \notin {"waiting", "failed"} => \A w \in WorkerIds : ~Running(w)
    /\ parent = "done" => \A h \in HandIds : Done(h)
    /\ parent = "idle" => \A w \in WorkerIds : worker[w].state = "none"

CorpusInv == TypeOK /\ ParentInv /\ \A w \in WorkerIds : WorkerInv(w)

-----------------------------------------------------------------------------
(* Slices and turns. *)

\* The minimum of a set of numbers is one of them and the least.
LEMMA MinIsLeast ==
    ASSUME NEW S \in SUBSET Nat, S # {}
    PROVE  Min(S) \in S /\ \A x \in S : Min(S) <= x
<1>1. PICK x \in S : \A y \in S : ~ (<<y, x>> \in OpToRel(<, Nat))
  BY WFMin, NatLessThanWellFounded
<1>2. ASSUME NEW y \in S PROVE x <= y
  <2>1. ~ (<<y, x>> \in {ss \in Nat \X Nat : ss[1] < ss[2]})
    BY <1>1 DEF OpToRel
  <2> QED
    BY <2>1
<1> QED
  BY <1>2 DEF Min

\* No hand is in the slices of two workers.
LEMMA SlicesApart ==
    ASSUME NEW v, NEW w, v # w
    PROVE  \A h \in Slice(v) : h \notin Slice(w)
  BY DEF Slice

\* A worker turns to a hand of its slice it has not done, and skips none; or it
\* has none left.
LEMMA TurnsForward ==
    ASSUME Sizes, NEW w, NEW h \in Nat, NEW skip \in SUBSET HandIds
    PROVE  LET turn == Turns(w, h, skip) IN
           /\ turn \in [state : {"finished", "between"}, hand : 0 .. Hands, skip : {skip}]
           /\ turn.state = "between" =>
                 turn.hand \in Slice(w) /\ turn.hand \notin skip /\ h <= turn.hand
           /\ turn.state = "finished" => turn.hand = Hands
           /\ \A k \in Slice(w) : k < turn.hand => (k < h \/ k \in skip)
<1> DEFINE left == {k \in Slice(w) : k >= h /\ k \notin skip}
<1>1. left \subseteq HandIds /\ HandIds \subseteq Nat /\ Hands \notin HandIds
  BY DEF Slice, HandIds, Sizes
<1>2. CASE left = {}
  <2>1. Turns(w, h, skip) = [state |-> "finished", hand |-> Hands, skip |-> skip]
    BY <1>2 DEF Turns, NextOfSlice
  <2>2. \A k \in Slice(w) : k < h \/ k \in skip
    BY <1>1, <1>2 DEF Slice
  <2> QED
    BY <2>1, <2>2 DEF Sizes
<1>3. CASE left # {}
  <2>1. Min(left) \in left /\ \A k \in left : Min(left) <= k
    BY <1>1, <1>3, MinIsLeast
  <2>2. Min(left) # Hands /\ Min(left) \in 0 .. Hands
    BY <1>1, <2>1 DEF HandIds, Sizes
  <2>3. Turns(w, h, skip) = [state |-> "between", hand |-> Min(left), skip |-> skip]
    BY <1>3, <2>2 DEF Turns, NextOfSlice
  <2>4. ASSUME NEW k \in Slice(w), k < Min(left) PROVE k < h \/ k \in skip
    <3>1. k \in Nat /\ Min(left) \in Nat
      BY <1>1, <2>1 DEF Slice
    <3>2. k \notin left
      BY <2>1, <2>4, <3>1
    <3> QED
      BY <3>1, <3>2
  <2> QED
    BY <2>1, <2>2, <2>3, <2>4
<1> QED
  BY <1>2, <1>3

-----------------------------------------------------------------------------
(* The invariant: who does not act. *)

\* What a worker writes in its own slice leaves the others where they stand.
LEMMA OthersStand ==
    ASSUME CorpusInv, parent # "idle",
           NEW w \in WorkerIds, NEW v \in WorkerIds, v # w,
           \A h \in HandIds : h \notin Slice(w) => corpus'[h] = corpus[h],
           worker'[v] = worker[v], run' = run
    PROVE  WorkerInv(v)'
<1>1. Slice(v)' = Slice(v)
  BY DEF Slice
<1>2. \A k \in Slice(v) : k \in HandIds /\ corpus'[k] = corpus[k]
  BY SlicesApart DEF Slice
<1>3. \A k \in Slice(v) : Done(k)' = Done(k) /\ Upto(k)' = Upto(k)
  BY <1>2 DEF Done, Upto
<1>4. Behind(v) => Behind(v)'
  BY <1>1, <1>3 DEF Behind
<1>5. Ahead(v) => Ahead(v)'
  BY <1>1, <1>3 DEF Ahead
<1>6. Stands(v) => Stands(v)' /\ corpus'[worker[v].hand] = corpus[worker[v].hand]
  BY <1>1, <1>2 DEF Stands
<1> QED
  BY <1>4, <1>5, <1>6 DEF CorpusInv, WorkerInv, AtWork

LEMMA CorpusInvInit == Sizes /\ SelfPlayInit => CorpusInv
<1> SUFFICES ASSUME Sizes, SelfPlayInit PROVE CorpusInv
  OBVIOUS
<1>1. TypeOK
  BY DEF SelfPlayInit, TypeOK, Fresh, WorkerStates, Sizes
<1>2. ParentInv
  BY DEF SelfPlayInit, ParentInv, Running, Fresh
<1>3. \A w \in WorkerIds : WorkerInv(w)
  BY DEF SelfPlayInit, WorkerInv, AtWork, Fresh
<1> QED
  BY <1>1, <1>2, <1>3 DEF CorpusInv

-----------------------------------------------------------------------------
(* The invariant: the parent. *)

LEMMA ParentSteps ==
    ASSUME Sizes, CorpusInv, StartRun \/ Refuse \/ Prepare \/ Reap \/ ParentDies \/ HostCrashes
    PROVE  CorpusInv'
<1>1. CASE StartRun
  <2>1. run' \in Runs /\ parent' = "preparing" /\ corpus' = corpus
        /\ worker' = [w \in WorkerIds |-> Fresh]
    BY <1>1 DEF StartRun, Runs
  <2>2. TypeOK'
    BY <2>1 DEF CorpusInv, TypeOK, Fresh, WorkerStates, Sizes
  <2>3. ParentInv'
    BY <2>1 DEF ParentInv, Running, Fresh
  <2>4. ASSUME NEW w \in WorkerIds PROVE WorkerInv(w)'
    BY <2>1 DEF WorkerInv, AtWork, Fresh
  <2> QED
    BY <2>2, <2>3, <2>4 DEF CorpusInv
<1>2. CASE Refuse
  <2>1. parent = "preparing" /\ parent' = "refused" /\ UNCHANGED <<corpus, worker, run>>
    BY <1>2 DEF Refuse
  <2> QED
    BY <2>1 DEF CorpusInv, TypeOK, ParentInv, Running, WorkerInv, AtWork, Behind, Ahead,
                Stands, Done, Upto, Slice
<1>3. CASE Prepare
  <2>1. parent' = "waiting" /\ run' = run /\ parent = "preparing"
    BY <1>3 DEF Prepare
  <2>2. corpus' \in [HandIds -> Records \cup {None}]
    BY <1>3 DEF Prepare, Recovered, CorpusInv, TypeOK
  <2>3. \A w \in WorkerIds :
            /\ worker'[w] \in [state : WorkerStates, hand : 0 .. Hands, skip : SUBSET HandIds]
            /\ worker'[w].state \in {"scanning", "none"}
    BY <1>3 DEF Prepare, Fresh, WorkerStates, Sizes
  <2>4. worker' \in [WorkerIds -> [state : WorkerStates, hand : 0 .. Hands, skip : SUBSET HandIds]]
    BY <1>3, <2>3 DEF Prepare
  <2>5. TypeOK'
    BY <2>1, <2>2, <2>4 DEF CorpusInv, TypeOK
  <2>6. ParentInv'
    BY <2>1 DEF ParentInv
  <2>7. \A w \in WorkerIds : WorkerInv(w)'
    BY <2>3 DEF WorkerInv, AtWork
  <2> QED
    BY <2>5, <2>6, <2>7 DEF CorpusInv
<1>4. CASE Reap
  <2>1. /\ parent = "waiting" /\ parent' \in {"done", "failed"} /\ UNCHANGED <<corpus, worker, run>>
        /\ \A w \in WorkerIds : ~Running(w)
    BY <1>4 DEF Reap
  <2>2. TypeOK' /\ \A w \in WorkerIds : WorkerInv(w)'
    BY <2>1 DEF CorpusInv, TypeOK, WorkerInv, AtWork, Behind, Ahead, Stands, Done, Upto, Slice
  <2>3. ASSUME parent' = "done", NEW h \in HandIds PROVE Done(h)'
    <3>1. \A w \in 0 .. run.workers - 1 : worker[w].state = "finished"
      BY <1>4, <2>3 DEF Reap
    <3>2. run.workers \in 1 .. MaxWorkers
      BY <2>1 DEF CorpusInv, TypeOK, Runs
    <3> DEFINE w == h % run.workers
    <3>3. w \in 0 .. run.workers - 1 /\ h \in Nat /\ h < Hands
      BY <3>2 DEF HandIds, Sizes
    <3>4. w \in WorkerIds /\ h \in Slice(w)
      BY <3>2, <3>3 DEF WorkerIds, Slice, Sizes
    <3>5. Behind(w) /\ worker[w].hand = Hands
      BY <3>1, <3>3, <3>4 DEF CorpusInv, WorkerInv
    <3> QED
      BY <2>1, <3>3, <3>4, <3>5 DEF Behind, Done
  <2>4. ParentInv'
    BY <2>1, <2>3 DEF ParentInv, Running
  <2> QED
    BY <2>2, <2>4 DEF CorpusInv
<1>5. CASE HostCrashes
  <2>1. parent' = "failed" /\ UNCHANGED <<corpus, run>> /\ parent # "idle"
    BY <1>5 DEF HostCrashes
  <2>2. \A w \in WorkerIds :
            /\ worker'[w] = [worker[w] EXCEPT !.state = "failed"] \/ worker'[w] = worker[w]
            /\ ~Running(w)'
            /\ worker'[w].state # worker[w].state => worker'[w].state = "failed"
    BY <1>5 DEF HostCrashes, Running, CorpusInv, TypeOK
  <2>3. worker' \in [WorkerIds -> [state : WorkerStates, hand : 0 .. Hands, skip : SUBSET HandIds]]
    BY <1>5 DEF HostCrashes, CorpusInv, TypeOK, WorkerStates
  <2>4. TypeOK' /\ ParentInv'
    BY <2>1, <2>2, <2>3 DEF CorpusInv, TypeOK, ParentInv
  <2>5. ASSUME NEW w \in WorkerIds PROVE WorkerInv(w)'
    <3>1. CASE worker'[w] = worker[w]
      BY <2>1, <3>1 DEF CorpusInv, WorkerInv, AtWork, Behind, Ahead, Stands, Done, Upto, Slice
    <3>2. CASE worker'[w] # worker[w]
      <4>1. worker'[w].state = "failed"
        BY <2>2, <3>2 DEF CorpusInv, TypeOK
      <4> QED
        BY <4>1 DEF WorkerInv, AtWork
    <3> QED
      BY <3>1, <3>2
  <2> QED
    BY <2>4, <2>5 DEF CorpusInv
<1>6. CASE ParentDies
  <2>1. parent' = "failed" /\ parent # "idle" /\ UNCHANGED <<corpus, worker, run>>
    BY <1>6 DEF ParentDies
  <2> QED
    BY <2>1 DEF CorpusInv, TypeOK, ParentInv, WorkerInv, AtWork, Behind, Ahead, Stands, Done, Upto, Slice
<1> QED
  BY <1>1, <1>2, <1>3, <1>4, <1>5, <1>6

-----------------------------------------------------------------------------
(* The invariant: the workers. *)

WorkerStep(w) == Scan(w) \/ WorkerOpens(w) \/ WorkerWritesHeader(w) \/ WorkerWritesFooter(w) \/ WorkerDies(w)

\* Workers work while their parent waits or after it died, and write in their slices only.
LEMMA WorkerKeepsAside ==
    ASSUME Sizes, CorpusInv, NEW w \in WorkerIds, WorkerStep(w)
    PROVE  /\ parent \in {"waiting", "failed"} /\ UNCHANGED <<parent, run>>
           /\ \A v \in WorkerIds : v # w => worker'[v] = worker[v]
           /\ corpus' \in [HandIds -> Records \cup {None}]
           /\ \A h \in HandIds : h \notin Slice(w) => corpus'[h] = corpus[h]
<1> USE DEF CorpusInv, TypeOK
<1>1. parent \in {"waiting", "failed"} /\ UNCHANGED <<parent, run>> /\ run \in Runs
  BY DEF WorkerStep, Scan, WorkerOpens, WorkerWritesHeader, WorkerWritesFooter, WorkerDies, ParentInv, Running
<1>2. \A v \in WorkerIds : v # w => worker'[v] = worker[v]
  BY DEF WorkerStep, Scan, WorkerOpens, WorkerWritesHeader, WorkerWritesFooter, WorkerDies
<1>3. CASE Scan(w)
  BY <1>1, <1>2, <1>3 DEF Scan, Recovered
<1>4. CASE WorkerDies(w)
  BY <1>1, <1>2, <1>4 DEF WorkerDies
<1>5. CASE WorkerOpens(w) \/ WorkerWritesHeader(w) \/ WorkerWritesFooter(w)
  <2> DEFINE h == worker[w].hand
  <2>1. h \in Slice(w) /\ h \in HandIds
    BY <1>5 DEF WorkerOpens, WorkerWritesHeader, WorkerWritesFooter, WorkerInv, AtWork, Stands, Slice
  <2>2. CASE WorkerOpens(w)
    <3>1. [upto |-> "opened", config |-> run.config] \in Records
      BY <1>1 DEF Records, Runs
    <3>2. corpus' = [corpus EXCEPT ![h] = [upto |-> "opened", config |-> run.config]]
      BY <2>2 DEF WorkerOpens
    <3> QED
      BY <1>1, <1>2, <2>1, <3>1, <3>2
  <2>3. CASE WorkerWritesHeader(w) \/ WorkerWritesFooter(w)
    <3>1. corpus[h] \in Records
      BY <2>1, <2>3 DEF WorkerWritesHeader, WorkerWritesFooter, WorkerInv
    <3>2. PICK u \in {"partial", "complete"} : corpus' = [corpus EXCEPT ![h].upto = u]
      BY <2>3 DEF WorkerWritesHeader, WorkerWritesFooter
    <3>3. [corpus[h] EXCEPT !.upto = u] \in Records
      BY <3>1 DEF Records
    <3> QED
      BY <1>1, <1>2, <2>1, <3>2, <3>3
  <2> QED
    BY <1>5, <2>2, <2>3
<1> QED
  BY <1>3, <1>4, <1>5 DEF WorkerStep

\* The worker that acts stands where its slice says.
LEMMA ScanStands ==
    ASSUME Sizes, CorpusInv, NEW w \in WorkerIds, Scan(w)
    PROVE  /\ worker'[w] \in [state : WorkerStates, hand : 0 .. Hands, skip : SUBSET HandIds]
           /\ WorkerInv(w)'
<1> USE DEF CorpusInv, TypeOK
<1>1. CASE Unusable(Slice(w))
  <2>1. worker'[w] = [worker[w] EXCEPT !.state = "failed"]
    BY <1>1 DEF Scan
  <2> QED
    BY <2>1 DEF WorkerInv, AtWork, WorkerStates
<1>2. CASE ~Unusable(Slice(w))
  <2> DEFINE skip == Completed(Slice(w))
  <2>1. skip \in SUBSET HandIds /\ Slice(w)' = Slice(w) /\ Slice(w) \subseteq HandIds /\ HandIds \subseteq Nat
    BY DEF Completed, Slice, HandIds, Sizes, Scan
  <2>2. worker'[w] = Turns(w, 0, skip) /\ corpus' = Recovered(Slice(w)) /\ run' = run
    BY <1>2 DEF Scan
  <2>3. LET turn == Turns(w, 0, skip) IN
           /\ turn \in [state : {"finished", "between"}, hand : 0 .. Hands, skip : {skip}]
           /\ turn.state = "between" => turn.hand \in Slice(w) /\ turn.hand \notin skip
           /\ turn.state = "finished" => turn.hand = Hands
           /\ \A k \in Slice(w) : k < turn.hand => (k < 0 \/ k \in skip)
    BY <2>1, TurnsForward
  <2>4. ASSUME NEW k \in Slice(w), k \in skip PROVE Done(k)'
    <3>1. Upto(k) = "complete" /\ corpus[k] # None
      BY <2>4 DEF Completed, Upto
    <3>2. corpus[k] \in Records /\ corpus[k].config = run.config
      BY <1>2, <2>1, <3>1 DEF Unusable, On
    <3>3. corpus[k] = [upto |-> "complete", config |-> run.config]
      BY <3>1, <3>2 DEF Upto, Records
    <3>4. corpus'[k] = corpus[k]
      BY <2>1, <2>2, <3>1 DEF Recovered
    <3> QED
      BY <2>2, <3>3, <3>4 DEF Done
  <2>5. ASSUME NEW k \in Slice(w), k \notin skip PROVE Upto(k)' # "complete"
    BY <2>1, <2>2, <2>5 DEF Completed, Upto, Recovered
  <2>6. Behind(w)'
    <3>1. ASSUME NEW k \in Slice(w) PROVE ~(k < 0)
      <4>1. k \in Nat
        BY <2>1
      <4> QED
        BY <4>1
    <3> QED
      BY <2>1, <2>2, <2>3, <2>4, <3>1 DEF Behind
  <2>7. Ahead(w)'
    BY <2>1, <2>2, <2>3, <2>5 DEF Ahead
  <2>8. worker'[w].state = "between" => Stands(w)'
    BY <2>1, <2>2, <2>3 DEF Stands
  <2> QED
    BY <2>1, <2>2, <2>3, <2>6, <2>7, <2>8 DEF WorkerInv, AtWork, WorkerStates
<1> QED
  BY <1>1, <1>2

LEMMA WriterStands ==
    ASSUME Sizes, CorpusInv, NEW w \in WorkerIds,
           WorkerOpens(w) \/ WorkerWritesHeader(w) \/ WorkerWritesFooter(w) \/ WorkerDies(w)
    PROVE  /\ worker'[w] \in [state : WorkerStates, hand : 0 .. Hands, skip : SUBSET HandIds]
           /\ WorkerInv(w)'
<1> USE DEF CorpusInv, TypeOK
<1>1. CASE WorkerDies(w)
  <2>1. worker'[w] = [worker[w] EXCEPT !.state = "failed"]
    BY <1>1 DEF WorkerDies
  <2> QED
    BY <2>1 DEF WorkerInv, AtWork, WorkerStates
<1>2. CASE WorkerOpens(w) \/ WorkerWritesHeader(w) \/ WorkerWritesFooter(w)
  <2>0. PICK h : h = worker[w].hand
    OBVIOUS
  <2>1. /\ Stands(w) /\ Ahead(w) /\ Behind(w) /\ h \in HandIds /\ run' = run
        /\ Slice(w)' = Slice(w) /\ Slice(w) \subseteq HandIds /\ HandIds \subseteq Nat
        /\ worker[w].state = "playing" => (corpus[h] \in Records /\ corpus[h].config = run.config)
    BY <1>2, <2>0 DEF WorkerOpens, WorkerWritesHeader, WorkerWritesFooter, WorkerInv, AtWork, Stands, Slice, HandIds, Sizes
  <2>2. \A k \in HandIds : k # h => corpus'[k] = corpus[k]
    BY <1>2, <2>0 DEF WorkerOpens, WorkerWritesHeader, WorkerWritesFooter
  <2>3. \A k \in Slice(w) : k # h => Done(k)' = Done(k) /\ Upto(k)' = Upto(k)
    BY <2>1, <2>2 DEF Done, Upto
  <2>4. CASE WorkerOpens(w) \/ WorkerWritesHeader(w)
    <3>1. worker'[w] = [worker[w] EXCEPT !.state = "playing"]
      BY <2>4 DEF WorkerOpens, WorkerWritesHeader
    <3>2. corpus'[h] # None /\ corpus'[h].config = run.config /\ Upto(h)' # "complete"
      <4>1. CASE WorkerOpens(w)
        <5>1. corpus'[h] = [upto |-> "opened", config |-> run.config]
          BY <2>0, <2>1, <4>1 DEF WorkerOpens
        <5>2. corpus'[h] \in Records
          BY <5>1, WorkerKeepsAside, <4>1 DEF Records, Runs, WorkerStep
        <5> QED
          BY <5>1, <5>2 DEF Upto, Records, Sizes
      <4>2. CASE WorkerWritesHeader(w)
        <5>1. corpus'[h] = [corpus[h] EXCEPT !.upto = "partial"] /\ corpus[h] \in Records
          BY <2>0, <2>1, <4>2 DEF WorkerWritesHeader
        <5>2. corpus'[h] \in Records /\ corpus'[h].upto = "partial" /\ corpus'[h].config = run.config
          BY <2>0, <2>1, <4>2, <5>1 DEF Records, WorkerWritesHeader
        <5> QED
          BY <5>2 DEF Upto, Records, Sizes
      <4> QED
        BY <2>4, <4>1, <4>2
    <3>3. Stands(w)'
      BY <2>0, <2>1, <3>1 DEF Stands
    <3>4. Behind(w)'
      <4>1. \A k \in Slice(w) : (k \in worker[w].skip \/ k < h) => k # h
        BY <2>0, <2>1 DEF Stands
      <4> QED
        BY <2>0, <2>1, <2>3, <3>1, <4>1 DEF Behind
    <3>5. Ahead(w)'
      BY <2>0, <2>1, <2>3, <3>1, <3>2 DEF Ahead
    <3> QED
      BY <2>0, <2>1, <3>1, <3>2, <3>3, <3>4, <3>5 DEF WorkerInv, AtWork, WorkerStates
  <2>5. CASE WorkerWritesFooter(w)
    <3> DEFINE skip == worker[w].skip
    <3>1. skip \in SUBSET HandIds
      OBVIOUS
    <3>0. PICK n \in Nat : n = h + 1
      BY <2>1
    <3>2. worker'[w] = Turns(w, n, skip)
      BY <2>0, <2>5, <3>0 DEF WorkerWritesFooter
    <3>3. LET turn == Turns(w, n, skip) IN
             /\ turn \in [state : {"finished", "between"}, hand : 0 .. Hands, skip : {skip}]
             /\ turn.state = "between" =>
                   turn.hand \in Slice(w) /\ turn.hand \notin skip /\ n <= turn.hand
             /\ turn.state = "finished" => turn.hand = Hands
             /\ \A k \in Slice(w) : k < turn.hand => (k < n \/ k \in skip)
      BY <3>0, <3>1, TurnsForward
    <3>4. Done(h)'
      <4>1. corpus'[h] = [corpus[h] EXCEPT !.upto = "complete"] /\ corpus[h] \in Records
            /\ corpus[h].config = run.config
        BY <2>0, <2>1, <2>5 DEF WorkerWritesFooter
      <4> QED
        BY <2>1, <4>1 DEF Done, Records
    <3>5. ASSUME NEW k \in Slice(w), k \in skip \/ k < worker'[w].hand PROVE Done(k)'
      <4>1. k \in Nat /\ h \in Nat /\ (k < h + 1 \/ k \in skip)
        BY <2>1, <3>0, <3>2, <3>3, <3>5
      <4>2. k = h \/ k < h \/ k \in skip
        BY <4>1
      <4> QED
        BY <2>0, <2>1, <2>3, <3>4, <4>2 DEF Behind
    <3>6. Behind(w)'
      BY <2>1, <3>2, <3>3, <3>5 DEF Behind
    <3>7. ASSUME worker'[w].state = "between" PROVE Ahead(w)'
      <4>1. ASSUME NEW k \in Slice(w), k \notin skip, k >= worker'[w].hand
            PROVE  Upto(k)' # "complete"
        <5>1. k \in Nat /\ h \in Nat /\ worker'[w].hand \in Nat /\ h + 1 <= worker'[w].hand
          BY <2>1, <3>0, <3>2, <3>3, <3>7
        <5>2. k # h /\ k >= h
          BY <4>1, <5>1
        <5> QED
          BY <2>0, <2>1, <2>3, <4>1, <5>2 DEF Ahead
      <4> QED
        BY <2>1, <3>2, <3>3, <4>1 DEF Ahead
    <3>8. worker'[w].state = "between" => Stands(w)'
      BY <2>1, <3>2, <3>3 DEF Stands
    <3> QED
      BY <3>1, <3>2, <3>3, <3>6, <3>7, <3>8 DEF WorkerInv, AtWork, WorkerStates
  <2> QED
    BY <1>2, <2>4, <2>5
<1> QED
  BY <1>1, <1>2

LEMMA WorkerSteps ==
    ASSUME Sizes, CorpusInv, NEW w \in WorkerIds, WorkerStep(w)
    PROVE  CorpusInv'
<1>1. /\ parent \in {"waiting", "failed"} /\ UNCHANGED <<parent, run>>
      /\ \A v \in WorkerIds : v # w => worker'[v] = worker[v]
      /\ corpus' \in [HandIds -> Records \cup {None}]
      /\ \A h \in HandIds : h \notin Slice(w) => corpus'[h] = corpus[h]
  BY WorkerKeepsAside
<1>2. /\ worker'[w] \in [state : WorkerStates, hand : 0 .. Hands, skip : SUBSET HandIds]
      /\ WorkerInv(w)'
  BY ScanStands, WriterStands DEF WorkerStep
<1>3. DOMAIN worker' = WorkerIds /\ worker' = [v \in WorkerIds |-> worker'[v]]
  BY DEF WorkerStep, Scan, WorkerOpens, WorkerWritesHeader, WorkerWritesFooter, WorkerDies, CorpusInv, TypeOK
<1>4. TypeOK'
  BY <1>1, <1>2, <1>3 DEF CorpusInv, TypeOK
<1>5. ParentInv'
  BY <1>1 DEF ParentInv
<1>6. \A v \in WorkerIds : v # w => WorkerInv(v)'
  BY <1>1, OthersStand
<1> QED
  BY <1>2, <1>4, <1>5, <1>6 DEF CorpusInv

LEMMA CorpusInvStep == Sizes /\ CorpusInv /\ [SelfPlayNext]_selfPlayVars => CorpusInv'
<1> SUFFICES ASSUME Sizes, CorpusInv, [SelfPlayNext]_selfPlayVars PROVE CorpusInv'
  OBVIOUS
<1>1. CASE UNCHANGED selfPlayVars
  BY <1>1 DEF selfPlayVars, CorpusInv, TypeOK, ParentInv, Running, WorkerInv, AtWork, Behind, Ahead,
              Stands, Done, Upto, Slice
<1>2. CASE StartRun \/ Refuse \/ Prepare \/ Reap \/ ParentDies \/ HostCrashes
  BY <1>2, ParentSteps
<1>3. ASSUME NEW w \in WorkerIds, WorkerStep(w) PROVE CorpusInv'
  BY <1>3, WorkerSteps
<1> QED
  BY <1>1, <1>2, <1>3 DEF SelfPlayNext, WorkerStep

-----------------------------------------------------------------------------
(* The theorems. *)

\* A run that reports success leaves a complete record of every hand, all of
\* its own configuration (the parent's wait for its workers, the scan).
THEOREM SuccessTheorem ==
    ASSUME Sizes
    PROVE  SelfPlaySpec => []SuccessIsComplete
<1>1. CorpusInv => SuccessIsComplete
  BY DEF CorpusInv, ParentInv, Done, SuccessIsComplete
<1>2. SelfPlayInit => CorpusInv
  BY CorpusInvInit
<1>3. CorpusInv /\ [SelfPlayNext]_selfPlayVars => CorpusInv'
  BY CorpusInvStep
<1> QED
  BY <1>1, <1>2, <1>3, PTL DEF SelfPlaySpec

\* No step takes away what is complete, or what a worker is writing.
LEMMA StepKeeps ==
    ASSUME Sizes, CorpusInv, SelfPlayNext, NEW h \in HandIds, corpus'[h] # corpus[h]
    PROVE  /\ Upto(h) # "complete"
           /\ \A v \in WorkerIds :
                (worker[v].state = "playing" /\ worker[v].hand = h) => corpus'[h] # None
<1>1. CASE StartRun \/ Refuse \/ Reap \/ ParentDies \/ HostCrashes
  BY <1>1 DEF StartRun, Refuse, Reap, ParentDies, HostCrashes
<1>2. CASE Prepare
  <2>1. Upto(h) = "partial"
    BY <1>2 DEF Prepare, Recovered
  <2>2. \A v \in WorkerIds : worker[v].state # "playing"
    BY <1>2 DEF Prepare, CorpusInv, ParentInv, Running
  <2> QED
    BY <2>1, <2>2
<1>3. ASSUME NEW w \in WorkerIds, WorkerStep(w)
      PROVE  /\ Upto(h) # "complete"
             /\ \A v \in WorkerIds :
                  (worker[v].state = "playing" /\ worker[v].hand = h) => corpus'[h] # None
  <2>1. h \in Slice(w)
    BY <1>3, WorkerKeepsAside
  <2>2. ASSUME NEW v \in WorkerIds, worker[v].state = "playing", worker[v].hand = h
        PROVE  v = w
    <3>1. h \in Slice(v)
      BY <2>2 DEF CorpusInv, WorkerInv, AtWork, Stands
    <3> QED
      BY <2>1, <3>1, SlicesApart
  <2>3. CASE Scan(w)
    BY <2>2, <2>3 DEF Scan, Recovered
  <2>4. CASE WorkerOpens(w) \/ WorkerWritesHeader(w) \/ WorkerWritesFooter(w)
    <3>1. h = worker[w].hand /\ worker[w].state \in {"between", "playing"}
      BY <2>4 DEF WorkerOpens, WorkerWritesHeader, WorkerWritesFooter, CorpusInv, TypeOK
    <3>2. Upto(h) # "complete"
      BY <3>1, <2>1 DEF CorpusInv, WorkerInv, AtWork, Stands, Ahead, Slice, HandIds, Sizes
    <3>3. corpus[h] \in Records => corpus'[h] # None
      <4>1. ASSUME WorkerWritesHeader(w) \/ WorkerWritesFooter(w), corpus[h] \in Records PROVE corpus'[h] \in Records
        BY <3>1, <4>1 DEF WorkerWritesHeader, WorkerWritesFooter, CorpusInv, TypeOK, Records
      <4> QED
        BY <2>4, <3>1, <4>1, WorkerKeepsAside DEF WorkerOpens, CorpusInv, TypeOK, WorkerStep, Records, Runs, Sizes
    <3>4. worker[w].state = "playing" => corpus[h] \in Records
      BY <3>1 DEF CorpusInv, TypeOK, WorkerInv
    <3> QED
      BY <2>2, <3>2, <3>3, <3>4
  <2>5. CASE WorkerDies(w)
    BY <2>5 DEF WorkerDies
  <2> QED
    BY <1>3, <2>3, <2>4, <2>5 DEF WorkerStep
<1> QED
  BY <1>1, <1>2, <1>3 DEF SelfPlayNext, WorkerStep

\* What is written stays written: no step of any worker or later run removes or
\* reopens a complete record, nor takes one from the worker that writes it (the
\* slices, the scan that removes only what has no footer).
THEOREM CorpusTheorem ==
    ASSUME Sizes
    PROVE  SelfPlaySpec => CorpusStands
<1>1. CorpusInv /\ [SelfPlayNext]_selfPlayVars =>
        [\A h \in HandIds :
           corpus'[h] # corpus[h] =>
              /\ Upto(h) # "complete"
              /\ \A w \in WorkerIds :
                   (worker[w].state = "playing" /\ worker[w].hand = h) => corpus'[h] # None]_selfPlayVars
  BY StepKeeps
<1>2. SelfPlayInit => CorpusInv
  BY CorpusInvInit
<1>3. CorpusInv /\ [SelfPlayNext]_selfPlayVars => CorpusInv'
  BY CorpusInvStep
<1> QED
  BY <1>1, <1>2, <1>3, PTL DEF SelfPlaySpec, CorpusStands

-----------------------------------------------------------------------------
(* The control panel.                                                      *)

PanelStates == {"STOPPED", "STARTING", "RUNNING", "STOPPING", "CRASHED"}
PanelWaits == {"begin", "probing", "answered", "terminating"}

(***************************************************************************)
(* `serving` counts the process the supervisor names and no other; a state *)
(* without a server names a dead one; and no operation that starts finds   *)
(* another in the middle of a stop.                                        *)
(***************************************************************************)
ChildIsTheServer == serving = IF Alive THEN 1 ELSE 0
IdleIsDead == state \in {"STOPPED", "CRASHED"} => ~Alive
StoppingStops == state = "STOPPING" => at = "terminating"
StartingIsAlive == at \in {"probing", "answered"} => state = "STARTING"
ConsoleInv ==
    /\ state \in PanelStates /\ at \in PanelWaits /\ child \in {"none", "booting", "ready", "dead"}
    /\ ChildIsTheServer /\ IdleIsDead /\ StoppingStops /\ StartingIsAlive

LEMMA ConsoleInvInit == ConsoleInit => ConsoleInv
  BY DEF ConsoleInit, ConsoleInv, PanelStates, PanelWaits, Alive, ChildIsTheServer, IdleIsDead,
         StoppingStops, StartingIsAlive

\* The steps of the supervisor, the watcher and the process.
LEMMA ConsoleInvSupervised ==
    ASSUME ConsoleInv,
           Supervises \/ SpawnRaises \/ StartTimesOut \/ Watch \/ ChildBoots \/ ChildDies
    PROVE  ConsoleInv'
<1> USE DEF ConsoleInv, PanelStates, PanelWaits, Alive, ChildIsTheServer, IdleIsDead,
            StoppingStops, StartingIsAlive, supervised, told
<1>1. CASE StartReturns
  BY <1>1 DEF StartReturns, Concludes
<1>2. CASE StartSpawns
  BY <1>2 DEF StartSpawns, Started
<1>3. CASE SpawnRaises
  BY <1>3 DEF SpawnRaises, Started
<1>4. CASE StartFails
  BY <1>4 DEF StartFails, Concludes
<1>5. CASE ProbeAnswered
  BY <1>5 DEF ProbeAnswered
<1>6. CASE StartSucceeds
  BY <1>6 DEF StartSucceeds, Concludes
<1>7. CASE StartTimesOut
  BY <1>7 DEF StartTimesOut
<1>8. CASE StopReturns
  BY <1>8 DEF StopReturns, Concludes
<1>9. CASE StopBegins
  BY <1>9 DEF StopBegins
<1>10. CASE Terminated
  BY <1>10 DEF Terminated, Concludes
<1>11. CASE Watch
  BY <1>11 DEF Watch
<1>12. CASE ChildBoots
  BY <1>12 DEF ChildBoots
<1>13. CASE ChildDies
  BY <1>13 DEF ChildDies
<1> QED
  BY <1>1, <1>2, <1>3, <1>4, <1>5, <1>6, <1>7, <1>8, <1>9, <1>10, <1>11, <1>12, <1>13
     DEF Supervises

LEMMA ConsoleInvStep == ConsoleInv /\ [ConsoleNext]_consoleVars => ConsoleInv'
<1> SUFFICES ASSUME ConsoleInv, [ConsoleNext]_consoleVars PROVE ConsoleInv'
  OBVIOUS
<1>1. CASE Supervises \/ SpawnRaises \/ StartTimesOut \/ Watch \/ ChildBoots \/ ChildDies
  BY <1>1, ConsoleInvSupervised
<1>2. CASE UNCHANGED <<supervised, at>>
  BY <1>2 DEF ConsoleInv, supervised, Alive, ChildIsTheServer, IdleIsDead,
              StoppingStops, StartingIsAlive
<1>3. ASSUME NEW p \in Pages, Command(p) \/ Opens(p) \/ Leaves(p)
      PROVE  UNCHANGED <<supervised, at>>
  BY <1>3 DEF Command, Opens, Leaves
<1>4. ASSUME NEW b \in Pages \cup {Timer}, StatusSent(b)
      PROVE  UNCHANGED <<supervised, at>>
  BY <1>4 DEF StatusSent
<1>5. CASE TimerTicks \/ UNCHANGED consoleVars
  BY <1>5, <1>2 DEF TimerTicks, consoleVars
<1> QED
  BY <1>1, <1>2, <1>3, <1>4, <1>5 DEF ConsoleNext

\* At most one server runs, and none that the console says is stopped or
\* crashed, whatever the pages press and the process does (supervisor.py).
THEOREM OneServerTheorem == ConsoleSpec => []OneServer
<1>1. ConsoleInv => OneServer
  BY DEF ConsoleInv, OneServer, ChildIsTheServer, IdleIsDead
<1> QED
  BY <1>1, ConsoleInvInit, ConsoleInvStep, PTL DEF ConsoleSpec
-----------------------------------------------------------------------------
(* What makes the panel come to tell the truth.                            *)

Requests == [who : Pages, todo : Seq({"start", "stop"})]
UnderWay == line # <<>> /\ at # "begin"

(***************************************************************************)
(* An operation under way has a holder of the lock; between operations the *)
(* state is one that stands, or STARTING after a spawn that raised, with   *)
(* no process; and the watcher is armed exactly while the state is         *)
(* RUNNING.                                                                *)
(***************************************************************************)
LockInv == line \in Seq(Requests) /\ (at # "begin" => line # <<>>)
RestInv ==
    /\ at = "begin" => state \in {"STOPPED", "CRASHED", "RUNNING"}
                       \/ (state = "STARTING" /\ unspawned /\ ~Alive)
    /\ at # "begin" => state \in {"STARTING", "STOPPING"}
    /\ at # "begin" \/ state = "RUNNING" => child # "none"
WatchInv == watcher <=> state = "RUNNING"

(***************************************************************************)
(* A state that does not tell what has become of the process is about to   *)
(* be corrected: by the watcher, or by the operation under way.  (After a  *)
(* spawn that raised it may stay STARTING.)                                *)
(***************************************************************************)
TruthIsDue ==
    /\ child = "dead" => state \in {"STOPPED", "CRASHED"} \/ unspawned \/ watcher \/ UnderWay
    /\ child = "ready" => state = "RUNNING" \/ UnderWay

\* The lock is handed on, and half a restart queues again.
LEMMA LockPasses ==
    ASSUME LockInv, line # <<>>, Concludes
    PROVE  LockInv'
<1>1. Holder \in Requests /\ Tail(line) \in Seq(Requests)
  BY HeadTailProperties DEF LockInv, Holder
<1>2. CASE Len(Holder.todo) > 1
  <2>1. Holder.todo \in Seq({"start", "stop"}) /\ Holder.todo # <<>>
    BY <1>1, <1>2 DEF Requests
  <2>2. Tail(Holder.todo) \in Seq({"start", "stop"})
    BY <2>1, HeadTailProperties
  <2>3. [Holder EXCEPT !.todo = Tail(@)] \in Requests
    BY <1>1, <2>2 DEF Requests
  <2>4. line' = Append(Tail(line), [Holder EXCEPT !.todo = Tail(@)])
    BY <1>2 DEF Concludes
  <2> QED
    BY <1>1, <2>3, <2>4, AppendProperties DEF Concludes, LockInv
<1>3. CASE ~(Len(Holder.todo) > 1)
  BY <1>1, <1>3 DEF Concludes, LockInv
<1> QED
  BY <1>2, <1>3

LEMMA LockStep == ConsoleInv /\ LockInv /\ [ConsoleNext]_consoleVars => LockInv'
<1> SUFFICES ASSUME ConsoleInv, LockInv, [ConsoleNext]_consoleVars PROVE LockInv'
  OBVIOUS
<1>1. CASE StartReturns \/ StopReturns
  BY <1>1, LockPasses DEF StartReturns, StopReturns, Doing
<1>2. CASE StartFails \/ StartSucceeds \/ Terminated
  BY <1>2, LockPasses DEF StartFails, StartSucceeds, Terminated, LockInv
<1>3. CASE StartSpawns \/ ProbeAnswered \/ StopBegins \/ StartTimesOut
  BY <1>3 DEF StartSpawns, ProbeAnswered, StopBegins, StartTimesOut, Doing, LockInv
<1>4. CASE SpawnRaises
  BY <1>4, HeadTailProperties DEF SpawnRaises, Doing, LockInv
<1>5. ASSUME NEW p \in Pages, Command(p) PROVE LockInv'
  <2>1. PICK todo \in {<<"start">>, <<"stop">>, <<"stop", "start">>} :
           line' = Append(line, [who |-> p, todo |-> todo])
    BY <1>5 DEF Command
  <2>2. todo \in Seq({"start", "stop"})
    <3>1. CASE todo = <<"start">>
      BY <3>1
    <3>2. CASE todo = <<"stop">>
      BY <3>2
    <3>3. CASE todo = <<"stop", "start">>
      BY <3>3
    <3> QED
      BY <2>1, <3>1, <3>2, <3>3
  <2>3. [who |-> p, todo |-> todo] \in Requests
    BY <2>2 DEF Requests
  <2> QED
    BY <2>1, <2>3, AppendProperties DEF LockInv
<1>6. ASSUME NEW p \in Pages, Opens(p) \/ Leaves(p) PROVE LockInv'
  BY <1>6 DEF Opens, Leaves, LockInv
<1>7. ASSUME NEW b \in Pages \cup {Timer}, StatusSent(b) PROVE LockInv'
  BY <1>7 DEF StatusSent, LockInv
<1>8. CASE Watch \/ ChildBoots \/ ChildDies \/ TimerTicks \/ UNCHANGED consoleVars
  BY <1>8 DEF Watch, ChildBoots, ChildDies, TimerTicks, consoleVars, LockInv
<1> QED
  BY <1>1, <1>2, <1>3, <1>4, <1>5, <1>6, <1>7, <1>8 DEF ConsoleNext, Supervises

LEMMA RestStep ==
    ConsoleInv /\ LockInv /\ RestInv /\ WatchInv /\ [ConsoleNext]_consoleVars
        => RestInv' /\ WatchInv'
<1> SUFFICES ASSUME ConsoleInv, LockInv, RestInv, WatchInv, [ConsoleNext]_consoleVars
             PROVE  RestInv' /\ WatchInv'
  OBVIOUS
<1> USE DEF ConsoleInv, RestInv, WatchInv, Alive, IdleIsDead, StoppingStops, StartingIsAlive,
            PanelStates, PanelWaits
<1>1. CASE StartReturns \/ StopReturns
  BY <1>1 DEF StartReturns, StopReturns, Started, Concludes, supervised
<1>2. CASE StartSpawns \/ SpawnRaises
  BY <1>2 DEF StartSpawns, SpawnRaises, Started
<1>3. CASE StartFails \/ StartSucceeds \/ Terminated
  BY <1>3 DEF StartFails, StartSucceeds, Terminated, Concludes
<1>4. CASE ProbeAnswered \/ StartTimesOut \/ StopBegins
  BY <1>4 DEF ProbeAnswered, StartTimesOut, StopBegins, supervised
<1>5. CASE Watch \/ ChildBoots \/ ChildDies
  BY <1>5 DEF Watch, ChildBoots, ChildDies
<1>6. ASSUME NEW p \in Pages, Command(p) \/ Opens(p) \/ Leaves(p)
      PROVE  UNCHANGED <<supervised, at>>
  BY <1>6 DEF Command, Opens, Leaves
<1>7. ASSUME NEW b \in Pages \cup {Timer}, StatusSent(b)
      PROVE  UNCHANGED <<supervised, at>>
  BY <1>7 DEF StatusSent
<1>8. CASE TimerTicks \/ UNCHANGED consoleVars
  BY <1>8 DEF TimerTicks, consoleVars, supervised
<1>9. CASE UNCHANGED <<supervised, at>>
  BY <1>9 DEF supervised
<1> QED
  BY <1>1, <1>2, <1>3, <1>4, <1>5, <1>6, <1>7, <1>8, <1>9 DEF ConsoleNext, Supervises

\* No order of commands, spawns, timeouts and deaths leaves the panel with a
\* state nobody corrects: a process that died is found by the watcher or by the
\* operation that holds the lock, and one that serves is RUNNING or about to be.
THEOREM TruthIsDueTheorem == ConsoleSpec => []TruthIsDue
<1>1. ConsoleInit => LockInv /\ RestInv /\ WatchInv
  <2>1. ConsoleInit => line \in Seq(Requests)
    BY EmptySeq DEF ConsoleInit
  <2> QED
    BY <2>1 DEF ConsoleInit, LockInv, RestInv, WatchInv
<1>2. ConsoleInv /\ LockInv /\ RestInv /\ WatchInv => TruthIsDue
  BY DEF ConsoleInv, LockInv, RestInv, WatchInv, TruthIsDue, UnderWay, Alive, PanelStates,
         IdleIsDead, StoppingStops
<1> QED
  BY <1>1, <1>2, ConsoleInvInit, ConsoleInvStep, LockStep, RestStep, PTL DEF ConsoleSpec

-----------------------------------------------------------------------------
(* The page on its way back: what is in flight.                            *)

Kinds == {"HELLO", "RESUME", "AUTH_RESPONSE", "ATTACH", "ATTACHED", "DETACH", "START_HAND",
          "EVENT", "ERROR", "LIST_TABLES", "TABLE_LIST", "GET_PROFILE", "PROFILE", "CLOSE"}
Frames ==
    [kind : Kinds] \cup [kind : {"AUTH_RESPONSE"}, hold : {None, "LIVE", "HELD"}]
        \cup [kind : {"TABLE_LIST"}, occupied : BOOLEAN]

\* A frame of the kind is in flight; each frame of the kind has one of another
\* kind behind it; a CLOSE is the last frame there is.
Carries(q, kind) == \E i \in 1..Len(q) : q[i].kind = kind
Followed(q, kind, later) ==
    \A i \in 1..Len(q) : q[i].kind = kind => \E j \in i+1..Len(q) : q[j].kind = later
ClosesLast(q) == \A i \in 1..Len(q) : q[i].kind = "CLOSE" => i = Len(q)

LEMMA NothingCarried ==
  /\ \A kind : ~Carries(<<>>, kind)
  /\ \A kind, later : Followed(<<>>, kind, later)
  /\ ClosesLast(<<>>)
  BY DEF Carries, Followed, ClosesLast

LEMMA AppendCarried ==
  ASSUME NEW S, NEW q \in Seq(S), NEW x \in S
  PROVE  /\ Append(q, x) \in Seq(S)
         /\ \A kind : Carries(Append(q, x), kind) <=> Carries(q, kind) \/ x.kind = kind
         /\ \A kind, later : /\ Followed(q, kind, later) /\ x.kind # kind
                                => Followed(Append(q, x), kind, later)
                             /\ x.kind = later /\ later # kind
                                => Followed(Append(q, x), kind, later)
         /\ ~Carries(q, "CLOSE") => ClosesLast(Append(q, x))
<1>1. /\ Append(q, x) \in Seq(S) /\ Len(Append(q, x)) = Len(q) + 1 /\ Len(q) \in Nat
      /\ \A i \in 1..Len(q) : Append(q, x)[i] = q[i]
      /\ Append(q, x)[Len(q) + 1] = x
  BY AppendProperties
<1>2. \A i \in 1..Len(Append(q, x)) : i \in 1..Len(q) \/ i = Len(q) + 1
  BY <1>1
<1>3. ASSUME NEW kind
      PROVE  Carries(Append(q, x), kind) <=> Carries(q, kind) \/ x.kind = kind
  <2>1. CASE x.kind = kind
    <3>1. Len(q) + 1 \in 1..Len(Append(q, x))
      BY <1>1
    <3> QED
      BY <1>1, <2>1, <3>1 DEF Carries
  <2>2. CASE x.kind # kind
    <3>1. \A i \in 1..Len(q) : i \in 1..Len(Append(q, x))
      BY <1>1
    <3> QED
      BY <1>1, <1>2, <2>2, <3>1 DEF Carries
  <2> QED
    BY <2>1, <2>2
<1>4. ASSUME NEW kind, NEW later, Followed(q, kind, later), x.kind # kind
      PROVE  Followed(Append(q, x), kind, later)
  BY <1>1, <1>2, <1>4 DEF Followed
<1>5. ASSUME NEW kind, NEW later, x.kind = later, later # kind
      PROVE  Followed(Append(q, x), kind, later)
  BY <1>1, <1>2, <1>5 DEF Followed
<1>6. ASSUME ~Carries(q, "CLOSE") PROVE ClosesLast(Append(q, x))
  BY <1>1, <1>2, <1>6 DEF Carries, ClosesLast
<1> QED
  BY <1>1, <1>3, <1>4, <1>5, <1>6

LEMMA TailCarried ==
  ASSUME NEW S, NEW q \in Seq(S), q # <<>>
  PROVE  /\ Tail(q) \in Seq(S)
         /\ \A kind : Carries(q, kind) <=> Head(q).kind = kind \/ Carries(Tail(q), kind)
         /\ \A kind, later : Followed(q, kind, later) => Followed(Tail(q), kind, later)
         /\ \A kind, later : Followed(q, kind, later) /\ Head(q).kind = kind
                                => Carries(Tail(q), later)
         /\ ClosesLast(q) => ClosesLast(Tail(q)) /\ (Head(q).kind = "CLOSE" => Tail(q) = <<>>)
<1>1. /\ Tail(q) \in Seq(S) /\ Len(Tail(q)) = Len(q) - 1 /\ Len(q) \in Nat /\ Len(q) > 0
      /\ \A i \in 1..Len(Tail(q)) : Tail(q)[i] = q[i + 1]
      /\ Head(q) = q[1]
  BY HeadTailProperties
<1>2. /\ \A i \in 1..Len(Tail(q)) : i + 1 \in 1..Len(q)
      /\ \A i \in 1..Len(q) : i = 1 \/ (i - 1 \in 1..Len(Tail(q)) /\ Tail(q)[i - 1] = q[i])
      /\ 1 \in 1..Len(q)
  BY <1>1
<1>3. ASSUME NEW kind
      PROVE  Carries(q, kind) <=> Head(q).kind = kind \/ Carries(Tail(q), kind)
  BY <1>1, <1>2 DEF Carries
<1>4. ASSUME NEW kind, NEW later, Followed(q, kind, later)
      PROVE  Followed(Tail(q), kind, later)
  <2>1. ASSUME NEW i \in 1..Len(Tail(q)), Tail(q)[i].kind = kind
        PROVE  \E j \in i+1..Len(Tail(q)) : Tail(q)[j].kind = later
    <3>1. PICK j \in (i + 1)+1..Len(q) : q[j].kind = later
      BY <1>1, <1>2, <1>4, <2>1 DEF Followed
    <3>2. j - 1 \in i+1..Len(Tail(q)) /\ j \in 1..Len(q) /\ j # 1
      BY <1>1
    <3> QED
      BY <1>2, <3>1, <3>2
  <2> QED
    BY <2>1 DEF Followed
<1>5. ASSUME NEW kind, NEW later, Followed(q, kind, later), Head(q).kind = kind
      PROVE  Carries(Tail(q), later)
  <2>1. PICK j \in 1+1..Len(q) : q[j].kind = later
    BY <1>1, <1>2, <1>5 DEF Followed
  <2>2. j - 1 \in 1..Len(Tail(q)) /\ j \in 1..Len(q) /\ j # 1
    BY <1>1
  <2> QED
    BY <1>2, <2>1, <2>2 DEF Carries
<1>6. ASSUME ClosesLast(q)
      PROVE  ClosesLast(Tail(q)) /\ (Head(q).kind = "CLOSE" => Tail(q) = <<>>)
  <2> DEFINE t == Tail(q)
  <2>0. Len(t) \in Nat /\ Len(q) = Len(t) + 1 /\ t \in Seq(S)
    BY <1>1
  <2>1. ASSUME NEW i \in 1..Len(t), t[i].kind = "CLOSE" PROVE i = Len(t)
    <3>1. i + 1 \in 1..Len(q) /\ q[i + 1].kind = "CLOSE"
      BY <1>1, <1>2, <2>1
    <3>2. i + 1 = Len(q)
      BY <1>6, <3>1 DEF ClosesLast
    <3> HIDE DEF t
    <3> QED
      BY <2>0, <3>2
  <2>2. ASSUME Head(q).kind = "CLOSE" PROVE t = <<>>
    <3>1. 1 = Len(q)
      BY <1>1, <1>2, <1>6, <2>2 DEF ClosesLast
    <3> HIDE DEF t
    <3> QED
      BY <2>0, <3>1, EmptySeq
  <2> QED
    BY <2>1, <2>2 DEF ClosesLast
<1> QED
  BY <1>1, <1>3, <1>4, <1>5, <1>6

-----------------------------------------------------------------------------
(* The invariant. *)

Phases == {"none", "auth", "lobby", "taking", "table", "closing"}
Looks == [view : {"lobby", "table", "profile"}, attached : BOOLEAN, started : BOOLEAN,
          poll : {"none", "set", "fired"}]
SeatStates == [state : {"UNBOUND", "LIVE", "HELD"}, conn : Pages \cup {"stale", None}]

WayTypes ==
    /\ owner \in [Pages -> Users]
    /\ page \in [Pages -> Looks] /\ link \in [Pages -> BOOLEAN]
    /\ up \in [Pages -> Seq(Frames)] /\ down \in [Pages -> Seq(Frames)]
    /\ handler \in [Pages -> [phase : Phases, attempts : Nat]]
    /\ seat \in [Users -> SeatStates] /\ ghosts \in [Users -> Nat] /\ misled \subseteq Pages

\* The page that has a seat has it by its user, and its handler is at the table; a
\* LIVE seat has a page, or one that died; and a handler is at the table for a page
\* that has its seat, or was misled.
SeatsInv ==
    /\ \A u \in Users :
        /\ seat[u].conn \in Pages
            => owner[seat[u].conn] = u /\ handler[seat[u].conn].phase \in Attached
        /\ seat[u].state = "LIVE" => seat[u].conn \in Pages \cup {"stale"}
    /\ \A p \in Pages : handler[p].phase = "table" => AtTable(p) \/ p \in misled

\* A handler has an open socket; one that hung up or is hung up on said so last; one
\* that waits to be told who it is is asked to say so, or told.
LinkInv(p) ==
    /\ handler[p].phase # "none" => link[p]
    /\ handler[p].phase \in {"none", "closing"} /\ link[p] => Carries(down[p], "CLOSE")
    /\ handler[p].phase \notin {"none", "closing"} => ~Carries(down[p], "CLOSE")
    /\ ~link[p] => down[p] = <<>>
    /\ ClosesLast(down[p])
    /\ handler[p].phase = "auth" => Carries(down[p], "HELLO") \/ Carries(up[p], "RESUME")

\* Where page and handler differ, what will make them agree is in flight; and
\* stays last, whatever was sent before.
ViewInv(p) ==
    /\ page[p].view = "table" => page[p].attached
    /\ handler[p].phase \in {"lobby", "taking"} /\ page[p].attached
        => Carries(up[p], "START_HAND") \/ Carries(down[p], "AUTH_RESPONSE")
    /\ handler[p].phase = "table" /\ ~page[p].attached
        => Carries(down[p], "ATTACHED") \/ Carries(up[p], "DETACH")
    /\ handler[p].phase = "table" => Followed(down[p], "AUTH_RESPONSE", "ATTACHED")
    /\ link[p] /\ page[p].attached => Followed(up[p], "DETACH", "START_HAND")

WayInv == WayTypes /\ SeatsInv /\ \A p \in Pages : LinkInv(p) /\ ViewInv(p)

\* Nobody takes None or the mark of a dead socket for a page.
PagesApart == None \notin Pages /\ "stale" \notin Pages /\ None # "stale"

LEMMA FramesAre ==
  ASSUME NEW k \in Kinds
  PROVE  Frame(k) \in Frames /\ Frame(k).kind = k
  BY DEF Frame, Frames

LEMMA WayInvInit == PagesApart /\ Init => WayInv
<1> SUFFICES ASSUME PagesApart, Init PROVE WayInv
  OBVIOUS
<1>1. /\ owner \in [Pages -> Users] /\ ghosts \in [Users -> Nat] /\ misled = {}
      /\ up = [p \in Pages |-> <<>>] /\ down = [p \in Pages |-> <<>>]
  BY DEF Init
<1>2. CASE /\ page = [p \in Pages |-> InLobby] /\ link = [p \in Pages |-> FALSE]
           /\ handler = [p \in Pages |-> Gone] /\ seat = [u \in Users |-> Free]
  <2>1. WayTypes
    BY <1>1, <1>2 DEF WayTypes, InLobby, Gone, Free, Looks, Phases, SeatStates
  <2>2. SeatsInv
    BY <1>1, <1>2 DEF SeatsInv, Gone, Free, PagesApart
  <2>3. \A p \in Pages : LinkInv(p) /\ ViewInv(p)
    BY <1>1, <1>2, NothingCarried DEF LinkInv, ViewInv, InLobby, Gone
  <2> QED
    BY <2>1, <2>2, <2>3 DEF WayInv
<1>3. CASE /\ \A p, q \in Pages : owner[p] = owner[q] => p = q
           /\ page = [p \in Pages |-> Dealt] /\ link = [p \in Pages |-> TRUE]
           /\ handler = [p \in Pages |-> [phase |-> "table", attempts |-> 0]]
           /\ seat = [u \in Users |->
                        IF \E p \in Pages : owner[p] = u
                        THEN [state |-> "LIVE", conn |-> CHOOSE p \in Pages : owner[p] = u]
                        ELSE Free]
  <2>1. ASSUME NEW u \in Users
        PROVE  \/ /\ seat[u].state = "LIVE" /\ seat[u].conn \in Pages
                  /\ owner[seat[u].conn] = u /\ seat[u] = [state |-> "LIVE", conn |-> seat[u].conn]
               \/ seat[u] = Free /\ \A p \in Pages : owner[p] # u
    <3>1. CASE \E p \in Pages : owner[p] = u
      <4> DEFINE c == CHOOSE p \in Pages : owner[p] = u
      <4>1. c \in Pages /\ owner[c] = u
        BY <3>1
      <4>2. seat[u] = [state |-> "LIVE", conn |-> c]
        BY <1>3, <3>1
      <4> HIDE DEF c
      <4> QED
        BY <4>1, <4>2
    <3>2. CASE ~\E p \in Pages : owner[p] = u
      BY <1>3, <3>2
    <3> QED
      BY <3>1, <3>2
  <2>2. WayTypes
    <3>1. ASSUME NEW u \in Users PROVE seat[u] \in SeatStates
      <4>1. CASE seat[u] = Free
        BY <4>1 DEF Free, SeatStates
      <4>2. ASSUME NEW c \in Pages, seat[u] = [state |-> "LIVE", conn |-> c]
            PROVE  seat[u] \in SeatStates
        BY <4>2 DEF SeatStates
      <4> QED
        BY <2>1, <4>1, <4>2
    <3>2. seat = [u \in Users |-> seat[u]]
      BY <1>3
    <3>3. seat \in [Users -> SeatStates]
      BY <3>1, <3>2
    <3>4. page \in [Pages -> Looks]
      BY <1>3 DEF Dealt, Looks
    <3>5. handler \in [Pages -> [phase : Phases, attempts : Nat]]
      BY <1>3 DEF Phases
    <3>6. up \in [Pages -> Seq(Frames)] /\ down \in [Pages -> Seq(Frames)]
      BY <1>1
    <3> QED
      BY <1>1, <1>3, <3>3, <3>4, <3>5, <3>6 DEF WayTypes
  <2>3. SeatsInv
    <3>1. ASSUME NEW p \in Pages PROVE handler[p].phase = "table" /\ AtTable(p)
      <4>1. owner[p] \in Users
        BY <1>1
      <4>2. /\ seat[owner[p]].conn \in Pages /\ owner[seat[owner[p]].conn] = owner[p]
            /\ seat[owner[p]] = [state |-> "LIVE", conn |-> seat[owner[p]].conn]
        BY <2>1, <4>1
      <4> QED
        BY <1>3, <4>2 DEF AtTable
    <3>2. ASSUME NEW u \in Users
          PROVE  /\ seat[u].conn \in Pages
                      => owner[seat[u].conn] = u /\ handler[seat[u].conn].phase \in Attached
                 /\ seat[u].state = "LIVE" => seat[u].conn \in Pages \cup {"stale"}
      <4>1. CASE seat[u] = Free
        BY <4>1 DEF Free, PagesApart
      <4>2. CASE seat[u].conn \in Pages /\ owner[seat[u].conn] = u
        BY <3>1, <4>2 DEF Attached
      <4> QED
        BY <2>1, <4>1, <4>2
    <3> QED
      BY <3>1, <3>2 DEF SeatsInv
  <2>4. \A p \in Pages : LinkInv(p) /\ ViewInv(p)
    BY <1>1, <1>3, NothingCarried DEF LinkInv, ViewInv, Dealt
  <2> QED
    BY <2>2, <2>3, <2>4 DEF WayInv
<1> QED
  BY <1>2, <1>3 DEF Init

-----------------------------------------------------------------------------
(* What a step does to the frames in flight. *)

LEMMA ReadsDown ==
  ASSUME WayTypes, NEW p \in Pages, NEW k, Reads(p, k)
  PROVE  /\ down' \in [Pages -> Seq(Frames)] /\ down[p] \in Seq(Frames) /\ down[p] # <<>>
         /\ down'[p] = Tail(down[p]) /\ Head(down[p]).kind = k
         /\ \A q \in Pages : q # p => down'[q] = down[q]
<1>1. down[p] \in Seq(Frames) /\ down[p] # <<>> /\ Head(down[p]).kind = k
      /\ down' = [down EXCEPT ![p] = Tail(@)]
  BY DEF WayTypes, Reads
<1>2. Tail(down[p]) \in Seq(Frames)
  BY <1>1, HeadTailProperties
<1> QED
  BY <1>1, <1>2 DEF WayTypes

LEMMA SentUp ==
  ASSUME WayTypes, NEW p \in Pages, NEW f \in Frames, Sent(p, <<f>>)
  PROVE  /\ up' \in [Pages -> Seq(Frames)]
         /\ up'[p] = IF link[p] THEN Append(up[p], f) ELSE up[p]
         /\ \A q \in Pages : q # p => up'[q] = up[q]
<1>1. up[p] \in Seq(Frames) /\ up[p] \o <<f>> = Append(up[p], f) /\ Append(up[p], f) \in Seq(Frames)
  BY AppendIsConcat, AppendProperties DEF WayTypes
<1>2. up' = [up EXCEPT ![p] = IF link[p] THEN Append(up[p], f) ELSE up[p]]
  BY <1>1 DEF Sent, WayTypes
<1> QED
  BY <1>1, <1>2 DEF WayTypes

LEMMA NothingSent ==
  ASSUME WayTypes, NEW p \in Pages, Sent(p, <<>>)
  PROVE  up' = up
<1>1. up[p] \o <<>> = up[p]
  BY ConcatEmptySeq DEF WayTypes
<1> QED
  BY <1>1 DEF Sent, WayTypes

LEMMA TakesUp ==
  ASSUME WayTypes, NEW p \in Pages, up[p] # <<>>, up' = [up EXCEPT ![p] = Tail(@)]
  PROVE  /\ up' \in [Pages -> Seq(Frames)] /\ up[p] \in Seq(Frames)
         /\ up'[p] = Tail(up[p])
         /\ \A q \in Pages : q # p => up'[q] = up[q]
<1>1. up[p] \in Seq(Frames)
  BY DEF WayTypes
<1>2. Tail(up[p]) \in Seq(Frames)
  BY <1>1, HeadTailProperties
<1> QED
  BY <1>1, <1>2 DEF WayTypes

LEMMA RepliesDown ==
  ASSUME WayTypes, NEW p \in Pages, NEW f \in Frames, handler[p].phase # "closing", Replies(p, f)
  PROVE  /\ down' \in [Pages -> Seq(Frames)] /\ down[p] \in Seq(Frames)
         /\ down'[p] = Append(down[p], f)
         /\ \A q \in Pages : q # p => down'[q] = down[q]
<1>1. down[p] \in Seq(Frames) /\ Append(down[p], f) \in Seq(Frames)
  BY AppendProperties DEF WayTypes
<1> QED
  BY <1>1 DEF WayTypes, Replies

-----------------------------------------------------------------------------
(* Who does not act. *)

Kept(q) ==
    /\ page'[q] = page[q] /\ link'[q] = link[q] /\ handler'[q].phase = handler[q].phase
    /\ up'[q] = up[q] /\ down'[q] = down[q]

LEMMA KeptInv ==
  ASSUME NEW q \in Pages, LinkInv(q), ViewInv(q), Kept(q)
  PROVE  LinkInv(q)' /\ ViewInv(q)'
  BY DEF LinkInv, ViewInv, Kept

LEMMA OneActs ==
  ASSUME WayInv, NEW p \in Pages, \A q \in Pages : q # p => Kept(q),
         WayTypes', SeatsInv', LinkInv(p)', ViewInv(p)'
  PROVE  WayInv'
  BY KeptInv DEF WayInv

LEMMA SeatsKept ==
  ASSUME WayTypes, SeatsInv, owner' = owner, UNCHANGED <<seat, misled>>,
         \A q \in Pages : /\ handler[q].phase \in Attached => handler'[q].phase \in Attached
                          /\ handler'[q].phase = "table" => handler[q].phase = "table"
  PROVE  SeatsInv'
<1>1. \A q \in Pages : AtTable(q)' <=> AtTable(q)
  BY DEF AtTable
<1> QED
  BY <1>1 DEF SeatsInv

-----------------------------------------------------------------------------
(* The page. *)

LEMMA ConnectInv == ASSUME WayInv, NEW p \in Pages, Connect(p) PROVE WayInv'
<1>1. <<Frame("HELLO")>> \in Seq(Frames) /\ Carries(<<Frame("HELLO")>>, "HELLO")
      /\ ~Carries(<<Frame("HELLO")>>, "CLOSE") /\ ClosesLast(<<Frame("HELLO")>>)
  <2>1. Frame("HELLO") \in Frames /\ Frame("HELLO").kind = "HELLO"
    BY FramesAre DEF Kinds
  <2>2. Len(<<Frame("HELLO")>>) = 1 /\ <<Frame("HELLO")>>[1] = Frame("HELLO")
    OBVIOUS
  <2>3. \A i \in 1..1 : i = 1
    OBVIOUS
  <2> QED
    BY <2>1, <2>2, <2>3 DEF Carries, ClosesLast
<1>2. /\ WayTypes /\ ~link[p] /\ link' = [link EXCEPT ![p] = TRUE]
      /\ up' = [up EXCEPT ![p] = <<>>] /\ down' = [down EXCEPT ![p] = <<Frame("HELLO")>>]
      /\ handler' = [handler EXCEPT ![p] = [phase |-> "auth", attempts |-> 0]]
      /\ UNCHANGED <<owner, page, seat, ghosts, misled>>
  BY DEF WayInv, Connect, seats
<1>3. handler[p].phase = "none"
  BY <1>2 DEF WayInv, LinkInv
<1>4. WayTypes'
  BY <1>1, <1>2 DEF WayTypes, Phases
<1>5. SeatsInv'
  BY <1>2, <1>3, SeatsKept DEF WayInv, WayTypes, Attached
<1>6. handler'[p].phase = "auth" /\ link'[p] /\ up'[p] = <<>> /\ down'[p] = <<Frame("HELLO")>>
  BY <1>2 DEF WayTypes
<1>7. LinkInv(p)' /\ ViewInv(p)'
  BY <1>1, <1>2, <1>6, NothingCarried DEF WayInv, LinkInv, ViewInv
<1>8. \A q \in Pages : q # p => Kept(q)
  BY <1>2 DEF Kept, WayTypes
<1> QED
  BY <1>4, <1>5, <1>7, <1>8, OneActs

LEMMA OnHelloInv == ASSUME WayInv, NEW p \in Pages, OnHello(p) PROVE WayInv'
<1>1. /\ WayTypes /\ Reads(p, "HELLO") /\ Sent(p, <<Frame("RESUME")>>)
      /\ UNCHANGED <<owner, page, link, handler, seat, ghosts, misled>>
  BY DEF WayInv, OnHello, served, seats
<1>2. Frame("RESUME") \in Frames /\ Frame("RESUME").kind = "RESUME"
  BY FramesAre DEF Kinds
<1>3. /\ down' \in [Pages -> Seq(Frames)] /\ down[p] \in Seq(Frames) /\ down[p] # <<>>
      /\ down'[p] = Tail(down[p]) /\ Head(down[p]).kind = "HELLO"
      /\ \A q \in Pages : q # p => down'[q] = down[q]
  BY <1>1, ReadsDown
<1>4. /\ up' \in [Pages -> Seq(Frames)] /\ up[p] \in Seq(Frames)
      /\ up'[p] = Append(up[p], Frame("RESUME"))
      /\ \A q \in Pages : q # p => up'[q] = up[q]
  <2>1. link[p]
    BY <1>1, <1>3 DEF WayInv, WayTypes, LinkInv
  <2> QED
    BY <1>1, <1>2, <2>1, SentUp DEF WayTypes
<1>5. WayTypes' /\ SeatsInv' /\ \A q \in Pages : q # p => Kept(q)
  BY <1>1, <1>3, <1>4, SeatsKept DEF WayInv, WayTypes, Kept
<1>6. LinkInv(p)'
  <2>1. /\ ClosesLast(down'[p]) /\ (Carries(down'[p], "CLOSE") <=> Carries(down[p], "CLOSE"))
        /\ Carries(up'[p], "RESUME")
    BY <1>2, <1>3, <1>4, TailCarried, AppendCarried DEF WayInv, LinkInv
  <2> QED
    BY <1>1, <1>3, <2>1 DEF WayInv, LinkInv
<1>7. ViewInv(p)'
  <2>1. /\ \A kind : Carries(up[p], kind) => Carries(up'[p], kind)
        /\ \A kind : Carries(down[p], kind) /\ kind # "HELLO" => Carries(down'[p], kind)
        /\ Followed(down[p], "AUTH_RESPONSE", "ATTACHED")
             => Followed(down'[p], "AUTH_RESPONSE", "ATTACHED")
        /\ Followed(up[p], "DETACH", "START_HAND") => Followed(up'[p], "DETACH", "START_HAND")
    BY <1>2, <1>3, <1>4, TailCarried, AppendCarried
  <2> QED
    BY <1>1, <2>1 DEF WayInv, ViewInv
<1> QED
  BY <1>1, <1>5, <1>6, <1>7, OneActs DEF WayInv

\* What the page may have said: nothing, or a frame that takes nothing back.
Speaks(p) ==
    /\ up' \in [Pages -> Seq(Frames)]
    /\ \A kind : Carries(up[p], kind) => Carries(up'[p], kind)
    /\ Followed(up[p], "DETACH", "START_HAND") => Followed(up'[p], "DETACH", "START_HAND")
    /\ \A q \in Pages : q # p => up'[q] = up[q]

LEMMA FrameSpeaks ==
  ASSUME WayTypes, NEW p \in Pages, NEW f \in Frames, f.kind # "DETACH",
         Sent(p, <<f>>) \/ Sent(p, <<>>) \/ up' = up
  PROVE  Speaks(p)
<1>1. CASE Sent(p, <<f>>)
  <2>1. up[p] \in Seq(Frames)
    BY DEF WayTypes
  <2> QED
    BY <1>1, <2>1, SentUp, AppendCarried DEF Speaks
<1>2. CASE Sent(p, <<>>) \/ up' = up
  BY <1>2, NothingSent DEF Speaks, WayTypes
<1> QED
  BY <1>1, <1>2

\* What the page may show next.
Shows(p) ==
    /\ page' \in [Pages -> Looks] /\ \A q \in Pages : q # p => page'[q] = page[q]
    /\ page'[p].view = "table" => page'[p].attached

\* A page that reads a frame.
LEMMA PageReadsInv ==
  ASSUME WayInv, NEW p \in Pages, NEW k \in Kinds, Reads(p, k), Speaks(p), Shows(p),
         UNCHANGED <<owner, link, handler, seat, ghosts, misled>>,
         k \notin {"HELLO", "CLOSE"},
         k = "AUTH_RESPONSE" => ~page'[p].attached,
         k = "ATTACHED" => page'[p].attached /\ Carries(up'[p], "START_HAND")
                           /\ Followed(up'[p], "DETACH", "START_HAND"),
         k \notin {"AUTH_RESPONSE", "ATTACHED"} => page'[p].attached = page[p].attached
  PROVE  WayInv'
<1>1. WayTypes
  BY DEF WayInv
<1>2. /\ down' \in [Pages -> Seq(Frames)] /\ down[p] \in Seq(Frames) /\ down[p] # <<>>
      /\ down'[p] = Tail(down[p]) /\ Head(down[p]).kind = k
      /\ \A q \in Pages : q # p => down'[q] = down[q]
  BY <1>1, ReadsDown
<1>3. WayTypes' /\ SeatsInv' /\ \A q \in Pages : q # p => Kept(q)
  BY <1>1, <1>2, SeatsKept DEF WayInv, WayTypes, Kept, Speaks, Shows
<1>4. /\ \A kind : Carries(down[p], kind) /\ kind # k => Carries(down'[p], kind)
      /\ \A kind : Carries(down'[p], kind) => Carries(down[p], kind)
      /\ Followed(down[p], "AUTH_RESPONSE", "ATTACHED")
            => /\ Followed(down'[p], "AUTH_RESPONSE", "ATTACHED")
               /\ k = "AUTH_RESPONSE" => Carries(down'[p], "ATTACHED")
      /\ ClosesLast(down'[p])
  BY <1>2, TailCarried DEF WayInv, LinkInv
<1>5. LinkInv(p)'
  BY <1>2, <1>4 DEF WayInv, LinkInv, Speaks
<1>6. ViewInv(p)'
  <2>1. page[p].attached \in BOOLEAN /\ page'[p].attached \in BOOLEAN
    BY <1>1 DEF WayTypes, Shows, Looks
  <2>2. LinkInv(p) /\ ViewInv(p)
    BY DEF WayInv
  <2>3. CASE k = "AUTH_RESPONSE"
    BY <1>4, <2>2, <2>3 DEF ViewInv, Shows
  <2>4. CASE k = "ATTACHED"
    BY <1>4, <2>2, <2>4 DEF ViewInv, Shows
  <2>5. CASE k \notin {"AUTH_RESPONSE", "ATTACHED"}
    BY <1>4, <2>1, <2>2, <2>5 DEF ViewInv, Speaks, Shows
  <2> QED
    BY <2>3, <2>4, <2>5
<1> QED
  BY <1>3, <1>5, <1>6, OneActs

\* A page that speaks without being asked, and is attached as before.
LEMMA PageSaysInv ==
  ASSUME WayInv, NEW p \in Pages, Speaks(p), Shows(p),
         UNCHANGED <<owner, link, down, handler, seat, ghosts, misled>>,
         page'[p].attached = page[p].attached
  PROVE  WayInv'
<1>1. WayTypes' /\ SeatsInv' /\ \A q \in Pages : q # p => Kept(q)
  BY SeatsKept DEF WayInv, WayTypes, Kept, Speaks, Shows
<1>2. LinkInv(p)' /\ ViewInv(p)'
  BY DEF WayInv, LinkInv, ViewInv, Speaks, Shows
<1> QED
  BY <1>1, <1>2, OneActs

LEMMA LeaveInv == ASSUME WayInv, NEW p \in Pages, LeaveClicked(p) PROVE WayInv'
<1>1. /\ WayTypes /\ Sent(p, <<Frame("DETACH")>>) /\ page' = [page EXCEPT ![p] = InLobby]
      /\ UNCHANGED <<owner, link, down, handler, seat, ghosts, misled>>
  BY DEF WayInv, LeaveClicked, served, seats
<1>2. Frame("DETACH") \in Frames /\ Frame("DETACH").kind = "DETACH" /\ up[p] \in Seq(Frames)
  BY <1>1, FramesAre DEF Kinds, WayTypes
<1>3. /\ up' \in [Pages -> Seq(Frames)]
      /\ up'[p] = IF link[p] THEN Append(up[p], Frame("DETACH")) ELSE up[p]
      /\ \A q \in Pages : q # p => up'[q] = up[q]
  BY <1>1, <1>2, SentUp
<1>4. page' \in [Pages -> Looks] /\ page'[p].view = "lobby" /\ ~page'[p].attached
  BY <1>1 DEF WayTypes, InLobby, Looks
<1>5. WayTypes' /\ SeatsInv' /\ \A q \in Pages : q # p => Kept(q)
  BY <1>1, <1>3, <1>4, SeatsKept DEF WayInv, WayTypes, Kept
<1>6. /\ \A kind : Carries(up[p], kind) => Carries(up'[p], kind)
      /\ link[p] => Carries(up'[p], "DETACH")
  BY <1>2, <1>3, AppendCarried
<1>7. LinkInv(p)'
  BY <1>1, <1>6 DEF WayInv, LinkInv
<1>8. ViewInv(p)'
  BY <1>1, <1>4, <1>6 DEF WayInv, LinkInv, ViewInv
<1> QED
  BY <1>5, <1>7, <1>8, OneActs

\* A socket that closes: what it carried is gone, and so is its handler.
LEMMA DisconnectedInv ==
  ASSUME PagesApart, WayInv, NEW p \in Pages, Disconnected(p), UNCHANGED <<owner, page>>
  PROVE  WayInv'
<1>1. /\ WayTypes /\ SeatsInv /\ link' = [link EXCEPT ![p] = FALSE]
      /\ up' = [up EXCEPT ![p] = <<>>] /\ down' = [down EXCEPT ![p] = <<>>]
      /\ handler' = [handler EXCEPT ![p] = Gone]
      /\ seat' = [u \in Users |->
                    IF seat[u].conn = p THEN [seat[u] EXCEPT !.conn = "stale"] ELSE seat[u]]
      /\ ghosts' \in [Users -> Nat] /\ misled' = misled \ {p}
  <2>1. \A u \in Users : ghosts[u] + 1 \in Nat
    BY DEF WayInv, WayTypes
  <2> QED
    BY <2>1 DEF Disconnected, WayInv, WayTypes
<1>2. ASSUME NEW u \in Users
      PROVE  /\ seat'[u].state = seat[u].state
             /\ seat[u].conn = p => seat'[u].conn = "stale"
             /\ seat[u].conn # p => seat'[u] = seat[u]
             /\ seat'[u] \in SeatStates
  <2>1. seat[u] \in SeatStates
    BY <1>1 DEF WayTypes
  <2>2. seat[u] = [state |-> seat[u].state, conn |-> seat[u].conn]
    BY <2>1 DEF SeatStates
  <2>3. CASE seat[u].conn = p
    <3>1. seat'[u] = [state |-> seat[u].state, conn |-> "stale"]
      BY <1>1, <2>2, <2>3
    <3> QED
      BY <2>1, <2>3, <3>1 DEF SeatStates
  <2>4. CASE seat[u].conn # p
    BY <1>1, <2>1, <2>4
  <2> QED
    BY <2>3, <2>4
<1>3. /\ handler'[p] = Gone /\ \A q \in Pages : q # p => handler'[q] = handler[q]
      /\ \A q \in Pages : q # p => Kept(q)
  BY <1>1 DEF WayTypes, Kept
<1>4. WayTypes'
  <2>1. seat' \in [Users -> SeatStates]
    BY <1>1, <1>2
  <2>2. handler' \in [Pages -> [phase : Phases, attempts : Nat]]
    BY <1>1 DEF WayTypes, Gone, Phases
  <2>3. up' \in [Pages -> Seq(Frames)] /\ down' \in [Pages -> Seq(Frames)]
    BY <1>1 DEF WayTypes
  <2> QED
    BY <1>1, <2>1, <2>2, <2>3 DEF WayTypes
<1>5. SeatsInv'
  <2>1. ASSUME NEW u \in Users
        PROVE  /\ seat'[u].conn \in Pages
                    => owner[seat'[u].conn] = u /\ handler'[seat'[u].conn].phase \in Attached
               /\ seat'[u].state = "LIVE" => seat'[u].conn \in Pages \cup {"stale"}
    BY <1>1, <1>2, <1>3 DEF SeatsInv, PagesApart
  <2>2. ASSUME NEW q \in Pages, handler'[q].phase = "table" PROVE AtTable(q)' \/ q \in misled'
    <3>1. q # p
      BY <1>3, <2>2 DEF Gone
    <3>2. AtTable(q) \/ q \in misled
      BY <1>1, <1>3, <2>2, <3>1 DEF SeatsInv
    <3>3. owner[q] \in Users
      BY <1>1 DEF WayTypes
    <3>4. AtTable(q) => AtTable(q)'
      BY <1>2, <3>1, <3>3 DEF AtTable
    <3> QED
      BY <1>1, <3>1, <3>2, <3>4
  <2> QED
    BY <2>1, <2>2 DEF SeatsInv
<1>6. ~link'[p] /\ up'[p] = <<>> /\ down'[p] = <<>> /\ handler'[p].phase = "none"
  BY <1>1, <1>3 DEF WayTypes, Gone
<1>7. LinkInv(p)' /\ ViewInv(p)'
  BY <1>6, NothingCarried DEF WayInv, LinkInv, ViewInv
<1> QED
  BY <1>3, <1>4, <1>5, <1>7, OneActs

\* What a page that goes on looks like.
LEMMA Updated ==
  ASSUME WayTypes, NEW p \in Pages, NEW l \in Looks, l.view = "table" => l.attached,
         page' = [page EXCEPT ![p] = l]
  PROVE  Shows(p) /\ page'[p].attached = l.attached
BY DEF WayTypes, Shows

LEMMA PageInv ==
  ASSUME PagesApart, WayInv, NEW p \in Pages,
         \/ Connect(p) \/ PageReads(p) \/ PollFires(p) \/ Drops(p)
         \/ JoinClicked(p) \/ LeaveClicked(p) \/ ProfileClicked(p) \/ ProfileClosed(p)
  PROVE  WayInv'
<1>1. /\ WayTypes /\ (down[p] # <<>> => link[p]) /\ up[p] \in Seq(Frames)
      /\ page[p] \in Looks /\ (page[p].view = "table" => page[p].attached)
  BY DEF WayInv, WayTypes, LinkInv, ViewInv
<1>2. \A k \in Kinds : Frame(k) \in Frames /\ Frame(k).kind = k
  BY FramesAre
<1>3. up' = up => Speaks(p)
  BY <1>1, <1>2, FrameSpeaks DEF Kinds
<1>4. \A k \in Kinds \ {"DETACH"} :
         Sent(p, <<Frame(k)>>) \/ Sent(p, <<>>) => Speaks(p)
  BY <1>1, <1>2, FrameSpeaks
<1>5. /\ page[p].poll \in {"none", "set", "fired"}
      /\ page = [page EXCEPT ![p] = page[p]]
  BY <1>1 DEF WayTypes, Looks
<1>6. ASSUME page' = page PROVE Shows(p) /\ page'[p].attached = page[p].attached
  BY <1>1, <1>5, <1>6, Updated
<1>7. ASSUME NEW poll \in {"none", "set", "fired"}, page' = [page EXCEPT ![p].poll = poll]
      PROVE  Shows(p) /\ page'[p].attached = page[p].attached
  <2> DEFINE l == [page[p] EXCEPT !.poll = poll]
  <2>1. l \in Looks /\ l.view = page[p].view /\ l.attached = page[p].attached
    BY <1>1 DEF Looks
  <2>2. page' = [page EXCEPT ![p] = l]
    BY <1>7
  <2> HIDE DEF l
  <2> QED
    BY <1>1, <2>1, <2>2, Updated
<1>8. ASSUME NEW view \in {"lobby", "profile"}, page' = [page EXCEPT ![p].view = view]
      PROVE  Shows(p) /\ page'[p].attached = page[p].attached
  <2> DEFINE l == [page[p] EXCEPT !.view = view]
  <2>1. l \in Looks /\ l.view # "table" /\ l.attached = page[p].attached
    BY <1>1 DEF Looks
  <2>2. page' = [page EXCEPT ![p] = l]
    BY <1>8
  <2> HIDE DEF l
  <2> QED
    BY <1>1, <2>1, <2>2, Updated
<1>9. OnEvent(p) => Shows(p) /\ page'[p].attached = page[p].attached
  <2> SUFFICES ASSUME OnEvent(p) PROVE Shows(p) /\ page'[p].attached = page[p].attached
    OBVIOUS
  <2> DEFINE l == [page[p] EXCEPT !.started = TRUE, !.poll = "none"]
  <2>1. l \in Looks /\ l.view = page[p].view /\ l.attached = page[p].attached
    BY <1>1 DEF Looks
  <2>2. page' = [page EXCEPT ![p] = l]
    BY DEF OnEvent
  <2> HIDE DEF l
  <2> QED
    BY <1>1, <2>1, <2>2, Updated
<1>10. OnAttached(p) => Shows(p) /\ page'[p].attached
  <2> SUFFICES ASSUME OnAttached(p) PROVE Shows(p) /\ page'[p].attached
    OBVIOUS
  <2> DEFINE l == [page[p] EXCEPT !.view = "table", !.attached = TRUE]
  <2>1. l \in Looks /\ l.attached
    BY <1>1 DEF Looks
  <2>2. page' = [page EXCEPT ![p] = l]
    BY DEF OnAttached
  <2> HIDE DEF l
  <2> QED
    BY <1>1, <2>1, <2>2, Updated
<1>11. OnAuthResponse(p) => Shows(p) /\ ~page'[p].attached
  <2>1. InLobby \in Looks /\ InLobby.view # "table" /\ ~InLobby.attached
    BY DEF InLobby, Looks
  <2> QED
    BY <1>1, <2>1, Updated DEF OnAuthResponse
<1>12. CASE Connect(p)
  BY <1>12, ConnectInv
<1>13. CASE OnHello(p)
  BY <1>13, OnHelloInv
<1>14. CASE OnAuthResponse(p)
  <2>1. Reads(p, "AUTH_RESPONSE") /\ Speaks(p) /\ UNCHANGED <<owner, link, handler, seat, ghosts, misled>>
    BY <1>4, <1>14 DEF OnAuthResponse, Kinds, served, seats
  <2> QED
    BY <1>11, <1>14, <2>1, PageReadsInv DEF Kinds
<1>15. CASE OnAttached(p)
  <2>1. Reads(p, "ATTACHED") /\ Speaks(p) /\ Sent(p, <<Frame("START_HAND")>>) /\ link[p]
        /\ UNCHANGED <<owner, link, handler, seat, ghosts, misled>>
    BY <1>1, <1>4, <1>15 DEF OnAttached, Kinds, Reads, served, seats
  <2>2. up'[p] = Append(up[p], Frame("START_HAND"))
    BY <1>1, <1>2, <2>1, SentUp DEF Kinds
  <2>3. Carries(up'[p], "START_HAND") /\ Followed(up'[p], "DETACH", "START_HAND")
    BY <1>1, <1>2, <2>2, AppendCarried DEF Kinds
  <2> QED
    BY <1>10, <1>15, <2>1, <2>3, PageReadsInv DEF Kinds
<1>16. CASE OnEvent(p)
  <2>1. Reads(p, "EVENT") /\ Speaks(p) /\ UNCHANGED <<owner, link, handler, seat, ghosts, misled>>
    BY <1>3, <1>16 DEF OnEvent, served, seats
  <2> QED
    BY <1>9, <1>16, <2>1, PageReadsInv DEF Kinds
<1>17. CASE OnNotReady(p)
  <2>1. Reads(p, "ERROR") /\ Speaks(p) /\ UNCHANGED <<owner, link, handler, seat, ghosts, misled>>
    BY <1>3, <1>17 DEF OnNotReady, served, seats
  <2>2. \E poll \in {"none", "set", "fired"} : page' = [page EXCEPT ![p].poll = poll]
    BY <1>5, <1>17 DEF OnNotReady
  <2> QED
    BY <1>7, <2>1, <2>2, PageReadsInv DEF Kinds
<1>18. CASE OnTableList(p)
  <2>1. Reads(p, "TABLE_LIST") /\ Speaks(p) /\ UNCHANGED <<owner, link, handler, seat, ghosts, misled>>
    BY <1>3, <1>4, <1>18 DEF OnTableList, Kinds, served, seats
  <2>2. \E poll \in {"none", "set", "fired"} : page' = page \/ page' = [page EXCEPT ![p].poll = poll]
    BY <1>5, <1>18 DEF OnTableList
  <2> QED
    BY <1>6, <1>7, <2>1, <2>2, PageReadsInv DEF Kinds
<1>19. CASE OnProfile(p)
  <2>1. Reads(p, "PROFILE") /\ Speaks(p) /\ UNCHANGED <<owner, link, handler, seat, ghosts, misled>>
    BY <1>3, <1>19 DEF OnProfile, served, seats
  <2>2. Shows(p) /\ page'[p].attached = page[p].attached
    BY <1>8, <1>19 DEF OnProfile
  <2> QED
    BY <2>1, <2>2, PageReadsInv DEF Kinds
<1>20. CASE OnClose(p) \/ Drops(p)
  BY <1>20, DisconnectedInv DEF OnClose, Drops
<1>21. CASE PollFires(p) \/ JoinClicked(p) \/ ProfileClicked(p) \/ ProfileClosed(p)
  <2>1. Speaks(p) /\ UNCHANGED <<owner, link, down, handler, seat, ghosts, misled>>
    BY <1>3, <1>4, <1>21 DEF PollFires, JoinClicked, ProfileClicked, ProfileClosed, Kinds, served, seats
  <2>2. Shows(p) /\ page'[p].attached = page[p].attached
    BY <1>6, <1>7, <1>8, <1>21 DEF PollFires, JoinClicked, ProfileClicked, ProfileClosed
  <2> QED
    BY <2>1, <2>2, PageSaysInv
<1>22. CASE LeaveClicked(p)
  BY <1>22, LeaveInv
<1> QED
  BY <1>12, <1>13, <1>14, <1>15, <1>16, <1>17, <1>18, <1>19, <1>20, <1>21, <1>22 DEF PageReads

-----------------------------------------------------------------------------
(* The server. *)

\* What a page that stays connected is told, and what is taken from it that
\* its handler does not need to come to terms with it.
Told(q) ==
    \/ down'[q] = down[q]
    \/ /\ handler[q].phase \notin {"none", "closing"}
       /\ \E f \in Frames : /\ f.kind \notin {"CLOSE", "AUTH_RESPONSE"}
                            /\ down'[q] = Append(down[q], f)
Taken(q) ==
    \/ up'[q] = up[q]
    \/ /\ up[q] # <<>> /\ up'[q] = Tail(up[q])
       /\ handler[q].phase = "auth" => Head(up[q]).kind # "RESUME"
       /\ handler[q].phase \in {"lobby", "taking"} => Head(up[q]).kind # "START_HAND"
       /\ handler[q].phase = "table" => Head(up[q]).kind # "DETACH"

LEMMA ToldMore ==
  ASSUME WayInv, NEW q \in Pages, Told(q)
  PROVE  /\ \A kind : Carries(down[q], kind) => Carries(down'[q], kind)
         /\ Carries(down'[q], "CLOSE") => Carries(down[q], "CLOSE")
         /\ Followed(down[q], "AUTH_RESPONSE", "ATTACHED")
              => Followed(down'[q], "AUTH_RESPONSE", "ATTACHED")
         /\ ClosesLast(down'[q]) /\ (~link[q] => down'[q] = <<>>)
<1>1. WayTypes /\ LinkInv(q) /\ down[q] \in Seq(Frames)
  BY DEF WayInv, WayTypes
<1>2. CASE down'[q] = down[q]
  BY <1>1, <1>2 DEF LinkInv
<1>3. ASSUME handler[q].phase \notin {"none", "closing"},
             NEW f \in Frames, f.kind \notin {"CLOSE", "AUTH_RESPONSE"}, down'[q] = Append(down[q], f)
      PROVE  /\ \A kind : Carries(down[q], kind) => Carries(down'[q], kind)
             /\ Carries(down'[q], "CLOSE") => Carries(down[q], "CLOSE")
             /\ Followed(down[q], "AUTH_RESPONSE", "ATTACHED")
                  => Followed(down'[q], "AUTH_RESPONSE", "ATTACHED")
             /\ ClosesLast(down'[q]) /\ (~link[q] => down'[q] = <<>>)
  BY <1>1, <1>3, AppendCarried DEF LinkInv
<1> QED
  BY <1>2, <1>3 DEF Told

LEMMA MovesOn ==
  ASSUME WayInv, NEW q \in Pages, page'[q] = page[q], link'[q] = link[q],
         handler'[q].phase = handler[q].phase, Told(q), Taken(q)
  PROVE  LinkInv(q)' /\ ViewInv(q)'
<1>1. WayTypes /\ LinkInv(q) /\ ViewInv(q) /\ down[q] \in Seq(Frames) /\ up[q] \in Seq(Frames)
  BY DEF WayInv, WayTypes
<1>2. /\ \A kind : Carries(down[q], kind) => Carries(down'[q], kind)
      /\ Carries(down'[q], "CLOSE") => Carries(down[q], "CLOSE")
      /\ Followed(down[q], "AUTH_RESPONSE", "ATTACHED")
            => Followed(down'[q], "AUTH_RESPONSE", "ATTACHED")
      /\ ClosesLast(down'[q]) /\ (~link[q] => down'[q] = <<>>)
  BY ToldMore
<1>3. /\ handler[q].phase = "auth" /\ Carries(up[q], "RESUME") => Carries(up'[q], "RESUME")
      /\ handler[q].phase \in {"lobby", "taking"} /\ Carries(up[q], "START_HAND")
            => Carries(up'[q], "START_HAND")
      /\ handler[q].phase = "table" /\ Carries(up[q], "DETACH") => Carries(up'[q], "DETACH")
      /\ Followed(up[q], "DETACH", "START_HAND") => Followed(up'[q], "DETACH", "START_HAND")
  BY <1>1, TailCarried DEF Taken
<1>4. LinkInv(q)'
  BY <1>1, <1>2, <1>3 DEF LinkInv
<1>5. ViewInv(q)'
  BY <1>1, <1>2, <1>3 DEF ViewInv
<1> QED
  BY <1>4, <1>5

LEMMA ToSeatsDown ==
  ASSUME WayInv, NEW f \in Frames, f.kind \notin {"CLOSE", "AUTH_RESPONSE"}, ToSeats(f)
  PROVE  down' \in [Pages -> Seq(Frames)] /\ \A q \in Pages : Told(q)
<1>1. WayTypes /\ \A q \in Pages : Append(down[q], f) \in Seq(Frames)
  BY AppendProperties DEF WayInv, WayTypes
<1> QED
  BY <1>1 DEF ToSeats, WayTypes, Told

LEMMA HangsUpInv ==
  ASSUME WayInv, NEW p \in Pages, handler[p].phase \in {"auth", "lobby"}, HangsUp(p),
         UNCHANGED <<owner, page, link, seat, ghosts, misled>>
  PROVE  WayInv'
<1>1. WayTypes /\ Frame("CLOSE") \in Frames /\ Frame("CLOSE").kind = "CLOSE"
  BY FramesAre DEF Kinds, WayInv
<1>2. /\ down' \in [Pages -> Seq(Frames)] /\ down[p] \in Seq(Frames)
      /\ down'[p] = Append(down[p], Frame("CLOSE"))
      /\ \A q \in Pages : q # p => down'[q] = down[q]
  BY <1>1, RepliesDown DEF HangsUp
<1>3. /\ handler' = [handler EXCEPT ![p] = Gone] /\ up' = [up EXCEPT ![p] = <<>>]
      /\ link[p] /\ ~Carries(down[p], "CLOSE")
  BY DEF HangsUp, WayInv, LinkInv
<1>4. /\ WayTypes' /\ (\A q \in Pages : q # p => Kept(q))
      /\ handler'[p].phase = "none" /\ \A q \in Pages : q # p => handler'[q] = handler[q]
  BY <1>1, <1>2, <1>3 DEF WayTypes, Kept, Gone, Phases
<1>5. SeatsInv'
  BY <1>1, <1>4, SeatsKept DEF WayInv, Attached
<1>6. ClosesLast(down'[p]) /\ Carries(down'[p], "CLOSE")
  BY <1>1, <1>2, <1>3, AppendCarried
<1>7. up'[p] = <<>>
  BY <1>1, <1>3 DEF WayTypes
<1>8. LinkInv(p)' /\ ViewInv(p)'
  BY <1>3, <1>4, <1>6, <1>7, NothingCarried DEF WayInv, LinkInv, ViewInv
<1> QED
  BY <1>4, <1>5, <1>8, OneActs

\* A step that leaves seats, links and phases as they are.
LEMMA EveryoneMovesOn ==
  ASSUME WayInv, WayTypes', UNCHANGED <<owner, page, link, seat, misled>>,
         \A q \in Pages : handler'[q].phase = handler[q].phase /\ Told(q) /\ Taken(q)
  PROVE  WayInv'
<1>1. SeatsInv'
  BY SeatsKept DEF WayInv
<1> QED
  BY <1>1, MovesOn DEF WayInv

LEMMA ResumeInv == ASSUME WayInv, NEW p \in Pages, ResumeTaken(p) PROVE WayInv'
<1> DEFINE f == [kind |-> "AUTH_RESPONSE", hold |-> HoldOf(owner[p])]
<1>1. /\ WayTypes /\ handler[p].phase = "auth" /\ up[p] # <<>>
      /\ up' = [up EXCEPT ![p] = Tail(@)] /\ Replies(p, f)
      /\ handler' = [handler EXCEPT ![p] = [phase |-> "lobby", attempts |-> 0]]
      /\ UNCHANGED <<owner, page, link, seat, ghosts, misled>>
  BY DEF ResumeTaken, Takes, Outside, WayInv, seats
<1>2. f \in Frames /\ f.kind = "AUTH_RESPONSE"
  BY <1>1 DEF Frames, HoldOf, WayTypes, SeatStates
<1> HIDE DEF f
<1>3. /\ down' \in [Pages -> Seq(Frames)] /\ down[p] \in Seq(Frames)
      /\ down'[p] = Append(down[p], f) /\ \A q \in Pages : q # p => down'[q] = down[q]
  BY <1>1, <1>2, RepliesDown
<1>4. /\ up' \in [Pages -> Seq(Frames)] /\ up[p] \in Seq(Frames)
      /\ up'[p] = Tail(up[p]) /\ \A q \in Pages : q # p => up'[q] = up[q]
  BY <1>1, TakesUp
<1>5. /\ handler' \in [Pages -> [phase : Phases, attempts : Nat]] /\ handler'[p].phase = "lobby"
      /\ \A q \in Pages : q # p => handler'[q] = handler[q]
  BY <1>1 DEF WayTypes, Phases
<1>6. WayTypes' /\ \A q \in Pages : q # p => Kept(q)
  BY <1>1, <1>3, <1>4, <1>5 DEF WayTypes, Kept
<1>7. SeatsInv'
  BY <1>1, <1>5, SeatsKept DEF WayInv, Attached
<1>8. /\ Carries(down'[p], "AUTH_RESPONSE") /\ ClosesLast(down'[p]) /\ ~Carries(down'[p], "CLOSE")
      /\ Followed(up[p], "DETACH", "START_HAND") => Followed(up'[p], "DETACH", "START_HAND")
      /\ link[p]
  BY <1>1, <1>2, <1>3, <1>4, AppendCarried, TailCarried DEF WayInv, LinkInv
<1>9. LinkInv(p)' /\ ViewInv(p)'
  BY <1>1, <1>5, <1>8 DEF WayInv, LinkInv, ViewInv
<1> QED
  BY <1>6, <1>7, <1>9, OneActs

LEMMA AuthRequiredInv == ASSUME WayInv, NEW p \in Pages, AuthRequired(p) PROVE WayInv'
<1>1. /\ WayTypes /\ handler[p].phase = "auth" /\ UNCHANGED <<owner, page, link, seat, ghosts, misled>>
      /\ up[p] # <<>> /\ Head(up[p]).kind # "RESUME"
  BY DEF AuthRequired, Outside, WayInv, seats
<1>2. CASE HangsUp(p)
  BY <1>1, <1>2, HangsUpInv
<1>3. CASE /\ up' = [up EXCEPT ![p] = Tail(@)]
           /\ handler' = [handler EXCEPT ![p].attempts = @ + 1] /\ UNCHANGED down
  <2>1. /\ up' \in [Pages -> Seq(Frames)] /\ up'[p] = Tail(up[p])
        /\ \A q \in Pages : q # p => up'[q] = up[q]
    BY <1>1, <1>3, TakesUp
  <2>2. /\ handler' \in [Pages -> [phase : Phases, attempts : Nat]]
        /\ \A q \in Pages : handler'[q].phase = handler[q].phase
    <3> DEFINE h == [handler[p] EXCEPT !.attempts = @ + 1]
    <3>1. handler[p] \in [phase : Phases, attempts : Nat] /\ handler[p].attempts + 1 \in Nat
      BY <1>1 DEF WayTypes
    <3>2. h \in [phase : Phases, attempts : Nat] /\ h.phase = handler[p].phase
      BY <3>1
    <3>3. handler' = [handler EXCEPT ![p] = h]
      BY <1>3
    <3> HIDE DEF h
    <3> QED
      BY <1>1, <3>2, <3>3 DEF WayTypes
  <2>3. WayTypes' /\ \A q \in Pages : Told(q) /\ Taken(q)
    BY <1>1, <1>3, <2>1, <2>2 DEF WayTypes, Told, Taken
  <2> QED
    BY <1>1, <2>2, <2>3, EveryoneMovesOn
<1> QED
  BY <1>2, <1>3 DEF AuthRequired

LEMMA ServedInv ==
  ASSUME WayInv, NEW p \in Pages,
         ListTaken(p) \/ ProfileTaken(p) \/ StartHand(p) \/ UnknownKind(p)
  PROVE  WayInv'
<1>1. /\ WayTypes /\ UNCHANGED <<owner, page, link, seat, ghosts, misled, handler>>
      /\ up[p] # <<>> /\ up' = [up EXCEPT ![p] = Tail(@)]
      /\ handler[p].phase \in {"lobby", "table", "closing"}
      /\ handler[p].phase = "lobby" => Head(up[p]).kind # "START_HAND"
      /\ handler[p].phase = "table" => Head(up[p]).kind # "DETACH"
  BY DEF ListTaken, ProfileTaken, StartHand, UnknownKind, Takes, Attached, Outside, served, seats, WayInv
<1>2. /\ up' \in [Pages -> Seq(Frames)] /\ up'[p] = Tail(up[p])
      /\ \A q \in Pages : q # p => up'[q] = up[q]
  BY <1>1, TakesUp
<1>3. \A q \in Pages : Taken(q)
  BY <1>1, <1>2 DEF Taken
<1>4. down' \in [Pages -> Seq(Frames)] /\ \A q \in Pages : Told(q)
  <2>1. CASE UNCHANGED down
    BY <1>1, <2>1 DEF WayTypes, Told
  <2>2. ASSUME NEW f \in Frames, f.kind \notin {"CLOSE", "AUTH_RESPONSE"}, Replies(p, f)
        PROVE  down' \in [Pages -> Seq(Frames)] /\ \A q \in Pages : Told(q)
    <3>1. CASE handler[p].phase = "closing"
      <4>1. down' = down
        BY <1>1, <2>2, <3>1 DEF Replies, WayTypes
      <4> QED
        BY <2>1, <4>1
    <3>2. CASE handler[p].phase # "closing"
      BY <1>1, <2>2, <3>2, RepliesDown DEF Told
    <3> QED
      BY <3>1, <3>2
  <2>3. CASE ListTaken(p)
    <3>1. PICK o \in BOOLEAN : Replies(p, [kind |-> "TABLE_LIST", occupied |-> o])
      BY <2>3 DEF ListTaken, AllOccupied
    <3>2. [kind |-> "TABLE_LIST", occupied |-> o] \in Frames
      BY DEF Frames
    <3> QED
      BY <2>2, <3>1, <3>2
  <2>4. CASE StartHand(p)
    <3>1. ToSeats(Frame("EVENT")) \/ Replies(p, Frame("ERROR")) \/ UNCHANGED down
      BY <2>4 DEF StartHand
    <3>2. /\ Frame("EVENT") \in Frames /\ Frame("EVENT").kind = "EVENT"
          /\ Frame("ERROR") \in Frames /\ Frame("ERROR").kind = "ERROR"
      BY FramesAre DEF Kinds
    <3> QED
      BY <2>1, <2>2, <3>1, <3>2, ToSeatsDown
  <2>5. CASE ProfileTaken(p)
    <3>1. Replies(p, Frame("PROFILE")) /\ Frame("PROFILE") \in Frames /\ Frame("PROFILE").kind = "PROFILE"
      BY <2>5, FramesAre DEF ProfileTaken, Kinds
    <3> QED
      BY <2>2, <3>1
  <2>6. CASE UnknownKind(p)
    BY <2>1, <2>6 DEF UnknownKind
  <2> QED
    BY <2>3, <2>4, <2>5, <2>6
<1>5. WayTypes'
  BY <1>1, <1>2, <1>4 DEF WayTypes
<1> QED
  BY <1>1, <1>3, <1>4, <1>5, EveryoneMovesOn

LEMMA NextHandInv == ASSUME WayInv, NextHand PROVE WayInv'
<1>1. Frame("ATTACHED") \in Frames /\ Frame("ATTACHED").kind = "ATTACHED"
  BY FramesAre DEF Kinds
<1>2. /\ WayTypes /\ UNCHANGED <<owner, page, link, up, handler, seat, ghosts, misled>>
      /\ ToSeats(Frame("ATTACHED")) \/ UNCHANGED down
  BY DEF NextHand, Outside, WayInv, seats
<1>3. down' \in [Pages -> Seq(Frames)] /\ \A q \in Pages : Told(q)
  BY <1>1, <1>2, ToSeatsDown DEF WayTypes, Told
<1>4. WayTypes' /\ \A q \in Pages : Taken(q)
  BY <1>2, <1>3 DEF WayTypes, Taken
<1> QED
  BY <1>2, <1>3, <1>4, EveryoneMovesOn

\* A connection that is put in the seat of its user: it is told so last, and who
\* was there and is still at the table is one of the misled.
LEMMA PutInSeat ==
  ASSUME PagesApart, WayInv, NEW p \in Pages, handler[p].phase \in {"lobby", "taking"},
         NEW s \in {"UNBOUND", "LIVE", "HELD"}, s = "LIVE" \/ p \in misled',
         seat' = [seat EXCEPT ![owner[p]] = [state |-> s, conn |-> p]],
         handler' = [handler EXCEPT ![p].phase = "table"], Replies(p, Frame("ATTACHED")),
         UNCHANGED <<owner, page, link, ghosts>>,
         up' \in [Pages -> Seq(Frames)], \A q \in Pages : q # p => up'[q] = up[q],
         \/ up'[p] = up[p]
         \/ up[p] # <<>> /\ up'[p] = Tail(up[p]) /\ Head(up[p]).kind = "ATTACH",
         misled \subseteq misled', misled' \subseteq Pages,
         \A q \in Pages : q # p /\ AtTable(q) /\ handler[q].phase = "table" /\ owner[q] = owner[p]
                             => q \in misled'
  PROVE  WayInv'
<1>1. /\ WayTypes /\ SeatsInv /\ owner[p] \in Users
      /\ down[p] \in Seq(Frames) /\ up[p] \in Seq(Frames) /\ link[p] /\ ~Carries(down[p], "CLOSE")
  BY DEF WayInv, WayTypes, LinkInv
<1>2. Frame("ATTACHED") \in Frames /\ Frame("ATTACHED").kind = "ATTACHED"
  BY FramesAre DEF Kinds
<1>3. /\ down' \in [Pages -> Seq(Frames)] /\ down'[p] = Append(down[p], Frame("ATTACHED"))
      /\ \A q \in Pages : q # p => down'[q] = down[q]
  BY <1>1, <1>2, RepliesDown
<1>4. /\ handler' \in [Pages -> [phase : Phases, attempts : Nat]] /\ handler'[p].phase = "table"
      /\ \A q \in Pages : q # p => handler'[q] = handler[q]
  BY <1>1 DEF WayTypes, Phases
<1>5. /\ seat' \in [Users -> SeatStates] /\ seat'[owner[p]] = [state |-> s, conn |-> p]
      /\ \A u \in Users : u # owner[p] => seat'[u] = seat[u]
  BY <1>1 DEF WayTypes, SeatStates
<1>6. WayTypes' /\ \A q \in Pages : q # p => Kept(q)
  BY <1>1, <1>3, <1>4, <1>5 DEF WayTypes, Kept
<1>7. SeatsInv'
  <2>1. ASSUME NEW u \in Users
        PROVE  /\ seat'[u].conn \in Pages
                    => owner[seat'[u].conn] = u /\ handler'[seat'[u].conn].phase \in Attached
               /\ seat'[u].state = "LIVE" => seat'[u].conn \in Pages \cup {"stale"}
    BY <1>1, <1>4, <1>5 DEF SeatsInv, Attached
  <2>2. ASSUME NEW q \in Pages, handler'[q].phase = "table" PROVE AtTable(q)' \/ q \in misled'
    <3>1. CASE q = p
      BY <1>5, <3>1 DEF AtTable
    <3>2. CASE q # p
      <4>1. owner[q] \in Users /\ handler[q].phase = "table" /\ (AtTable(q) \/ q \in misled)
        BY <1>1, <1>4, <2>2, <3>2 DEF SeatsInv, WayTypes
      <4>2. CASE owner[q] = owner[p]
        BY <3>2, <4>1, <4>2
      <4>3. CASE owner[q] # owner[p]
        BY <1>5, <4>1, <4>3 DEF AtTable
      <4> QED
        BY <4>2, <4>3
    <3> QED
      BY <3>1, <3>2
  <2> QED
    BY <2>1, <2>2 DEF SeatsInv
<1>8. /\ ClosesLast(down'[p]) /\ ~Carries(down'[p], "CLOSE") /\ Carries(down'[p], "ATTACHED")
      /\ Followed(down'[p], "AUTH_RESPONSE", "ATTACHED")
  <2> DEFINE f == Frame("ATTACHED")
  <2>1. f \in Frames /\ f.kind = "ATTACHED" /\ down'[p] = Append(down[p], f)
    BY <1>2, <1>3
  <2> HIDE DEF f
  <2>2. ClosesLast(Append(down[p], f))
    BY <1>1, <2>1, AppendCarried
  <2>3. \A kind : Carries(Append(down[p], f), kind) <=> Carries(down[p], kind) \/ kind = "ATTACHED"
    BY <1>1, <2>1, AppendCarried
  <2>4. Followed(Append(down[p], f), "AUTH_RESPONSE", "ATTACHED")
    BY <1>1, <2>1, AppendCarried
  <2> QED
    BY <1>1, <2>1, <2>2, <2>3, <2>4
<1>9. Followed(up[p], "DETACH", "START_HAND") => Followed(up'[p], "DETACH", "START_HAND")
  <2>1. CASE up[p] # <<>> /\ up'[p] = Tail(up[p])
    BY <1>1, <2>1, TailCarried
  <2> QED
    BY <2>1
<1>10. LinkInv(p)' /\ ViewInv(p)'
  BY <1>1, <1>4, <1>8, <1>9 DEF WayInv, LinkInv, ViewInv
<1> QED
  BY <1>6, <1>7, <1>10, OneActs

LEMMA AttachInv == ASSUME PagesApart, WayInv, NEW p \in Pages, AttachTaken(p) PROVE WayInv'
<1>1. /\ WayTypes /\ handler[p].phase = "lobby" /\ up[p] # <<>> /\ Head(up[p]).kind = "ATTACH"
      /\ up' = [up EXCEPT ![p] = Tail(@)] /\ seat[owner[p]].state # "LIVE"
      /\ seat' = [seat EXCEPT ![owner[p]] = [state |-> "LIVE", conn |-> p]]
      /\ handler' = [handler EXCEPT ![p].phase = "table"] /\ Replies(p, Frame("ATTACHED"))
      /\ UNCHANGED <<owner, page, link, ghosts, misled>>
  BY DEF AttachTaken, Takes, Outside, WayInv
<1>2. /\ up' \in [Pages -> Seq(Frames)] /\ up'[p] = Tail(up[p])
      /\ \A q \in Pages : q # p => up'[q] = up[q]
  BY <1>1, TakesUp
<1>3. \A q \in Pages : owner[q] = owner[p] => ~AtTable(q)
  BY <1>1 DEF AtTable
<1> QED
  BY <1>1, <1>2, <1>3, PutInSeat DEF WayTypes

LEMMA InstallInv == ASSUME PagesApart, WayInv, NEW p \in Pages, Install(p) PROVE WayInv'
<1> DEFINE u == owner[p]
<1>1. /\ WayTypes /\ u \in Users /\ handler[p].phase = "taking"
      /\ handler' = [handler EXCEPT ![p].phase = "table"]
      /\ seat' = [seat EXCEPT ![u].conn = p] /\ Replies(p, Frame("ATTACHED"))
      /\ misled' = misled \cup Ousted(u, p) \cup (IF seat[u].state = "LIVE" THEN {} ELSE {p})
      /\ UNCHANGED <<owner, page, link, up, ghosts>>
  BY DEF Install, Outside, WayInv, WayTypes
<1>2. seat[u] \in SeatStates
  BY <1>1 DEF WayTypes
<1>3. [seat[u] EXCEPT !.conn = p] = [state |-> seat[u].state, conn |-> p]
      /\ seat[u].state \in {"UNBOUND", "LIVE", "HELD"}
  BY <1>2 DEF SeatStates
<1>4. seat' = [seat EXCEPT ![u] = [state |-> seat[u].state, conn |-> p]]
  BY <1>1, <1>3
<1>5. /\ misled \subseteq misled' /\ misled' \subseteq Pages
      /\ seat[u].state = "LIVE" \/ p \in misled'
      /\ \A q \in Pages : q # p /\ AtTable(q) /\ handler[q].phase = "table" /\ owner[q] = u
                             => q \in misled'
  BY <1>1 DEF WayTypes, Ousted, AtTable
<1>6. up' \in [Pages -> Seq(Frames)] /\ \A q \in Pages : up'[q] = up[q]
  BY <1>1 DEF WayTypes
<1> QED
  BY <1>1, <1>3, <1>4, <1>5, <1>6, PutInSeat

\* The connection that has the seat is told to go; it is not the one that asks.
LEMMA TakeOverInv == ASSUME PagesApart, WayInv, NEW p \in Pages, TakeOver(p) PROVE WayInv'
<1> DEFINE old == {q \in Pages : seat[owner[p]].conn = q}
<1>1. /\ WayTypes /\ SeatsInv /\ owner[p] \in Users /\ handler[p].phase = "lobby"
      /\ up[p] # <<>> /\ Head(up[p]).kind = "ATTACH" /\ up' = [up EXCEPT ![p] = Tail(@)]
      /\ down' = [q \in Pages |-> IF q \in old /\ handler[q].phase = "table"
                                  THEN Append(down[q], Frame("CLOSE")) ELSE down[q]]
      /\ handler' = [q \in Pages |->
                        IF q = p THEN [handler[p] EXCEPT !.phase = "taking"]
                        ELSE IF q \in old THEN [handler[q] EXCEPT !.phase = "closing"]
                        ELSE handler[q]]
      /\ UNCHANGED <<owner, page, link, seat, ghosts, misled>>
  BY DEF TakeOver, Takes, Outside, WayInv, WayTypes, seats
<1>2. Frame("CLOSE") \in Frames /\ Frame("CLOSE").kind = "CLOSE"
  BY FramesAre DEF Kinds
<1>3. \A q \in Pages : q \in old => q # p /\ handler[q].phase \in Attached
  BY <1>1 DEF SeatsInv, Attached
<1> HIDE DEF old
<1>4. /\ up' \in [Pages -> Seq(Frames)] /\ up[p] \in Seq(Frames) /\ up'[p] = Tail(up[p])
      /\ \A q \in Pages : q # p => up'[q] = up[q]
  BY <1>1, TakesUp
<1>5. /\ handler' \in [Pages -> [phase : Phases, attempts : Nat]] /\ handler'[p].phase = "taking"
      /\ \A q \in Pages : q \in old => handler'[q].phase = "closing"
      /\ \A q \in Pages : q # p /\ q \notin old => handler'[q] = handler[q]
  BY <1>1, <1>3 DEF WayTypes, Phases
<1>6. down' \in [Pages -> Seq(Frames)]
  <2>1. \A q \in Pages : down[q] \in Seq(Frames) /\ Append(down[q], Frame("CLOSE")) \in Seq(Frames)
    BY <1>1, <1>2, AppendProperties DEF WayTypes
  <2> QED
    BY <1>1, <2>1
<1>7. WayTypes'
  BY <1>1, <1>4, <1>5, <1>6 DEF WayTypes
<1>8. SeatsInv'
  <2>1. ASSUME NEW q \in Pages
        PROVE  /\ handler[q].phase \in Attached => handler'[q].phase \in Attached
               /\ handler'[q].phase = "table" => handler[q].phase = "table"
    <3>1. CASE q = p
      BY <1>1, <1>5, <3>1 DEF Attached
    <3>2. CASE q \in old
      BY <1>5, <3>2 DEF Attached
    <3>3. CASE q # p /\ q \notin old
      BY <1>5, <3>3
    <3> QED
      BY <3>1, <3>2, <3>3
  <2> QED
    BY <1>1, <2>1, SeatsKept
<1>9. ASSUME NEW q \in Pages, q # p, q \notin old PROVE LinkInv(q)' /\ ViewInv(q)'
  <2>1. Kept(q)
    BY <1>1, <1>4, <1>5, <1>9 DEF Kept
  <2> QED
    BY <2>1, KeptInv DEF WayInv
<1>10. ASSUME NEW q \in Pages, q \in old PROVE LinkInv(q)' /\ ViewInv(q)'
  <2>1. /\ q # p /\ handler'[q].phase = "closing" /\ page'[q] = page[q] /\ link'[q] = link[q]
        /\ up'[q] = up[q] /\ LinkInv(q) /\ ViewInv(q) /\ down[q] \in Seq(Frames)
        /\ handler[q].phase \in Attached
    BY <1>1, <1>3, <1>4, <1>5, <1>10 DEF WayInv, WayTypes
  <2>2. Carries(down'[q], "CLOSE") /\ ClosesLast(down'[q])
    <3>1. CASE handler[q].phase = "table"
      <4>1. down'[q] = Append(down[q], Frame("CLOSE")) /\ ~Carries(down[q], "CLOSE")
        BY <1>1, <1>10, <2>1, <3>1 DEF LinkInv
      <4> QED
        BY <1>2, <2>1, <4>1, AppendCarried
    <3>2. CASE handler[q].phase = "closing"
      BY <1>1, <2>1, <3>2 DEF LinkInv
    <3> QED
      BY <2>1, <3>1, <3>2 DEF Attached
  <2>3. link[q]
    BY <2>1 DEF LinkInv, Attached
  <2> QED
    BY <2>1, <2>2, <2>3 DEF LinkInv, ViewInv
<1>11. LinkInv(p)' /\ ViewInv(p)'
  <2>1. down'[p] = down[p] /\ page'[p] = page[p] /\ link'[p] = link[p] /\ LinkInv(p) /\ ViewInv(p)
    BY <1>1, <1>3 DEF WayInv
  <2>2. /\ Carries(up[p], "START_HAND") => Carries(up'[p], "START_HAND")
        /\ Followed(up[p], "DETACH", "START_HAND") => Followed(up'[p], "DETACH", "START_HAND")
    BY <1>1, <1>4, TailCarried
  <2> QED
    BY <1>1, <1>5, <2>1, <2>2 DEF LinkInv, ViewInv
<1> QED
  BY <1>7, <1>8, <1>9, <1>10, <1>11 DEF WayInv

LEMMA DetachInv == ASSUME PagesApart, WayInv, NEW p \in Pages, DetachTaken(p) PROVE WayInv'
<1>1. /\ WayTypes /\ SeatsInv /\ owner[p] \in Users /\ UNCHANGED <<owner, page, link, down, ghosts>>
      /\ handler[p].phase \in Attached /\ up[p] # <<>> /\ Head(up[p]).kind = "DETACH"
      /\ up' = [up EXCEPT ![p] = Tail(@)] /\ misled' = misled \ {p}
      /\ handler' = [handler EXCEPT ![p] =
                        IF @.phase = "table" THEN [@ EXCEPT !.phase = "lobby"] ELSE Gone]
      /\ seat' = IF seat[owner[p]].conn = p THEN [seat EXCEPT ![owner[p]] = Free] ELSE seat
  BY DEF DetachTaken, Takes, Outside, WayInv, WayTypes
<1>2. /\ up' \in [Pages -> Seq(Frames)] /\ up[p] \in Seq(Frames) /\ up'[p] = Tail(up[p])
      /\ \A q \in Pages : q # p => up'[q] = up[q]
  BY <1>1, TakesUp
<1>3. /\ handler' \in [Pages -> [phase : Phases, attempts : Nat]]
      /\ handler'[p].phase = IF handler[p].phase = "table" THEN "lobby" ELSE "none"
      /\ \A q \in Pages : q # p => handler'[q] = handler[q]
  BY <1>1 DEF WayTypes, Phases, Gone
<1>4. /\ seat' \in [Users -> SeatStates] /\ seat'[owner[p]].conn # p
      /\ \A u \in Users : u # owner[p] => seat'[u] = seat[u]
      /\ seat'[owner[p]] = Free \/ seat' = seat
  BY <1>1 DEF WayTypes, Free, SeatStates, PagesApart
<1>5. WayTypes' /\ \A q \in Pages : q # p => Kept(q)
  BY <1>1, <1>2, <1>3, <1>4 DEF WayTypes, Kept
<1>6. SeatsInv'
  <2>1. ASSUME NEW u \in Users
        PROVE  /\ seat'[u].conn \in Pages
                    => owner[seat'[u].conn] = u /\ handler'[seat'[u].conn].phase \in Attached
               /\ seat'[u].state = "LIVE" => seat'[u].conn \in Pages \cup {"stale"}
    <3>1. CASE seat'[u] = Free
      BY <3>1 DEF Free, PagesApart
    <3>2. CASE seat'[u] = seat[u] /\ seat'[u].conn # p
      BY <1>1, <1>3, <3>2 DEF SeatsInv
    <3>3. seat'[u] = Free \/ (seat'[u] = seat[u] /\ seat'[u].conn # p)
      BY <1>1, <1>4 DEF SeatsInv
    <3> QED
      BY <3>1, <3>2, <3>3
  <2>2. ASSUME NEW q \in Pages, handler'[q].phase = "table" PROVE AtTable(q)' \/ q \in misled'
    <3>1. q # p
      BY <1>3, <2>2
    <3>2. owner[q] \in Users /\ (AtTable(q) \/ q \in misled)
      BY <1>1, <1>3, <2>2, <3>1 DEF SeatsInv, WayTypes
    <3>3. AtTable(q) => AtTable(q)'
      BY <1>1, <1>4, <3>1, <3>2 DEF AtTable
    <3> QED
      BY <1>1, <3>1, <3>2, <3>3
  <2> QED
    BY <1>1, <2>1, <2>2 DEF SeatsInv
<1>7. /\ link[p] /\ LinkInv(p) /\ ViewInv(p)
      /\ page[p].attached => /\ Carries(up'[p], "START_HAND")
                             /\ Followed(up'[p], "DETACH", "START_HAND")
  BY <1>1, <1>2, TailCarried DEF WayInv, LinkInv, ViewInv, Attached
<1>8. LinkInv(p)' /\ ViewInv(p)'
  BY <1>1, <1>3, <1>7 DEF LinkInv, ViewInv, Attached
<1> QED
  BY <1>5, <1>6, <1>8, OneActs

-----------------------------------------------------------------------------
(* Seats that are given up, and sockets that died before they got one. *)

LEMMA SeatInv ==
  ASSUME PagesApart, WayInv, NEW u \in Users, Noticed(u) \/ HoldExpires(u) \/ GhostInstalled(u)
  PROVE  WayInv'
<1>1. /\ WayTypes /\ SeatsInv /\ UNCHANGED <<owner, page, link, up, down, handler>>
      /\ seat[u] \in SeatStates /\ misled \subseteq misled'
  BY DEF Noticed, HoldExpires, GhostInstalled, Outside, WayInv, WayTypes
<1>2. \E t \in SeatStates :
         /\ seat' = [seat EXCEPT ![u] = t] /\ t.conn \notin Pages
         /\ t.state = "LIVE" => t.conn = "stale"
  <2>1. CASE Noticed(u)
    <3>1. [state |-> "HELD", conn |-> None] \in SeatStates
      BY DEF SeatStates
    <3> QED
      BY <2>1, <3>1 DEF Noticed, PagesApart
  <2>2. CASE HoldExpires(u)
    <3>1. Free \in SeatStates /\ Free.conn \notin Pages /\ Free.state # "LIVE"
      BY DEF Free, SeatStates, PagesApart
    <3> QED
      BY <2>2, <3>1 DEF HoldExpires
  <2>3. CASE GhostInstalled(u)
    <3> DEFINE t == [seat[u] EXCEPT !.conn = "stale"]
    <3>1. t \in SeatStates /\ t.conn = "stale"
      BY <1>1 DEF SeatStates
    <3>2. seat' = [seat EXCEPT ![u] = t]
      BY <2>3 DEF GhostInstalled
    <3> HIDE DEF t
    <3> QED
      BY <3>1, <3>2 DEF PagesApart
  <2> QED
    BY <2>1, <2>2, <2>3
<1>3. PICK t \in SeatStates :
         /\ seat' = [seat EXCEPT ![u] = t] /\ t.conn \notin Pages
         /\ t.state = "LIVE" => t.conn = "stale"
  BY <1>2
<1>4. /\ seat'[u] = t /\ \A v \in Users : v # u => seat'[v] = seat[v]
      /\ seat' \in [Users -> SeatStates]
  BY <1>1, <1>3 DEF WayTypes
<1>5. misled' \subseteq Pages /\ ghosts' \in [Users -> Nat]
  <2>1. CASE Noticed(u) \/ HoldExpires(u)
    BY <1>1, <2>1 DEF Noticed, HoldExpires, WayTypes
  <2>2. CASE GhostInstalled(u)
    <3>1. ghosts[u] \in Nat /\ ghosts[u] > 0 /\ ghosts' = [ghosts EXCEPT ![u] = ghosts[u] - 1]
          /\ misled' = misled \cup Ousted(u, "stale")
      BY <1>1, <2>2 DEF GhostInstalled, WayTypes
    <3>2. ghosts[u] - 1 \in Nat
      BY <3>1
    <3> QED
      BY <1>1, <3>1, <3>2 DEF WayTypes, Ousted
  <2> QED
    BY <2>1, <2>2
<1>6. WayTypes'
  BY <1>1, <1>4, <1>5 DEF WayTypes
<1>7. ASSUME NEW q \in Pages, handler'[q].phase = "table" PROVE AtTable(q)' \/ q \in misled'
  <2>1. owner[q] \in Users /\ handler[q].phase = "table" /\ (AtTable(q) \/ q \in misled)
    BY <1>1, <1>7 DEF WayTypes, SeatsInv
  <2>2. CASE owner[q] # u \/ q \in misled
    BY <1>1, <1>4, <2>1, <2>2 DEF AtTable
  <2>3. CASE owner[q] = u /\ AtTable(q)
    <3>1. ~Noticed(u) /\ ~HoldExpires(u)
      BY <2>3 DEF AtTable, Noticed, HoldExpires, PagesApart
    <3>2. misled' = misled \cup Ousted(u, "stale")
      BY <3>1 DEF GhostInstalled
    <3> QED
      BY <2>1, <2>3, <3>2 DEF Ousted, AtTable, PagesApart
  <2> QED
    BY <2>1, <2>2, <2>3
<1>8. SeatsInv'
  <2>1. ASSUME NEW v \in Users
        PROVE  /\ seat'[v].conn \in Pages
                    => owner[seat'[v].conn] = v /\ handler'[seat'[v].conn].phase \in Attached
               /\ seat'[v].state = "LIVE" => seat'[v].conn \in Pages \cup {"stale"}
    BY <1>1, <1>3, <1>4 DEF SeatsInv
  <2> QED
    BY <1>1, <1>7, <2>1 DEF SeatsInv
<1>9. \A q \in Pages : Kept(q)
  BY <1>1 DEF Kept
<1> QED
  BY <1>6, <1>8, <1>9, KeptInv DEF WayInv

LEMMA WayInvStep == ASSUME PagesApart, WayInv, [RejoinNext]_vars PROVE WayInv'
<1>1. ASSUME NEW p \in Pages, ServerReads(p) PROVE WayInv'
  <2>1. CASE AttachRefused(p) \/ Unexpected(p)
    BY <2>1, HangsUpInv DEF AttachRefused, Unexpected, Outside, seats
  <2> QED
    BY <1>1, <2>1, ResumeInv, AuthRequiredInv, ServedInv, AttachInv, TakeOverInv, DetachInv
    DEF ServerReads
<1>2. CASE UNCHANGED vars
  <2>1. WayTypes' /\ SeatsInv' /\ \A q \in Pages : Kept(q)
    BY <1>2, SeatsKept DEF WayInv, WayTypes, Kept, vars, served, seats
  <2> QED
    BY <2>1, KeptInv DEF WayInv
<1>3. CASE RejoinNext
  BY <1>1, <1>3, PageInv, InstallInv, SeatInv, NextHandInv DEF RejoinNext
<1> QED
  BY <1>2, <1>3

LEMMA WayInvariant == ASSUME PagesApart PROVE RejoinSpec => []WayInv
<1>1. Init => WayInv
  BY WayInvInit
<1>2. WayInv /\ [RejoinNext]_vars => WayInv'
  BY WayInvStep
<1> QED
  BY <1>1, <1>2, PTL DEF RejoinSpec

\* A page whose socket is open and has nothing in flight, one way or the other,
\* knows whether it has its seat, unless a takeover misled it.
QuietPageAgrees ==
    \A p \in Pages : link[p] /\ up[p] = <<>> /\ down[p] = <<>> => p \in misled \/ Knows(p)

\* Whatever was clicked, replaced, dropped or lost, and at any step of a takeover:
\* what a page and its handler disagree on, a frame in flight will settle (LinkInv,
\* ViewInv), or a takeover put somebody else in the seat of a page, or the page in
\* a seat that was no longer LIVE (SeatsInv).
THEOREM QuietTheorem == ASSUME PagesApart PROVE RejoinSpec => []QuietPageAgrees
<1>1. ASSUME WayInv PROVE QuietPageAgrees
  <2> SUFFICES ASSUME NEW p \in Pages, link[p], up[p] = <<>>, down[p] = <<>>, p \notin misled
               PROVE  Knows(p)
    BY DEF QuietPageAgrees
  <2>1. /\ \A kind : ~Carries(up[p], kind) /\ ~Carries(down[p], kind)
        /\ LinkInv(p) /\ ViewInv(p) /\ WayTypes /\ SeatsInv
    BY <1>1, NothingCarried DEF WayInv
  <2>2. handler[p].phase \in {"lobby", "taking", "table"} /\ page[p].attached \in BOOLEAN
    BY <2>1 DEF LinkInv, WayTypes, Phases, Looks
  <2>3. page[p].attached <=> handler[p].phase = "table"
    BY <2>1, <2>2 DEF ViewInv
  <2>4. AtTable(p) <=> handler[p].phase = "table"
    <3>1. owner[p] \in Users
      BY <2>1 DEF WayTypes
    <3>2. AtTable(p) => handler[p].phase \in Attached
      BY <2>1, <3>1 DEF SeatsInv, AtTable
    <3> QED
      BY <2>1, <2>2, <3>2 DEF SeatsInv, Attached
  <2>5. AtTable(p) \in BOOLEAN
    BY DEF AtTable
  <2> QED
    BY <2>1, <2>2, <2>3, <2>4, <2>5 DEF ViewInv, Knows
<1> QED
  BY <1>1, WayInvariant, PTL

-----------------------------------------------------------------------------
(* Who asks for the hand. *)

\* p has its seat and asks for the hand, or is about to be told that it has it.
Asking(p) ==
    AtTable(p) /\ (Carries(up[p], "START_HAND") \/ Carries(down[p], "ATTACHED"))

\* While every human seat is LIVE and no hand was started, somebody asks for it,
\* or is the owner of a socket whose end the server has yet to notice.
SomebodyAsks ==
    hand = "none" /\ AllLive =>
        (\E u \in Humans : seat[u].conn = "stale") \/ (\E p \in Pages : Asking(p))

\* What a page does but to lose its socket.
PageActs(q) ==
    \/ OnHello(q) \/ OnAuthResponse(q) \/ OnAttached(q) \/ OnEvent(q) \/ OnNotReady(q)
    \/ OnTableList(q) \/ OnProfile(q) \/ PollFires(q) \/ JoinClicked(q) \/ LeaveClicked(q)
    \/ ProfileClicked(q) \/ ProfileClosed(q)

LEMMA PageGoesOn ==
  ASSUME WayInv, NEW q \in Pages, PageActs(q), NEW p \in Pages, Asking(p)
  PROVE  Asking(p)'
<1>1. /\ WayTypes /\ link[p] /\ AtTable(p)' /\ up[p] \in Seq(Frames) /\ down[p] \in Seq(Frames)
  <2>1. WayTypes /\ link[p] /\ up[p] \in Seq(Frames) /\ down[p] \in Seq(Frames)
    <3>1. WayTypes /\ SeatsInv /\ LinkInv(p) /\ owner[p] \in Users /\ seat[owner[p]].conn = p
      BY DEF WayInv, WayTypes, Asking, AtTable
    <3>2. handler[p].phase \in Attached
      BY <3>1 DEF SeatsInv
    <3> QED
      BY <3>1, <3>2 DEF WayTypes, LinkInv, Attached
  <2>2. UNCHANGED <<owner, seat>>
    BY DEF PageActs, OnHello, OnAuthResponse, OnAttached, OnEvent, OnNotReady, OnTableList,
           OnProfile, PollFires, JoinClicked, LeaveClicked, ProfileClicked, ProfileClosed, served, seats
  <2> QED
    BY <2>1, <2>2 DEF Asking, AtTable
<1>2. ASSUME NEW k \in Kinds, Sent(q, <<Frame(k)>>)
      PROVE  \A kind : Carries(up[p], kind) => Carries(up'[p], kind)
  <2>1. Frame(k) \in Frames
    BY FramesAre
  <2>2. up'[p] = up[p] \/ up'[p] = Append(up[p], Frame(k))
    BY <1>1, <1>2, <2>1, SentUp
  <2>3. \A kind : Carries(up[p], kind) => Carries(Append(up[p], Frame(k)), kind)
    BY <1>1, <2>1, AppendCarried
  <2> QED
    BY <2>2, <2>3
<1>3. ASSUME Sent(q, <<>>) \/ up' = up
      PROVE  \A kind : Carries(up[p], kind) => Carries(up'[p], kind)
  BY <1>1, <1>3, NothingSent
<1>4. \A kind : Carries(up[p], kind) => Carries(up'[p], kind)
  <2>1. (\E k \in Kinds : Sent(q, <<Frame(k)>>)) \/ Sent(q, <<>>) \/ up' = up
    BY DEF PageActs, OnHello, OnAuthResponse, OnAttached, OnEvent, OnNotReady, OnTableList, OnProfile,
       PollFires, JoinClicked, LeaveClicked, ProfileClicked, ProfileClosed, Kinds
  <2> QED
    BY <1>2, <1>3, <2>1
<1>5. CASE OnAttached(q) /\ q = p
  <2>1. Frame("START_HAND") \in Frames /\ Frame("START_HAND").kind = "START_HAND"
    BY FramesAre DEF Kinds
  <2>2. up'[p] = Append(up[p], Frame("START_HAND"))
    BY <1>1, <1>5, <2>1, SentUp DEF OnAttached
  <2> QED
    BY <1>1, <2>1, <2>2, AppendCarried DEF Asking
<1>6. CASE ~(OnAttached(q) /\ q = p)
  <2>1. ASSUME NEW k \in Kinds, Reads(q, k), q = p => k # "ATTACHED"
        PROVE  Carries(down[p], "ATTACHED") => Carries(down'[p], "ATTACHED")
    BY <1>1, <2>1, ReadsDown, TailCarried
  <2>2. \/ \E k \in Kinds : Reads(q, k) /\ (q = p => k # "ATTACHED")
        \/ down' = down
    BY <1>6 DEF PageActs, OnHello, OnAuthResponse, OnAttached, OnEvent, OnNotReady, OnTableList,
       OnProfile, PollFires, JoinClicked, LeaveClicked, ProfileClicked, ProfileClosed, Kinds
  <2>3. Carries(down[p], "ATTACHED") => Carries(down'[p], "ATTACHED")
    BY <2>1, <2>2
  <2> QED
    BY <1>1, <1>4, <2>3 DEF Asking
<1> QED
  BY <1>5, <1>6

LEMMA ServerGoesOn ==
  ASSUME PagesApart, WayInv, hand = "none", AllLive, hand' = "none", AllLive',
         NEW q \in Pages, ServerReads(q), ~AttachTaken(q), NEW p \in Pages, Asking(p)
  PROVE  Asking(p)'
<1>1. /\ WayTypes /\ SeatsInv /\ handler[p].phase \in Attached /\ owner[p] \in Users
      /\ up[p] \in Seq(Frames) /\ down[p] \in Seq(Frames)
  <2>1. WayTypes /\ SeatsInv /\ owner[p] \in Users /\ seat[owner[p]].conn = p
    BY DEF WayInv, WayTypes, Asking, AtTable
  <2> QED
    BY <2>1 DEF WayTypes, SeatsInv
<1>2. UNCHANGED <<owner, seat>>
  <2>1. CASE DetachTaken(q)
    <3>1. seat[owner[q]].conn # q
      <4>1. ASSUME seat[owner[q]].conn = q PROVE FALSE
        <5>1. owner' = owner /\ seat'[owner[q]].state = "UNBOUND" /\ owner[q] \in Humans
          BY <1>1, <2>1, <4>1 DEF DetachTaken, Outside, Free, WayTypes, Humans
        <5> QED
          BY <5>1 DEF AllLive, Humans
      <4> QED
        BY <4>1
    <3> QED
      BY <2>1, <3>1 DEF DetachTaken, Outside
  <2>2. CASE ~DetachTaken(q)
    BY <2>2 DEF ServerReads, ResumeTaken, AuthRequired, ListTaken, ProfileTaken, AttachRefused,
       TakeOver, Unexpected, StartHand, UnknownKind, Outside, served, seats
  <2> QED
    BY <2>1, <2>2
<1>3. AtTable(p)'
  BY <1>2 DEF Asking, AtTable
<1>4. CASE ResumeTaken(q) \/ AuthRequired(q) \/ ListTaken(q) \/ AttachRefused(q) \/ Unexpected(q)
  <2>1. q # p
    BY <1>1, <1>4 DEF ResumeTaken, AuthRequired, ListTaken, AttachRefused, Unexpected, Takes, Attached
  <2>2. up'[p] = up[p] /\ down'[p] = down[p]
    BY <1>1, <1>4, <2>1 DEF ResumeTaken, AuthRequired, ListTaken, AttachRefused, Unexpected,
       Takes, Replies, HangsUp, WayTypes
  <2> QED
    BY <1>3, <2>2 DEF Asking
<1>5. CASE StartHand(q)
  BY <1>5 DEF StartHand
<1>6. CASE UnknownKind(q) \/ ProfileTaken(q)
  <2>1. /\ up[q] # <<>> /\ up' = [up EXCEPT ![q] = Tail(@)] /\ Head(up[q]).kind # "START_HAND"
    BY <1>6 DEF UnknownKind, ProfileTaken, Takes
  <2>2. Carries(up[p], "START_HAND") => Carries(up'[p], "START_HAND")
    BY <1>1, <2>1, TakesUp, TailCarried
  <2>3. down'[p] = down[p] \/ down'[p] = Append(down[p], Frame("PROFILE"))
    BY <1>1, <1>6 DEF UnknownKind, ProfileTaken, Replies, WayTypes
  <2>4. Frame("PROFILE") \in Frames
    BY FramesAre DEF Kinds
  <2>5. Carries(down[p], "ATTACHED") => Carries(Append(down[p], Frame("PROFILE")), "ATTACHED")
    BY <1>1, <2>4, AppendCarried
  <2>6. Carries(down[p], "ATTACHED") => Carries(down'[p], "ATTACHED")
    BY <2>3, <2>5
  <2> QED
    BY <1>3, <2>2, <2>6 DEF Asking
<1>7. CASE TakeOver(q)
  <2>1. q # p
    BY <1>1, <1>7 DEF TakeOver, Takes, Attached
  <2>2. up'[p] = up[p] /\ (down'[p] = down[p] \/ down'[p] = Append(down[p], Frame("CLOSE")))
    BY <1>1, <1>7, <2>1 DEF TakeOver, Takes, WayTypes
  <2>3. Frame("CLOSE") \in Frames
    BY FramesAre DEF Kinds
  <2>4. Carries(down[p], "ATTACHED") => Carries(Append(down[p], Frame("CLOSE")), "ATTACHED")
    BY <1>1, <2>3, AppendCarried
  <2>5. Carries(down[p], "ATTACHED") => Carries(down'[p], "ATTACHED")
    BY <2>2, <2>4
  <2> QED
    BY <1>3, <2>2, <2>5 DEF Asking
<1>8. CASE DetachTaken(q)
  <2>1. q # p
    <3>1. ASSUME q = p PROVE FALSE
      <4>1. seat'[owner[p]] = Free
        BY <1>1, <1>8, <3>1 DEF DetachTaken, Asking, AtTable, WayTypes
      <4> QED
        BY <1>2, <4>1 DEF Free, Asking, AtTable
    <3> QED
      BY <3>1
  <2>2. up'[p] = up[p] /\ down'[p] = down[p]
    BY <1>1, <1>8, <2>1 DEF DetachTaken, Takes, WayTypes
  <2> QED
    BY <1>3, <2>2 DEF Asking
<1> QED
  BY <1>4, <1>5, <1>6, <1>7, <1>8 DEF ServerReads

\* Who changes a seat, apart from an ATTACH and the end of a takeover.
LEMMA SeatTakers ==
  ASSUME [RejoinNext]_vars, \A p \in Pages : ~AttachTaken(p) /\ ~Install(p)
  PROVE  (\E p \in Pages : Disconnected(p) \/ DetachTaken(p))
           \/ (\E u \in Users : Noticed(u) \/ HoldExpires(u) \/ GhostInstalled(u)) \/ UNCHANGED seat
<1>1. ASSUME NEW p \in Pages, PageReads(p), ~Disconnected(p) PROVE UNCHANGED seat
  BY <1>1 DEF PageReads, OnHello, OnAuthResponse, OnAttached, OnEvent, OnNotReady, OnTableList,
     OnProfile, OnClose, served, seats
<1>2. ASSUME NEW p \in Pages,
             \/ Connect(p) \/ PollFires(p) \/ JoinClicked(p) \/ LeaveClicked(p)
             \/ ProfileClicked(p) \/ ProfileClosed(p)
      PROVE  UNCHANGED seat
  BY <1>2 DEF Connect, PollFires, JoinClicked, LeaveClicked, ProfileClicked, ProfileClosed, served, seats
<1>3. ASSUME NEW p \in Pages,
             \/ ResumeTaken(p) \/ AuthRequired(p) \/ ListTaken(p) \/ ProfileTaken(p) \/ AttachRefused(p)
             \/ TakeOver(p) \/ Unexpected(p) \/ StartHand(p) \/ UnknownKind(p)
      PROVE  UNCHANGED seat
  BY <1>3 DEF ResumeTaken, AuthRequired, ListTaken, ProfileTaken, AttachRefused, TakeOver, Unexpected,
     StartHand, UnknownKind, served, seats
<1>4. CASE NextHand \/ UNCHANGED vars
  BY <1>4 DEF NextHand, vars, served, seats
<1>5. ASSUME NEW p \in Pages, Drops(p) PROVE Disconnected(p)
  BY <1>5 DEF Drops
<1> QED
  BY <1>1, <1>2, <1>3, <1>4, <1>5 DEF RejoinNext, ServerReads

\* None of them makes a seat LIVE; a seat whose socket died keeps it while LIVE.
LEMMA SeatsFall ==
  ASSUME PagesApart, WayInv, [RejoinNext]_vars, \A p \in Pages : ~AttachTaken(p) /\ ~Install(p),
         NEW u \in Users, seat'[u].state = "LIVE"
  PROVE  seat[u].state = "LIVE" /\ (seat[u].conn = "stale" => seat'[u].conn = "stale")
<1>1. WayTypes /\ seat[u] \in SeatStates
  BY DEF WayInv, WayTypes
<1>2. ASSUME NEW p \in Pages, Disconnected(p)
      PROVE  seat[u].state = "LIVE" /\ (seat[u].conn = "stale" => seat'[u].conn = "stale")
  BY <1>1, <1>2 DEF Disconnected, WayTypes, SeatStates, PagesApart
<1>3. ASSUME NEW p \in Pages, DetachTaken(p)
      PROVE  seat[u].state = "LIVE" /\ (seat[u].conn = "stale" => seat'[u].conn = "stale")
  <2>1. seat'[u] = seat[u] \/ seat'[u] = Free
    BY <1>1, <1>3 DEF DetachTaken, WayTypes
  <2> QED
    BY <2>1 DEF Free
<1>4. ASSUME NEW v \in Users, Noticed(v) \/ HoldExpires(v)
      PROVE  seat[u].state = "LIVE" /\ (seat[u].conn = "stale" => seat'[u].conn = "stale")
  <2>1. seat'[u] = seat[u] \/ seat'[u].state # "LIVE"
    BY <1>1, <1>4 DEF Noticed, HoldExpires, Free, WayTypes
  <2> QED
    BY <2>1
<1>5. ASSUME NEW v \in Users, GhostInstalled(v)
      PROVE  seat[u].state = "LIVE" /\ (seat[u].conn = "stale" => seat'[u].conn = "stale")
  <2>1. seat' = [seat EXCEPT ![v].conn = "stale"]
    BY <1>5 DEF GhostInstalled
  <2> QED
    BY <1>1, <2>1 DEF WayTypes, SeatStates
<1> QED
  BY <1>2, <1>3, <1>4, <1>5, SeatTakers

\* Nobody else logs in on a page, and a hand that was dealt stays dealt.
LEMMA OwnersStay ==
  ASSUME [RejoinNext]_vars
  PROVE  owner' = owner /\ (hand' = "none" => hand = "none" /\ ~NextHand)
<1>1. ASSUME NEW p \in Pages, PageReads(p) PROVE UNCHANGED <<owner, hand>>
  BY <1>1 DEF PageReads, OnHello, OnAuthResponse, OnAttached, OnEvent, OnNotReady, OnTableList,
     OnProfile, OnClose, served
<1>2. ASSUME NEW p \in Pages,
             \/ Connect(p) \/ PollFires(p) \/ Drops(p) \/ JoinClicked(p) \/ LeaveClicked(p)
             \/ ProfileClicked(p) \/ ProfileClosed(p)
      PROVE  UNCHANGED <<owner, hand>>
  BY <1>2 DEF Connect, PollFires, Drops, JoinClicked, LeaveClicked, ProfileClicked, ProfileClosed, served
<1>3. ASSUME NEW p \in Pages,
             \/ ResumeTaken(p) \/ AuthRequired(p) \/ ListTaken(p) \/ ProfileTaken(p) \/ AttachRefused(p)
             \/ AttachTaken(p) \/ TakeOver(p) \/ Unexpected(p) \/ DetachTaken(p) \/ UnknownKind(p)
             \/ Install(p)
      PROVE  UNCHANGED <<owner, hand>>
  BY <1>3 DEF ResumeTaken, AuthRequired, ListTaken, ProfileTaken, AttachRefused, AttachTaken, TakeOver,
     Unexpected, DetachTaken, UnknownKind, Install, Outside, served
<1>4. ASSUME NEW u \in Users, GhostInstalled(u) \/ Noticed(u) \/ HoldExpires(u)
      PROVE  UNCHANGED <<owner, hand>>
  BY <1>4 DEF GhostInstalled, Noticed, HoldExpires, Outside
<1>5. ASSUME NEW p \in Pages, StartHand(p)
      PROVE  owner' = owner /\ (hand' = "none" => hand = "none")
  BY <1>5 DEF StartHand, Outside
<1>6. ASSUME NextHand PROVE owner' = owner /\ hand' # "none"
  BY <1>6 DEF NextHand, Outside, InProgress
<1>7. CASE UNCHANGED vars
  BY <1>7, <1>6 DEF vars, served
<1> QED
  BY <1>1, <1>2, <1>3, <1>4, <1>5, <1>6, <1>7 DEF RejoinNext, ServerReads

LEMMA AskedStep ==
  ASSUME PagesApart, WayInv, SomebodyAsks, [RejoinNext]_vars
  PROVE  SomebodyAsks'
<1> SUFFICES ASSUME hand' = "none", AllLive'
             PROVE  (\E u \in Humans : seat[u].conn = "stale")' \/ (\E p \in Pages : Asking(p)')
  BY DEF SomebodyAsks
<1>1. /\ WayTypes /\ SeatsInv /\ owner' = owner /\ Humans' = Humans /\ Humans \subseteq Users
      /\ hand = "none" /\ ~NextHand /\ \A u \in Humans : seat'[u].state = "LIVE"
  <2>1. owner' = owner /\ (hand' = "none" => hand = "none" /\ ~NextHand)
    BY OwnersStay
  <2> QED
    BY <2>1 DEF WayInv, WayTypes, Humans, AllLive
<1>2. ASSUME NEW p \in Pages, AttachTaken(p) \/ Install(p) PROVE Asking(p)'
  <2>1. owner[p] \in Users /\ owner[p] \in Humans /\ seat[owner[p]] \in SeatStates
    BY <1>1 DEF WayTypes, Humans
  <2>2. seat'[owner[p]] = [state |-> "LIVE", conn |-> p]
    <3>1. CASE AttachTaken(p)
      BY <1>1, <2>1, <3>1 DEF AttachTaken, WayTypes
    <3>2. CASE Install(p)
      <4>1. seat'[owner[p]] = [seat[owner[p]] EXCEPT !.conn = p]
        BY <1>1, <2>1, <3>2 DEF Install, WayTypes
      <4>2. [seat[owner[p]] EXCEPT !.conn = p] = [state |-> seat[owner[p]].state, conn |-> p]
        BY <2>1 DEF SeatStates
      <4> QED
        BY <1>1, <2>1, <4>1, <4>2
    <3> QED
      BY <1>2, <3>1, <3>2
  <2>3. /\ down'[p] = Append(down[p], Frame("ATTACHED"))
        /\ down[p] \in Seq(Frames) /\ Frame("ATTACHED") \in Frames /\ Frame("ATTACHED").kind = "ATTACHED"
    BY <1>1, <1>2, FramesAre DEF AttachTaken, Install, Takes, Replies, WayTypes, Kinds
  <2>4. Carries(down'[p], "ATTACHED")
    BY <2>3, AppendCarried
  <2> QED
    BY <1>1, <2>2, <2>4 DEF Asking, AtTable
<1>3. ASSUME \A p \in Pages : ~AttachTaken(p) /\ ~Install(p) PROVE AllLive
  BY <1>1, <1>3, SeatsFall DEF AllLive
<1>4. ASSUME \A p \in Pages : ~AttachTaken(p) /\ ~Install(p), NEW p \in Pages, Asking(p)
      PROVE  Asking(p)' \/ seat'[owner[p]].conn = "stale"
  <2>1. AllLive
    BY <1>3, <1>4
  <2>2. owner[p] \in Users /\ seat[owner[p]] = [state |-> "LIVE", conn |-> p] /\ link[p]
    <3>1. owner[p] \in Users /\ seat[owner[p]] = [state |-> "LIVE", conn |-> p]
      BY <1>1, <1>4 DEF WayTypes, Asking, AtTable
    <3>2. handler[p].phase \in Attached
      BY <1>1, <3>1 DEF SeatsInv
    <3> QED
      BY <3>1, <3>2 DEF WayInv, LinkInv, Attached
  <2>3. ASSUME NEW q \in Pages, Connect(q) PROVE Asking(p)'
    <3>1. q # p
      BY <2>2, <2>3 DEF Connect
    <3>2. up'[p] = up[p] /\ down'[p] = down[p] /\ seat' = seat
      BY <1>1, <2>3, <3>1 DEF Connect, WayTypes, seats
    <3> QED
      BY <1>1, <1>4, <3>2 DEF Asking, AtTable
  <2>4. ASSUME NEW q \in Pages, Disconnected(q) PROVE Asking(p)' \/ seat'[owner[p]].conn = "stale"
    <3>1. CASE q = p
      BY <1>1, <2>2, <2>4, <3>1 DEF Disconnected, WayTypes
    <3>2. CASE q # p
      <4>1. up'[p] = up[p] /\ down'[p] = down[p] /\ seat'[owner[p]] = seat[owner[p]]
        BY <1>1, <2>2, <2>4, <3>2 DEF Disconnected, WayTypes
      <4> QED
        BY <1>1, <1>4, <4>1 DEF Asking, AtTable
    <3> QED
      BY <3>1, <3>2
  <2>5. ASSUME NEW v \in Users, Noticed(v) \/ HoldExpires(v) \/ GhostInstalled(v)
        PROVE  Asking(p)' \/ seat'[owner[p]].conn = "stale"
    <3>1. UNCHANGED <<up, down>>
      BY <2>5 DEF Noticed, HoldExpires, GhostInstalled
    <3>2. CASE v # owner[p]
      <4>1. seat'[owner[p]] = seat[owner[p]]
        BY <1>1, <2>2, <2>5, <3>2 DEF Noticed, HoldExpires, GhostInstalled, WayTypes
      <4> QED
        BY <1>1, <1>4, <3>1, <4>1 DEF Asking, AtTable
    <3>3. CASE v = owner[p]
      <4>1. GhostInstalled(v)
        BY <2>2, <2>5, <3>3 DEF Noticed, HoldExpires, PagesApart
      <4> QED
        BY <1>1, <2>2, <3>3, <4>1 DEF GhostInstalled, WayTypes
    <3> QED
      BY <3>2, <3>3
  <2>6. CASE UNCHANGED vars
    BY <1>4, <2>6 DEF vars, served, seats, Asking, AtTable
  <2>7. ASSUME NEW q \in Pages, PageActs(q) \/ ServerReads(q) PROVE Asking(p)'
    BY <1>1, <1>4, <2>1, <2>7, PageGoesOn, ServerGoesOn
  <2>8. \/ UNCHANGED vars
        \/ \E q \in Pages : Connect(q) \/ Disconnected(q) \/ PageActs(q) \/ ServerReads(q)
        \/ \E v \in Users : Noticed(v) \/ HoldExpires(v) \/ GhostInstalled(v)
    BY <1>1, <1>4 DEF RejoinNext, PageReads, PageActs, OnClose, Drops
  <2> QED
    BY <2>3, <2>4, <2>5, <2>6, <2>7, <2>8
<1>5. ASSUME \A p \in Pages : ~AttachTaken(p) /\ ~Install(p), NEW u \in Humans, seat[u].conn = "stale"
      PROVE  seat'[u].conn = "stale"
  BY <1>1, <1>5, SeatsFall
<1>6. CASE \E p \in Pages : AttachTaken(p) \/ Install(p)
  BY <1>2, <1>6
<1>7. CASE \A p \in Pages : ~AttachTaken(p) /\ ~Install(p)
  <2>1. (\E u \in Humans : seat[u].conn = "stale") \/ (\E p \in Pages : Asking(p))
    BY <1>1, <1>3, <1>7 DEF SomebodyAsks
  <2>2. \A p \in Pages : owner[p] \in Humans
    BY DEF Humans
  <2> QED
    BY <1>1, <1>4, <1>5, <1>7, <2>1, <2>2
<1> QED
  BY <1>6, <1>7

\* The first hand is asked for once every human seat is LIVE, whoever came last:
\* a START_HAND that comes when they all are is taken (HandStarts).
THEOREM AskedTheorem == ASSUME PagesApart, Pages # {} PROVE RejoinSpec => []SomebodyAsks
<1>1. Init => SomebodyAsks
  BY DEF Init, SomebodyAsks, AllLive, Humans, Free
<1>2. WayInv /\ SomebodyAsks /\ [RejoinNext]_vars => SomebodyAsks'
  BY AskedStep
<1> QED
  BY <1>1, <1>2, WayInvariant, PTL DEF RejoinSpec
=============================================================================
