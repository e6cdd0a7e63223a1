------------------------- MODULE MatchRecords_proofs -------------------------
(***************************************************************************)
(* What the hand index says is true of the record files, through any       *)
(* crashes, restarts, rebuilds and failed writes, for any number of boots  *)
(* and hands, any ruleset and any accounts at the table.                   *)
(***************************************************************************)
EXTENDS History, WellFoundedInduction, FiniteSetTheorems, TLAPS

-----------------------------------------------------------------------------
(* Points move between the seats, never are they made.                     *)

Points == [Seats -> Int]

LEMMA PayoutBalances ==
    ASSUME NEW winner \in Seats, NEW pays \in Points
    PROVE  Payout(winner, pays) \in Points /\ Total(Payout(winner, pays)) = 0
<1>1. \A s \in Seats : s = 0 \/ s = 1 \/ s = 2 \/ s = 3
  BY DEF Seats
<1>2. 0 \in Seats /\ 1 \in Seats /\ 2 \in Seats /\ 3 \in Seats
  BY DEF Seats
<1>3. \A s \in Seats : After(s, 1) \in Seats /\ After(s, 2) \in Seats /\ After(s, 3) \in Seats
  BY DEF Seats, After
<1>4. PICK w \in Int, x \in Int, y \in Int, z \in Int :
        w = pays[0] /\ x = pays[1] /\ y = pays[2] /\ z = pays[3]
  BY <1>2 DEF Points
<1>5. Payout(winner, pays) \in Points
  <2>1. \A s \in Seats : pays[s] \in Int
    BY DEF Points
  <2>2. \A s \in Seats : (IF s # winner THEN -pays[s]
                          ELSE pays[After(s, 1)] + pays[After(s, 2)] + pays[After(s, 3)]) \in Int
    BY <1>3, <2>1
  <2> QED
    BY <2>2 DEF Payout, Points
<1>6. /\ After(0, 1) = 1 /\ After(0, 2) = 2 /\ After(0, 3) = 3
      /\ After(1, 1) = 2 /\ After(1, 2) = 3 /\ After(1, 3) = 0
      /\ After(2, 1) = 3 /\ After(2, 2) = 0 /\ After(2, 3) = 1
      /\ After(3, 1) = 0 /\ After(3, 2) = 1 /\ After(3, 3) = 2
  BY DEF After
<1>7. PICK p : p = Payout(winner, pays) /\ \A s \in Seats : p[s] =
        IF s # winner THEN -pays[s] ELSE pays[After(s, 1)] + pays[After(s, 2)] + pays[After(s, 3)]
  <2>1. \A s \in Seats : Payout(winner, pays)[s] =
          IF s # winner THEN -pays[s] ELSE pays[After(s, 1)] + pays[After(s, 2)] + pays[After(s, 3)]
    BY DEF Payout
  <2> QED
    BY <2>1
<1>8. CASE winner = 0
  <2>1. p[0] = x + y + z /\ p[1] = -x /\ p[2] = -y /\ p[3] = -z
    BY <1>2, <1>4, <1>6, <1>7, <1>8
  <2> QED
    BY <1>4, <1>5, <1>7, <2>1 DEF Total
<1>9. CASE winner = 1
  <2>1. p[0] = -w /\ p[1] = y + z + w /\ p[2] = -y /\ p[3] = -z
    BY <1>2, <1>4, <1>6, <1>7, <1>9
  <2> QED
    BY <1>4, <1>5, <1>7, <2>1 DEF Total
<1>10. CASE winner = 2
  <2>1. p[0] = -w /\ p[1] = -x /\ p[2] = z + w + x /\ p[3] = -z
    BY <1>2, <1>4, <1>6, <1>7, <1>10
  <2> QED
    BY <1>4, <1>5, <1>7, <2>1 DEF Total
<1>11. CASE winner = 3
  <2>1. p[0] = -w /\ p[1] = -x /\ p[2] = -y /\ p[3] = w + x + y
    BY <1>2, <1>4, <1>6, <1>7, <1>11
  <2> QED
    BY <1>4, <1>5, <1>7, <2>1 DEF Total
<1> QED
  BY <1>1, <1>5, <1>7, <1>8, <1>9, <1>10, <1>11

LEMMA LeastNumber == ASSUME NEW N \in SUBSET Nat, N # {} PROVE \E k \in N : \A m \in N : k <= m
<1>1. PICK k \in N : \A m \in N : ~ (<<m, k>> \in OpToRel(<, Nat))
  BY NatLessThanWellFounded, WFMin
<1>2. \A m \in N : m \in Nat /\ k \in Nat /\ ~ (m < k)
  BY <1>1 DEF OpToRel
<1> QED
  BY <1>2

LEMMA ElementOf == ASSUME NEW S, NEW q \in Seq(S), NEW k \in 1 .. Len(q) PROVE q[k] \in S
  OBVIOUS

\* A fan total above every tier takes the last one.
LEMMA LookupXInt ==
    ASSUME NEW tiers \in Seq([max : Int, x : Int]), tiers # <<>>, NEW fan \in Nat
    PROVE  LookupX(fan, tiers) \in Int
<1>1. PICK n \in Nat \ {0} : n = Len(tiers) /\ DOMAIN tiers = 1 .. n /\ n \in 1 .. n
  OBVIOUS
<1>2. \A k \in 1 .. n : tiers[k].x \in Int
  <2>1. \A k \in 1 .. n : tiers[k] \in [max : Int, x : Int]
    BY <1>1, ElementOf
  <2>2. \A t \in [max : Int, x : Int] : t.x \in Int
    OBVIOUS
  <2> QED
    BY <2>1, <2>2
<1>3. PICK reach : reach = {k \in 1 .. n : fan <= tiers[k].max}
  OBVIOUS
<1>4. LookupX(fan, tiers) = IF reach = {} THEN tiers[n].x
                            ELSE tiers[CHOOSE k \in reach : \A m \in reach : k <= m].x
  BY <1>1, <1>3 DEF LookupX
<1>5. reach # {} => \E k \in reach : \A m \in reach : k <= m
  <2> SUFFICES ASSUME reach # {} PROVE \E k \in reach : \A m \in reach : k <= m
    OBVIOUS
  <2>1. reach \subseteq Nat
    BY <1>1, <1>3
  <2> QED
    BY <2>1, LeastNumber
<1>6. reach # {} => (CHOOSE k \in reach : \A m \in reach : k <= m) \in 1 .. n
  BY <1>3, <1>5
<1> QED
  BY <1>1, <1>2, <1>4, <1>6

\* No configuration produces an unbalanced payout (engine/scoring.py).
THEOREM ZeroSum ==
    ASSUME NEW conv, IsConversion(conv), NEW winner \in Seats, NEW from \in Seats, NEW fan \in Nat
    PROVE  ScoreDelta(winner, fan, from, conv) \in Points
           /\ Total(ScoreDelta(winner, fan, from, conv)) = 0
<1>1. PICK each \in Int, in \in Int, other \in Int :
        each = conv.each /\ in = conv.dealerIn /\ other = conv.other
  BY DEF IsConversion
<1>2. CASE conv.scheme = "mcr-official"
  <2>1. PICK pays : pays = [s \in Seats |-> IF from = winner THEN fan + each
                                            ELSE IF s = from THEN fan + in ELSE other]
    OBVIOUS
  <2>2. pays \in Points
    BY <2>1 DEF Points
  <2>3. ScoreDelta(winner, fan, from, conv) = Payout(winner, pays)
    BY <1>1, <1>2, <2>1 DEF ScoreDelta, OfficialDelta
  <2> QED
    BY <2>2, <2>3, PayoutBalances
<1>3. CASE conv.scheme # "mcr-official"
  <2>1. PICK x \in Int : x = LookupX(fan, conv.tiers)
    BY <1>3, LookupXInt DEF IsConversion
  <2>2. PICK pays : pays = [s \in Seats |-> IF from = winner THEN each * x
                                            ELSE IF s = from THEN in * x ELSE other * x]
    OBVIOUS
  <2>3. each * x \in Int /\ in * x \in Int /\ other * x \in Int
    OBVIOUS
  <2>4. pays \in Points
    BY <2>2, <2>3 DEF Points
  <2>5. ScoreDelta(winner, fan, from, conv) = Payout(winner, pays)
    BY <1>1, <1>3, <2>1, <2>2 DEF ScoreDelta, HouseTableDelta
  <2> QED
    BY <2>4, <2>5, PayoutBalances
<1> QED
  BY <1>2, <1>3

-----------------------------------------------------------------------------
(* The values that occur.                                                  *)

Kinds == {"HU", "EXHAUSTIVE_DRAW", "DRAW", "ABORTED"}
Unscored == [s \in Seats |-> None]
Scores == {t.delta : t \in Terminals} \cup {NoPoints, Unscored}
Hands == [boot : Nat, index : Nat]
FileSet == [header : BOOLEAN, dealer : Seats \cup {None}, end : Terminals \cup {None}, footer : BOOLEAN]
RowSet == [match : Nat \cup {None}, dealer : Seats \cup {None}, ended : BOOLEAN,
           kind : Kinds \cup {None}, winner : Seats \cup {None}, fan : Nat \cup {None},
           checksum : {"", "footer", None},
           seatKind : [Seats -> {"canned", "bot", "human"}], scores : Scores]

LEMMA NoneIsNoKind == None \notin Kinds
  BY RecordsAssumption DEF Kinds

LEMMA TerminalShape ==
    ASSUME NEW t \in Terminals
    PROVE  /\ t.kind \in {"DRAW", "HU"} /\ t.winner \in Seats \cup {None} /\ t.fan \in Nat \cup {None}
           /\ t.delta \in Points /\ Total(t.delta) = 0
<1>1. NoPoints \in Points /\ Total(NoPoints) = 0
  BY DEF NoPoints, Points, Total, Seats
<1>2. CASE t = Draw
  BY <1>1, <1>2 DEF Draw
<1>3. ASSUME NEW w \in HowWon, t = Won(w)
      PROVE  /\ t.kind \in {"DRAW", "HU"} /\ t.winner \in Seats \cup {None} /\ t.fan \in Nat \cup {None}
             /\ t.delta \in Points /\ Total(t.delta) = 0
  <2>1. w.winner \in Seats /\ w.fan \in Nat /\ w.from \in Seats /\ IsConversion(Conversion)
    BY RecordsAssumption
  <2>2. PICK d : d = ScoreDelta(w.winner, w.fan, w.from, Conversion)
    OBVIOUS
  <2>3. d \in Points /\ Total(d) = 0
    BY <2>1, <2>2, ZeroSum
  <2>4. t = [kind |-> "HU", winner |-> w.winner, fan |-> w.fan, delta |-> d]
    BY <1>3, <2>2 DEF Won
  <2> QED
    BY <2>1, <2>3, <2>4
<1> QED
  BY <1>2, <1>3 DEF Terminals

-----------------------------------------------------------------------------
(***************************************************************************)
(* Every hand on disk is one of this boot or an earlier one, and the hand  *)
(* of the loop is new until the loop itself reserves its row and opens its *)
(* file.  The file is then as far as the loop is, and what run_hand        *)
(* returned is what the file says; a hand was finished in the index only   *)
(* by the side of a complete file, or as aborted.                          *)
(***************************************************************************)
LoopOver == {"over", "between", "tally"}
Pcs == {"down", "startup", "idle", "reserve", "open", "header", "play", "footer", "left", "finalize"} \cup LoopOver
TypesOK ==
    /\ boot \in Nat /\ index \in Nat /\ pc \in Pcs /\ dealer \in Seats
    /\ (result = None \/ result \in Terminals)
    /\ files \in [DOMAIN files -> FileSet] /\ DOMAIN files \subseteq Hands
    /\ rows \in [DOMAIN rows -> RowSet] /\ DOMAIN rows \subseteq Hands
OfThePast ==
    \A h \in DOMAIN files \cup DOMAIN rows :
        /\ h.boot <= boot
        /\ h.boot = boot => /\ pc \notin {"startup", "idle"}
                            /\ pc # "down" => h.index <= index
                            /\ pc = "reserve" => h.index < index
FileKeepsPace ==
    /\ pc = "open" => Current \notin DOMAIN files /\ Current \in DOMAIN rows \cup failed
    /\ pc \in {"header", "play", "footer"} => Current \in DOMAIN files /\ ~files[Current].footer
    /\ pc \in {"play", "footer"} => files[Current].header
    /\ (pc = "left" \/ (pc = "finalize" /\ result # None)) => Current \in DOMAIN files /\ files[Current].footer
    /\ (pc \in {"footer", "left"} \/ (pc = "finalize" /\ result # None)) =>
          result \in Terminals /\ files[Current].end = result
FooterComplete == \A h \in DOMAIN files : files[h].footer => files[h].header /\ files[h].end \in Terminals
Sealed ==
    \A h \in DOMAIN rows :
        /\ rows[h].ended => rows[h].kind \in Kinds
        /\ rows[h].kind \in Kinds \ {"ABORTED"} => rows[h].checksum = "footer"
        /\ rows[h].kind \notin Kinds \ {"ABORTED"} => rows[h].winner = None
RecInv ==
    /\ TypesOK /\ OfThePast /\ FileKeepsPace /\ FooterComplete
    /\ RowsTellTruth /\ Sealed /\ OrphanedFiles \subseteq failed /\ IsFiniteSet(DOMAIN rows)

LEMMA RecInvInit == Init => RecInv
<1> SUFFICES ASSUME Init PROVE RecInv
  OBVIOUS
<1>1. DOMAIN files = {} /\ DOMAIN rows = {} /\ pc = "down"
  BY DEF Init
<1>2. files \in [DOMAIN files -> FileSet] /\ rows \in [DOMAIN rows -> RowSet]
  BY DEF Init
<1>3. TypesOK
  BY <1>1, <1>2 DEF Init, TypesOK, Pcs, LoopOver, Seats
<1>4. IsFiniteSet(DOMAIN rows)
  BY <1>1, FS_EmptySet
<1> QED
  BY <1>1, <1>3, <1>4 DEF RecInv, OfThePast, FileKeepsPace, FooterComplete, RowsTellTruth, Sealed, OrphanedFiles

\* Where the loop is, when nothing on disk changes.
LEMMA RecInvLoop ==
    ASSUME RecInv, UNCHANGED <<files, rows>>, failed \subseteq failed', TypesOK', OfThePast', FileKeepsPace'
    PROVE  RecInv'
  BY DEF RecInv, FooterComplete, RowsTellTruth, Sealed, OrphanedFiles

\* A row that is written, of a hand of the past.
LEMMA RecInvRow ==
    ASSUME RecInv, UNCHANGED <<files, boot, index, dealer, result>>, failed \subseteq failed', pc' \in Pcs,
           NEW h \in Hands, NEW row \in RowSet,
           DOMAIN rows' = DOMAIN rows \cup {h}, rows' \in [DOMAIN rows' -> RowSet],
           \A g \in DOMAIN rows : g # h => rows'[g] = rows[g], rows'[h] = row,
           row.ended => row.kind \in Kinds, row.kind \notin Kinds \ {"ABORTED"} => row.winner = None,
           row.kind \in Kinds \ {"ABORTED"} =>
             /\ h \in DOMAIN files /\ files[h].footer /\ row.ended /\ row.checksum = "footer"
             /\ row.winner = files[h].end.winner /\ row.fan = files[h].end.fan
             /\ row.scores = files[h].end.delta /\ (row.kind = "HU") = (files[h].end.kind = "HU"),
           OfThePast', FileKeepsPace'
    PROVE  RecInv'
<1>1. TypesOK'
  BY DEF RecInv, TypesOK
<1>2. FooterComplete'
  BY DEF RecInv, FooterComplete
<1>3. Sealed'
  <2>1. ASSUME NEW g \in DOMAIN rows', g # h
        PROVE  /\ rows'[g].ended => rows'[g].kind \in Kinds
               /\ rows'[g].kind \in Kinds \ {"ABORTED"} => rows'[g].checksum = "footer"
               /\ rows'[g].kind \notin Kinds \ {"ABORTED"} => rows'[g].winner = None
    BY <2>1 DEF RecInv, Sealed
  <2> QED
    BY <2>1 DEF Sealed
<1>4. RowsTellTruth'
  <2>1. ASSUME NEW g \in DOMAIN rows', rows'[g].kind \in {"HU", "EXHAUSTIVE_DRAW", "DRAW"}
        PROVE  /\ g \in DOMAIN files /\ Loadable(files[g]) /\ rows'[g].ended
               /\ rows'[g].winner = files[g].end.winner /\ rows'[g].fan = files[g].end.fan
               /\ rows'[g].scores = files[g].end.delta
               /\ (rows'[g].kind = "HU") = (files[g].end.kind = "HU")
    <3>1. CASE g # h
      BY <2>1, <3>1 DEF RecInv, RowsTellTruth
    <3>2. CASE g = h
      <4>1. row.kind \in Kinds \ {"ABORTED"}
        BY <2>1, <3>2 DEF Kinds
      <4>2. Loadable(files[h])
        BY <4>1 DEF RecInv, FooterComplete, Loadable
      <4> QED
        BY <3>2, <4>1, <4>2
    <3> QED
      BY <3>1, <3>2
  <2> QED
    BY <2>1 DEF RowsTellTruth, Loadable
<1>5. (OrphanedFiles \subseteq failed)'
  BY DEF RecInv, OrphanedFiles
<1>6. IsFiniteSet(DOMAIN rows)'
  BY FS_AddElement DEF RecInv
<1> QED
  BY <1>1, <1>2, <1>3, <1>4, <1>5, <1>6 DEF RecInv

\* A file that is written, the one of the loop's hand and not sealed yet.
LEMMA RecInvFile ==
    ASSUME RecInv, UNCHANGED <<rows, boot, index, dealer, failed>>, pc' \in Pcs,
           result' = None \/ result' \in Terminals,
           Current \in DOMAIN rows \cup failed \cup DOMAIN files,
           Current \in DOMAIN files => ~files[Current].footer,
           NEW file \in FileSet, file.footer => file.header /\ file.end \in Terminals,
           DOMAIN files' = DOMAIN files \cup {Current}, files' \in [DOMAIN files' -> FileSet],
           \A g \in DOMAIN files : g # Current => files'[g] = files[g], files'[Current] = file,
           OfThePast', FileKeepsPace'
    PROVE  RecInv'
<1>1. Current \in Hands
  BY DEF RecInv, TypesOK, Hands, Current, HandId
<1>2. TypesOK'
  BY <1>1 DEF RecInv, TypesOK
<1>3. FooterComplete'
  <2>1. ASSUME NEW g \in DOMAIN files', g # Current, files'[g].footer
        PROVE  files'[g].header /\ files'[g].end \in Terminals
    BY <2>1 DEF RecInv, FooterComplete
  <2> QED
    BY <2>1 DEF FooterComplete
<1>4. RowsTellTruth'
  <2>1. ASSUME NEW g \in DOMAIN rows, rows[g].kind \in {"HU", "EXHAUSTIVE_DRAW", "DRAW"}
        PROVE  g # Current /\ g \in DOMAIN files
    BY <2>1 DEF RecInv, RowsTellTruth, Loadable
  <2> QED
    BY <2>1 DEF RecInv, RowsTellTruth, Loadable
<1>5. Sealed'
  BY DEF RecInv, Sealed
<1>6. (OrphanedFiles \subseteq failed)'
  BY DEF RecInv, OrphanedFiles
<1> QED
  BY <1>2, <1>3, <1>4, <1>5, <1>6 DEF RecInv

LEMMA CurrentHand == ASSUME TypesOK PROVE Current \in Hands /\ Current.boot = boot /\ Current.index = index
  BY DEF TypesOK, Hands, Current, HandId

\* The loop moves on and writes nothing.
LEMMA StepsInMemory ==
    ASSUME RecInv, StartHand \/ AdaptersLeft \/ AbortHand \/ Tally \/ NextHand \/ Crash \/ Exit \/ Start \/ Listen
    PROVE  RecInv'
<1> USE DEF Pcs, LoopOver, memory
<1>1. TypesOK /\ OfThePast /\ FileKeepsPace
  BY DEF RecInv
<1>2. UNCHANGED <<files, rows, failed>>
  BY DEF StartHand, AdaptersLeft, AbortHand, Tally, NextHand, Crash, Exit, Start, Listen
<1>3. \A d \in Seats : \A w, r : NextDealer(d, w, r) \in Seats
  BY DEF NextDealer, After, Seats
<1>4. TypesOK'
  <2>1. boot' \in Nat /\ index' \in Nat
    BY <1>1 DEF StartHand, AdaptersLeft, AbortHand, Tally, NextHand, Crash, Exit, Start, Listen, Forget, TypesOK
  <2>2. pc' \in Pcs /\ (result' = None \/ result' \in Terminals)
    BY <1>1 DEF StartHand, AdaptersLeft, AbortHand, Tally, NextHand, Crash, Exit, Start, Listen, Forget, TypesOK
  <2>3. dealer' \in Seats
    <3>1. dealer \in Seats /\ 0 \in Seats
      BY <1>1 DEF TypesOK, Seats
    <3> QED
      BY <1>3, <3>1 DEF StartHand, AdaptersLeft, AbortHand, Tally, NextHand, Crash, Exit, Start, Listen, Forget
  <2> QED
    BY <1>1, <1>2, <2>1, <2>2, <2>3 DEF TypesOK
<1>5. OfThePast'
  <2> SUFFICES ASSUME NEW h \in DOMAIN files \cup DOMAIN rows
               PROVE  /\ h.boot <= boot'
                      /\ h.boot = boot' => /\ pc' \notin {"startup", "idle"}
                                           /\ pc' # "down" => h.index <= index'
                                           /\ pc' = "reserve" => h.index < index'
    BY <1>2 DEF OfThePast
  <2>1. PICK b \in Nat, i \in Nat : b = h.boot /\ i = h.index
    BY <1>1 DEF TypesOK, Hands
  <2>2. /\ b <= boot
        /\ b = boot => /\ pc \notin {"startup", "idle"}
                       /\ pc # "down" => i <= index
                       /\ pc = "reserve" => i < index
    BY <1>1, <2>1 DEF OfThePast
  <2>3. boot \in Nat /\ index \in Nat
    BY <1>1 DEF TypesOK
  <2>4. CASE Start
    BY <2>1, <2>2, <2>3, <2>4 DEF Start
  <2>5. CASE NextHand
    BY <2>1, <2>2, <2>3, <2>5 DEF NextHand
  <2>6. CASE StartHand \/ Listen
    BY <2>1, <2>2, <2>3, <2>6 DEF StartHand, Listen
  <2>7. CASE AdaptersLeft \/ AbortHand \/ Tally
    BY <2>1, <2>2, <2>3, <2>7 DEF AdaptersLeft, AbortHand, Tally
  <2>8. CASE Crash \/ Exit
    BY <2>1, <2>2, <2>3, <2>8 DEF Crash, Exit
  <2> QED
    BY <2>4, <2>5, <2>6, <2>7, <2>8
<1>6. FileKeepsPace'
  <2>1. CASE AdaptersLeft \/ AbortHand
    <3>1. UNCHANGED <<boot, index>> /\ Current' = Current /\ pc' = "finalize"
      BY <2>1 DEF AdaptersLeft, AbortHand, Current
    <3>2. AdaptersLeft => result' = result /\ pc = "left"
      BY DEF AdaptersLeft
    <3>3. AbortHand => result' = None
      BY DEF AbortHand
    <3> QED
      BY <1>1, <1>2, <2>1, <3>1, <3>2, <3>3 DEF FileKeepsPace
  <2>2. CASE ~(AdaptersLeft \/ AbortHand)
    <3>1. pc' \in {"reserve", "over", "between", "down", "startup", "idle"}
      BY <2>2 DEF StartHand, Tally, NextHand, Crash, Exit, Start, Listen
    <3> QED
      BY <3>1 DEF FileKeepsPace
  <2> QED
    BY <2>1, <2>2
<1> QED
  BY <1>2, <1>4, <1>5, <1>6, RecInvLoop

\* reserve_hand.
LEMMA StepReserve == ASSUME RecInv, Reserve PROVE RecInv'
<1>1. TypesOK /\ OfThePast /\ FileKeepsPace /\ Current \in Hands
  BY CurrentHand DEF RecInv
<1>2. UNCHANGED <<boot, index, dealer, result, files>> /\ pc = "reserve" /\ pc' = "open" /\ pc' \in Pcs /\ Current' = Current
  BY DEF Reserve, memory, Current, Pcs
<1>3. PICK b \in Nat, i \in Nat : b = boot /\ i = index /\ Current.boot = b /\ Current.index = i
  BY <1>1, CurrentHand DEF TypesOK
<1>4. \A h \in DOMAIN files \cup DOMAIN rows : h.boot <= b /\ (h.boot = b => h.index < i) /\ h.index \in Nat
  BY <1>1, <1>2, <1>3 DEF OfThePast, TypesOK, Hands
<1>5. Current \notin DOMAIN files \cup DOMAIN rows
  BY <1>3, <1>4
<1>6. DOMAIN rows' \subseteq DOMAIN rows \cup {Current} /\ failed \subseteq failed' /\ Current \in DOMAIN rows' \cup failed'
  BY DEF Reserve, Put
<1>7. OfThePast'
  <2>1. \A h \in DOMAIN files \cup DOMAIN rows' : h.boot <= b /\ (h.boot = b => h.index <= i)
    BY <1>3, <1>4, <1>6
  <2> QED
    BY <1>2, <1>3, <2>1 DEF OfThePast
<1>8. FileKeepsPace'
  BY <1>2, <1>5, <1>6 DEF FileKeepsPace
<1>9. CASE rows' = Put(rows, Current, LiveRow)
  <2>1. PICK row : row = LiveRow
    OBVIOUS
  <2>2. row \in RowSet /\ row.ended = FALSE /\ row.kind = None /\ row.winner = None
    <3>1. [s \in Seats |-> IF Account[s] = None THEN "canned" ELSE "human"] \in [Seats -> {"canned", "bot", "human"}]
      OBVIOUS
    <3>2. [s \in Seats |-> None] \in Scores
      BY DEF Scores, Unscored
    <3>3. boot \in Nat /\ dealer \in Seats
      BY <1>1 DEF TypesOK
    <3> QED
      BY <2>1, <3>1, <3>2, <3>3 DEF LiveRow, RowSet
  <2>3. /\ DOMAIN rows' = DOMAIN rows \cup {Current} /\ rows'[Current] = row
        /\ \A g \in DOMAIN rows : g # Current => rows'[g] = rows[g]
    BY <1>9, <2>1 DEF Put
  <2>4. rows' \in [DOMAIN rows' -> RowSet]
    <3>1. \A g \in DOMAIN rows : rows[g] \in RowSet
      BY <1>1 DEF TypesOK
    <3>2. rows' = [g \in DOMAIN rows \cup {Current} |-> IF g = Current THEN row ELSE rows[g]]
      BY <1>9, <2>1 DEF Put
    <3> QED
      BY <2>2, <2>3, <3>1, <3>2
  <2>5. row.kind \notin Kinds
    BY <2>2, NoneIsNoKind
  <2> QED
    BY <1>1, <1>2, <1>6, <1>7, <1>8, <2>2, <2>3, <2>4, <2>5, RecInvRow
<1>10. CASE rows' = rows
  <2>1. TypesOK'
    BY <1>1, <1>2, <1>10 DEF TypesOK
  <2> QED
    BY <1>2, <1>6, <1>7, <1>8, <1>10, <2>1, RecInvLoop
<1> QED
  BY <1>9, <1>10 DEF Reserve

\* The hand's file, from its opening to its footer.
LEMMA StepsOfTheFile ==
    ASSUME RecInv, OpenRecord \/ WriteHeader \/ WriteHandEnd \/ WriteFooter
    PROVE  RecInv' /\ (Current \in DOMAIN files => ~files[Current].footer)
           /\ \A g \in DOMAIN files : g # Current => files'[g] = files[g]
<1>1. TypesOK /\ OfThePast /\ FileKeepsPace /\ Current \in Hands
  BY CurrentHand DEF RecInv
<1>2. /\ UNCHANGED <<boot, index, dealer, rows, failed>> /\ Current' = Current
      /\ pc \in {"open", "header", "play", "footer"} /\ pc' \in {"header", "play", "footer", "left"}
  BY DEF OpenRecord, WriteHeader, WriteHandEnd, WriteFooter, memory, Current
<1>3. pc # "open" => Current \in DOMAIN files
  BY <1>1, <1>2 DEF FileKeepsPace
<1>4. Current \in DOMAIN rows \cup failed \cup DOMAIN files /\ (Current \in DOMAIN files => ~files[Current].footer)
  BY <1>1, <1>2 DEF FileKeepsPace
<1>5. OfThePast' /\ pc' \in Pcs
  <2>1. DOMAIN files' \subseteq DOMAIN files \cup {Current}
    BY DEF OpenRecord, WriteHeader, WriteHandEnd, WriteFooter, Put
  <2>2. PICK b \in Nat, i \in Nat : b = boot /\ i = index /\ Current.boot = b /\ Current.index = i
    BY <1>1, CurrentHand DEF TypesOK
  <2>3. \A h \in DOMAIN files \cup DOMAIN rows : h.boot <= b /\ (h.boot = b => h.index <= i)
    BY <1>1, <1>2, <2>2 DEF OfThePast
  <2>4. \A h \in DOMAIN files' \cup DOMAIN rows : h.boot <= b /\ (h.boot = b => h.index <= i)
    BY <2>1, <2>2, <2>3
  <2> QED
    BY <1>2, <2>2, <2>4 DEF OfThePast, Pcs
<1>6. ASSUME NEW file \in FileSet, files' = [files EXCEPT ![Current] = file], Current \in DOMAIN files
      PROVE  /\ DOMAIN files' = DOMAIN files \cup {Current} /\ files' \in [DOMAIN files' -> FileSet]
             /\ files'[Current] = file /\ \A g \in DOMAIN files : g # Current => files'[g] = files[g]
  BY <1>1, <1>6 DEF TypesOK
<1>7. CASE OpenRecord
  <2>1. PICK file \in FileSet : file = NoFile /\ file.footer = FALSE
    <3>1. NoFile \in FileSet /\ NoFile.footer = FALSE
      BY DEF NoFile, FileSet
    <3> QED
      BY <3>1
  <2>2. files' = [g \in DOMAIN files \cup {Current} |-> IF g = Current THEN file ELSE files[g]]
    BY <1>7, <2>1 DEF OpenRecord, Put
  <2>3. /\ DOMAIN files' = DOMAIN files \cup {Current} /\ files'[Current] = file
        /\ \A g \in DOMAIN files : g # Current => files'[g] = files[g]
    BY <2>2
  <2>4. files' \in [DOMAIN files' -> FileSet]
    BY <1>1, <2>2, <2>3 DEF TypesOK
  <2>5. pc' = "header" /\ result' = result
    BY <1>7 DEF OpenRecord, memory
  <2>6. FileKeepsPace'
    BY <1>2, <2>1, <2>3, <2>5 DEF FileKeepsPace
  <2>7. result' = None \/ result' \in Terminals
    BY <1>1, <2>5 DEF TypesOK
  <2> QED
    BY <1>2, <1>4, <1>5, <2>1, <2>3, <2>4, <2>6, <2>7, RecInvFile
<1>8. CASE WriteHeader
  <2>1. PICK f \in FileSet : f = files[Current] /\ Current \in DOMAIN files /\ f.footer = FALSE
    BY <1>1, <1>8 DEF TypesOK, FileKeepsPace, WriteHeader, FileSet
  <2>2. PICK file \in FileSet : file = [f EXCEPT !.header = TRUE, !.dealer = dealer] /\ file.header /\ file.footer = FALSE
    <3>1. dealer \in Seats
      BY <1>1 DEF TypesOK
    <3>2. [f EXCEPT !.header = TRUE, !.dealer = dealer] \in FileSet
      BY <3>1 DEF FileSet
    <3>3. [f EXCEPT !.header = TRUE, !.dealer = dealer].header /\ [f EXCEPT !.header = TRUE, !.dealer = dealer].footer = FALSE
      BY <2>1 DEF FileSet
    <3> QED
      BY <3>2, <3>3
  <2>3. files' = [files EXCEPT ![Current] = file]
    BY <1>8, <2>1, <2>2 DEF WriteHeader
  <2>4. pc' = "play" /\ result' = result
    BY <1>8 DEF WriteHeader, memory
  <2>5. /\ DOMAIN files' = DOMAIN files \cup {Current} /\ files' \in [DOMAIN files' -> FileSet]
        /\ files'[Current] = file /\ \A g \in DOMAIN files : g # Current => files'[g] = files[g]
    BY <1>6, <2>1, <2>3
  <2>6. FileKeepsPace'
    BY <1>2, <2>2, <2>4, <2>5 DEF FileKeepsPace
  <2>7. result' = None \/ result' \in Terminals
    BY <1>1, <2>4 DEF TypesOK
  <2> QED
    BY <1>2, <1>4, <1>5, <2>2, <2>5, <2>6, <2>7, RecInvFile
<1>9. CASE WriteHandEnd
  <2>1. PICK f \in FileSet : f = files[Current] /\ Current \in DOMAIN files /\ f.footer = FALSE /\ f.header
    BY <1>1, <1>9 DEF TypesOK, FileKeepsPace, WriteHandEnd, FileSet
  <2>2. PICK t \in Terminals : files' = [files EXCEPT ![Current].end = t] /\ result' = t
    BY <1>9 DEF WriteHandEnd
  <2>3. PICK file \in FileSet : file = [f EXCEPT !.end = t] /\ file.header /\ file.footer = FALSE /\ file.end = t
    BY <2>1, <2>2 DEF FileSet
  <2>4. files' = [files EXCEPT ![Current] = file] /\ pc' = "footer"
    BY <1>9, <2>1, <2>2, <2>3 DEF WriteHandEnd
  <2>5. /\ DOMAIN files' = DOMAIN files \cup {Current} /\ files' \in [DOMAIN files' -> FileSet]
        /\ files'[Current] = file /\ \A g \in DOMAIN files : g # Current => files'[g] = files[g]
    BY <1>6, <2>1, <2>4
  <2>6. FileKeepsPace'
    BY <1>2, <2>2, <2>3, <2>4, <2>5 DEF FileKeepsPace
  <2> QED
    BY <1>2, <1>4, <1>5, <2>2, <2>3, <2>5, <2>6, RecInvFile
<1>10. CASE WriteFooter
  <2>1. PICK f \in FileSet : f = files[Current] /\ Current \in DOMAIN files /\ f.header
                             /\ f.end = result /\ result \in Terminals
    BY <1>1, <1>10 DEF TypesOK, FileKeepsPace, WriteFooter
  <2>2. PICK file \in FileSet : file = [f EXCEPT !.footer = TRUE] /\ file.header /\ file.footer /\ file.end = result
    <3>1. [f EXCEPT !.footer = TRUE] \in FileSet
      BY DEF FileSet
    <3>2. [f EXCEPT !.footer = TRUE].footer /\ [f EXCEPT !.footer = TRUE].end = f.end
          /\ [f EXCEPT !.footer = TRUE].header = f.header
      BY DEF FileSet
    <3> QED
      BY <2>1, <3>1, <3>2
  <2>3. files' = [files EXCEPT ![Current] = file] /\ pc' = "left" /\ result' = result
    BY <1>10, <2>1, <2>2 DEF WriteFooter, memory
  <2>4. /\ DOMAIN files' = DOMAIN files \cup {Current} /\ files' \in [DOMAIN files' -> FileSet]
        /\ files'[Current] = file /\ \A g \in DOMAIN files : g # Current => files'[g] = files[g]
    BY <1>6, <2>1, <2>3
  <2>5. FileKeepsPace'
    BY <1>2, <2>1, <2>2, <2>3, <2>4 DEF FileKeepsPace
  <2>6. file.footer => file.header /\ file.end \in Terminals
    BY <2>1, <2>2
  <2>7. result' = None \/ result' \in Terminals
    BY <2>1, <2>3
  <2> QED
    BY <1>2, <1>4, <1>5, <2>4, <2>5, <2>6, <2>7, RecInvFile
<1> QED
  BY <1>7, <1>8, <1>9, <1>10

\* finalize_hand, _mark_in_progress_aborted and rebuild: one row of a hand that has one, or has a file.
LEMMA StepsOfARow ==
    ASSUME RecInv, Finalize \/ (\E h \in sweep : MarkAborted(h)) \/ (\E h \in DOMAIN files : RebuildFile(h))
    PROVE  RecInv'
<1>1. TypesOK /\ OfThePast /\ FileKeepsPace /\ Current \in Hands
  BY CurrentHand DEF RecInv
<1>2. UNCHANGED <<boot, index, dealer, result, files>> /\ failed \subseteq failed' /\ Current' = Current
  BY DEF Finalize, MarkAborted, RebuildFile, memory, Current
<1>3. /\ Finalize => pc = "finalize" /\ pc' \in {"over", "tally"}
      /\ \A h : MarkAborted(h) => pc = "startup" /\ pc' = "startup"
      /\ \A h : RebuildFile(h) => pc = "down" /\ pc' = "down"
  BY DEF Finalize, MarkAborted, RebuildFile
<1>4. pc' \in Pcs /\ FileKeepsPace'
  BY <1>3 DEF Pcs, LoopOver, FileKeepsPace
<1>5. ASSUME DOMAIN rows' \subseteq DOMAIN rows \cup DOMAIN files PROVE OfThePast'
  BY <1>1, <1>2, <1>3, <1>5 DEF OfThePast
<1>6. ASSUME rows' = rows PROVE RecInv'
  <2>1. TypesOK'
    BY <1>1, <1>2, <1>4, <1>6 DEF TypesOK
  <2> QED
    BY <1>2, <1>4, <1>5, <1>6, <2>1, RecInvLoop
<1>7. ASSUME NEW h \in Hands, NEW row \in RowSet, h \in DOMAIN rows \cup DOMAIN files,
             rows' = [g \in DOMAIN rows \cup {h} |-> IF g = h THEN row ELSE rows[g]],
             row.ended => row.kind \in Kinds, row.kind \notin Kinds \ {"ABORTED"} => row.winner = None,
             row.kind \in Kinds \ {"ABORTED"} =>
               /\ h \in DOMAIN files /\ files[h].footer /\ row.ended /\ row.checksum = "footer"
               /\ row.winner = files[h].end.winner /\ row.fan = files[h].end.fan
               /\ row.scores = files[h].end.delta /\ (row.kind = "HU") = (files[h].end.kind = "HU")
      PROVE  RecInv'
  <2>1. /\ DOMAIN rows' = DOMAIN rows \cup {h} /\ rows'[h] = row
        /\ \A g \in DOMAIN rows : g # h => rows'[g] = rows[g]
    BY <1>7
  <2>2. rows' \in [DOMAIN rows' -> RowSet]
    <3>1. \A g \in DOMAIN rows : rows[g] \in RowSet
      BY <1>1 DEF TypesOK
    <3> QED
      BY <1>7, <2>1, <3>1
  <2>3. OfThePast'
    BY <1>5, <1>7, <2>1
  <2> QED
    BY <1>2, <1>4, <1>7, <2>1, <2>2, <2>3, RecInvRow
<1>8. CASE Finalize
  <2>1. CASE Current \in DOMAIN rows /\ rows' = [rows EXCEPT ![Current] = Ended(@, Outcome(Current), Checksum(Current))]
    <3>1. PICK old \in RowSet : old = rows[Current]
      BY <1>1, <2>1 DEF TypesOK
    <3>2. PICK checksum \in {"", "footer"} : checksum = Checksum(Current)
      BY DEF Checksum
    <3>3. PICK out : out = Outcome(Current)
      OBVIOUS
    <3>4. /\ out.kind \in Kinds /\ out.winner \in Seats \cup {None} /\ out.fan \in Nat \cup {None} /\ out.scores \in Scores
          /\ out.kind = "ABORTED" => out.winner = None
          /\ out.kind # "ABORTED" =>
               /\ result # None /\ out.winner = result.winner /\ out.fan = result.fan /\ out.scores = result.delta
               /\ (out.kind = "HU") = (result.kind = "HU")
      <4>1. CASE result = None
        <5>1. out = [kind |-> "ABORTED", winner |-> None, fan |-> None, scores |-> NoPoints]
          BY <3>3, <4>1 DEF Outcome
        <5>2. NoPoints \in Scores
          BY DEF Scores
        <5> QED
          BY <5>1, <5>2 DEF Kinds
      <4>2. CASE result # None
        <5>1. PICK t \in Terminals : t = result
          BY <1>1, <4>2 DEF TypesOK
        <5>2. out = [kind |-> IF t.kind = "DRAW" THEN "EXHAUSTIVE_DRAW" ELSE t.kind,
                     winner |-> t.winner, fan |-> t.fan, scores |-> t.delta]
          BY <3>3, <4>2, <5>1 DEF Outcome
        <5>3. t.delta \in Scores
          BY DEF Scores
        <5>4. t.kind \in {"DRAW", "HU"} /\ t.winner \in Seats \cup {None} /\ t.fan \in Nat \cup {None}
          BY TerminalShape
        <5> QED
          BY <4>2, <5>1, <5>2, <5>3, <5>4 DEF Kinds
      <4> QED
        BY <4>1, <4>2
    <3>5. PICK row \in RowSet :
            /\ row = Ended(old, out, checksum)
            /\ row.ended = TRUE /\ row.kind = out.kind /\ row.winner = out.winner /\ row.fan = out.fan
            /\ row.checksum = checksum /\ row.scores = out.scores
      <4>1. PICK made : made = [old EXCEPT !.ended = TRUE, !.kind = out.kind, !.winner = out.winner, !.fan = out.fan,
                                           !.checksum = checksum, !.scores = out.scores]
        OBVIOUS
      <4>2. made \in RowSet
        BY <3>4, <4>1 DEF RowSet
      <4>3. /\ made.ended = TRUE /\ made.kind = out.kind /\ made.winner = out.winner /\ made.fan = out.fan
            /\ made.checksum = checksum /\ made.scores = out.scores
        BY <4>1 DEF RowSet
      <4> QED
        BY <4>1, <4>2, <4>3 DEF Ended
    <3>6. rows' = [g \in DOMAIN rows \cup {Current} |-> IF g = Current THEN row ELSE rows[g]]
      BY <2>1, <3>1, <3>2, <3>3, <3>5
    <3>7. result # None => Current \in DOMAIN files /\ files[Current].footer /\ files[Current].end = result
      BY <1>1, <1>3, <1>8 DEF FileKeepsPace
    <3>8. result # None => checksum = "footer"
      BY <3>2, <3>7 DEF Checksum
    <3>9. /\ row.ended => row.kind \in Kinds
          /\ row.kind \notin Kinds \ {"ABORTED"} => row.winner = None
          /\ row.kind \in Kinds \ {"ABORTED"} => row.kind = out.kind /\ result # None
      BY <3>4, <3>5
    <3>10. ASSUME row.kind \in Kinds \ {"ABORTED"}
           PROVE  /\ Current \in DOMAIN files /\ files[Current].footer /\ row.ended /\ row.checksum = "footer"
                  /\ row.winner = files[Current].end.winner /\ row.fan = files[Current].end.fan
                  /\ row.scores = files[Current].end.delta
                  /\ (row.kind = "HU") = (files[Current].end.kind = "HU")
      <4>1. result # None /\ out.kind # "ABORTED"
        BY <3>9, <3>10
      <4> QED
        BY <3>4, <3>5, <3>7, <3>8, <4>1
    <3>11. Current \in Hands
      BY <1>1, <2>1 DEF TypesOK
    <3> QED
      BY <1>7, <2>1, <3>6, <3>9, <3>10, <3>11
  <2>2. CASE rows' = rows
    BY <1>6, <2>2
  <2> QED
    BY <1>8, <2>1, <2>2 DEF Finalize
<1>9. ASSUME NEW h \in sweep, MarkAborted(h) PROVE RecInv'
  <2>1. CASE h \in DOMAIN rows /\ rows' = [rows EXCEPT ![h].ended = TRUE, ![h].kind = "ABORTED", ![h].winner = None,
                                  ![h].fan = None, ![h].checksum = ""]
    <3>1. PICK old \in RowSet : old = rows[h] /\ h \in Hands
      BY <1>1, <2>1 DEF TypesOK
    <3>2. PICK row \in RowSet :
            /\ row = [old EXCEPT !.ended = TRUE, !.kind = "ABORTED", !.winner = None, !.fan = None, !.checksum = ""]
            /\ row.kind = "ABORTED" /\ row.winner = None
      <4>1. PICK made :
              made = [old EXCEPT !.ended = TRUE, !.kind = "ABORTED", !.winner = None, !.fan = None, !.checksum = ""]
        OBVIOUS
      <4>2. "ABORTED" \in Kinds
        BY DEF Kinds
      <4>3. made \in RowSet
        BY <4>1, <4>2 DEF RowSet
      <4>4. made.kind = "ABORTED" /\ made.winner = None
        BY <4>1 DEF RowSet
      <4> QED
        BY <4>1, <4>3, <4>4
    <3>3. rows' = [g \in DOMAIN rows \cup {h} |-> IF g = h THEN row ELSE rows[g]]
      <4>1. rows' = [rows EXCEPT ![h] = row]
        BY <2>1, <3>1, <3>2
      <4>2. DOMAIN rows \cup {h} = DOMAIN rows
        BY <2>1
      <4>3. rows' = [g \in DOMAIN rows |-> IF g = h THEN row ELSE rows[g]]
        BY <4>1
      <4> QED
        BY <4>2, <4>3
    <3> QED
      BY <1>7, <2>1, <3>1, <3>2, <3>3 DEF Kinds
  <2>2. CASE rows' = rows
    BY <1>6, <2>2
  <2>3. CASE h \notin DOMAIN rows /\ rows' = [rows EXCEPT ![h].ended = TRUE, ![h].kind = "ABORTED", ![h].winner = None,
                                  ![h].fan = None, ![h].checksum = ""]
    <3>1. rows' = rows
      BY <1>1, <2>3 DEF TypesOK
    <3> QED
      BY <1>6, <3>1
  <2> QED
    BY <1>9, <2>1, <2>2, <2>3 DEF MarkAborted
<1>10. ASSUME NEW h \in DOMAIN files, RebuildFile(h) PROVE RecInv'
  <2>1. PICK f \in FileSet : f = files[h] /\ h \in Hands
    BY <1>1 DEF TypesOK
  <2>2. f.footer => f.end \in Terminals
    BY <2>1 DEF RecInv, FooterComplete
  <2>3. PICK t : t = RebuiltTerminal(f)
    OBVIOUS
  <2>4. /\ t.ended \in BOOLEAN /\ t.kind \in Kinds /\ t.winner \in Seats \cup {None} /\ t.fan \in Nat \cup {None}
        /\ t.checksum \in {"", "footer", None} /\ t.scores \in Scores
        /\ t.kind = "ABORTED" => t.winner = None
        /\ t.kind # "ABORTED" =>
             /\ f.footer /\ t.ended = TRUE /\ t.checksum = "footer" /\ t.winner = f.end.winner /\ t.fan = f.end.fan
             /\ t.scores = f.end.delta /\ t.kind = f.end.kind
    <3>1. CASE f.footer
      <4>1. PICK e \in Terminals : e = f.end
        BY <2>2, <3>1
      <4>2. t = [ended |-> TRUE, kind |-> e.kind, winner |-> e.winner, fan |-> e.fan,
                 checksum |-> "footer", scores |-> e.delta]
        BY <2>3, <3>1, <4>1 DEF RebuiltTerminal
      <4>3. e.kind \in {"DRAW", "HU"} /\ e.winner \in Seats \cup {None} /\ e.fan \in Nat \cup {None} /\ e.delta \in Scores
        BY TerminalShape DEF Scores
      <4> QED
        BY <3>1, <4>1, <4>2, <4>3 DEF Kinds
    <3>2. CASE ~f.footer
      <4>1. t = [ended |-> FALSE, kind |-> "ABORTED", winner |-> None, fan |-> None,
                 checksum |-> None, scores |-> Unscored]
        BY <2>3, <3>2 DEF RebuiltTerminal, Unscored
      <4> QED
        BY <4>1 DEF Kinds, Scores
    <3> QED
      BY <3>1, <3>2
  <2>5. PICK row \in RowSet :
          /\ row = RebuiltRow(h)
          /\ row.ended = t.ended /\ row.kind = t.kind /\ row.winner = t.winner /\ row.fan = t.fan
          /\ row.checksum = t.checksum /\ row.scores = t.scores
    <3>1. RebuiltSeatKind \in [Seats -> {"canned", "bot", "human"}] /\ f.dealer \in Seats \cup {None}
      BY DEF RebuiltSeatKind, FileSet
    <3>2. RebuiltRow(h) = [match |-> None, dealer |-> f.dealer, seatKind |-> RebuiltSeatKind,
                           ended |-> t.ended, kind |-> t.kind, winner |-> t.winner, fan |-> t.fan,
                           checksum |-> t.checksum, scores |-> t.scores]
      BY <2>1, <2>3 DEF RebuiltRow
    <3> QED
      <4>1. PICK made : made = RebuiltRow(h)
        OBVIOUS
      <4>2. made \in RowSet
        <5>1. PICK b \in BOOLEAN : b = t.ended
          BY <2>4
        <5>2. PICK k \in Kinds, c \in {"", "footer", None}, points \in Scores :
                k = t.kind /\ c = t.checksum /\ points = t.scores
          BY <2>4
        <5>3. PICK w \in Seats \cup {None}, n \in Nat \cup {None}, d \in Seats \cup {None},
                   kinds \in [Seats -> {"canned", "bot", "human"}] :
                w = t.winner /\ n = t.fan /\ d = f.dealer /\ kinds = RebuiltSeatKind
          BY <2>4, <3>1
        <5>4. made = [match |-> None, dealer |-> d, seatKind |-> kinds, ended |-> b, kind |-> k,
                      winner |-> w, fan |-> n, checksum |-> c, scores |-> points]
          BY <3>2, <4>1, <5>1, <5>2, <5>3
        <5> QED
          BY <5>4 DEF RowSet
      <4>3. /\ made.ended = t.ended /\ made.kind = t.kind /\ made.winner = t.winner /\ made.fan = t.fan
            /\ made.checksum = t.checksum /\ made.scores = t.scores
        BY <3>2, <4>1
      <4> QED
        BY <4>1, <4>2, <4>3
  <2>6. rows' = [g \in DOMAIN rows \cup {h} |-> IF g = h THEN row ELSE rows[g]]
    BY <1>10, <2>5 DEF RebuildFile, Put
  <2> QED
    BY <1>7, <2>1, <2>4, <2>5, <2>6
<1> QED
  BY <1>8, <1>9, <1>10

LEMMA RecInvStep == RecInv /\ [Next]_vars => RecInv'
<1> SUFFICES ASSUME RecInv, [Next]_vars PROVE RecInv'
  OBVIOUS
<1>1. CASE UNCHANGED vars
  BY <1>1 DEF vars, memory, RecInv, TypesOK, OfThePast, FileKeepsPace, FooterComplete, RowsTellTruth, Sealed,
              OrphanedFiles, Current
<1> QED
  BY <1>1, StepsInMemory, StepReserve, StepsOfTheFile, StepsOfARow DEF Next, ServerStep

-----------------------------------------------------------------------------
(* The order of the hands, and the pages it is cut into.                   *)

LEMMA InOrder ==
    ASSUME NEW g \in Hands, NEW h \in Hands, NEW k \in Hands
    PROVE  /\ ~Before(g, g) /\ (Before(g, h) => ~Before(h, g))
           /\ (Before(g, h) /\ Before(h, k) => Before(g, k))
           /\ (g = h \/ Before(g, h) \/ Before(h, g))
<1>1. PICK gb \in Nat, gi \in Nat : g = [boot |-> gb, index |-> gi] /\ g.boot = gb /\ g.index = gi
  BY DEF Hands
<1>2. PICK hb \in Nat, hi \in Nat : h = [boot |-> hb, index |-> hi] /\ h.boot = hb /\ h.index = hi
  BY DEF Hands
<1>3. PICK kb \in Nat, ki \in Nat : k.boot = kb /\ k.index = ki
  BY DEF Hands
<1>4. ~Before(g, g) /\ (Before(g, h) => ~Before(h, g)) /\ (Before(g, h) /\ Before(h, k) => Before(g, k))
  BY <1>1, <1>2, <1>3 DEF Before
<1>5. gb = hb /\ gi = hi => g = h
  BY <1>1, <1>2
<1>6. (gb = hb /\ gi = hi) \/ Before(g, h) \/ Before(h, g)
  BY <1>1, <1>2 DEF Before
<1> QED
  BY <1>4, <1>5, <1>6

LEMMA EarliestExists ==
    ASSUME NEW S \in SUBSET Hands, S # {} PROVE \E h \in S : \A g \in S : ~Before(g, h)
<1>1. \A h \in S : h.boot \in Nat /\ h.index \in Nat
  BY DEF Hands
<1>2. PICK boots : boots = {h.boot : h \in S}
  OBVIOUS
<1>20. boots \in SUBSET Nat /\ boots # {}
  BY <1>1, <1>2
<1>3. PICK b \in boots : \A c \in boots : b <= c
  BY <1>20, LeastNumber
<1>4. PICK numbers : numbers = {h.index : h \in {k \in S : k.boot = b}}
  OBVIOUS
<1>40. numbers \in SUBSET Nat /\ numbers # {}
  BY <1>1, <1>2, <1>4
<1>5. PICK i \in numbers : \A j \in numbers : i <= j
  BY <1>40, LeastNumber
<1>6. PICK h \in S : h.boot = b /\ h.index = i
  BY <1>4
<1>7. \A g \in S : b <= g.boot /\ (g.boot = b => i <= g.index)
  BY <1>2, <1>3, <1>4, <1>5
<1>8. b \in Nat /\ i \in Nat
  BY <1>20, <1>40
<1> QED
  BY <1>1, <1>6, <1>7, <1>8 DEF Before

Later(S, h) == {g \in S : Before(h, g)}

LEMMA RankDrops ==
    ASSUME NEW S \in SUBSET Hands, IsFiniteSet(S), NEW h \in S, NEW g \in S
    PROVE  /\ Cardinality(Later(S, h)) \in Nat
           /\ Before(h, g) => Cardinality(Later(S, g)) < Cardinality(Later(S, h))
<1>1. IsFiniteSet(Later(S, h)) /\ IsFiniteSet(Later(S, g))
  BY FS_Subset DEF Later
<1>2. Cardinality(Later(S, h)) \in Nat /\ Cardinality(Later(S, g)) \in Nat
  BY <1>1, FS_CardinalityType
<1>3. ASSUME Before(h, g) PROVE Cardinality(Later(S, g)) < Cardinality(Later(S, h))
  <2>1. g \notin Later(S, g) /\ Later(S, g) \cup {g} \subseteq Later(S, h)
    BY <1>3, InOrder DEF Later
  <2>2. Cardinality(Later(S, g) \cup {g}) = Cardinality(Later(S, g)) + 1
    BY <1>1, <2>1, FS_AddElement
  <2>3. Cardinality(Later(S, g) \cup {g}) <= Cardinality(Later(S, h))
    BY <1>1, <2>1, FS_Subset
  <2> QED
    BY <1>2, <2>2, <2>3
<1> QED
  BY <1>2, <1>3

LEMMA LatestExists ==
    ASSUME NEW S \in SUBSET Hands, IsFiniteSet(S), NEW T \in SUBSET S, T # {}
    PROVE  \E h \in T : \A g \in T : ~Before(h, g)
<1>1. PICK ranks : ranks = {Cardinality(Later(S, h)) : h \in T}
  OBVIOUS
<1>10. ranks \in SUBSET Nat /\ ranks # {}
  BY <1>1, RankDrops
<1>2. PICK k \in ranks : \A m \in ranks : k <= m
  BY <1>10, LeastNumber
<1>3. PICK h \in T : Cardinality(Later(S, h)) = k
  BY <1>1
<1>4. ASSUME NEW g \in T, Before(h, g) PROVE FALSE
  <2>1. PICK m \in Nat : m = Cardinality(Later(S, g)) /\ m < k
    BY <1>3, <1>4, RankDrops
  <2>2. k <= m /\ k \in Nat
    BY <1>1, <1>10, <1>2, <2>1
  <2> QED
    BY <2>1, <2>2
<1> QED
  BY <1>4

LatestOf(S, n) == {h \in S : Cardinality(Later(S, h)) < n}

\* A page that leaves something out is full, and leaves out what is before its
\* earliest hand.
LEMMA PageCut ==
    ASSUME NEW S \in SUBSET Hands, IsFiniteSet(S), NEW n \in Nat \ {0}
    PROVE  /\ Cardinality(LatestOf(S, n)) # n => LatestOf(S, n) = S
           /\ Cardinality(LatestOf(S, n)) = n =>
                \E o \in LatestOf(S, n) : /\ o = Earliest(LatestOf(S, n))
                                          /\ \A h \in S : h \notin LatestOf(S, n) <=> Before(h, o)
<1>0. PICK page : page = {h \in S : Cardinality(Later(S, h)) < n} /\ page = LatestOf(S, n)
  BY DEF LatestOf
<1>1. IsFiniteSet(page) /\ page \subseteq S /\ Cardinality(page) \in Nat
  BY <1>0, FS_Subset, FS_CardinalityType
<1>2. ASSUME page # {}
      PROVE  /\ Earliest(page) \in page /\ \A g \in page : ~Before(g, Earliest(page))
             /\ Cardinality(page) <= n
  <2>1. page \in SUBSET Hands
    BY <1>1
  <2>2. \E h \in page : \A g \in page : ~Before(g, h)
    BY <1>2, <2>1, EarliestExists
  <2>3. PICK o \in page : o = Earliest(page) /\ \A g \in page : ~Before(g, o)
    BY <2>2 DEF Earliest
  <2>4. PICK r \in Nat : r = Cardinality(Later(S, o)) /\ r < n
    BY <1>0, <1>1, <2>3, RankDrops
  <2>5. IsFiniteSet(Later(S, o)) /\ o \notin Later(S, o) /\ page \subseteq Later(S, o) \cup {o}
    <3>1. \A g \in page : g \in S /\ g \in Hands
      BY <1>1, <2>1
    <3>2. \A g \in page : g = o \/ Before(o, g)
      BY <2>3, <3>1, InOrder
    <3> QED
      BY <2>3, <3>1, <3>2, InOrder, FS_Subset DEF Later
  <2>6. Cardinality(Later(S, o) \cup {o}) = Cardinality(Later(S, o)) + 1 /\ IsFiniteSet(Later(S, o) \cup {o})
    BY <2>5, FS_AddElement
  <2>7. Cardinality(page) <= Cardinality(Later(S, o) \cup {o})
    BY <2>5, <2>6, FS_Subset
  <2>8. Cardinality(page) <= n
    BY <1>1, <2>4, <2>6, <2>7
  <2> QED
    BY <2>3, <2>8
<1>3. ASSUME page # S PROVE Cardinality(page) = n
  <2>1. S \ page \in SUBSET S /\ S \ page # {}
    BY <1>1, <1>3
  <2>2. PICK h \in S \ page : \A g \in S \ page : ~Before(h, g)
    BY <2>1, LatestExists
  <2>3. Later(S, h) \subseteq page
    BY <2>2 DEF Later
  <2>4. PICK r \in Nat : r = Cardinality(Later(S, h)) /\ r >= n
    BY <1>0, <2>2, RankDrops
  <2>5. Cardinality(Later(S, h)) <= Cardinality(page)
    BY <1>1, <2>3, FS_Subset
  <2>6. page # {}
    <3> SUFFICES ASSUME page = {} PROVE FALSE
      OBVIOUS
    <3>1. Cardinality(page) = 0
      BY FS_EmptySet
    <3> QED
      BY <2>4, <2>5, <3>1
  <2> QED
    BY <1>1, <1>2, <2>4, <2>5, <2>6
<1>4. ASSUME Cardinality(page) = n
      PROVE  \E o \in page : o = Earliest(page) /\ \A h \in S : h \notin page <=> Before(h, o)
  <2>1. page # {}
    BY <1>4, FS_EmptySet
  <2>2. PICK o \in page : o = Earliest(page) /\ \A g \in page : ~Before(g, o)
    BY <1>2, <2>1
  <2>3. ASSUME NEW h \in S \ page PROVE Before(h, o)
    <3>0. PICK r \in Nat : r = Cardinality(Later(S, h)) /\ r >= n
      BY <1>0, <2>3, RankDrops
    <3>1. PICK q \in Nat : q = Cardinality(Later(S, o)) /\ q < n
      BY <1>0, <1>1, <2>2, RankDrops
    <3>2. ~Before(o, h)
      <4> SUFFICES ASSUME Before(o, h) PROVE FALSE
        OBVIOUS
      <4>1. Cardinality(Later(S, h)) < Cardinality(Later(S, o))
        BY <1>1, <2>2, <2>3, RankDrops
      <4> QED
        BY <3>0, <3>1, <4>1
    <3> QED
      BY <1>1, <2>2, <2>3, <3>2, InOrder
  <2> QED
    BY <1>0, <1>1, <2>2, <2>3
<1> QED
  BY <1>0, <1>3, <1>4

LEMMA PagesFit == RecInv => PagesPartition
<1> SUFFICES ASSUME RecInv, NEW a \in Accounts, NEW cursor \in {None} \cup DOMAIN rows, NEW n \in PageSizes
             PROVE  LET page == FindHands(a, cursor, n)
                        next == NextCursor(page, n)
                        rest == IF next = None THEN {} ELSE Earlier(a, next)
                    IN page \cap rest = {} /\ page \cup rest = Earlier(a, cursor)
  BY DEF PagesPartition
<1>0. PICK page, next, rest :
        /\ page = FindHands(a, cursor, n) /\ next = NextCursor(page, n)
        /\ rest = IF next = None THEN {} ELSE Earlier(a, next)
  OBVIOUS
<1>1. n \in Nat \ {0}
  BY HistoryAssumption
<1>2. DOMAIN rows \in SUBSET Hands /\ IsFiniteSet(DOMAIN rows)
  BY DEF RecInv, TypesOK
<1>3. PICK S : S = Earlier(a, cursor)
  OBVIOUS
<1>4. S \subseteq HandsOf(a) /\ HandsOf(a) \subseteq DOMAIN rows /\ S \in SUBSET Hands /\ IsFiniteSet(S)
  <2>1. S \subseteq HandsOf(a) /\ HandsOf(a) \subseteq DOMAIN rows
    BY <1>3 DEF Earlier, HandsOf
  <2>2. S \subseteq DOMAIN rows
    BY <2>1
  <2> QED
    BY <1>2, <2>1, <2>2, FS_Subset
<1>5. page = LatestOf(S, n) /\ page \subseteq S
  BY <1>0, <1>3 DEF FindHands, LatestOf, Later
<1>6. next = IF Cardinality(page) = n THEN Earliest(page) ELSE None
  BY <1>0 DEF NextCursor
<1>7. ASSUME Cardinality(page) # n PROVE page \cap rest = {} /\ page \cup rest = S
  <2>1. page = S
    BY <1>1, <1>4, <1>5, <1>7, PageCut
  <2>2. rest = {}
    BY <1>0, <1>6, <1>7
  <2> QED
    BY <1>3, <2>1, <2>2
<1>8. ASSUME Cardinality(page) = n PROVE page \cap rest = {} /\ page \cup rest = S
  <2>1. PICK o \in page : o = Earliest(page) /\ \A h \in S : h \notin page <=> Before(h, o)
    BY <1>1, <1>4, <1>5, <1>8, PageCut
  <2>2. o \in DOMAIN rows /\ o \in Hands /\ o \in S /\ o # None
    BY <1>2, <1>4, <1>5, HistoryAssumption DEF Hands
  <2>3. rest = Earlier(a, o)
    BY <1>0, <1>6, <1>8, <2>1, <2>2
  <2>4. rest = {h \in HandsOf(a) : Before(h, o)}
    BY <2>2, <2>3 DEF Earlier
  <2>5. ASSUME NEW h \in HandsOf(a), Before(h, o) PROVE h \in S
    <3>1. h \in Hands
      BY <1>2, <1>4
    <3>2. CASE cursor = None
      BY <1>3, <3>2 DEF Earlier
    <3>3. CASE cursor # None
      <4>1. cursor \in Hands /\ Before(o, cursor)
        BY <1>2, <1>3, <2>2, <3>3 DEF Earlier
      <4>2. Before(h, cursor)
        BY <2>2, <2>5, <3>1, <4>1, InOrder
      <4> QED
        BY <1>3, <3>3, <4>2 DEF Earlier
    <3> QED
      BY <3>2, <3>3
  <2>6. rest = S \ page
    BY <1>4, <2>1, <2>4, <2>5
  <2> QED
    BY <1>3, <1>5, <2>6
<1> QED
  BY <1>0, <1>3, <1>7, <1>8

LEMMA RowsAgree == RecInv => HistoryTellsTruth
<1> SUFFICES ASSUME RecInv, NEW a \in Accounts, NEW h \in HandsOf(a)
             PROVE  LET row == HistoryRow(a, h)
                        seen == Replay(a, "user", h)
                    IN /\ row.won = (<<h, row.seat>> \in Wins(a))
                       /\ (FromDataDir /\ row.kind \in {"HU", "EXHAUSTIVE_DRAW", "DRAW"}) =>
                            /\ seen.status = "ok" /\ seen.winner = seen.end.winner /\ seen.fan = seen.end.fan
                            /\ row.won = (seen.end.winner = row.seat) /\ row.delta = seen.end.delta[row.seat]
  BY DEF HistoryTellsTruth
<1>1. h \in DOMAIN rows /\ SeatsOf(a) # {}
  BY DEF HandsOf
<1>2. PICK s \in Seats : s = SeatOf(a) /\ Account[s] = a /\ s # None
  <2>1. SeatsOf(a) \in SUBSET Nat
    BY DEF SeatsOf, Seats
  <2>2. \E s \in SeatsOf(a) : \A t \in SeatsOf(a) : s <= t
    BY <1>1, <2>1, LeastNumber
  <2>3. SeatOf(a) \in SeatsOf(a)
    BY <1>1, <2>2 DEF SeatOf
  <2>4. \A t \in Seats : t \in Int
    BY DEF Seats
  <2> QED
    BY <2>3, <2>4, HistoryAssumption DEF SeatsOf
<1>3. PICK r \in RowSet : r = rows[h]
  BY <1>1 DEF RecInv, TypesOK
<1>4. PICK row : row = HistoryRow(a, h)
  OBVIOUS
<1>5. /\ row.seat = s /\ row.kind = r.kind /\ row.delta = r.scores[s]
      /\ row.won = (r.kind = "HU" /\ r.winner = s)
  BY <1>2, <1>3, <1>4 DEF HistoryRow
<1>6. ASSUME r.kind \in Kinds \ {"ABORTED"}
      PROVE  /\ h \in DOMAIN files /\ Loadable(files[h]) /\ r.ended /\ files[h].end \in Terminals
             /\ r.winner = files[h].end.winner /\ r.fan = files[h].end.fan /\ r.scores = files[h].end.delta
             /\ (r.kind = "HU") = (files[h].end.kind = "HU")
  BY <1>1, <1>3, <1>6 DEF RecInv, RowsTellTruth, FooterComplete, Loadable, Kinds
<1>7. r.kind \notin Kinds \ {"ABORTED"} => r.winner = None
  BY <1>1, <1>3 DEF RecInv, Sealed
<1>8. \A t \in Terminals : (t.kind # "HU" => t.winner = None) /\ t.delta[s] # None
  <2>1. ASSUME NEW t \in Terminals PROVE t.kind # "HU" => t.winner = None
    BY <2>1 DEF Terminals, Draw, Won
  <2>2. ASSUME NEW t \in Terminals PROVE t.delta[s] # None
    <3>1. t.delta \in [Seats -> Int]
      BY TerminalShape DEF Points
    <3>2. t.delta[s] \in Int
      BY <3>1
    <3> QED
      BY <3>2, HistoryAssumption
  <2> QED
    BY <2>1, <2>2
<1>9. (r.kind = "HU" /\ r.winner = s) <=> <<h, s>> \in Wins(a)
  <2>1. <<h, s>> \in Wins(a) <=> r.ended /\ r.scores[s] # None /\ r.winner = s
    BY <1>1, <1>2, <1>3 DEF Wins, Counted
  <2>2. r.kind = "HU" => r.kind \in Kinds \ {"ABORTED"}
    BY DEF Kinds
  <2>3. r.winner = s => r.kind \in Kinds \ {"ABORTED"}
    BY <1>2, <1>7
  <2>4. r.kind \in Kinds \ {"ABORTED"} => r.ended /\ r.scores[s] # None
    BY <1>6, <1>8
  <2>5. r.kind \in Kinds \ {"ABORTED"} /\ r.winner = s => r.kind = "HU"
    BY <1>2, <1>6, <1>8
  <2> QED
    BY <2>1, <2>2, <2>3, <2>4, <2>5
<1>10. ASSUME FromDataDir, row.kind \in {"HU", "EXHAUSTIVE_DRAW", "DRAW"}, NEW seen, seen = Replay(a, "user", h)
       PROVE  /\ seen.status = "ok" /\ seen.winner = seen.end.winner /\ seen.fan = seen.end.fan
              /\ row.won = (seen.end.winner = row.seat) /\ row.delta = seen.end.delta[row.seat]
  <2>1. r.kind \in Kinds \ {"ABORTED"}
    BY <1>5, <1>10 DEF Kinds
  <2>2. PICK e \in Terminals : e = files[h].end /\ r.winner = e.winner /\ r.fan = e.fan /\ r.scores = e.delta
                              /\ (r.kind = "HU") = (e.kind = "HU")
    BY <1>6, <2>1
  <2>3. seen = [status |-> "ok", seat |-> s, end |-> e, winner |-> r.winner, fan |-> r.fan]
    BY <1>1, <1>2, <1>3, <1>6, <1>10, <2>1, <2>2 DEF Replay, Found
  <2>4. e.winner = s => e.kind = "HU"
    BY <1>2, <1>8
  <2>5. (r.kind = "HU" /\ r.winner = s) <=> e.winner = s
    BY <2>2, <2>4
  <2>6. row.won = (e.winner = s)
    BY <1>5, <2>5
  <2> QED
    BY <1>5, <2>2, <2>3, <2>6
<1> QED
  BY <1>4, <1>5, <1>9, <1>10

\* The last point of the curve is the hand no counted hand is later than.
LEMMA CurveEnds == RecInv => SeriesEndsOnTotal
<1> SUFFICES ASSUME RecInv, NEW a \in Accounts, NEW C, C = Counted(a), Cardinality(C) \in 1 .. 200,
                    NEW series, series = ScoreSeries(a, 200)
             PROVE  \E p \in DOMAIN series : series[p] = SumOf(C)
  BY DEF SeriesEndsOnTotal
<1>1. DOMAIN rows \in SUBSET Hands /\ IsFiniteSet(DOMAIN rows)
  BY DEF RecInv, TypesOK
<1>2. C \subseteq (DOMAIN rows) \X Seats /\ IsFiniteSet(C) /\ C # {}
  <2>1. C \subseteq (DOMAIN rows) \X Seats
    BY DEF Counted
  <2>2. IsFiniteSet(Seats)
    <3>1. 0 \in Int /\ 3 \in Int
      OBVIOUS
    <3> QED
      BY <3>1, FS_Interval DEF Seats
  <2>3. IsFiniteSet((DOMAIN rows) \X Seats)
    BY <1>1, <2>2, FS_Product
  <2>4. IsFiniteSet(C)
    BY <2>1, <2>3, FS_Subset
  <2> QED
    BY <2>1, <2>4, FS_EmptySet
<1>3. PICK T : T = {p[1] : p \in C}
  OBVIOUS
<1>30. T \in SUBSET DOMAIN rows /\ T # {}
  BY <1>2, <1>3
<1>4. PICK h \in T : \A g \in T : ~Before(h, g)
  BY <1>1, <1>30, LatestExists
<1>5. PICK p \in C : p[1] = h
  BY <1>3
<1>6. \A q \in C : ~Before(p[1], q[1])
  BY <1>3, <1>4, <1>5
<1>7. ASSUME NEW q \in C PROVE Cardinality({r \in C : Before(q[1], r[1])}) < 200
  <2>1. PICK D : D = {r \in C : Before(q[1], r[1])}
    OBVIOUS
  <2>2. q \notin D /\ D \cup {q} \subseteq C
    BY <1>1, <1>2, <2>1, InOrder
  <2>3. IsFiniteSet(D)
    BY <1>2, <2>2, FS_Subset
  <2>4. Cardinality(D \cup {q}) = Cardinality(D) + 1 /\ Cardinality(D) \in Nat
    BY <2>2, <2>3, FS_AddElement, FS_CardinalityType
  <2>5. Cardinality(D \cup {q}) <= Cardinality(C)
    BY <1>2, <2>2, FS_Subset
  <2> QED
    BY <2>1, <2>4, <2>5
<1>8. series = [q \in C |-> SumOf({r \in C : ~Before(q[1], r[1])})]
  <2>1. {q \in C : Cardinality({r \in C : Before(q[1], r[1])}) < 200} = C
    BY <1>7
  <2> QED
    BY <2>1 DEF ScoreSeries
<1>9. {r \in C : ~Before(p[1], r[1])} = C
  BY <1>6
<1>10. p \in DOMAIN series /\ series[p] = SumOf(C)
  BY <1>5, <1>8, <1>9
<1> QED
  BY <1>10

\* A win or a draw is in the index only next to a complete record that says the
\* same, down to the points; an account is shown each of its hands once, as it
\* is counted and as its recording ends (_finalize_hand_row, the startup sweep
\* and the rebuild; the history, the profile and the replays of an account).
THEOREM TruthTheorem == Spec => []IndexTellsTruth
<1>1. RecInv => IndexTellsTruth
  BY PagesFit, RowsAgree, CurveEnds DEF RecInv, IndexTellsTruth
<1> QED
  BY <1>1, RecInvInit, RecInvStep, PTL DEF Spec

\* What integrity_check calls an orphan is a hand whose row could not be written,
\* and what it calls missing or corrupt was aborted.
THEOREM ReportTheorem == Spec => []ReportIsFair
<1>1. RecInv => ReportIsFair
  <2> SUFFICES ASSUME RecInv, NEW h \in MissingFiles \cup ChecksumMismatches PROVE rows[h].kind = "ABORTED"
    BY DEF ReportIsFair, RecInv
  <2>1. h \in DOMAIN rows /\ rows[h].kind \in Kinds
    BY DEF RecInv, Sealed, MissingFiles, ChecksumMismatches
  <2>2. rows[h].kind \in Kinds \ {"ABORTED"} =>
          h \in DOMAIN files /\ files[h].footer /\ rows[h].checksum = "footer"
    BY <2>1 DEF RecInv, Sealed, RowsTellTruth, Kinds, Loadable
  <2> QED
    BY <2>1, <2>2 DEF MissingFiles, ChecksumMismatches
<1> QED
  BY <1>1, RecInvInit, RecInvStep, PTL DEF Spec

\* No later hand, run or rebuild writes to a complete record again: hand ids carry
\* the boot they are of (RecordWriter opens for writing, whatever is there).
THEOREM RecordsTheorem == Spec => RecordsStand
<1>1. RecInv /\ [Next]_vars => [\A h \in DOMAIN files : files[h].footer => files'[h] = files[h]]_files
  <2> SUFFICES ASSUME RecInv, [Next]_vars, NEW h \in DOMAIN files, files[h].footer, files' # files
               PROVE  files'[h] = files[h]
    OBVIOUS
  <2>1. OpenRecord \/ WriteHeader \/ WriteHandEnd \/ WriteFooter
    BY DEF Next, ServerStep, vars, memory, StartHand, Reserve, AdaptersLeft, Finalize, Tally, NextHand, MarkAborted,
           Listen, AbortHand, Crash, Exit, Start, RebuildFile
  <2> QED
    BY <2>1, StepsOfTheFile
<1> QED
  BY <1>1, RecInvInit, RecInvStep, PTL DEF Spec, RecordsStand

-----------------------------------------------------------------------------
(* What a sum over a finite set is, in whatever order its elements are     *)
(* taken.                                                                  *)

Some(s) == CHOOSE x \in s : TRUE

\* g sums up F over each set of T, and over what is left when one element is taken.
Adds(F, T, g) == g = [s \in T |-> IF s = {} THEN 0 ELSE F[Some(s)] + g[s \ {Some(s)}]]
UpTo(S, n) == {s \in SUBSET S : Cardinality(s) <= n}
SumOver(F, S) == MapThenSumSet(LAMBDA x : F[x], S)

LEMMA SomeIn == ASSUME NEW s, s # {} PROVE Some(s) \in s
  BY DEF Some

LEMMA OneLess ==
    ASSUME NEW S, IsFiniteSet(S), NEW s \in SUBSET S, NEW x \in s
    PROVE  /\ s \ {x} \in SUBSET S /\ Cardinality(s) \in Nat /\ Cardinality(s) # 0
           /\ Cardinality(s \ {x}) = Cardinality(s) - 1
<1>1. IsFiniteSet(s)
  BY FS_Subset
<1>2. Cardinality(s \ {x}) = Cardinality(s) - 1
  BY <1>1, FS_RemoveElement
<1>3. Cardinality(s) \in Nat
  BY <1>1, FS_CardinalityType
<1>4. Cardinality(s) # 0
  BY <1>1, FS_EmptySet
<1> QED
  BY <1>2, <1>3, <1>4

LEMMA AddsExists == ASSUME NEW F, NEW S, IsFiniteSet(S) PROVE \E g : Adds(F, SUBSET S, g)
<1> DEFINE Done(n) == \E g : Adds(F, UpTo(S, n), g)
<1>1. \A n \in Nat : Done(n)
  <2> SUFFICES ASSUME NEW Bad, Bad = {n \in Nat : ~Done(n)}, Bad # {} PROVE FALSE
    OBVIOUS
  <2>1. PICK k \in Bad : \A m \in Bad : k <= m
    BY LeastNumber
  <2>2. k \in Nat /\ ~Done(k)
    OBVIOUS
  <2>3. CASE k = 0
    <3>1. \A s \in UpTo(S, 0) : s = {}
      <4> SUFFICES ASSUME NEW s \in UpTo(S, 0), NEW x \in s PROVE FALSE
        OBVIOUS
      <4>1. s \in SUBSET S /\ Cardinality(s) <= 0
        BY DEF UpTo
      <4>2. Cardinality(s) \in Nat /\ Cardinality(s) # 0
        BY <4>1, OneLess
      <4> QED
        BY <4>1, <4>2
    <3>2. PICK g : g = [s \in UpTo(S, 0) |-> 0]
      OBVIOUS
    <3>3. g = [s \in UpTo(S, 0) |-> IF s = {} THEN 0 ELSE F[Some(s)] + g[s \ {Some(s)}]]
      BY <3>1, <3>2
    <3> QED
      BY <2>2, <2>3, <3>3 DEF Adds
  <2>4. CASE k # 0
    <3>1. k - 1 \in Nat /\ k - 1 \notin Bad
      BY <2>1, <2>2, <2>4
    <3>2. PICK h : Adds(F, UpTo(S, k - 1), h)
      BY <3>1
    <3>3. PICK g : g = [s \in UpTo(S, k) |-> IF s = {} THEN 0 ELSE F[Some(s)] + h[s \ {Some(s)}]]
      OBVIOUS
    <3>4. ASSUME NEW s \in UpTo(S, k), s # {} PROVE g[s \ {Some(s)}] = h[s \ {Some(s)}]
      <4>1. s \in SUBSET S /\ Cardinality(s) <= k /\ Some(s) \in s
        BY <3>4, SomeIn DEF UpTo
      <4>2. PICK t : t = s \ {Some(s)}
        OBVIOUS
      <4>3. t \in SUBSET S /\ Cardinality(t) = Cardinality(s) - 1 /\ Cardinality(s) \in Nat
        BY <4>1, <4>2, OneLess
      <4>4. t \in UpTo(S, k - 1) /\ t \in UpTo(S, k)
        BY <4>1, <4>3, <2>2 DEF UpTo
      <4>5. h[t] = IF t = {} THEN 0 ELSE F[Some(t)] + h[t \ {Some(t)}]
        BY <3>2, <4>4 DEF Adds
      <4>6. g[t] = IF t = {} THEN 0 ELSE F[Some(t)] + h[t \ {Some(t)}]
        BY <3>3, <4>4
      <4> QED
        BY <4>2, <4>5, <4>6
    <3>5. g = [s \in UpTo(S, k) |-> IF s = {} THEN 0 ELSE F[Some(s)] + g[s \ {Some(s)}]]
      BY <3>3, <3>4
    <3> QED
      BY <2>2, <3>5 DEF Adds
  <2> QED
    BY <2>3, <2>4
<1>2. UpTo(S, Cardinality(S)) = SUBSET S /\ Cardinality(S) \in Nat
  <2>1. \A s \in SUBSET S : Cardinality(s) <= Cardinality(S)
    BY FS_Subset
  <2> QED
    BY <2>1, FS_CardinalityType DEF UpTo
<1>3. Done(Cardinality(S))
  BY <1>1, <1>2
<1> QED
  BY <1>2, <1>3

LEMMA SumUnfolds ==
    ASSUME NEW F, NEW S, IsFiniteSet(S)
    PROVE  \E g : Adds(F, SUBSET S, g) /\ SumOver(F, S) = g[S]
<1> DEFINE It == CHOOSE g : g = [s \in SUBSET S |-> IF s = {} THEN 0 ELSE F[CHOOSE x \in s : TRUE] + g[s \ {CHOOSE x \in s : TRUE}]]
<1>1. SumOver(F, S) = It[S]
  BY DEF SumOver, MapThenSumSet, MapThenFoldSet
<1>2. \E g : g = [s \in SUBSET S |-> IF s = {} THEN 0 ELSE F[CHOOSE x \in s : TRUE] + g[s \ {CHOOSE x \in s : TRUE}]]
  <2>1. PICK g : Adds(F, SUBSET S, g)
    BY AddsExists
  <2> QED
    BY <2>1 DEF Adds, Some
<1>3. It = [s \in SUBSET S |-> IF s = {} THEN 0 ELSE F[CHOOSE x \in s : TRUE] + It[s \ {CHOOSE x \in s : TRUE}]]
  BY <1>2
<1>4. Adds(F, SUBSET S, It)
  BY <1>3 DEF Adds, Some
<1> QED
  BY <1>1, <1>4

\* Two sums that agree on what they add.
LEMMA SameAdds ==
    ASSUME NEW F, NEW G, NEW S, NEW T, IsFiniteSet(S), NEW g, NEW h,
           Adds(F, SUBSET S, g), Adds(G, SUBSET T, h),
           NEW s \in SUBSET S, s \in SUBSET T, \A x \in s : F[x] = G[x]
    PROVE  g[s] = h[s]
<1> SUFFICES ASSUME NEW Bad, Bad = {r \in SUBSET s : g[r] # h[r]}, Bad # {} PROVE FALSE
  <2>1. {r \in SUBSET s : g[r] # h[r]} = {}
    OBVIOUS
  <2>2. s \in SUBSET s
    OBVIOUS
  <2> QED
    BY <2>1, <2>2
<1>1. PICK N : N = {Cardinality(r) : r \in Bad}
  OBVIOUS
<1>2. N \in SUBSET Nat /\ N # {}
  <2>1. \A r \in Bad : IsFiniteSet(r)
    BY FS_Subset
  <2>2. \A r \in Bad : Cardinality(r) \in Nat
    BY <2>1, FS_CardinalityType
  <2> QED
    BY <1>1, <2>2
<1>3. PICK k \in N : \A m \in N : k <= m
  BY <1>2, LeastNumber
<1>4. PICK r \in Bad : Cardinality(r) = k
  BY <1>1
<1>5. r \in SUBSET S /\ r \in SUBSET T /\ g[r] # h[r]
  OBVIOUS
<1>6. /\ g[r] = IF r = {} THEN 0 ELSE F[Some(r)] + g[r \ {Some(r)}]
      /\ h[r] = IF r = {} THEN 0 ELSE G[Some(r)] + h[r \ {Some(r)}]
  BY <1>5 DEF Adds
<1>7. r # {} /\ Some(r) \in r
  BY <1>5, <1>6, SomeIn
<1>8. PICK t : t = r \ {Some(r)}
  OBVIOUS
<1>9. Cardinality(t) = Cardinality(r) - 1 /\ Cardinality(r) \in Nat
  BY <1>5, <1>7, <1>8, OneLess
<1>10. t \notin Bad
  BY <1>1, <1>2, <1>3, <1>4, <1>9
<1>11. g[t] = h[t]
  BY <1>8, <1>10
<1> QED
  BY <1>5, <1>6, <1>7, <1>8, <1>11

LEMMA SumAgrees ==
    ASSUME NEW F, NEW G, NEW S, IsFiniteSet(S), \A x \in S : F[x] = G[x]
    PROVE  SumOver(F, S) = SumOver(G, S)
<1>1. PICK g : Adds(F, SUBSET S, g) /\ SumOver(F, S) = g[S]
  BY SumUnfolds
<1>2. PICK h : Adds(G, SUBSET S, h) /\ SumOver(G, S) = h[S]
  BY SumUnfolds
<1>3. g[S] = h[S]
  BY <1>1, <1>2, SameAdds
<1> QED
  BY <1>1, <1>2, <1>3

LEMMA SumOfNone == ASSUME NEW F PROVE SumOver(F, {}) = 0
<1>1. PICK g : Adds(F, SUBSET {}, g) /\ SumOver(F, {}) = g[{}]
  BY FS_EmptySet, SumUnfolds
<1> QED
  BY <1>1 DEF Adds

\* In whatever order they are taken: any element may be taken first.
LEMMA AnyFirst ==
    ASSUME NEW F, NEW S, IsFiniteSet(S), \A x \in S : F[x] \in Int, NEW g, Adds(F, SUBSET S, g)
    PROVE  \A s \in SUBSET S : g[s] \in Int /\ \A x \in s : g[s] = F[x] + g[s \ {x}]
<1> DEFINE Fine(s) == g[s] \in Int /\ \A x \in s : g[s] = F[x] + g[s \ {x}]
<1> HIDE DEF Fine
<1> SUFFICES ASSUME NEW Bad, Bad = {r \in SUBSET S : ~Fine(r)}, Bad # {} PROVE FALSE
  <2>1. {r \in SUBSET S : ~Fine(r)} = {}
    OBVIOUS
  <2>2. \A s \in SUBSET S : Fine(s)
    BY <2>1
  <2> QED
    BY <2>2 DEF Fine
<1>1. PICK N : N = {Cardinality(r) : r \in Bad}
  OBVIOUS
<1>2. N \in SUBSET Nat /\ N # {}
  <2>1. \A r \in Bad : IsFiniteSet(r)
    BY FS_Subset
  <2>2. \A r \in Bad : Cardinality(r) \in Nat
    BY <2>1, FS_CardinalityType
  <2> QED
    BY <1>1, <2>2
<1>3. PICK k \in N : \A m \in N : k <= m
  BY <1>2, LeastNumber
<1>4. PICK r \in Bad : Cardinality(r) = k
  BY <1>1
<1>5. r \in SUBSET S /\ ~Fine(r)
  OBVIOUS
<1>6. g[r] = IF r = {} THEN 0 ELSE F[Some(r)] + g[r \ {Some(r)}]
  BY <1>5 DEF Adds
<1>7. r # {}
  BY <1>5, <1>6 DEF Fine
<1>8. PICK y \in r : y = Some(r)
  BY <1>7, SomeIn
<1>9. ASSUME NEW t \in SUBSET r, NEW x \in r, x \notin t PROVE Fine(t)
  <2>1. PICK u : u = r \ {x}
    OBVIOUS
  <2>2. Cardinality(u) = Cardinality(r) - 1 /\ Cardinality(r) \in Nat
    BY <1>5, <2>1, OneLess
  <2>3. t \subseteq u /\ IsFiniteSet(u)
    BY <1>5, <1>9, <2>1, FS_Subset
  <2>4. Cardinality(t) <= Cardinality(u) /\ Cardinality(t) \in Nat
    BY <2>3, FS_Subset, FS_CardinalityType
  <2>5. ~(k <= Cardinality(t))
    BY <1>4, <2>2, <2>4
  <2>6. t \notin Bad /\ t \in SUBSET S
    BY <1>1, <1>3, <1>5, <1>9, <2>5
  <2> QED
    BY <2>6
<1>10. g[r] = F[y] + g[r \ {y}] /\ g[r \ {y}] \in Int /\ F[y] \in Int
  BY <1>5, <1>6, <1>7, <1>8, <1>9 DEF Fine
<1>11. ASSUME NEW x \in r, x # y PROVE g[r] = F[x] + g[r \ {x}]
  <2>1. PICK a, b, c : a = r \ {x} /\ b = r \ {y} /\ c = r \ {x, y}
    OBVIOUS
  <2>2. Fine(a) /\ Fine(b) /\ Fine(c)
    BY <1>9, <2>1
  <2>3. a \ {y} = c /\ b \ {x} = c /\ y \in a /\ x \in b
    BY <1>11, <2>1
  <2>4. g[a] = F[y] + g[c] /\ g[b] = F[x] + g[c] /\ g[c] \in Int
    BY <2>2, <2>3 DEF Fine
  <2>5. F[x] \in Int
    BY <1>5
  <2> QED
    BY <1>10, <2>1, <2>4, <2>5
<1>12. Fine(r)
  <2>1. g[r] \in Int
    BY <1>10
  <2>2. \A x \in r : g[r] = F[x] + g[r \ {x}]
    BY <1>10, <1>11
  <2> QED
    BY <2>1, <2>2 DEF Fine
<1> QED
  BY <1>5, <1>12

LEMMA SumAdds ==
    ASSUME NEW F, NEW S, IsFiniteSet(S), NEW x, x \notin S, \A y \in S \cup {x} : F[y] \in Int
    PROVE  SumOver(F, S \cup {x}) = SumOver(F, S) + F[x]
<1>1. PICK T : T = S \cup {x}
  OBVIOUS
<1>2. IsFiniteSet(T) /\ T \ {x} = S /\ x \in T /\ S \in SUBSET T
  BY <1>1, FS_AddElement
<1>3. PICK g : Adds(F, SUBSET T, g) /\ SumOver(F, T) = g[T]
  BY <1>2, SumUnfolds
<1>4. PICK h : Adds(F, SUBSET S, h) /\ SumOver(F, S) = h[S]
  BY SumUnfolds
<1>5. g[S] = h[S]
  BY <1>2, <1>3, <1>4, SameAdds
<1>6. g[T] = F[x] + g[S] /\ g[S] \in Int
  <2>1. \A y \in T : F[y] \in Int
    BY <1>1
  <2>2. T \in SUBSET T
    OBVIOUS
  <2>3. \A s \in SUBSET T : g[s] \in Int /\ \A y \in s : g[s] = F[y] + g[s \ {y}]
    <3>1. IsFiniteSet(T) /\ Adds(F, SUBSET T, g)
      BY <1>2, <1>3
    <3> QED
      BY <3>1, <2>1, AnyFirst
  <2> QED
    BY <1>2, <2>2, <2>3
<1>7. F[x] \in Int
  OBVIOUS
<1> QED
  BY <1>1, <1>3, <1>4, <1>5, <1>6, <1>7

\* Of the rows of an index, the points of a seat.
PointsIn(f, s) == [h \in DOMAIN f |-> f[h].scores[s]]
LEMMA SumOfRows ==
    ASSUME NEW f, NEW s, NEW S, IsFiniteSet(S), S \subseteq DOMAIN f
    PROVE  MapThenSumSet(LAMBDA h : f[h].scores[s], S) = SumOver(PointsIn(f, s), S)
<1> DEFINE It == CHOOSE g : g = [r \in SUBSET S |-> IF r = {} THEN 0
                                  ELSE f[CHOOSE x \in r : TRUE].scores[s] + g[r \ {CHOOSE x \in r : TRUE}]]
<1>1. MapThenSumSet(LAMBDA h : f[h].scores[s], S) = It[S]
  BY DEF MapThenSumSet, MapThenFoldSet
<1>2. PICK F : F = PointsIn(f, s)
  OBVIOUS
<1>3. \A x \in S : F[x] = f[x].scores[s]
  BY <1>2 DEF PointsIn
<1>4. ASSUME NEW r \in SUBSET S, r # {} PROVE F[CHOOSE x \in r : TRUE] = f[CHOOSE x \in r : TRUE].scores[s]
  BY <1>3, <1>4
<1>5. PICK g : Adds(F, SUBSET S, g) /\ SumOver(F, S) = g[S]
  BY SumUnfolds
<1>6. g = [r \in SUBSET S |-> IF r = {} THEN 0
                            ELSE f[CHOOSE x \in r : TRUE].scores[s] + g[r \ {CHOOSE x \in r : TRUE}]]
  BY <1>4, <1>5 DEF Adds, Some
<1>7. It = [r \in SUBSET S |-> IF r = {} THEN 0
                            ELSE f[CHOOSE x \in r : TRUE].scores[s] + It[r \ {CHOOSE x \in r : TRUE}]]
  BY <1>6
<1> HIDE DEF It
<1>8. Adds(F, SUBSET S, It)
  <2>1. It = [r \in SUBSET S |-> IF r = {} THEN 0
                              ELSE F[CHOOSE x \in r : TRUE] + It[r \ {CHOOSE x \in r : TRUE}]]
    BY <1>4, <1>7
  <2> QED
    BY <2>1 DEF Adds, Some
<1>9. It[S] = g[S]
  BY <1>5, <1>8, SameAdds
<1> QED
  BY <1>1, <1>2, <1>5, <1>9

-----------------------------------------------------------------------------
TallyInv == totals \in Points /\ Total(totals) = 0 /\ (pc = "tally" => result # None)

LEMMA NothingBalances == NoPoints \in Points /\ Total(NoPoints) = 0
  BY DEF NoPoints, Points, Total, Seats

LEMMA RecordHandBalances ==
    ASSUME NEW a \in Points, NEW b \in Points, Total(a) = 0, Total(b) = 0
    PROVE  RecordHand(a, b) \in Points /\ Total(RecordHand(a, b)) = 0
<1>1. 0 \in Seats /\ 1 \in Seats /\ 2 \in Seats /\ 3 \in Seats
  BY DEF Seats
<1>2. \A s \in Seats : a[s] \in Int /\ b[s] \in Int /\ RecordHand(a, b)[s] = a[s] + b[s]
  BY DEF Points, RecordHand
<1>3. RecordHand(a, b) \in Points
  BY <1>2 DEF RecordHand, Points
<1> QED
  BY <1>1, <1>2, <1>3 DEF Total

LEMMA TallyInvStep == RecInv /\ TallyInv /\ [Next]_vars => TallyInv'
<1> SUFFICES ASSUME RecInv, TallyInv, [Next]_vars PROVE TallyInv'
  OBVIOUS
<1>1. CASE Tally
  <2>1. PICK t \in Terminals : t = result
    BY <1>1 DEF TallyInv, Tally, RecInv, TypesOK
  <2>2. totals' = RecordHand(totals, t.delta) /\ pc' # "tally"
    BY <1>1, <2>1 DEF Tally
  <2>3. t.delta \in Points /\ Total(t.delta) = 0
    BY TerminalShape
  <2>4. RecordHand(totals, t.delta) \in Points /\ Total(RecordHand(totals, t.delta)) = 0
    BY <2>3, RecordHandBalances DEF TallyInv
  <2> QED
    BY <2>2, <2>4 DEF TallyInv
<1>2. CASE Finalize
  BY <1>2 DEF Finalize, memory, TallyInv
<1>3. CASE Crash \/ Exit
  <2>1. totals' = NoPoints /\ pc' = "down"
    BY <1>3 DEF Crash, Exit, Forget
  <2> QED
    BY <2>1, NothingBalances DEF TallyInv
<1>4. CASE StartHand \/ Reserve \/ OpenRecord \/ WriteHeader \/ WriteHandEnd \/ WriteFooter \/ AdaptersLeft \/ AbortHand
  BY <1>4 DEF TallyInv, memory, StartHand, Reserve, OpenRecord, WriteHeader, WriteHandEnd, WriteFooter, AdaptersLeft,
              AbortHand
<1>5. CASE NextHand \/ Start \/ Listen \/ (\E h \in sweep : MarkAborted(h)) \/ (\E h \in DOMAIN files : RebuildFile(h))
  BY <1>5 DEF TallyInv, memory, NextHand, Start, Listen, MarkAborted, RebuildFile
<1>6. CASE UNCHANGED vars
  BY <1>6 DEF vars, memory, TallyInv
<1> QED
  BY <1>1, <1>2, <1>3, <1>4, <1>5, <1>6 DEF Next, ServerStep

\* Points are moved between the seats, never made: the standings and every row of
\* the index add up to zero (record_hand, _finalize_hand_row, score_delta).
THEOREM PointsTheorem == Spec => []PointsMove
<1>1. RecInv /\ TallyInv => PointsMove
  <2> SUFFICES ASSUME RecInv, NEW h \in DOMAIN rows, None \notin {rows[h].scores[s] : s \in Seats}
               PROVE  Total(rows[h].scores) = 0
    BY DEF PointsMove, TallyInv
  <2>1. PICK points \in Scores : points = rows[h].scores
    BY DEF RecInv, TypesOK, RowSet
  <2>2. points # Unscored
    <3> SUFFICES ASSUME points = Unscored PROVE FALSE
      OBVIOUS
    <3>1. 0 \in Seats /\ points[0] = None
      BY DEF Unscored, Seats
    <3> QED
      BY <2>1, <3>1
  <2>3. Total(points) = 0
    <3>1. points = NoPoints \/ \E t \in Terminals : points = t.delta
      BY <2>2 DEF Scores
    <3>2. \A t \in Terminals : Total(t.delta) = 0
      BY TerminalShape
    <3>3. CASE points = NoPoints
      BY <3>3, NothingBalances
    <3>4. ASSUME NEW t \in Terminals, points = t.delta PROVE Total(points) = 0
      <4>1. Total(t.delta) = 0
        BY <3>2
      <4> QED
        BY <3>4, <4>1 DEF Total
    <3> QED
      BY <3>1, <3>3, <3>4
  <2> QED
    BY <2>1, <2>3
<1>2. Init => TallyInv
  BY NothingBalances DEF Init, TallyInv
<1> QED
  BY <1>1, <1>2, RecInvInit, RecInvStep, TallyInvStep, PTL DEF Spec

-----------------------------------------------------------------------------
(* What an account has earned.                                             *)

Above(N, n) == {m \in N : m > n}

LEMMA GreatestNumber ==
    ASSUME NEW N \in SUBSET Nat, IsFiniteSet(N), N # {} PROVE Max(N) \in N /\ \A m \in N : m <= Max(N)
<1>1. ASSUME NEW n \in N, NEW m \in N
      PROVE  /\ Cardinality(Above(N, n)) \in Nat
             /\ m > n => Cardinality(Above(N, m)) < Cardinality(Above(N, n))
  <2>1. IsFiniteSet(Above(N, n)) /\ IsFiniteSet(Above(N, m))
    BY FS_Subset DEF Above
  <2>2. Cardinality(Above(N, n)) \in Nat /\ Cardinality(Above(N, m)) \in Nat
    BY <2>1, FS_CardinalityType
  <2>3. ASSUME m > n PROVE Cardinality(Above(N, m)) < Cardinality(Above(N, n))
    <3>0. ~(m > m) /\ \A x \in N : x > m => x > n
      <4>1. m \in Nat /\ n \in Nat /\ \A x \in N : x \in Nat
        OBVIOUS
      <4> QED
        BY <2>3, <4>1
    <3>1. m \notin Above(N, m) /\ Above(N, m) \cup {m} \subseteq Above(N, n)
      BY <2>3, <3>0 DEF Above
    <3>2. Cardinality(Above(N, m) \cup {m}) = Cardinality(Above(N, m)) + 1
      BY <2>1, <3>1, FS_AddElement
    <3>3. Cardinality(Above(N, m) \cup {m}) <= Cardinality(Above(N, n))
      BY <2>1, <3>1, FS_Subset
    <3> QED
      BY <2>2, <3>2, <3>3
  <2> QED
    BY <2>2, <2>3
<1>2. PICK ranks : ranks = {Cardinality(Above(N, n)) : n \in N}
  OBVIOUS
<1>3. ranks \in SUBSET Nat /\ ranks # {}
  BY <1>1, <1>2
<1>4. PICK k \in ranks : \A r \in ranks : k <= r
  BY <1>3, LeastNumber
<1>5. PICK n \in N : Cardinality(Above(N, n)) = k
  BY <1>2
<1>6. ASSUME NEW m \in N, m > n PROVE FALSE
  <2>1. PICK r \in Nat : r = Cardinality(Above(N, m)) /\ r < k
    BY <1>1, <1>5, <1>6
  <2>2. k <= r /\ k \in Nat
    BY <1>2, <1>3, <1>4, <2>1
  <2> QED
    BY <2>1, <2>2
<1>7. n \in N /\ \A m \in N : n >= m
  BY <1>6
<1> QED
  BY <1>7 DEF Max

\* A larger set has the larger maximum.
LEMMA MaxGrows ==
    ASSUME NEW N \in SUBSET Nat, IsFiniteSet(N), NEW M \in SUBSET N, M # {} PROVE Max(M) <= Max(N)
<1>1. IsFiniteSet(M) /\ N # {} /\ M \in SUBSET Nat
  BY FS_Subset
<1>2. Max(M) \in N
  BY <1>1, GreatestNumber
<1> QED
  BY <1>1, <1>2, GreatestNumber

-----------------------------------------------------------------------------
(***************************************************************************)
(* An open row has no scores, so closing it as aborted counts it nowhere;  *)
(* the hand of the loop is open, and so is what the sweep still has before *)
(* it.                                                                     *)
(***************************************************************************)
Playing == {"open", "header", "play", "footer", "left", "finalize"}
OpenInv ==
    /\ \A h \in DOMAIN rows : ~rows[h].ended => \A s \in Seats : rows[h].scores[s] = None
    /\ pc \in Playing /\ Current \in DOMAIN rows => ~rows[Current].ended
    /\ \A h \in sweep : pc = "startup" /\ h \in DOMAIN rows /\ ~rows[h].ended

LEMMA OpenInvInit == Init => OpenInv
  BY DEF Init, OpenInv, Playing

LEMMA OpenInvStep == RecInv /\ OpenInv /\ [Next]_vars => OpenInv'
<1> SUFFICES ASSUME RecInv, OpenInv, [Next]_vars PROVE OpenInv'
  OBVIOUS
<1>1. CASE Reserve
  <2>0. PICK row : row = LiveRow
    OBVIOUS
  <2>1. row = LiveRow /\ row.ended = FALSE /\ \A s \in Seats : row.scores[s] = None
    BY <2>0 DEF LiveRow
  <2>2. UNCHANGED <<boot, index, sweep>> /\ Current' = Current /\ pc = "reserve"
    BY <1>1 DEF Reserve, memory, Current
  <2>3. CASE Current \notin DOMAIN rows /\ rows' = Put(rows, Current, LiveRow)
    <3>1. DOMAIN rows' = DOMAIN rows \cup {Current} /\ rows'[Current] = row /\ \A h \in DOMAIN rows : rows'[h] = rows[h]
      BY <2>1, <2>3 DEF Put
    <3> QED
      BY <2>1, <2>2, <3>1 DEF OpenInv
  <2>4. CASE UNCHANGED rows /\ Current \notin DOMAIN rows
    BY <2>2, <2>4 DEF OpenInv
  <2>5. Current \notin DOMAIN rows
    <3>1. Current.boot = boot /\ Current.index = index /\ index \in Nat
      BY CurrentHand DEF RecInv, TypesOK
    <3> QED
      BY <2>2, <3>1 DEF RecInv, OfThePast
  <2> QED
    BY <1>1, <2>3, <2>4, <2>5 DEF Reserve
<1>2. CASE Finalize
  <2>1. pc' \notin Playing /\ pc = "finalize" /\ UNCHANGED <<boot, index, sweep>>
    BY <1>2 DEF Finalize, memory, Playing
  <2>2. sweep = {}
    BY <2>1 DEF OpenInv
  <2>3. CASE Current \in DOMAIN rows /\ rows' = [rows EXCEPT ![Current] = Ended(@, Outcome(Current), Checksum(Current))]
    <3>1. PICK old \in RowSet : old = rows[Current]
      BY <2>3 DEF RecInv, TypesOK
    <3>2. Ended(old, Outcome(Current), Checksum(Current)).ended = TRUE
      BY DEF Ended, RowSet
    <3>3. DOMAIN rows' = DOMAIN rows /\ rows'[Current].ended /\ \A h \in DOMAIN rows : h # Current => rows'[h] = rows[h]
      BY <2>3, <3>1, <3>2
    <3> QED
      BY <2>1, <2>2, <3>3 DEF OpenInv
  <2>4. CASE UNCHANGED rows
    BY <2>1, <2>2, <2>4 DEF OpenInv
  <2> QED
    BY <1>2, <2>3, <2>4 DEF Finalize
<1>3. ASSUME NEW h \in sweep, MarkAborted(h) PROVE OpenInv'
  <2>1. pc' = "startup" /\ sweep' = sweep \ {h} /\ pc' \notin Playing /\ h \in DOMAIN rows
    BY <1>3 DEF MarkAborted, Playing, OpenInv
  <2>2. CASE UNCHANGED rows
    BY <2>1, <2>2 DEF OpenInv
  <2>3. CASE rows' = [rows EXCEPT ![h].ended = TRUE, ![h].kind = "ABORTED", ![h].winner = None,
                                  ![h].fan = None, ![h].checksum = ""]
    <3>1. PICK old \in RowSet : old = rows[h]
      BY <2>1 DEF RecInv, TypesOK
    <3>2. PICK row : row = [old EXCEPT !.ended = TRUE, !.kind = "ABORTED", !.winner = None, !.fan = None, !.checksum = ""]
      OBVIOUS
    <3>3. row.ended
      BY <3>2 DEF RowSet
    <3>4. DOMAIN rows' = DOMAIN rows /\ rows'[h] = row /\ \A g \in DOMAIN rows : g # h => rows'[g] = rows[g]
      BY <2>1, <2>3, <3>1, <3>2
    <3> QED
      BY <2>1, <3>3, <3>4 DEF OpenInv
  <2> QED
    BY <1>3, <2>2, <2>3 DEF MarkAborted
<1>4. ASSUME NEW h \in DOMAIN files, RebuildFile(h) PROVE OpenInv'
  <2>1. pc' = "down" /\ pc' \notin Playing /\ sweep' = sweep /\ sweep = {}
    BY <1>4 DEF RebuildFile, memory, Playing, OpenInv
  <2>2. PICK row : row = RebuiltRow(h)
    OBVIOUS
  <2>3. ~row.ended => \A s \in Seats : row.scores[s] = None
    BY <2>2 DEF RebuiltRow, RebuiltTerminal
  <2>4. DOMAIN rows' = DOMAIN rows \cup {h} /\ rows'[h] = row /\ \A g \in DOMAIN rows : g # h => rows'[g] = rows[g]
    BY <1>4, <2>2 DEF RebuildFile, Put
  <2> QED
    BY <2>1, <2>3, <2>4 DEF OpenInv
<1>5. CASE StartHand \/ Listen \/ Tally
  BY <1>5 DEF OpenInv, memory, StartHand, Listen, Tally, Playing
<1>6. CASE OpenRecord \/ WriteHeader \/ WriteHandEnd \/ WriteFooter \/ AdaptersLeft \/ AbortHand
  BY <1>6 DEF OpenInv, memory, OpenRecord, WriteHeader, WriteHandEnd, WriteFooter, AdaptersLeft, AbortHand, Playing, Current
<1>7. CASE NextHand \/ Crash \/ Exit \/ Start
  BY <1>7 DEF OpenInv, memory, NextHand, Crash, Exit, Forget, Start, InProgress, Playing, Current
<1>8. CASE UNCHANGED vars
  BY <1>8 DEF OpenInv, vars, memory, Current
<1> QED
  BY <1>1, <1>2, <1>3, <1>4, <1>5, <1>6, <1>7, <1>8 DEF Next, ServerStep

-----------------------------------------------------------------------------
(* Who closes an open row.                                                 *)

\* While the server runs, a hand that is open in the index has somebody to close
\* it: the hand loop that plays it, or the startup that has yet to come to it.
\* The others are those a write to the index failed for.
OpenRowsOwned ==
    pc # "down" =>
        \A h \in DOMAIN rows : ~rows[h].ended =>
            h \in failed \/ h \in sweep \/ (h = Current /\ pc \in Playing)

LEMMA OwnedStep == RecInv /\ OpenInv /\ OpenRowsOwned /\ [Next]_vars => OpenRowsOwned'
<1> SUFFICES ASSUME RecInv, OpenInv, OpenRowsOwned, [Next]_vars PROVE OpenRowsOwned'
  OBVIOUS
<1>1. CASE Reserve
  <2>1. /\ UNCHANGED <<boot, index, sweep>> /\ Current' = Current
        /\ pc = "reserve" /\ pc' \in Playing /\ failed \subseteq failed'
    BY <1>1 DEF Reserve, memory, Current, Playing
  <2>2. \A h \in DOMAIN rows : ~rows[h].ended => h \in failed \/ h \in sweep
    BY <2>1 DEF OpenRowsOwned, Playing
  <2>3. CASE Current \notin DOMAIN rows /\ rows' = Put(rows, Current, LiveRow)
    <3>1. \A h \in DOMAIN rows' : h # Current => h \in DOMAIN rows /\ rows'[h] = rows[h]
      BY <2>3 DEF Put
    <3> QED
      BY <2>1, <2>2, <3>1 DEF OpenRowsOwned
  <2>4. CASE UNCHANGED rows
    BY <2>1, <2>2, <2>4 DEF OpenRowsOwned
  <2> QED
    BY <1>1, <2>3, <2>4 DEF Reserve
<1>2. CASE Finalize
  <2>1. /\ UNCHANGED <<boot, index, sweep>> /\ pc = "finalize" /\ failed \subseteq failed'
    BY <1>2 DEF Finalize, memory
  <2>2. \A h \in DOMAIN rows : ~rows[h].ended => h \in failed \/ h \in sweep \/ h = Current
    BY <2>1 DEF OpenRowsOwned
  <2>3. CASE /\ Current \in DOMAIN rows
             /\ rows' = [rows EXCEPT ![Current] = Ended(@, Outcome(Current), Checksum(Current))]
    <3>1. PICK row \in RowSet : row = rows[Current]
      BY <2>3 DEF RecInv, TypesOK
    <3>2. Ended(row, Outcome(Current), Checksum(Current)).ended
      BY DEF Ended, RowSet
    <3>3. DOMAIN rows' = DOMAIN rows /\ rows'[Current].ended
          /\ \A h \in DOMAIN rows : h # Current => rows'[h] = rows[h]
      BY <2>3, <3>1, <3>2
    <3> QED
      BY <2>1, <2>2, <3>3 DEF OpenRowsOwned
  <2>4. CASE UNCHANGED rows /\ (Current \notin DOMAIN rows \/ Current \in failed')
    BY <2>1, <2>2, <2>4 DEF OpenRowsOwned
  <2> QED
    BY <1>2, <2>3, <2>4 DEF Finalize
<1>3. ASSUME NEW h \in sweep, MarkAborted(h) PROVE OpenRowsOwned'
  <2>1. /\ pc = "startup" /\ sweep' = sweep \ {h} /\ h \in DOMAIN rows /\ failed \subseteq failed'
    BY <1>3 DEF MarkAborted, OpenInv
  <2>2. \A g \in DOMAIN rows : ~rows[g].ended => g \in failed \/ g \in sweep
    BY <2>1 DEF OpenRowsOwned, Playing
  <2>3. CASE UNCHANGED rows /\ h \in failed'
    BY <2>1, <2>2, <2>3 DEF OpenRowsOwned
  <2>4. CASE rows' = [rows EXCEPT ![h].ended = TRUE, ![h].kind = "ABORTED", ![h].winner = None,
                                  ![h].fan = None, ![h].checksum = ""]
    <3>1. PICK old \in RowSet : old = rows[h]
      BY <2>1 DEF RecInv, TypesOK
    <3>2. PICK row : row = [old EXCEPT !.ended = TRUE, !.kind = "ABORTED", !.winner = None,
                                       !.fan = None, !.checksum = ""]
      OBVIOUS
    <3>3. row.ended
      BY <3>2 DEF RowSet
    <3>4. DOMAIN rows' = DOMAIN rows /\ rows'[h] = row
          /\ \A g \in DOMAIN rows : g # h => rows'[g] = rows[g]
      BY <2>1, <2>4, <3>1, <3>2
    <3> QED
      BY <2>1, <2>2, <3>3, <3>4 DEF OpenRowsOwned
  <2> QED
    BY <1>3, <2>3, <2>4 DEF MarkAborted
<1>4. CASE Start
  BY <1>4 DEF Start, InProgress, OpenRowsOwned
<1>5. CASE Crash \/ Exit \/ \E h \in DOMAIN files : RebuildFile(h)
  BY <1>5 DEF Crash, Exit, RebuildFile, OpenRowsOwned
<1>6. CASE NextHand
  BY <1>6 DEF NextHand, OpenRowsOwned, Playing
<1>7. CASE StartHand \/ Listen \/ Tally
  BY <1>7 DEF StartHand, Listen, Tally, memory, OpenRowsOwned, Playing
<1>8. CASE OpenRecord \/ WriteHeader \/ WriteHandEnd \/ WriteFooter \/ AdaptersLeft \/ AbortHand
  BY <1>8 DEF OpenRecord, WriteHeader, WriteHandEnd, WriteFooter, AdaptersLeft, AbortHand,
              memory, OpenRowsOwned, Playing, Current
<1>9. CASE UNCHANGED vars
  BY <1>9 DEF vars, memory, OpenRowsOwned, Current
<1> QED
  BY <1>1, <1>2, <1>3, <1>4, <1>5, <1>6, <1>7, <1>8, <1>9 DEF Next, ServerStep

\* No crash, restart, abort or rebuild leaves a hand behind in the index that
\* nothing will close, unless a write to its row failed: what a hand loop left
\* open the next startup finds (find_in_progress_hands), and once it listens the
\* only open row is the one being played.
THEOREM OpenRowsTheorem == Spec => []OpenRowsOwned
<1>1. Init => OpenRowsOwned
  BY DEF Init, OpenRowsOwned
<1> QED
  BY <1>1, OwnedStep, RecInvInit, RecInvStep, OpenInvInit, OpenInvStep, PTL DEF Spec

-----------------------------------------------------------------------------
(* The standings.  The hands that were tallied are those of this run of    *)
(* the server below the count of the score; a hand is tallied right after  *)
(* its row was sealed with the same result, and no later step touches a    *)
(* row of this run that was tallied.                                       *)

Resting == {"down", "startup", "idle"}
Dealt == Playing \cup {"tally"}
NoFaults == \A h \in failed : h.boot # boot
OfMatch == {h \in DOMAIN rows : h.boot = boot /\ h.index < played}
Summed ==
    /\ \A h \in OfMatch : rows[h].scores \in Points
    /\ \A s \in Seats : totals[s] = SumOver(PointsIn(rows, s), OfMatch)
Counts ==
    /\ played \in Nat
    /\ pc \in Resting => played = 0 /\ index = 0 /\ totals = NoPoints
    /\ pc \in Dealt \cup {"reserve"} => played = index
    /\ pc = "between" => played = index + 1
RowInHand ==
    /\ pc \in Dealt => Current \in DOMAIN rows
    /\ pc = "tally" => rows[Current].scores = result.delta
StandInv == Counts /\ (NoFaults => RowInHand /\ Summed)

LEMMA NothingSummed == ASSUME RecInv, played = 0, totals = NoPoints PROVE Summed
<1>1. OfMatch = {}
  BY DEF OfMatch, RecInv, TypesOK, Hands
<1>2. \A s \in Seats : totals[s] = 0
  BY DEF NoPoints
<1>3. \A s \in Seats : SumOver(PointsIn(rows, s), {}) = 0
  BY SumOfNone
<1> QED
  BY <1>1, <1>2, <1>3 DEF Summed

\* Nothing that was tallied is written.
LEMMA SummedStays ==
    ASSUME RecInv, Summed, UNCHANGED <<boot, played, totals>>, OfMatch' = OfMatch,
           \A h \in OfMatch : rows'[h] = rows[h]
    PROVE  Summed'
<1>1. IsFiniteSet(OfMatch) /\ OfMatch \subseteq DOMAIN rows /\ OfMatch' \subseteq DOMAIN rows'
  <2>1. OfMatch \subseteq DOMAIN rows /\ OfMatch' \subseteq DOMAIN rows'
    BY DEF OfMatch
  <2>2. IsFiniteSet(DOMAIN rows)
    BY DEF RecInv
  <2> QED
    BY <2>1, <2>2, FS_Subset
<1>2. \A s \in Seats : \A h \in OfMatch : PointsIn(rows, s)[h] = PointsIn(rows', s)[h]
  BY <1>1 DEF PointsIn
<1>3. \A s \in Seats : SumOver(PointsIn(rows, s), OfMatch) = SumOver(PointsIn(rows', s), OfMatch)
  BY <1>1, <1>2, SumAgrees
<1>4. \A h \in OfMatch : rows'[h].scores \in Points
  BY DEF Summed
<1> QED
  BY <1>3, <1>4 DEF Summed

LEMMA StandInvInit == Init => StandInv
<1> SUFFICES ASSUME Init PROVE StandInv
  OBVIOUS
<1>1. pc = "down" /\ played = 0 /\ index = 0 /\ totals = NoPoints
  BY DEF Init
<1>2. Summed
  BY <1>1, RecInvInit, NothingSummed
<1> QED
  BY <1>1, <1>2 DEF StandInv, Counts, RowInHand, Dealt, Playing

LEMMA CountsStep == RecInv /\ Counts /\ [Next]_vars => Counts'
<1> SUFFICES ASSUME RecInv, Counts, [Next]_vars PROVE Counts'
  OBVIOUS
<1>1. index \in Nat
  BY DEF RecInv, TypesOK
<1>2. CASE StartHand \/ Reserve \/ OpenRecord \/ WriteHeader \/ WriteHandEnd \/ WriteFooter \/ AdaptersLeft \/ AbortHand
  BY <1>2 DEF Counts, memory, StartHand, Reserve, OpenRecord, WriteHeader, WriteHandEnd, WriteFooter, AdaptersLeft,
              AbortHand, Resting, Dealt, Playing
<1>3. CASE Finalize \/ Tally \/ NextHand
  BY <1>1, <1>3 DEF Counts, memory, Finalize, Tally, NextHand, Resting, Dealt, Playing
<1>4. CASE Start \/ Listen \/ (\E h \in sweep : MarkAborted(h)) \/ (\E h \in DOMAIN files : RebuildFile(h))
  <2>1. UNCHANGED <<played, index, totals>> /\ pc \in Resting /\ pc' \in Resting
    BY <1>4 DEF memory, Start, Listen, MarkAborted, RebuildFile, Resting
  <2>2. pc' \notin Dealt \cup {"reserve", "between"}
    BY <2>1 DEF Resting, Dealt, Playing
  <2> QED
    BY <2>1, <2>2 DEF Counts
<1>40. CASE Crash \/ Exit
  BY <1>40 DEF Counts, Crash, Exit, Forget, Resting, Dealt, Playing
<1>5. CASE UNCHANGED vars
  BY <1>5 DEF vars, memory, Counts
<1> QED
  BY <1>2, <1>3, <1>4, <1>40, <1>5 DEF Next, ServerStep

\* Each step of the loop but the three that write a row or the standings.
LEMMA StandStill ==
    ASSUME RecInv, StandInv, Counts', UNCHANGED <<boot, rows, played, totals>>, failed \subseteq failed', RecInv',
           pc' \in Dealt => (pc \in Dealt /\ Current' = Current), pc' # "tally"
    PROVE  StandInv'
<1> SUFFICES ASSUME NoFaults' PROVE RowInHand' /\ Summed'
  BY DEF StandInv
<1>1. RowInHand /\ Summed
  BY DEF StandInv, NoFaults
<1>2. Summed'
  BY <1>1, SummedStays DEF OfMatch
<1> QED
  BY <1>1, <1>2 DEF RowInHand

LEMMA StandInvStep == RecInv /\ TallyInv /\ StandInv /\ [Next]_vars => StandInv'
<1> SUFFICES ASSUME RecInv, TallyInv, StandInv, [Next]_vars PROVE StandInv'
  OBVIOUS
<1>1. RecInv' /\ Counts'
  BY RecInvStep, CountsStep DEF StandInv
<1>2. Current \in Hands /\ Current.boot = boot /\ Current.index = index
  BY CurrentHand DEF RecInv
<1>3. CASE StartHand \/ OpenRecord \/ WriteHeader \/ WriteHandEnd \/ WriteFooter \/ AdaptersLeft \/ AbortHand
  <2>1. /\ UNCHANGED <<boot, rows, played, totals, failed>> /\ pc' # "tally"
        /\ pc' \in Dealt => pc \in Dealt /\ Current' = Current
    BY <1>3 DEF memory, StartHand, OpenRecord, WriteHeader, WriteHandEnd, WriteFooter, AdaptersLeft, AbortHand,
                Dealt, Playing, Current
  <2> QED
    BY <1>1, <2>1, StandStill
<1>4. CASE Reserve
  <2> SUFFICES ASSUME NoFaults' PROVE RowInHand' /\ Summed'
    BY <1>1 DEF StandInv
  <2>1. UNCHANGED <<boot, index, played, totals>> /\ Current' = Current /\ pc = "reserve" /\ pc' = "open"
    BY <1>4 DEF Reserve, memory, Current
  <2>2. Current \notin DOMAIN rows /\ rows' = Put(rows, Current, LiveRow) /\ UNCHANGED failed
    BY <1>2, <1>4, <2>1 DEF Reserve, NoFaults
  <2>3. DOMAIN rows' = DOMAIN rows \cup {Current} /\ \A h \in DOMAIN rows : rows'[h] = rows[h]
    BY <2>2 DEF Put
  <2>4. Summed /\ played = index
    BY <2>1, <2>2 DEF StandInv, NoFaults, Counts
  <2>5. index \in Nat
    BY DEF RecInv, TypesOK
  <2>6. OfMatch' = OfMatch
    BY <1>2, <2>1, <2>3, <2>4, <2>5 DEF OfMatch
  <2>7. Summed'
    BY <2>1, <2>3, <2>4, <2>6, SummedStays DEF OfMatch
  <2> QED
    BY <2>1, <2>3, <2>7 DEF RowInHand
<1>5. CASE Finalize
  <2> SUFFICES ASSUME NoFaults' PROVE RowInHand' /\ Summed'
    BY <1>1 DEF StandInv
  <2>1. UNCHANGED <<boot, index, played, totals, result>> /\ Current' = Current /\ pc = "finalize"
    BY <1>5 DEF Finalize, memory, Current
  <2>2. NoFaults
    BY <1>5, <2>1 DEF Finalize, NoFaults
  <2>3. Current \in DOMAIN rows /\ Summed /\ played = index
    BY <2>1, <2>2 DEF StandInv, RowInHand, Counts, Dealt, Playing
  <2>4. rows' = [rows EXCEPT ![Current] = Ended(@, Outcome(Current), Checksum(Current))]
    BY <1>2, <1>5, <2>1, <2>3 DEF Finalize, NoFaults
  <2>5. DOMAIN rows' = DOMAIN rows /\ \A h \in DOMAIN rows \ {Current} : rows'[h] = rows[h]
    BY <2>4
  <2>6. index \in Nat
    BY DEF RecInv, TypesOK
  <2>7. OfMatch' = OfMatch /\ Current \notin OfMatch
    BY <1>2, <2>1, <2>3, <2>5, <2>6 DEF OfMatch
  <2>8. Summed'
    BY <2>1, <2>3, <2>5, <2>7, SummedStays DEF OfMatch
  <2>9. ASSUME pc' = "tally" PROVE rows'[Current].scores = result.delta
    <3>1. result # None
      BY <1>5, <2>9 DEF Finalize
    <3>2. Outcome(Current).scores = result.delta
      BY <3>1 DEF Outcome
    <3>3. PICK old \in RowSet : old = rows[Current]
      BY <2>3 DEF RecInv, TypesOK
    <3>4. rows'[Current] = Ended(old, Outcome(Current), Checksum(Current))
      BY <2>3, <2>4, <3>3
    <3>5. Ended(old, Outcome(Current), Checksum(Current)).scores = Outcome(Current).scores
      BY DEF Ended, RowSet
    <3> QED
      BY <3>2, <3>4, <3>5
  <2> QED
    BY <2>1, <2>3, <2>5, <2>8, <2>9 DEF RowInHand
<1>6. CASE Tally
  <2> SUFFICES ASSUME NoFaults' PROVE RowInHand' /\ Summed'
    BY <1>1 DEF StandInv
  <2>1. /\ UNCHANGED <<boot, index, rows, failed, result>> /\ played' = played + 1 /\ pc = "tally" /\ pc' \notin Dealt
        /\ totals' = RecordHand(totals, result.delta)
    BY <1>6 DEF Tally, Dealt, Playing
  <2>2. RowInHand /\ Summed /\ played = index /\ index \in Nat
    BY <2>1 DEF StandInv, NoFaults, Counts, Dealt, RecInv, TypesOK
  <2>3. Current \in DOMAIN rows /\ rows[Current].scores = result.delta
    BY <2>1, <2>2 DEF RowInHand, Dealt
  <2>4. result.delta \in Points
    <3>1. PICK t \in Terminals : t = result
      BY <2>1 DEF TallyInv, RecInv, TypesOK
    <3> QED
      BY <3>1, TerminalShape
  <2>5. OfMatch' = OfMatch \cup {Current} /\ Current \notin OfMatch
    <3>1. \A h \in DOMAIN rows : h.boot = boot /\ h.index = index <=> h = Current
      BY <1>2 DEF RecInv, TypesOK, Hands
    <3>2. \A h \in DOMAIN rows : h.index \in Nat
      BY DEF RecInv, TypesOK, Hands
    <3>3. \A h \in DOMAIN rows : h.index < index + 1 <=> h.index < index \/ h.index = index
      BY <2>2, <3>2
    <3>4. OfMatch' = {h \in DOMAIN rows : h.boot = boot /\ h.index < index + 1}
      BY <2>1, <2>2 DEF OfMatch
    <3>5. OfMatch = {h \in DOMAIN rows : h.boot = boot /\ h.index < index}
      BY <2>2 DEF OfMatch
    <3>6. OfMatch' = OfMatch \cup {Current}
      BY <2>3, <3>1, <3>3, <3>4, <3>5
    <3>7. Current \notin OfMatch
      BY <1>2, <2>2, <3>5
    <3> QED
      BY <3>6, <3>7
  <2>6. IsFiniteSet(OfMatch) /\ OfMatch \subseteq DOMAIN rows
    <3>1. OfMatch \subseteq DOMAIN rows
      BY DEF OfMatch
    <3> QED
      BY <3>1, FS_Subset DEF RecInv
  <2>7. ASSUME NEW s \in Seats PROVE totals'[s] = SumOver(PointsIn(rows, s), OfMatch \cup {Current})
    <3>1. PICK F : F = PointsIn(rows, s)
      OBVIOUS
    <3>2. \A h \in OfMatch \cup {Current} : F[h] = rows[h].scores[s] /\ rows[h].scores \in Points
      BY <2>2, <2>3, <2>4, <2>6, <3>1 DEF PointsIn, Summed
    <3>3. \A h \in OfMatch \cup {Current} : F[h] \in Int
      BY <3>2 DEF Points
    <3>4. SumOver(F, OfMatch \cup {Current}) = SumOver(F, OfMatch) + F[Current]
      BY <2>5, <2>6, <3>3, SumAdds
    <3>5. totals[s] = SumOver(F, OfMatch)
      BY <2>2, <3>1 DEF Summed
    <3>6. totals'[s] = totals[s] + result.delta[s]
      BY <2>1 DEF RecordHand
    <3>7. F[Current] = result.delta[s]
      BY <2>3, <3>2
    <3> QED
      BY <3>1, <3>4, <3>5, <3>6, <3>7
  <2>8. \A h \in OfMatch' : rows'[h].scores \in Points
    BY <2>1, <2>2, <2>3, <2>4, <2>5 DEF Summed
  <2>9. Summed'
    BY <2>1, <2>5, <2>7, <2>8 DEF Summed
  <2> QED
    BY <2>1, <2>9 DEF RowInHand, Dealt
<1>7. CASE NextHand \/ Listen
  <2>1. UNCHANGED <<boot, rows, played, totals, failed>> /\ pc' \notin Dealt
    BY <1>7 DEF memory, NextHand, Listen, Dealt, Playing
  <2> QED
    BY <1>1, <2>1, StandStill DEF Dealt
<1>8. CASE Start \/ Crash \/ Exit \/ (\E h \in DOMAIN files : RebuildFile(h)) \/ (\E h \in sweep : MarkAborted(h))
  <2>1. pc' \in Resting /\ pc' \notin Dealt
    BY <1>8 DEF Start, Crash, Exit, RebuildFile, MarkAborted, Resting, Dealt, Playing
  <2>2. played' = 0 /\ totals' = NoPoints
    BY <1>1, <2>1 DEF Counts
  <2>3. OfMatch' = {}
    BY <1>1, <2>2 DEF OfMatch, RecInv, TypesOK, Hands
  <2>4. Summed'
    <3>1. \A s \in Seats : totals'[s] = 0
      BY <2>2 DEF NoPoints
    <3>2. \A s \in Seats : SumOver(PointsIn(rows', s), {}) = 0
      BY SumOfNone
    <3> QED
      BY <2>3, <3>1, <3>2 DEF Summed
  <2> QED
    BY <1>1, <2>1, <2>4 DEF StandInv, RowInHand, Dealt
<1>9. CASE UNCHANGED vars
  BY <1>9 DEF vars, memory, StandInv, Counts, NoFaults, RowInHand, Summed, OfMatch, Current
<1> QED
  BY <1>3, <1>4, <1>5, <1>6, <1>7, <1>8, <1>9 DEF Next, ServerStep

\* The standings a table shows are the sum of its hands in the index, unless a
\* write to the index failed, and points are moved between the seats, never made
\* (record_hand, _finalize_hand_row, score_delta).
THEOREM StandingsTheorem == Spec => []StandingsAgree
<1>1. RecInv /\ StandInv => StandingsAdd
  <2> SUFFICES ASSUME RecInv, StandInv, \A h \in failed : h.boot # boot, NEW s \in Seats
               PROVE  totals[s] = MapThenSumSet(LAMBDA h : rows[h].scores[s],
                                                {h \in DOMAIN rows : h.boot = boot /\ h.index < played})
    BY DEF StandingsAdd
  <2>1. Summed
    BY DEF StandInv, NoFaults
  <2>2. IsFiniteSet(OfMatch) /\ OfMatch \subseteq DOMAIN rows
    <3>1. OfMatch \subseteq DOMAIN rows
      BY DEF OfMatch
    <3> QED
      BY <3>1, FS_Subset DEF RecInv
  <2>3. MapThenSumSet(LAMBDA h : rows[h].scores[s], OfMatch) = SumOver(PointsIn(rows, s), OfMatch)
    BY <2>2, SumOfRows
  <2> QED
    BY <2>1, <2>3 DEF Summed, OfMatch
<1>2. Spec => []StandInv
  <2>1. Init => TallyInv
    BY NothingBalances DEF Init, TallyInv
  <2> QED
    BY <2>1, RecInvInit, RecInvStep, TallyInvStep, StandInvInit, StandInvStep, PTL DEF Spec
<1>3. Spec => []RecInv
  BY RecInvInit, RecInvStep, PTL DEF Spec
<1> QED
  BY <1>1, <1>2, <1>3, PointsTheorem, PTL DEF StandingsAgree

-----------------------------------------------------------------------------
\* A counted hand keeps its row while the server runs.
LEMMA CountedStay ==
    ASSUME RecInv, OpenInv, Reserve \/ Finalize \/ \E h \in sweep : MarkAborted(h)
    PROVE  /\ \A h \in DOMAIN rows : h \in DOMAIN rows' /\ (rows[h].ended => rows'[h] = rows[h])
           /\ \A h \in DOMAIN rows' : h \notin DOMAIN rows \/ rows'[h] # rows[h] =>
                 \/ \A s \in Seats : rows'[h].scores[s] = None
                 \/ h = Current /\ \A g \in DOMAIN rows : ~Before(h, g)
<1>1. CASE Reserve
  <2>1. PICK row : row = LiveRow
    OBVIOUS
  <2>2. \A s \in Seats : row.scores[s] = None
    BY <2>1 DEF LiveRow
  <2>3. CASE Current \notin DOMAIN rows /\ rows' = Put(rows, Current, LiveRow)
    BY <2>1, <2>2, <2>3 DEF Put
  <2>4. CASE UNCHANGED rows
    BY <2>4
  <2> QED
    BY <1>1, <2>3, <2>4 DEF Reserve
<1>2. CASE Finalize
  <2>1. CASE Current \in DOMAIN rows /\ rows' = [rows EXCEPT ![Current] = Ended(@, Outcome(Current), Checksum(Current))]
    <3>1. pc = "finalize" /\ ~rows[Current].ended
      BY <1>2, <2>1 DEF Finalize, OpenInv, Playing
    <3>2. Current.boot = boot /\ Current.index = index /\ boot \in Nat /\ index \in Nat
      BY CurrentHand DEF RecInv, TypesOK
    <3>3. \A g \in DOMAIN rows : g.boot \in Nat /\ g.index \in Nat
      BY DEF RecInv, TypesOK, Hands
    <3>4. \A g \in DOMAIN rows : g.boot <= boot /\ (g.boot = boot => g.index <= index)
      BY <3>1 DEF RecInv, OfThePast
    <3>5. \A g \in DOMAIN rows : ~Before(Current, g)
      BY <3>2, <3>3, <3>4 DEF Before
    <3>6. DOMAIN rows' = DOMAIN rows /\ \A g \in DOMAIN rows : g # Current => rows'[g] = rows[g]
      BY <2>1
    <3> QED
      BY <3>1, <3>5, <3>6
  <2>2. CASE UNCHANGED rows
    BY <2>2
  <2> QED
    BY <1>2, <2>1, <2>2 DEF Finalize
<1>3. ASSUME NEW h \in sweep, MarkAborted(h)
      PROVE  /\ \A g \in DOMAIN rows : g \in DOMAIN rows' /\ (rows[g].ended => rows'[g] = rows[g])
             /\ \A g \in DOMAIN rows' : g \notin DOMAIN rows \/ rows'[g] # rows[g] =>
                   \A s \in Seats : rows'[g].scores[s] = None
  <2>1. h \in DOMAIN rows /\ ~rows[h].ended /\ \A s \in Seats : rows[h].scores[s] = None
    BY DEF OpenInv
  <2>2. CASE UNCHANGED rows
    BY <2>2
  <2>3. CASE rows' = [rows EXCEPT ![h].ended = TRUE, ![h].kind = "ABORTED", ![h].winner = None,
                                  ![h].fan = None, ![h].checksum = ""]
    <3>1. PICK old \in RowSet : old = rows[h]
      BY <2>1 DEF RecInv, TypesOK
    <3>2. PICK row : row = [old EXCEPT !.ended = TRUE, !.kind = "ABORTED", !.winner = None, !.fan = None, !.checksum = ""]
      OBVIOUS
    <3>3. row.scores = old.scores
      BY <3>2 DEF RowSet
    <3>4. DOMAIN rows' = DOMAIN rows /\ rows'[h] = row /\ \A g \in DOMAIN rows : g # h => rows'[g] = rows[g]
      BY <2>1, <2>3, <3>1, <3>2
    <3> QED
      BY <2>1, <3>1, <3>3, <3>4
  <2> QED
    BY <1>3, <2>2, <2>3 DEF MarkAborted
<1> QED
  BY <1>1, <1>2, <1>3

\* A row with a winner is of a win that its record confirms.
LEMMA WinShape ==
    RecInv => \A h \in DOMAIN rows : rows[h].winner \in Seats =>
        /\ h \in DOMAIN files /\ files[h].footer /\ files[h].end \in Terminals /\ rows[h].ended
        /\ rows[h].winner = files[h].end.winner /\ rows[h].fan = files[h].end.fan
        /\ rows[h].scores = files[h].end.delta /\ rows[h].fan \in Nat
<1> SUFFICES ASSUME RecInv, NEW h \in DOMAIN rows, rows[h].winner \in Seats
             PROVE  /\ h \in DOMAIN files /\ files[h].footer /\ files[h].end \in Terminals /\ rows[h].ended
                    /\ rows[h].winner = files[h].end.winner /\ rows[h].fan = files[h].end.fan
                    /\ rows[h].scores = files[h].end.delta /\ rows[h].fan \in Nat
  OBVIOUS
<1>1. None \notin Seats
  <2>1. \A s \in Seats : s \in Int
    BY DEF Seats
  <2> QED
    BY <2>1, HistoryAssumption
<1>2. rows[h].kind \in Kinds \ {"ABORTED"}
  BY <1>1 DEF RecInv, Sealed
<1>3. /\ h \in DOMAIN files /\ files[h].footer /\ files[h].end \in Terminals /\ rows[h].ended
      /\ rows[h].winner = files[h].end.winner /\ rows[h].fan = files[h].end.fan
      /\ rows[h].scores = files[h].end.delta
  BY <1>2 DEF RecInv, RowsTellTruth, FooterComplete, Loadable, Kinds
<1>4. ASSUME NEW t \in Terminals, t.winner \in Seats PROVE t.fan \in Nat
  <2>1. t # Draw
    BY <1>1, <1>4 DEF Draw
  <2>2. PICK w \in HowWon : t = Won(w)
    BY <2>1 DEF Terminals
  <2>3. w.fan \in Nat /\ t.fan = w.fan
    BY <2>2, RecordsAssumption DEF Won
  <2> QED
    BY <2>3
<1> QED
  BY <1>3, <1>4

FansKnown == \A h \in DOMAIN rows : rows[h].winner \in Seats => rows[h].fan \in Nat

LEMMA FansKnownNext == RecInv' => FansKnown'
<1>1. RecInv => FansKnown
  BY WinShape DEF FansKnown
<1> QED
  BY <1>1, PTL

\* Pairs of a hand and a seat are finite in number, and so are the fans of some.
LEMMA PairsFinite ==
    ASSUME NEW f, IsFiniteSet(DOMAIN f), NEW P \in SUBSET ((DOMAIN f) \X Seats) PROVE IsFiniteSet(P)
<1>1. 0 \in Int /\ 3 \in Int
  OBVIOUS
<1>2. IsFiniteSet(Seats)
  BY <1>1, FS_Interval DEF Seats
<1> QED
  BY <1>2, FS_Product, FS_Subset

FansOf(f, P) == {0} \cup {f[p[1]].fan : p \in P}

LEMMA FansFinite ==
    ASSUME NEW f, NEW P, IsFiniteSet(P), \A p \in P : f[p[1]].fan \in Nat
    PROVE  FansOf(f, P) \in SUBSET Nat /\ IsFiniteSet(FansOf(f, P))
<1>1. PICK F : F = {f[p[1]].fan : p \in P}
  OBVIOUS
<1>2. PICK m : m = [p \in P |-> f[p[1]].fan]
  OBVIOUS
<1>3. m \in Surjection(P, F)
  BY <1>1, <1>2 DEF Surjection
<1>4. IsFiniteSet(F)
  BY <1>3, FS_Surjection
<1>5. IsFiniteSet(F \cup {0})
  BY <1>4, FS_AddElement
<1>6. FansOf(f, P) = F \cup {0} /\ F \subseteq Nat
  BY <1>1 DEF FansOf
<1> QED
  BY <1>5, <1>6

RunIn(C, p, q) == {r \in C : ~Before(r[1], p[1]) /\ ~Before(q[1], r[1])}
LengthsOf(C, W) == {0} \cup {Cardinality(run) : run \in {RunIn(C, p, q) : p \in W, q \in W} \cap SUBSET W}

LEMMA LengthsFinite ==
    ASSUME NEW C, NEW W, IsFiniteSet(W) PROVE LengthsOf(C, W) \in SUBSET Nat /\ IsFiniteSet(LengthsOf(C, W))
<1>1. PICK n \in Nat : n = Cardinality(W)
  BY FS_CardinalityType
<1>2. ASSUME NEW run \in SUBSET W PROVE Cardinality(run) \in 0 .. n
  BY <1>1, FS_Subset, FS_CardinalityType
<1>3. LengthsOf(C, W) \subseteq 0 .. n
  BY <1>2 DEF LengthsOf
<1>4. 0 \in Int /\ n \in Int
  OBVIOUS
<1>5. IsFiniteSet(0 .. n)
  BY <1>4, FS_Interval
<1> QED
  BY <1>3, <1>5, FS_Subset

-----------------------------------------------------------------------------
\* The counted hands of an account and its wins, as sets of pairs.
LEMMA MetricsOf ==
    ASSUME NEW a \in Accounts
    PROVE  LET C == Counted(a)
               W == Wins(a)
           IN Metrics(a) = [wins |-> Cardinality(W), hands |-> Cardinality(C), bestFan |-> Max(FansOf(rows, W)),
                            streak |-> Max(LengthsOf(C, W)), draws |-> Cardinality(Draws(a))]
  BY DEF Metrics, BestWinFan, WinStreak, FansOf, LengthsOf, RunIn

LEMMA BadgeStep ==
    ASSUME RecInv, OpenInv, RecInv', [Next]_vars, rows' # rows, NEW a \in Accounts,
           NEW m \in IF pc = "down" /\ pc' = "down" THEN {"wins", "bestFan"} ELSE DOMAIN Metrics(a)
    PROVE  Metrics(a)[m] <= Metrics(a)'[m]
<1>1. PICK C, D, W, C2, D2, W2 :
        /\ C = Counted(a) /\ D = Draws(a) /\ W = Wins(a)
        /\ C2 = Counted(a)' /\ D2 = Draws(a)' /\ W2 = Wins(a)'
  OBVIOUS
<1>2. /\ Metrics(a) = [wins |-> Cardinality(W), hands |-> Cardinality(C), bestFan |-> Max(FansOf(rows, W)),
                       streak |-> Max(LengthsOf(C, W)), draws |-> Cardinality(D)]
      /\ Metrics(a)' = [wins |-> Cardinality(W2), hands |-> Cardinality(C2), bestFan |-> Max(FansOf(rows', W2)),
                        streak |-> Max(LengthsOf(C2, W2)), draws |-> Cardinality(D2)]
  BY <1>1, MetricsOf DEF Metrics, BestWinFan, WinStreak, FansOf, LengthsOf, RunIn
<1>3. /\ \A p : p \in C <=> /\ p \in (DOMAIN rows) \X Seats /\ Account[p[2]] = a
                            /\ rows[p[1]].ended /\ rows[p[1]].scores[p[2]] # None
      /\ \A p : p \in C2 <=> /\ p \in (DOMAIN rows') \X Seats /\ Account[p[2]] = a
                             /\ rows'[p[1]].ended /\ rows'[p[1]].scores[p[2]] # None
      /\ \A p : p \in W <=> p \in C /\ rows[p[1]].winner = p[2]
      /\ \A p : p \in W2 <=> p \in C2 /\ rows'[p[1]].winner = p[2]
      /\ \A p : p \in D <=> p \in C /\ rows[p[1]].kind = "EXHAUSTIVE_DRAW"
      /\ \A p : p \in D2 <=> p \in C2 /\ rows'[p[1]].kind = "EXHAUSTIVE_DRAW"
  BY <1>1 DEF Counted, Wins, Draws
<1>4. /\ DOMAIN rows \in SUBSET Hands /\ IsFiniteSet(DOMAIN rows)
      /\ DOMAIN rows' \in SUBSET Hands /\ IsFiniteSet(DOMAIN rows')
  BY DEF RecInv, TypesOK
<1>5. IsFiniteSet(C) /\ IsFiniteSet(C2) /\ IsFiniteSet(W) /\ IsFiniteSet(W2) /\ IsFiniteSet(D) /\ IsFiniteSet(D2)
  <2>1. C \subseteq (DOMAIN rows) \X Seats /\ C2 \subseteq (DOMAIN rows') \X Seats
    BY <1>3
  <2>2. IsFiniteSet(C) /\ IsFiniteSet(C2)
    BY <1>4, <2>1, PairsFinite
  <2>3. W \subseteq C /\ W2 \subseteq C2 /\ D \subseteq C /\ D2 \subseteq C2
    BY <1>3
  <2> QED
    BY <2>2, <2>3, FS_Subset
<1>6. /\ FansOf(rows, W) \in SUBSET Nat /\ IsFiniteSet(FansOf(rows, W))
      /\ FansOf(rows', W2) \in SUBSET Nat /\ IsFiniteSet(FansOf(rows', W2))
  <2>1. \A p \in W : rows[p[1]].fan \in Nat
    BY <1>3, WinShape
  <2>2. \A p \in W2 : rows'[p[1]].fan \in Nat
    BY <1>3, FansKnownNext DEF FansKnown
  <2>3. FansOf(rows, W) \in SUBSET Nat /\ IsFiniteSet(FansOf(rows, W))
    BY <1>5, <2>1, FansFinite
  <2>4. FansOf(rows', W2) \in SUBSET Nat /\ IsFiniteSet(FansOf(rows', W2))
    BY <1>5, <2>2, FansFinite
  <2> QED
    BY <2>3, <2>4
\* More wins, with the fans they had.
<1>7. ASSUME W \subseteq W2, \A p \in W : rows'[p[1]].fan = rows[p[1]].fan
      PROVE  Cardinality(W) <= Cardinality(W2) /\ Max(FansOf(rows, W)) <= Max(FansOf(rows', W2))
  <2>1. Cardinality(W) <= Cardinality(W2)
    BY <1>5, <1>7, FS_Subset
  <2>2. FansOf(rows, W) \subseteq FansOf(rows', W2) /\ FansOf(rows, W) # {}
    BY <1>7 DEF FansOf
  <2> QED
    BY <1>6, <2>1, <2>2, MaxGrows
<1>8. ASSUME Reserve \/ Finalize \/ \E h \in sweep : MarkAborted(h), m \in DOMAIN Metrics(a)
      PROVE  Metrics(a)[m] <= Metrics(a)'[m]
  <2>1. \A p \in C : p \in C2 /\ rows'[p[1]] = rows[p[1]]
    BY <1>3, <1>8, CountedStay
  <2>2. C \subseteq C2 /\ W \subseteq W2 /\ D \subseteq D2
    BY <1>3, <2>1
  <2>3. Cardinality(C) <= Cardinality(C2) /\ Cardinality(D) <= Cardinality(D2)
    BY <1>5, <2>2, FS_Subset
  <2>4. \A p \in W : rows'[p[1]].fan = rows[p[1]].fan
    BY <1>3, <2>1
  <2>5. ASSUME NEW r \in C2, r \notin C, NEW q \in C PROVE Before(q[1], r[1])
    <3>1. r[1] \in DOMAIN rows' /\ r[1] \in Hands /\ q[1] \in DOMAIN rows /\ q[1] \in Hands
      BY <1>3, <1>4, <2>5
    <3>2. r[1] \notin DOMAIN rows \/ rows'[r[1]] # rows[r[1]]
      BY <1>3, <2>5
    <3>3. \A g \in DOMAIN rows : ~Before(r[1], g)
      BY <1>3, <1>8, <2>5, <3>1, <3>2, CountedStay
    <3>4. q[1] # r[1]
      BY <2>1, <3>1, <3>2
    <3> QED
      BY <3>1, <3>3, <3>4, InOrder
  <2>6. ASSUME NEW p \in W, NEW q \in W PROVE RunIn(C2, p, q) = RunIn(C, p, q)
    BY <1>3, <2>2, <2>5 DEF RunIn
  <2>7. LengthsOf(C, W) \subseteq LengthsOf(C2, W2)
    <3>1. ASSUME NEW run \in {RunIn(C, p, q) : p \in W, q \in W} \cap SUBSET W
          PROVE  run \in {RunIn(C2, p, q) : p \in W2, q \in W2} \cap SUBSET W2
      BY <2>2, <2>6
    <3> QED
      BY <3>1 DEF LengthsOf
  <2>8. Max(LengthsOf(C, W)) <= Max(LengthsOf(C2, W2))
    <3>1. LengthsOf(C2, W2) \in SUBSET Nat /\ IsFiniteSet(LengthsOf(C2, W2))
      BY <1>5, LengthsFinite
    <3>2. LengthsOf(C, W) # {}
      BY DEF LengthsOf
    <3> QED
      BY <2>7, <3>1, <3>2, MaxGrows
  <2>9. m \in {"wins", "hands", "bestFan", "streak", "draws"}
    BY <1>2, <1>8
  <2> QED
    BY <1>2, <1>7, <2>2, <2>3, <2>4, <2>8, <2>9
<1>9. ASSUME NEW g \in DOMAIN files, RebuildFile(g), m \in {"wins", "bestFan"}
      PROVE  Metrics(a)[m] <= Metrics(a)'[m]
  <2>1. PICK row : row = RebuiltRow(g)
    OBVIOUS
  <2>2. DOMAIN rows' = DOMAIN rows \cup {g} /\ rows'[g] = row /\ \A h \in DOMAIN rows : h # g => rows'[h] = rows[h]
    BY <1>9, <2>1 DEF RebuildFile, Put
  <2>3. files[g].footer =>
          row.ended /\ row.winner = files[g].end.winner /\ row.fan = files[g].end.fan /\ row.scores = files[g].end.delta
    BY <2>1 DEF RebuiltRow, RebuiltTerminal
  <2>4. \A h \in DOMAIN rows : rows[h].winner \in Seats =>
          /\ h \in DOMAIN rows' /\ rows'[h].ended /\ rows'[h].winner = rows[h].winner
          /\ rows'[h].fan = rows[h].fan /\ rows'[h].scores = rows[h].scores
    BY <2>2, <2>3, WinShape
  <2>5. W \subseteq W2 /\ \A p \in W : rows'[p[1]].fan = rows[p[1]].fan
    BY <1>3, <2>4
  <2> QED
    BY <1>2, <1>7, <1>9, <2>5
<1>10. Reserve \/ Finalize \/ (\E h \in sweep : MarkAborted(h)) \/ \E h \in DOMAIN files : RebuildFile(h)
  BY DEF Next, ServerStep, vars, memory, StartHand, OpenRecord, WriteHeader, WriteHandEnd, WriteFooter, AdaptersLeft,
         Tally, NextHand, Listen, AbortHand, Crash, Exit, Start
<1>11. /\ Reserve \/ Finalize \/ (\E h \in sweep : MarkAborted(h)) => pc # "down"
       /\ \A h : RebuildFile(h) => pc = "down" /\ pc' = "down"
  BY DEF Reserve, Finalize, MarkAborted, RebuildFile
<1> QED
  BY <1>8, <1>9, <1>10, <1>11

\* No restart, sweep or rebuild takes a win from an account, and nothing but a
\* rebuild takes a played hand, a draw or a streak: a badge stays earned
\* (account_stats, account_achievements, _longest_win_streak).
THEOREM BadgesTheorem == Spec => BadgesKept
<1>1. RecInv /\ OpenInv /\ RecInv' /\ [Next]_vars =>
        [(rows' # rows) =>
          \A a \in Accounts :
            LET now == Metrics(a)
                then == Metrics(a)'
            IN \A m \in IF pc = "down" /\ pc' = "down" THEN {"wins", "bestFan"} ELSE DOMAIN now :
                  now[m] <= then[m]]_vars
  BY BadgeStep
<1> QED
  BY <1>1, RecInvInit, RecInvStep, OpenInvInit, OpenInvStep, PTL DEF Spec, BadgesKept
=============================================================================
