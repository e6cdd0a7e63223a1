---------------------------- MODULE Lobby_proofs ----------------------------
(***************************************************************************)
(* The door and the house, for any number of connections, names, invites   *)
(* and tables: Auth and Lobby interleaved as they are in the server.       *)
(***************************************************************************)
EXTENDS Lobby, FiniteSetTheorems, SequenceTheorems, TLAPS

-----------------------------------------------------------------------------
(* The limiter.                                                            *)

\* Pruning cuts the events of a prefix that has passed, up to the first that has not.
LEMMA PruneCuts ==
    ASSUME NEW events \in Seq(Nat), NEW t \in Nat
    PROVE  \E n \in 0 .. Len(events) :
              /\ Prune(events, t) = SubSeq(events, n + 1, Len(events))
              /\ \A k \in 1 .. n : events[k] <= t - Window
              /\ n < Len(events) => events[n + 1] > t - Window
<1> DEFINE Fresh == {n \in 0 .. Len(events) : n < Len(events) => events[n + 1] > t - Window}
<1>1. Len(events) \in Nat /\ Len(events) \in Fresh /\ Fresh \in SUBSET Nat
  OBVIOUS
<1>2. PICK n \in Fresh : \A m \in Fresh : ~ (<<m, n>> \in OpToRel(<, Nat))
  <2> HIDE DEF Fresh
  <2> QED
    BY <1>1, WFMin, NatLessThanWellFounded
<1>3. ASSUME NEW k \in 1 .. n PROVE events[k] <= t - Window
  <2>1. ~ (<<k - 1, n>> \in {ss \in Nat \X Nat : ss[1] < ss[2]}) \/ k - 1 \notin Fresh
    BY <1>2 DEF OpToRel
  <2>2. k - 1 \notin Fresh
    BY <2>1, <1>1
  <2>3. k - 1 \in 0 .. Len(events) /\ events[k] \in Nat /\ k - 1 + 1 = k
    BY <1>1
  <2> QED
    BY <2>2, <2>3, AuthAssumption
<1> QED
  BY <1>2, <1>3 DEF Prune

LEMMA PruneType ==
    ASSUME NEW events \in Seq(Nat), NEW t \in Nat
    PROVE  Prune(events, t) \in Seq(Nat) /\ Len(Prune(events, t)) \in Nat
<1>1. PICK n \in 0 .. Len(events) : Prune(events, t) = SubSeq(events, n + 1, Len(events))
  BY PruneCuts
<1> QED
  BY <1>1

\* What has been pruned and has an event of now at its end is not pruned further.
LEMMA PruneKeepsRecorded ==
    ASSUME NEW events \in Seq(Nat), NEW t \in Nat
    PROVE  LET recorded == Append(Prune(events, t), t) IN
           /\ recorded \in Seq(Nat)
           /\ Len(Prune(recorded, t)) = Len(Prune(events, t)) + 1
<1> DEFINE recorded == Append(Prune(events, t), t)
<1>1. PICK n \in 0 .. Len(events) :
        /\ Prune(events, t) = SubSeq(events, n + 1, Len(events))
        /\ n < Len(events) => events[n + 1] > t - Window
  BY PruneCuts
<1>2. recorded \in Seq(Nat) /\ Len(recorded) = Len(Prune(events, t)) + 1
  BY PruneType
<1>3. recorded[1] > t - Window
  BY <1>1, AuthAssumption
<1>4. PICK m \in 0 .. Len(recorded) :
        /\ Prune(recorded, t) = SubSeq(recorded, m + 1, Len(recorded))
        /\ \A k \in 1 .. m : recorded[k] <= t - Window
  BY <1>2, PruneCuts
<1>5. m = 0
  BY <1>2, <1>3, <1>4, AuthAssumption
<1> QED
  BY <1>2, <1>4, <1>5

\* Time only takes events away.
LEMMA PruneLater ==
    ASSUME NEW events \in Seq(Nat), NEW t \in Nat, NEW u \in Nat, t <= u
    PROVE  Len(Prune(events, u)) <= Len(Prune(events, t))
<1>1. PICK n \in 0 .. Len(events) :
        /\ Prune(events, t) = SubSeq(events, n + 1, Len(events))
        /\ \A k \in 1 .. n : events[k] <= t - Window
  BY PruneCuts
<1>2. PICK m \in 0 .. Len(events) :
        /\ Prune(events, u) = SubSeq(events, m + 1, Len(events))
        /\ m < Len(events) => events[m + 1] > u - Window
  BY PruneCuts
<1>3. n <= m
  <2> SUFFICES ASSUME m < n PROVE FALSE
    OBVIOUS
  <2>1. events[m + 1] <= t - Window /\ events[m + 1] > u - Window /\ events[m + 1] \in Nat
    BY <1>1, <1>2
  <2> QED
    BY <2>1, AuthAssumption
<1> QED
  BY <1>1, <1>2, <1>3

-----------------------------------------------------------------------------
(* The door: types, and what the calls of connections know.                *)

Phases == {"auth", "verify", "lobby", "table", "watch", "closing", "gone"}
AccountRows == [name : Names, role : {"user", "admin"}, disabled : BOOLEAN, via : Codes \cup {"operator"}]
SessionRows == [account : Nat \cup {None}, expires : Nat, stored : BOOLEAN]
InviteRows == [used : Nat, disabled : BOOLEAN, expires : Nat]

StoreTypeOK ==
    /\ accounts \in Seq(AccountRows) /\ sessions \in Seq(SessionRows)
    /\ DOMAIN invites \subseteq Codes /\ invites \in [DOMAIN invites -> InviteRows]
    /\ draft \in Names \cup {None}
    /\ \A a \in DOMAIN accounts : accounts[a].via \in DOMAIN invites \cup {"operator"}
CallsTypeOK ==
    /\ phase \in [Clients -> Phases] /\ call \in [Clients -> Calls \cup {None}]
    /\ barred \in [Clients -> SUBSET Nat]
ClocksTypeOK == failures \in Seq(Nat) /\ registers \in Seq(Nat) /\ now \in Nat
AuthTypeOK == StoreTypeOK /\ CallsTypeOK /\ ClocksTypeOK

Calling(c) == call[c] # None
Checked(c) ==
    At(c, "ok") \/ (At(c, "write") /\ Request(c).op \in {"login", "resume"})

(***************************************************************************)
(* One call writes at a time.  Between its check and its write a           *)
(* registration's name can be taken by the operator alone; and an account  *)
(* that a call has checked was not disabled all the time since it came in. *)
(***************************************************************************)
CallsInVerify == \A c \in Clients : Calling(c) => phase[c] = "verify"
OneWriter == \A c, d \in Clients : (At(c, "write") /\ At(d, "write")) => c = d
NameStaysFree ==
    \A c \in Clients : (At(c, "write") /\ Request(c).op = "register") =>
        \A a \in Named(Request(c).name) : accounts[a].via = "operator"
BarredAreDisabled == \A c \in Clients : barred[c] \subseteq Disabled
CheckedIsNotBarred == \A c \in Clients : Checked(c) => call[c].account \notin barred[c]

\* A login that is being verified has its place in the budget of the failed.
Verifying == {c \in Clients : Calling(c) /\ Request(c).op = "login"}
BudgetWithCalls ==
    /\ Len(Recent(registers)) <= RegisterMax
    /\ Len(Recent(failures)) + Cardinality(Verifying) <= LoginMax + Cardinality(Clients) - 1

AuthInv ==
    /\ AuthTypeOK
    /\ CallsInVerify /\ OneWriter /\ NameStaysFree /\ BarredAreDisabled /\ CheckedIsNotBarred
    /\ InviteBudget /\ NamesClashOnlyAcross /\ BudgetWithCalls

LEMMA AuthInvInit == AuthInit => AuthInv
<1> SUFFICES ASSUME AuthInit PROVE AuthInv
  OBVIOUS
<1> USE AuthAssumption DEF AuthInit
<1>1. PICK n \in Names : accounts = <<Account(n, "admin", "operator")>>
  OBVIOUS
<1>2. accounts \in Seq(AccountRows) /\ Len(accounts) = 1 /\ accounts[1].via = "operator" 
      /\ DOMAIN accounts = {1} /\ Disabled = {}
  BY <1>1 DEF AccountRows, Account, Disabled
<1>3. \A k \in Codes : {a \in DOMAIN accounts : accounts[a].via = k} = {}
  BY <1>2
<1>4. AuthTypeOK
  <2>1. StoreTypeOK
    <3>1. invites \in [DOMAIN invites -> InviteRows] /\ DOMAIN invites \subseteq Codes
      BY DEF InviteRows, Invite
    <3>2. \A a \in DOMAIN accounts : accounts[a].via \in DOMAIN invites \cup {"operator"}
      BY <1>2
    <3>3. sessions \in Seq(SessionRows) /\ draft \in Names \cup {None}
      OBVIOUS
    <3> QED
      BY <1>2, <3>1, <3>2, <3>3 DEF StoreTypeOK
  <2> QED
    BY <1>2, <2>1 DEF AuthTypeOK, CallsTypeOK, ClocksTypeOK, Phases
<1>5. InviteBudget
  <2> SUFFICES ASSUME NEW k \in DOMAIN invites
               PROVE  /\ invites[k].used = Cardinality({a \in DOMAIN accounts : accounts[a].via = k})
                      /\ invites[k].used <= MaxUses
    BY DEF InviteBudget
  <2>1. k \in Codes /\ invites[k].used = 0
    BY DEF Invite
  <2> QED
    <3>1. {a \in DOMAIN accounts : accounts[a].via = k} = {}
      BY <1>3, <2>1
    <3>2. Cardinality({a \in DOMAIN accounts : accounts[a].via = k}) = 0
      BY <3>1, FS_EmptySet, Zenon
    <3>3. 0 <= MaxUses
      OBVIOUS
    <3> QED
      BY <2>1, <3>2, <3>3
<1>6. NamesClashOnlyAcross
  BY <1>2 DEF NamesClashOnlyAcross
<1>7. BudgetWithCalls
  <2>1. Verifying = {}
    BY DEF Verifying, Calling
  <2>2. Len(Recent(registers)) = 0 /\ Len(Recent(failures)) = 0
    <3>1. <<>> \in Seq(Nat) /\ Len(<<>>) = 0 /\ 0 \in Nat
      OBVIOUS
    <3>2. PICK m \in 0 .. 0 : Prune(<<>>, 0) = SubSeq(<<>>, m + 1, 0)
      BY <3>1, PruneCuts
    <3> QED
      BY <3>2 DEF Recent
  <2> QED
    BY <2>1, <2>2, FS_EmptySet, FS_CardinalityType DEF BudgetWithCalls
<1> QED
  BY <1>2, <1>4, <1>5, <1>6, <1>7
     DEF AuthInv, CallsInVerify, OneWriter, NameStaysFree, BarredAreDisabled, CheckedIsNotBarred, At, Checked,
         Calling

-----------------------------------------------------------------------------
(* Frames.                                                                 *)

\* The rows and what is said of them alone.
StoreInv == StoreTypeOK /\ InviteBudget /\ NamesClashOnlyAcross

LEMMA StoreStays == ASSUME StoreInv, UNCHANGED store PROVE StoreInv'
  BY DEF StoreInv, StoreTypeOK, InviteBudget, NamesClashOnlyAcross, store

\* What is said of the calls.
CallsInv ==
    /\ CallsTypeOK /\ CallsInVerify /\ OneWriter /\ NameStaysFree
    /\ BarredAreDisabled /\ CheckedIsNotBarred
BudgetInv == ClocksTypeOK /\ BudgetWithCalls

\* The state after a call of one connection: nobody else's has changed.
OnlyCall(c) == \A d \in Clients \ {c} : call'[d] = call[d] /\ phase'[d] = phase[d] /\ barred'[d] = barred[d]

LEMMA FailedEffect ==
    ASSUME CallsTypeOK, NEW c \in Clients, Failed(c)
    PROVE  /\ phase' \in [Clients -> Phases] /\ phase'[c] \in {"auth", "gone"}
           /\ \A d \in Clients \ {c} : phase'[d] = phase[d]
  BY DEF Failed, LeaveAuth, CallsTypeOK, Phases

LEMMA SubmitEffect ==
    ASSUME StoreTypeOK, CallsTypeOK, NEW c \in Clients, NEW request \in Requests, Submit(c, request), UNCHANGED accounts
    PROVE  /\ phase' \in [Clients -> Phases] /\ phase'[c] = "verify"
           /\ call' \in [Clients -> Calls \cup {None}]
           /\ call'[c] = [request |-> request, step |-> "queued", account |-> None, token |-> None]
           /\ barred'[c] = Disabled' /\ barred' \in [Clients -> SUBSET Nat]
           /\ OnlyCall(c)
<1>1. [request |-> request, step |-> "queued", account |-> None, token |-> None] \in Calls
  BY DEF Calls
<1>2. Disabled \in SUBSET Nat /\ Disabled' = Disabled
  BY DEF Disabled, StoreTypeOK
<1> QED
  BY <1>1, <1>2 DEF Submit, CallsTypeOK, Phases, OnlyCall


\* A step of one connection that writes nothing and leaves its call unchecked.
LEMMA CallsKept ==
    ASSUME StoreTypeOK, CallsInv, NEW c \in Clients, OnlyCall(c), CallsTypeOK', UNCHANGED accounts,
           call'[c] # None => phase'[c] = "verify" /\ call'[c].step \in {"queued", "failed", "raised"},
           barred'[c] \subseteq Disabled
    PROVE  CallsInv'
<1>1. Disabled' = Disabled
  BY DEF Disabled
<1>2. CallsInVerify'
  BY DEF CallsInv, CallsInVerify, Calling, OnlyCall
<1>3. \A d \in Clients, step \in {"write", "ok"} : At(d, step)' => d # c /\ At(d, step)
  BY DEF At, OnlyCall
<1>4. OneWriter' /\ BarredAreDisabled'
  BY <1>1, <1>3 DEF CallsInv, OneWriter, BarredAreDisabled, OnlyCall
<1>5. NameStaysFree'
  BY <1>3 DEF CallsInv, NameStaysFree, OnlyCall, Request, Named
<1>6. CheckedIsNotBarred'
  BY <1>3 DEF CallsInv, CheckedIsNotBarred, Checked, OnlyCall, Request
<1> QED
  BY <1>2, <1>4, <1>5, <1>6 DEF CallsInv

\* The budgets do not mind calls that end, or time.
LEMMA BudgetKept ==
    ASSUME BudgetInv, UNCHANGED <<failures, registers>>, now' \in Nat, now <= now',
           Verifying' \subseteq Verifying
    PROVE  BudgetInv'
<1>1. IsFiniteSet(Verifying)
  BY AuthAssumption, FS_Subset DEF Verifying
<1>2. Cardinality(Verifying') <= Cardinality(Verifying)
      /\ Cardinality(Verifying') \in Nat /\ Cardinality(Verifying) \in Nat
  BY <1>1, FS_Subset, FS_CardinalityType
<1>3. Cardinality(Clients) \in Nat
  BY AuthAssumption, FS_CardinalityType
<1>4. ASSUME NEW events \in Seq(Nat)
      PROVE  Len(Prune(events, now')) <= Len(Prune(events, now))
             /\ Len(Prune(events, now')) \in Nat /\ Len(Prune(events, now)) \in Nat
  BY PruneLater, PruneType DEF BudgetInv, ClocksTypeOK
<1>5. Len(Recent(registers))' <= Len(Recent(registers)) /\ Len(Recent(failures))' <= Len(Recent(failures))
      /\ Len(Recent(registers))' \in Nat /\ Len(Recent(registers)) \in Nat
      /\ Len(Recent(failures))' \in Nat /\ Len(Recent(failures)) \in Nat
  BY <1>4 DEF BudgetInv, ClocksTypeOK, Recent
<1> QED
  BY <1>2, <1>3, <1>5, AuthAssumption DEF BudgetInv, ClocksTypeOK, BudgetWithCalls

\* One more failure takes the place its call had.
LEMMA BudgetFailure ==
    ASSUME BudgetInv, NEW c \in Clients, c \in Verifying, Verifying' = Verifying \ {c},
           failures' = Recorded(failures), UNCHANGED <<registers, now>>
    PROVE  BudgetInv'
<1>1. IsFiniteSet(Verifying)
  BY AuthAssumption, FS_Subset DEF Verifying
<1>2. Cardinality(Verifying') = Cardinality(Verifying) - 1 /\ Cardinality(Verifying) \in Nat
  BY <1>1, FS_RemoveElement, FS_CardinalityType
<1>3. Cardinality(Clients) \in Nat
  BY AuthAssumption, FS_CardinalityType
<1>4. failures' \in Seq(Nat) /\ Len(Recent(failures))' = Len(Recent(failures)) + 1
      /\ Len(Recent(failures)) \in Nat
  BY PruneKeepsRecorded, PruneType DEF BudgetInv, ClocksTypeOK, Recent, Recorded
<1>5. UNCHANGED Recent(registers)
  BY DEF Recent
<1> QED
  BY <1>2, <1>3, <1>4, <1>5, AuthAssumption DEF BudgetInv, ClocksTypeOK, BudgetWithCalls

-----------------------------------------------------------------------------
(* The frames of the auth phase.                                           *)

LEMMA AuthRequestStep ==
    ASSUME AuthInv, NEW c \in Clients, NEW name \in Names, NEW password \in {"right", "wrong"},
           AuthRequest(c, name, password)
    PROVE  AuthInv'
<1> DEFINE request == [op |-> "login", name |-> name, password |-> password]
<1>1. StoreInv'
  BY StoreStays DEF AuthInv, AuthTypeOK, StoreInv, AuthRequest
<1>2. CallsInv /\ BudgetInv /\ StoreTypeOK /\ CallsTypeOK /\ call[c] = None
  BY DEF AuthInv, AuthTypeOK, CallsInv, BudgetInv, AuthRequest, CallsInVerify, Calling
<1>3. UNCHANGED <<accounts, failures, registers, now>>
  BY DEF AuthRequest, store, clocks
<1>4. CASE WouldAllow(failures, LoginMax)
  <2>1. request \in Requests /\ Submit(c, request)
    BY <1>4 DEF AuthRequest, Requests
  <2>2. CallsTypeOK' /\ OnlyCall(c) /\ phase'[c] = "verify" /\ barred'[c] = Disabled'
        /\ call'[c] = [request |-> request, step |-> "queued", account |-> None, token |-> None]
    BY <1>2, <1>3, <2>1, SubmitEffect DEF CallsTypeOK
  <2>3. CallsInv'
    BY <1>2, <1>3, <2>2, CallsKept DEF Disabled
  <2>4. BudgetInv'
    <3>1. IsFiniteSet(Verifying) /\ IsFiniteSet(Clients) /\ c \notin Verifying /\ Verifying \subseteq Clients \ {c}
      BY <1>2, AuthAssumption, FS_Subset DEF Verifying, Calling
    <3>2. Verifying' \subseteq Clients /\ Cardinality(Clients) \in Nat /\ Cardinality(Verifying') \in Nat
          /\ Cardinality(Verifying') <= Cardinality(Clients)
      BY <3>1, FS_Subset, FS_CardinalityType DEF Verifying
    <3>3. Len(Recent(failures)) \in Nat /\ Len(Recent(failures)) < LoginMax /\ LoginMax \in Nat
      BY <1>2, <1>4, PruneType, AuthAssumption DEF WouldAllow, Recent, BudgetInv, ClocksTypeOK
    <3>4. UNCHANGED <<Recent(registers), Recent(failures)>>
      BY <1>3 DEF Recent
    <3> QED
      BY <1>2, <1>3, <3>2, <3>3, <3>4 DEF BudgetInv, BudgetWithCalls, ClocksTypeOK
  <2> QED
    BY <1>1, <2>3, <2>4 DEF AuthInv, AuthTypeOK, CallsInv, BudgetInv, StoreInv
<1>5. CASE ~WouldAllow(failures, LoginMax)
  <2>1. Failed(c) /\ UNCHANGED <<call, barred>>
    BY <1>5 DEF AuthRequest
  <2>2. OnlyCall(c) /\ CallsTypeOK'
    BY <1>2, <2>1, FailedEffect DEF OnlyCall, CallsTypeOK
  <2>3. CallsInv'
    BY <1>2, <1>3, <2>1, <2>2, CallsKept DEF CallsInv, BarredAreDisabled
  <2>4. BudgetInv'
    BY <1>2, <1>3, <2>1, BudgetKept DEF Verifying, Calling, Request, BudgetInv, ClocksTypeOK
  <2> QED
    BY <1>1, <2>3, <2>4 DEF AuthInv, AuthTypeOK, CallsInv, BudgetInv, StoreInv
<1> QED
  BY <1>4, <1>5

\* The other frames: a call that is submitted without a budget, or none.
LEMMA ResumeStep ==
    ASSUME AuthInv, NEW c \in Clients, NEW token \in 0 .. Len(sessions), Resume(c, token)
    PROVE  AuthInv'
<1> DEFINE request == [op |-> "resume", resumed |-> token]
<1>1. StoreInv'
  BY StoreStays DEF AuthInv, AuthTypeOK, StoreInv, Resume
<1>2. CallsInv /\ BudgetInv /\ StoreTypeOK /\ CallsTypeOK /\ call[c] = None
  BY DEF AuthInv, AuthTypeOK, CallsInv, BudgetInv, Resume, CallsInVerify, Calling
<1>3. UNCHANGED <<accounts, failures, registers, now>> /\ Submit(c, request) /\ request \in Requests
  BY <1>2 DEF Resume, store, clocks, Requests, StoreTypeOK
<1>4. CallsTypeOK' /\ OnlyCall(c) /\ phase'[c] = "verify" /\ barred'[c] = Disabled'
      /\ call'[c] = [request |-> request, step |-> "queued", account |-> None, token |-> None]
  BY <1>2, <1>3, SubmitEffect DEF CallsTypeOK
<1>5. CallsInv'
  BY <1>2, <1>3, <1>4, CallsKept DEF Disabled
<1>6. Verifying' \subseteq Verifying
  BY <1>4 DEF Verifying, Calling, Request, OnlyCall
<1>7. BudgetInv'
  BY <1>2, <1>3, <1>6, BudgetKept DEF BudgetInv, ClocksTypeOK
<1> QED
  BY <1>1, <1>5, <1>7 DEF AuthInv, AuthTypeOK, CallsInv, BudgetInv, StoreInv

LEMMA RegisterStep ==
    ASSUME AuthInv, NEW c \in Clients, NEW name \in Names, NEW code \in Codes, Register(c, name, code)
    PROVE  AuthInv'
<1> DEFINE request == [op |-> "register", name |-> name, code |-> code]
<1>1. StoreInv'
  BY StoreStays DEF AuthInv, AuthTypeOK, StoreInv, Register
<1>2. CallsInv /\ BudgetInv /\ StoreTypeOK /\ CallsTypeOK /\ call[c] = None
  BY DEF AuthInv, AuthTypeOK, CallsInv, BudgetInv, Register, CallsInVerify, Calling
<1>3. UNCHANGED <<accounts, failures, now>>
  BY DEF Register, store
<1>4. CASE WouldAllow(registers, RegisterMax)
  <2>1. request \in Requests /\ Submit(c, request) /\ registers' = Recorded(registers)
    BY <1>4 DEF Register, Requests
  <2>2. CallsTypeOK' /\ OnlyCall(c) /\ phase'[c] = "verify" /\ barred'[c] = Disabled'
        /\ call'[c] = [request |-> request, step |-> "queued", account |-> None, token |-> None]
    BY <1>2, <1>3, <2>1, SubmitEffect DEF CallsTypeOK
  <2>3. CallsInv'
    BY <1>2, <1>3, <2>2, CallsKept DEF Disabled
  <2>4. Verifying' = Verifying
    BY <1>2, <2>2 DEF Verifying, Calling, Request, OnlyCall
  <2>5. registers' \in Seq(Nat) /\ Len(Recent(registers))' = Len(Recent(registers)) + 1
        /\ Len(Recent(registers)) \in Nat
    BY <1>2, <1>3, <2>1, PruneKeepsRecorded, PruneType DEF BudgetInv, ClocksTypeOK, Recent, Recorded
  <2>6. Len(Recent(registers)) < RegisterMax /\ UNCHANGED Recent(failures)
    BY <1>3, <1>4 DEF WouldAllow, Recent
  <2>7. BudgetInv'
    BY <1>2, <1>3, <2>4, <2>5, <2>6, AuthAssumption DEF BudgetInv, BudgetWithCalls, ClocksTypeOK
  <2> QED
    BY <1>1, <2>3, <2>7 DEF AuthInv, AuthTypeOK, CallsInv, BudgetInv, StoreInv
<1>5. CASE ~WouldAllow(registers, RegisterMax)
  <2>1. Failed(c) /\ UNCHANGED <<call, barred, registers>>
    BY <1>5 DEF Register
  <2>2. OnlyCall(c) /\ CallsTypeOK'
    BY <1>2, <2>1, FailedEffect DEF OnlyCall, CallsTypeOK
  <2>3. CallsInv'
    BY <1>2, <1>3, <2>1, <2>2, CallsKept DEF CallsInv, BarredAreDisabled
  <2>4. BudgetInv'
    BY <1>2, <1>3, <2>1, BudgetKept DEF Verifying, Calling, Request, BudgetInv, ClocksTypeOK
  <2> QED
    BY <1>1, <2>3, <2>4 DEF AuthInv, AuthTypeOK, CallsInv, BudgetInv, StoreInv
<1> QED
  BY <1>4, <1>5

LEMMA NoCallStep ==
    ASSUME AuthInv, NEW c \in Clients, OtherFrame(c) \/ NoFrame(c)
    PROVE  AuthInv'
<1>1. StoreInv'
  BY StoreStays DEF AuthInv, AuthTypeOK, StoreInv, OtherFrame, NoFrame
<1>2. CallsInv /\ BudgetInv /\ StoreTypeOK /\ CallsTypeOK /\ call[c] = None
  BY DEF AuthInv, AuthTypeOK, CallsInv, BudgetInv, OtherFrame, NoFrame, CallsInVerify, Calling
<1>3. UNCHANGED <<accounts, failures, registers, now, call, barred>>
  BY DEF OtherFrame, NoFrame, store, clocks
<1>4. OnlyCall(c) /\ CallsTypeOK'
  BY <1>2, <1>3, FailedEffect DEF OtherFrame, NoFrame, LeaveAuth, Phases, OnlyCall, CallsTypeOK
<1>5. CallsInv'
  BY <1>2, <1>3, <1>4, CallsKept DEF CallsInv, BarredAreDisabled
<1>6. BudgetInv'
  BY <1>2, <1>3, BudgetKept DEF Verifying, Calling, Request, BudgetInv, ClocksTypeOK
<1> QED
  BY <1>1, <1>5, <1>6 DEF AuthInv, AuthTypeOK, CallsInv, BudgetInv, StoreInv

-----------------------------------------------------------------------------
(* The calls.                                                              *)

\* A call goes on to the next step.
LEMMA StepEffect ==
    ASSUME CallsTypeOK, NEW c \in Clients, call[c] # None,
           NEW step \in {"queued", "write", "ok", "failed", "raised"},
           NEW account \in Nat \cup {None}, NEW token \in Nat \cup {None},
           Step(c, step, account, token), UNCHANGED <<phase, barred>>
    PROVE  /\ CallsTypeOK' /\ OnlyCall(c)
           /\ call'[c] # None /\ Request(c)' = Request(c) /\ call'[c].step = step /\ call'[c].account = account
           /\ Verifying' = Verifying
<1>1. call[c] \in Calls
  BY DEF CallsTypeOK
<1>2. [call[c] EXCEPT !.step = step, !.account = account, !.token = token] \in Calls
  BY <1>1 DEF Calls
<1>3. call' = [call EXCEPT ![c] = [call[c] EXCEPT !.step = step, !.account = account, !.token = token]]
  BY DEF Step, CallsTypeOK
<1>4. CallsTypeOK' /\ OnlyCall(c)
  BY <1>2, <1>3 DEF CallsTypeOK, OnlyCall
<1>5. call'[c] # None /\ Request(c)' = Request(c) /\ call'[c].step = step /\ call'[c].account = account
  BY <1>1, <1>2, <1>3, AuthAssumption DEF CallsTypeOK, Calls, Request
<1> QED
  BY <1>4, <1>5 DEF OnlyCall, Request, Verifying, Calling

\* The façade's lock is free: a checked call may write.
LEMMA CallsToWrite ==
    ASSUME StoreTypeOK, CallsInv, NEW c \in Clients, OnlyCall(c), CallsTypeOK', UNCHANGED <<accounts, barred>>,
           FacadeFree, call[c] # None, phase'[c] = phase[c], Request(c)' = Request(c),
           call'[c] # None, call'[c].step = "write",
           Request(c).op \in {"login", "resume"} => call'[c].account \notin Disabled,
           Request(c).op = "register" => Named(Request(c).name) = {}
    PROVE  CallsInv'
<1>1. Disabled' = Disabled /\ \A name \in Names : Named(name)' = Named(name)
  BY DEF Disabled, Named
<1>2. CallsInVerify'
  BY DEF CallsInv, CallsInVerify, Calling, OnlyCall
<1>3. \A d \in Clients : At(d, "write")' => d = c
  BY DEF At, OnlyCall, FacadeFree
<1>4. OneWriter' /\ BarredAreDisabled'
  BY <1>1, <1>3 DEF CallsInv, OneWriter, BarredAreDisabled
<1>5. NameStaysFree'
  BY <1>3 DEF NameStaysFree, Named
<1>6. CheckedIsNotBarred'
  BY <1>3 DEF CallsInv, CheckedIsNotBarred, Checked, OnlyCall, BarredAreDisabled, At
<1> QED
  BY <1>2, <1>4, <1>5, <1>6 DEF CallsInv

\* A call that has written, or failed to.
LEMMA CallsWritten ==
    ASSUME CallsInv, NEW c \in Clients, OnlyCall(c), CallsTypeOK', UNCHANGED barred,
           At(c, "write"), phase'[c] = phase[c], Disabled' = Disabled,
           call'[c] # None, call'[c].step \in {"ok", "failed", "raised"},
           call'[c].step = "ok" => call'[c].account \notin barred[c]
    PROVE  CallsInv'
<1>1. CallsInVerify'
  BY DEF CallsInv, CallsInVerify, Calling, OnlyCall, At
<1>2. \A d \in Clients : ~At(d, "write")'
  BY DEF At, OnlyCall, CallsInv, OneWriter
<1>3. OneWriter' /\ NameStaysFree' /\ BarredAreDisabled'
  BY <1>2 DEF CallsInv, OneWriter, NameStaysFree, BarredAreDisabled
<1>4. CheckedIsNotBarred'
  BY <1>2 DEF CallsInv, CheckedIsNotBarred, Checked, OnlyCall, At
<1> QED
  BY <1>1, <1>3, <1>4 DEF CallsInv

LEMMA CallReadsStep == ASSUME AuthInv, NEW c \in Clients, CallReads(c) PROVE AuthInv'
<1>1. StoreInv'
  BY StoreStays DEF AuthInv, AuthTypeOK, StoreInv, CallReads
<1>2. CallsInv /\ BudgetInv /\ StoreTypeOK /\ CallsTypeOK /\ call[c] # None /\ FacadeFree
  BY DEF AuthInv, AuthTypeOK, CallsInv, BudgetInv, CallReads, At
<1>3. UNCHANGED <<accounts, failures, registers, now, phase, barred>> /\ phase[c] = "verify"
  BY <1>2 DEF CallReads, store, clocks, CallsInv, CallsInVerify, Calling
<1>4. ASSUME Step(c, "failed", None, None) PROVE CallsInv' /\ Verifying' = Verifying
  <2>1. CallsTypeOK' /\ OnlyCall(c) /\ call'[c].step = "failed" /\ Verifying' = Verifying
    BY <1>2, <1>3, <1>4, StepEffect
  <2> QED
    BY <1>2, <1>3, <2>1, CallsKept DEF CallsInv, BarredAreDisabled
<1>5. ASSUME NEW account \in Nat \cup {None}, NEW token \in Nat \cup {None}, Step(c, "write", account, token),
             Request(c).op \in {"login", "resume"} => account \notin Disabled,
             Request(c).op = "register" => Named(Request(c).name) = {}
      PROVE  CallsInv' /\ Verifying' = Verifying
  <2>1. CallsTypeOK' /\ OnlyCall(c) /\ call'[c] # None /\ call'[c].step = "write" /\ Request(c)' = Request(c)
        /\ call'[c].account = account /\ Verifying' = Verifying
    BY <1>2, <1>3, <1>5, StepEffect
  <2> QED
    BY <1>2, <1>3, <1>5, <2>1, CallsToWrite
<1>6. CallsInv' /\ Verifying' = Verifying
  <2>1. CASE LoginReads(c)
    <3>1. ASSUME NEW a \in Named(Request(c).name), ~accounts[a].disabled
          PROVE  a \in Nat /\ a \notin Disabled
      BY <1>2, <3>1 DEF Named, Disabled, StoreTypeOK
    <3> QED
      BY <1>4, <1>5, <2>1, <3>1 DEF LoginReads
  <2>2. CASE ResumeReads(c)
    <3>1. ASSUME GetSession(Request(c).resumed), ~accounts[sessions[Request(c).resumed].account].disabled
          PROVE  /\ sessions[Request(c).resumed].account \in Nat \cup {None} /\ Request(c).resumed \in Nat
                 /\ sessions[Request(c).resumed].account \notin Disabled
      <4>1. Request(c).resumed \in DOMAIN sessions /\ sessions[Request(c).resumed] \in SessionRows
            /\ DOMAIN sessions \subseteq Nat
        BY <1>2, <3>1 DEF GetSession, StoreTypeOK
      <4> QED
        BY <3>1, <4>1 DEF Disabled, SessionRows
    <3> QED
      BY <1>4, <1>5, <2>2, <3>1 DEF ResumeReads
  <2>3. CASE RegisterReads(c)
    BY <1>4, <1>5, <2>3 DEF RegisterReads
  <2> QED
    BY <2>1, <2>2, <2>3 DEF CallReads
<1>7. BudgetInv'
  BY <1>2, <1>3, <1>6, BudgetKept DEF BudgetInv, ClocksTypeOK
<1> QED
  BY <1>1, <1>6, <1>7 DEF AuthInv, AuthTypeOK, CallsInv, BudgetInv, StoreInv

\* A session is added: the rows of accounts and invites stay.
LEMMA SessionsChange ==
    ASSUME StoreInv, UNCHANGED <<accounts, invites, draft>>, sessions' \in Seq(SessionRows)
    PROVE  StoreInv'
  BY DEF StoreInv, StoreTypeOK, InviteBudget, NamesClashOnlyAcross

LEMMA IssueType ==
    ASSUME StoreTypeOK, ClocksTypeOK, NEW account \in Nat \cup {None}
    PROVE  Issue(account) \in Seq(SessionRows) /\ Len(Issue(account)) \in Nat
<1>1. [account |-> account, expires |-> now + Lifetime, stored |-> TRUE] \in SessionRows
  BY AuthAssumption DEF ClocksTypeOK, SessionRows
<1> QED
  BY <1>1 DEF Issue, StoreTypeOK

\* An account is added under a name that nobody but an operator's has, spelled
\* otherwise, and its invite is used once more.
LEMMA AccountsGrow ==
    ASSUME StoreTypeOK, NEW row \in AccountRows, ~row.disabled, accounts' = Append(accounts, row)
    PROVE  /\ accounts' \in Seq(AccountRows) /\ Len(accounts) \in Nat
           /\ DOMAIN accounts = 1 .. Len(accounts) /\ DOMAIN accounts' = 1 .. Len(accounts) + 1
           /\ accounts'[Len(accounts) + 1] = row
           /\ \A a \in DOMAIN accounts : accounts'[a] = accounts[a]
           /\ Disabled' = Disabled /\ Disabled \subseteq DOMAIN accounts
<1>1. /\ accounts' \in Seq(AccountRows) /\ Len(accounts) \in Nat
      /\ DOMAIN accounts = 1 .. Len(accounts) /\ DOMAIN accounts' = 1 .. Len(accounts) + 1
      /\ accounts'[Len(accounts) + 1] = row
      /\ \A a \in DOMAIN accounts : accounts'[a] = accounts[a]
  BY DEF StoreTypeOK
<1> QED
  BY <1>1 DEF Disabled

\* Who came by an invite, one more or not.
Came(code) == {a \in DOMAIN accounts : accounts[a].via = code}
LEMMA CameGrows ==
    ASSUME StoreTypeOK, NEW row \in AccountRows, ~row.disabled, accounts' = Append(accounts, row), NEW code
    PROVE  /\ Cardinality(Came(code)) \in Nat
           /\ Cardinality(Came(code)') = IF row.via = code THEN Cardinality(Came(code)) + 1
                                         ELSE Cardinality(Came(code))
<1>1. IsFiniteSet(Came(code)) /\ Len(accounts) + 1 \notin Came(code)
  <2>1. Len(accounts) \in Int /\ Came(code) \subseteq 1 .. Len(accounts) /\ 1 \in Int
    BY AccountsGrow DEF Came
  <2>2. IsFiniteSet(1 .. Len(accounts))
    BY <2>1, FS_Interval
  <2> QED
    BY <2>1, <2>2, FS_Subset, AccountsGrow
<1>2. CASE row.via = code
  <2>1. Came(code)' = Came(code) \cup {Len(accounts) + 1}
    BY <1>2, AccountsGrow DEF Came
  <2> QED
    BY <1>1, <1>2, <2>1, FS_AddElement, FS_CardinalityType
<1>3. CASE row.via # code
  <2>1. Came(code)' = Came(code)
    BY <1>3, AccountsGrow DEF Came
  <2> QED
    BY <1>1, <1>3, <2>1, FS_CardinalityType
<1> QED
  BY <1>2, <1>3

\* An account that is added leaves names and budgets as they should be.
LEMMA StoreGrows ==
    ASSUME StoreInv, NEW row \in AccountRows, ~row.disabled, accounts' = Append(accounts, row),
           row.via # "operator" => \A a \in Named(row.name) : accounts[a].via = "operator",
           \/ row.via = "operator" /\ UNCHANGED invites
           \/ /\ row.via \in DOMAIN invites /\ invites[row.via].used < MaxUses
              /\ invites' = [invites EXCEPT ![row.via].used = @ + 1],
           sessions' \in Seq(SessionRows), draft' \in Names \cup {None}
    PROVE  StoreInv'
<1>1. StoreTypeOK /\ InviteBudget /\ NamesClashOnlyAcross
  BY DEF StoreInv
<1>2. DOMAIN invites' = DOMAIN invites /\ DOMAIN invites \subseteq Codes
      /\ invites \in [DOMAIN invites -> InviteRows]
  BY <1>1 DEF StoreTypeOK
<1>3. StoreTypeOK'
  <2>1. invites' \in [DOMAIN invites' -> InviteRows]
    <3>1. CASE UNCHANGED invites
      BY <1>2, <3>1
    <3>2. CASE row.via \in DOMAIN invites /\ invites' = [invites EXCEPT ![row.via].used = @ + 1]
      <4>1. invites[row.via] \in InviteRows
        BY <1>2, <3>2
      <4>2. [invites[row.via] EXCEPT !.used = @ + 1] \in InviteRows
        <5>1. PICK r \in InviteRows : r = invites[row.via]
          BY <4>1
        <5>2. r.used + 1 \in Nat
          BY <5>1 DEF InviteRows
        <5>3. [r EXCEPT !.used = r.used + 1] \in InviteRows
          BY <5>2 DEF InviteRows
        <5> QED
          BY <5>1, <5>3
      <4> QED
        BY <1>2, <3>2, <4>2
    <3> QED
      BY <3>1, <3>2
  <2>2. \A a \in DOMAIN accounts' : accounts'[a].via \in DOMAIN invites' \cup {"operator"}
    BY <1>1, <1>2, AccountsGrow DEF StoreTypeOK
  <2> QED
    BY <1>1, <1>2, <2>1, <2>2, AccountsGrow DEF StoreTypeOK
<1>4. InviteBudget'
  <2> SUFFICES ASSUME NEW k \in DOMAIN invites
               PROVE  invites'[k].used = Cardinality(Came(k)') /\ invites'[k].used <= MaxUses
    BY <1>2 DEF InviteBudget, Came
  <2>1. k \in Codes /\ invites[k] \in InviteRows /\ invites[k].used = Cardinality(Came(k))
        /\ invites[k].used <= MaxUses
    BY <1>1, <1>2 DEF InviteBudget, Came
  <2>2. Cardinality(Came(k)') = IF row.via = k THEN Cardinality(Came(k)) + 1 ELSE Cardinality(Came(k))
    BY <1>1, CameGrows
  <2>3. invites'[k].used = IF row.via = k THEN invites[k].used + 1 ELSE invites[k].used
    BY <2>1, <1>2, AuthAssumption DEF InviteRows
  <2> QED
    BY <2>1, <2>2, <2>3, AuthAssumption DEF InviteRows
<1>5. NamesClashOnlyAcross'
  <2>1. \A a \in DOMAIN accounts : Lower[accounts[a].name] = Lower[row.name] =>
            "operator" \in {accounts[a].via, row.via}
    BY DEF Named
  <2> QED
    BY <1>1, <2>1, AccountsGrow DEF NamesClashOnlyAcross
<1> QED
  BY <1>3, <1>4, <1>5 DEF StoreInv

LEMMA CallWritesStep == ASSUME AuthInv, NEW c \in Clients, CallWrites(c) PROVE AuthInv'
<1>1. CallsInv /\ BudgetInv /\ StoreInv /\ StoreTypeOK /\ CallsTypeOK /\ ClocksTypeOK /\ call[c] # None /\ At(c, "write")
  BY DEF AuthInv, AuthTypeOK, CallsInv, BudgetInv, StoreInv, CallWrites, At
<1>2. UNCHANGED <<draft, failures, registers, now, phase, barred>> /\ barred[c] \subseteq Disabled
      /\ call[c] \in Calls /\ call[c].account \in Nat \cup {None} /\ call[c].token \in Nat \cup {None}
  BY <1>1 DEF CallWrites, clocks, CallsInv, BarredAreDisabled, CallsTypeOK, Calls
<1>3. ASSUME NEW step \in {"ok", "failed", "raised"},
             NEW account \in Nat \cup {None}, NEW token \in Nat \cup {None}, Step(c, step, account, token),
             step = "ok" => account \notin barred[c], Disabled' = Disabled
      PROVE  CallsInv' /\ BudgetInv'
  <2>1. CallsTypeOK' /\ OnlyCall(c) /\ call'[c] # None /\ call'[c].step = step
        /\ call'[c].account = account /\ Verifying' = Verifying
    BY <1>1, <1>2, <1>3, StepEffect
  <2>2. CallsInv'
    BY <1>1, <1>2, <1>3, <2>1, CallsWritten
  <2> QED
    BY <1>1, <1>2, <2>1, <2>2, BudgetKept DEF BudgetInv, ClocksTypeOK
<1>4. Request(c).op \in {"login", "resume"} => call[c].account \notin barred[c]
  BY <1>1 DEF CallsInv, CheckedIsNotBarred, Checked
<1>5. CASE LoginWrites(c)
  <2>1. sessions' \in Seq(SessionRows) /\ Len(sessions') \in Nat
    BY <1>1, <1>2, <1>5, IssueType DEF LoginWrites
  <2>2. StoreInv' /\ Disabled' = Disabled
    BY <1>1, <1>2, <1>5, <2>1, SessionsChange DEF LoginWrites, Disabled
  <2>3. CallsInv' /\ BudgetInv'
    BY <1>2, <1>3, <1>4, <1>5, <2>1, <2>2 DEF LoginWrites
  <2> QED
    BY <2>2, <2>3 DEF AuthInv, AuthTypeOK, CallsInv, BudgetInv, StoreInv
<1>6. CASE ResumeWrites(c)
  <2>1. sessions' \in Seq(SessionRows)
    <3>1. now + Lifetime \in Nat
      BY <1>1, AuthAssumption DEF ClocksTypeOK
    <3>2. CASE call[c].token \in DOMAIN sessions
      <4>1. sessions[call[c].token] \in SessionRows
        BY <1>1, <3>2 DEF StoreTypeOK
      <4>2. [sessions[call[c].token] EXCEPT !.expires = now + Lifetime] \in SessionRows
        BY <3>1, <4>1 DEF SessionRows
      <4> QED
        BY <1>1, <1>6, <3>2, <4>2 DEF ResumeWrites, RenewSession, StoreTypeOK
    <3>3. CASE call[c].token \notin DOMAIN sessions
      <4> DEFINE n == Len(sessions)
                 same == [t \in 1 .. n |-> sessions[t]]
      <4>1. n \in Nat /\ DOMAIN sessions = 1 .. n /\ \A t \in 1 .. n : sessions[t] \in SessionRows
        BY <1>1 DEF StoreTypeOK
      <4>2. same \in Seq(SessionRows)
        BY <4>1, IsASeq
      <4>3. sessions' = same
        BY <1>6, <3>3, <4>1 DEF ResumeWrites, RenewSession
      <4> QED
        BY <4>2, <4>3
    <3> QED
      BY <3>2, <3>3
  <2>2. StoreInv' /\ Disabled' = Disabled
    BY <1>1, <1>2, <1>6, <2>1, SessionsChange DEF ResumeWrites, Disabled
  <2>3. CallsInv' /\ BudgetInv'
    BY <1>2, <1>3, <1>4, <1>6, <2>2 DEF ResumeWrites
  <2> QED
    BY <2>2, <2>3 DEF AuthInv, AuthTypeOK, CallsInv, BudgetInv, StoreInv
<1>7. CASE RegisterWrites(c)
  <2>1. CASE (Step(c, "failed", None, None) \/ Step(c, "raised", None, None))
             /\ UNCHANGED <<accounts, sessions, invites>>
    <3>1. StoreInv' /\ Disabled' = Disabled
      BY <1>1, <1>2, <2>1, StoreStays DEF store, Disabled
    <3>2. CallsInv' /\ BudgetInv'
      BY <1>3, <2>1, <3>1
    <3> QED
      BY <3>1, <3>2 DEF AuthInv, AuthTypeOK, CallsInv, BudgetInv, StoreInv
  <2>2. CASE /\ Redeemable(Request(c).code) /\ Redeem(Request(c).code)
             /\ accounts' = Append(accounts, Account(Request(c).name, "user", Request(c).code))
             /\ sessions' = Issue(Len(accounts'))
             /\ Step(c, "ok", Len(accounts'), Len(sessions'))
    <3> DEFINE row == Account(Request(c).name, "user", Request(c).code)
    <3>1. Request(c) \in Requests /\ Request(c).op = "register"
      BY <1>2, <1>7 DEF Calls, Request, RegisterWrites
    <3>2. Request(c).name \in Names /\ Request(c).code \in Codes
      BY <3>1 DEF Requests
    <3>3. row \in AccountRows /\ ~row.disabled /\ row.via = Request(c).code /\ row.name = Request(c).name
      BY <3>2 DEF AccountRows, Account
    <3>4. \A a \in Named(row.name) : accounts[a].via = "operator"
      BY <1>1, <3>1, <3>3 DEF CallsInv, NameStaysFree
    <3>5. Len(accounts) \in Nat /\ Len(accounts') = Len(accounts) + 1 /\ Disabled' = Disabled
          /\ Len(accounts) + 1 \notin barred[c]
      <4>1. accounts' \in Seq(AccountRows) /\ DOMAIN accounts' = 1 .. Len(accounts) + 1 /\ Disabled' = Disabled
            /\ DOMAIN accounts = 1 .. Len(accounts) /\ Len(accounts) \in Nat /\ Disabled \subseteq DOMAIN accounts
        BY <1>1, <2>2, <3>3, AccountsGrow
      <4> QED
        BY <1>2, <4>1
    <3>6. sessions' \in Seq(SessionRows) /\ Len(sessions') \in Nat
      BY <1>1, <2>2, <3>5, IssueType
    <3>7. StoreInv'
      <4> HIDE DEF row
      <4>1. row.via \in DOMAIN invites /\ invites[row.via].used < MaxUses
            /\ invites' = [invites EXCEPT ![row.via].used = @ + 1]
        BY <2>2, <3>3 DEF Redeemable, Redeem
      <4>2. accounts' = Append(accounts, row) /\ draft' \in Names \cup {None}
        BY <1>1, <1>2, <2>2 DEF row, StoreTypeOK
      <4> QED
        BY <1>1, <3>3, <3>4, <3>6, <4>1, <4>2, StoreGrows
    <3>8. CallsInv' /\ BudgetInv'
      BY <1>3, <2>2, <3>5, <3>6
    <3> QED
      BY <3>7, <3>8 DEF AuthInv, AuthTypeOK, CallsInv, BudgetInv, StoreInv
  <2> QED
    BY <1>7, <2>1, <2>2 DEF RegisterWrites
<1> QED
  BY <1>5, <1>6, <1>7 DEF CallWrites

LEMMA AnswerStep == ASSUME AuthInv, NEW c \in Clients, Answer(c) PROVE AuthInv'
<1>1. StoreInv'
  BY StoreStays DEF AuthInv, AuthTypeOK, StoreInv, Answer
<1>2. CallsInv /\ BudgetInv /\ StoreTypeOK /\ CallsTypeOK /\ call[c] # None
  BY DEF AuthInv, AuthTypeOK, CallsInv, BudgetInv, Answer, Admitted, Refused, HandlerDies, At
<1>3. UNCHANGED <<accounts, registers, now>> /\ call' = [call EXCEPT ![c] = None] /\ barred' = [barred EXCEPT ![c] = {}]
  BY DEF Answer, store
<1>4. phase' \in [Clients -> Phases] /\ \A d \in Clients \ {c} : phase'[d] = phase[d]
  <2>1. CASE Failed(c)
    BY <1>2, <2>1, FailedEffect
  <2>2. CASE LeaveAuth(c, "lobby") \/ LeaveAuth(c, "gone")
    BY <1>2, <2>2 DEF LeaveAuth, CallsTypeOK, Phases
  <2> QED
    BY <2>1, <2>2 DEF Answer, Admitted, Refused, HandlerDies
<1>5. CallsTypeOK' /\ OnlyCall(c) /\ call'[c] = None /\ barred'[c] = {}
  BY <1>2, <1>3, <1>4 DEF CallsTypeOK, OnlyCall
<1>6. CallsInv'
  BY <1>2, <1>3, <1>5, CallsKept
<1>7. BudgetInv'
  <2>1. Verifying' = Verifying \ {c}
    BY <1>5 DEF Verifying, Calling, Request, OnlyCall
  <2>2. CASE UNCHANGED failures
    BY <1>2, <1>3, <2>1, <2>2, BudgetKept DEF BudgetInv, ClocksTypeOK
  <2>3. CASE Request(c).op = "login" /\ failures' = Recorded(failures)
    BY <1>2, <1>3, <2>1, <2>3, BudgetFailure DEF Verifying, Calling
  <2> QED
    BY <2>2, <2>3 DEF Answer, Admitted, Refused, HandlerDies
<1> QED
  BY <1>1, <1>6, <1>7 DEF AuthInv, AuthTypeOK, CallsInv, BudgetInv, StoreInv

-----------------------------------------------------------------------------
(* The operator, and time.                                                 *)

\* Rows change under the calls: who takes a name is the operator's, and who is
\* enabled again is no longer barred.
LEMMA CallsOverRows ==
    ASSUME CallsInv, UNCHANGED <<phase, call>>, barred' \in [Clients -> SUBSET Nat],
           \A c \in Clients : barred'[c] \subseteq barred[c] /\ barred'[c] \subseteq Disabled',
           \A name \in Names : \A a \in Named(name)' : accounts'[a].via # "operator" =>
               a \in Named(name) /\ accounts[a].via = accounts'[a].via
    PROVE  CallsInv'
<1>1. CallsTypeOK' /\ CallsInVerify' /\ OneWriter' /\ BarredAreDisabled' /\ CheckedIsNotBarred'
  BY DEF CallsInv, CallsTypeOK, CallsInVerify, OneWriter, BarredAreDisabled, CheckedIsNotBarred, Calling, At,
         Checked, Request
<1>2. NameStaysFree'
  <2> SUFFICES ASSUME NEW c \in Clients, At(c, "write"), Request(c).op = "register",
                      NEW a \in Named(Request(c).name)'
               PROVE  accounts'[a].via = "operator"
    BY DEF NameStaysFree, At, Request
  <2>1. Request(c).name \in Names
    <3>1. Request(c) \in Requests
      BY DEF CallsInv, CallsTypeOK, Calls, At, Request
    <3> QED
      BY <3>1 DEF Requests
  <2> QED
    BY <2>1 DEF CallsInv, NameStaysFree, Request, Named
<1> QED
  BY <1>1, <1>2 DEF CallsInv

\* A row of an account changes, but for its name and its invite.
LEMMA StoreRowSet ==
    ASSUME StoreInv, UNCHANGED <<sessions, invites, draft>>, accounts' \in Seq(AccountRows),
           DOMAIN accounts' = DOMAIN accounts,
           \A a \in DOMAIN accounts : accounts'[a].name = accounts[a].name /\ accounts'[a].via = accounts[a].via
    PROVE  StoreInv'
<1>1. \A k : Came(k)' = Came(k)
  BY DEF Came
<1>2. InviteBudget'
  BY <1>1 DEF StoreInv, InviteBudget, Came
<1> QED
  BY <1>2 DEF StoreInv, StoreTypeOK, NamesClashOnlyAcross

LEMMA CreateStep ==
    ASSUME AuthInv, (\E name \in Names : CreateChecks(name)) \/ CreateInserts
    PROVE  AuthInv'
<1>1. CallsInv /\ BudgetInv /\ StoreInv /\ StoreTypeOK
  BY DEF AuthInv, AuthTypeOK, CallsInv, BudgetInv, StoreInv
<1>2. UNCHANGED <<failures, registers, now, barred, phase, call, sessions, invites>> /\ draft' \in Names \cup {None}
  BY DEF CreateChecks, CreateInserts, clocks, auth
<1>3. BudgetInv'
  BY <1>1, <1>2, BudgetKept DEF Verifying, Calling, Request, BudgetInv, ClocksTypeOK
<1>4. CASE UNCHANGED accounts
  <2>1. StoreInv'
    BY <1>1, <1>2, <1>4 DEF StoreInv, StoreTypeOK, InviteBudget, NamesClashOnlyAcross
  <2>2. CallsInv'
    BY <1>1, <1>2, <1>4, CallsOverRows DEF CallsInv, CallsTypeOK, BarredAreDisabled, Named, Disabled
  <2> QED
    BY <1>3, <2>1, <2>2 DEF AuthInv, AuthTypeOK, CallsInv, BudgetInv, StoreInv
<1>5. CASE draft # None /\ accounts' = Append(accounts, Account(draft, "user", "operator"))
  <2>1. PICK row \in AccountRows : /\ accounts' = Append(accounts, row) /\ ~row.disabled /\ row.via = "operator"
    <3>1. draft \in Names
      BY <1>1, <1>5 DEF StoreTypeOK
    <3>2. Account(draft, "user", "operator") \in AccountRows
      BY <3>1 DEF AccountRows, Account
    <3> QED
      BY <1>5, <3>2 DEF Account
  <2>2. StoreInv'
    BY <1>1, <1>2, <2>1, StoreGrows DEF StoreTypeOK
  <2>3. DOMAIN accounts' = DOMAIN accounts \cup {Len(accounts) + 1} /\ Disabled' = Disabled
        /\ accounts'[Len(accounts) + 1] = row /\ \A a \in DOMAIN accounts : accounts'[a] = accounts[a]
    BY <1>1, <2>1, AccountsGrow
  <2>4. CallsInv'
    <3>1. ASSUME NEW name \in Names, NEW a \in Named(name)', accounts'[a].via # "operator"
          PROVE  a \in Named(name) /\ accounts[a].via = accounts'[a].via
      BY <2>1, <2>3, <3>1 DEF Named
    <3>2. barred' \in [Clients -> SUBSET Nat] /\ \A c \in Clients : barred'[c] \subseteq Disabled'
      BY <1>1, <1>2, <2>3 DEF CallsInv, CallsTypeOK, BarredAreDisabled
    <3> QED
      BY <1>1, <1>2, <3>1, <3>2, CallsOverRows
  <2> QED
    BY <1>3, <2>2, <2>4 DEF AuthInv, AuthTypeOK, CallsInv, BudgetInv, StoreInv
<1> QED
  BY <1>4, <1>5 DEF CreateChecks, CreateInserts

LEMMA SetAccountStep ==
    ASSUME AuthInv, NEW a \in DOMAIN accounts,
           \/ \E disabled \in BOOLEAN : SetAccountDisabled(a, disabled)
           \/ \E role \in {"user", "admin"} : SetAccountRole(a, role)
    PROVE  AuthInv'
<1>1. CallsInv /\ BudgetInv /\ StoreInv /\ StoreTypeOK /\ accounts[a] \in AccountRows
  BY DEF AuthInv, AuthTypeOK, CallsInv, BudgetInv, StoreInv, StoreTypeOK
<1>2. UNCHANGED <<failures, registers, now, phase, call, sessions, invites, draft>>
  BY DEF SetAccountDisabled, SetAccountRole, auth
<1>3. BudgetInv'
  BY <1>1, <1>2, BudgetKept DEF Verifying, Calling, Request, BudgetInv, ClocksTypeOK
<1>4. PICK row \in AccountRows :
        accounts' = [accounts EXCEPT ![a] = row] /\ row.name = accounts[a].name /\ row.via = accounts[a].via
        /\ \/ row.disabled = accounts[a].disabled /\ UNCHANGED barred
           \/ barred' = [c \in Clients |-> barred[c] \ {a}]
  <2>1. CASE \E disabled \in BOOLEAN : SetAccountDisabled(a, disabled)
    <3>1. PICK disabled \in BOOLEAN : SetAccountDisabled(a, disabled)
      BY <2>1
    <3>2. [accounts[a] EXCEPT !.disabled = disabled] \in AccountRows
      BY <1>1 DEF AccountRows
    <3> QED
      BY <1>1, <3>1, <3>2 DEF SetAccountDisabled, AccountRows
  <2>2. CASE \E role \in {"user", "admin"} : SetAccountRole(a, role)
    <3>1. PICK role \in {"user", "admin"} : SetAccountRole(a, role)
      BY <2>2
    <3>2. [accounts[a] EXCEPT !.role = role] \in AccountRows
      BY <1>1 DEF AccountRows
    <3> QED
      BY <1>1, <3>1, <3>2 DEF SetAccountRole, AccountRows
  <2> QED
    BY <2>1, <2>2
<1>5. accounts' \in Seq(AccountRows) /\ DOMAIN accounts' = DOMAIN accounts
      /\ accounts'[a] = row /\ \A b \in DOMAIN accounts \ {a} : accounts'[b] = accounts[b]
  BY <1>1, <1>4 DEF StoreTypeOK
<1>6. StoreInv'
  BY <1>1, <1>2, <1>4, <1>5, StoreRowSet
<1>7. CallsInv'
  <2>1. \A name \in Names : \A b \in Named(name)' : b \in Named(name) /\ accounts[b].via = accounts'[b].via
    BY <1>4, <1>5 DEF Named
  <2>2. barred' \in [Clients -> SUBSET Nat]
        /\ \A c \in Clients : barred'[c] \subseteq barred[c] /\ barred'[c] \subseteq Disabled'
    BY <1>1, <1>4, <1>5 DEF CallsInv, CallsTypeOK, BarredAreDisabled, Disabled
  <2> QED
    BY <1>1, <1>2, <2>1, <2>2, CallsOverRows
<1> QED
  BY <1>3, <1>6, <1>7 DEF AuthInv, AuthTypeOK, CallsInv, BudgetInv, StoreInv

LEMMA InviteStep ==
    ASSUME AuthInv,
           \/ \E code \in Codes : \E expires \in {1, MaxTime + 1} : MintInvite(code, expires)
           \/ \E code \in DOMAIN invites : RevokeInvite(code)
    PROVE  AuthInv'
<1>1. CallsInv /\ BudgetInv /\ StoreTypeOK /\ InviteBudget /\ NamesClashOnlyAcross
  BY DEF AuthInv, AuthTypeOK, CallsInv, BudgetInv
<1>2. UNCHANGED <<failures, registers, now, phase, call, barred, accounts, sessions, draft>>
  BY DEF MintInvite, RevokeInvite, auth
<1>3. BudgetInv'
  BY <1>1, <1>2, BudgetKept DEF Verifying, Calling, Request, BudgetInv, ClocksTypeOK
<1>4. CallsInv'
  BY <1>1, <1>2, CallsOverRows DEF CallsInv, CallsTypeOK, BarredAreDisabled, Named, Disabled
<1>5. DOMAIN invites \subseteq Codes /\ invites \in [DOMAIN invites -> InviteRows]
  BY <1>1 DEF StoreTypeOK
<1>6. ASSUME NEW code \in Codes, NEW expires \in {1, MaxTime + 1}, MintInvite(code, expires)
      PROVE  StoreTypeOK' /\ InviteBudget'
  <2>1. DOMAIN invites' = DOMAIN invites \cup {code} /\ code \notin DOMAIN invites
        /\ invites'[code] = Invite(expires) /\ \A k \in DOMAIN invites : invites'[k] = invites[k]
    BY <1>5, <1>6 DEF MintInvite
  <2>6. invites' \in [DOMAIN invites' -> InviteRows]
    <3>1. Invite(expires) \in InviteRows
      BY AuthAssumption DEF Invite, InviteRows
    <3> QED
      BY <1>5, <1>6, <2>1, <3>1 DEF MintInvite
  <2>2. StoreTypeOK'
    <3>1. \A a \in DOMAIN accounts : accounts[a].via \in DOMAIN invites' \cup {"operator"}
      BY <1>1, <2>1 DEF StoreTypeOK
    <3>2. DOMAIN invites' \subseteq Codes
      BY <1>5, <2>1
    <3>3. accounts' \in Seq(AccountRows) /\ sessions' \in Seq(SessionRows) /\ draft' \in Names \cup {None}
      BY <1>1, <1>2 DEF StoreTypeOK
    <3>4. \A a \in DOMAIN accounts' : accounts'[a].via \in DOMAIN invites' \cup {"operator"}
      BY <1>2, <3>1
    <3> QED
      BY <2>6, <3>2, <3>3, <3>4 DEF StoreTypeOK
  <2>3. Came(code) = {}
    BY <1>1, <1>6, <2>1, AuthAssumption DEF Came, StoreTypeOK
  <2>4. Cardinality(Came(code)) = 0
    BY <2>3, FS_EmptySet, Zenon
  <2>5. InviteBudget'
    <3> SUFFICES ASSUME NEW k \in DOMAIN invites'
                 PROVE  invites'[k].used = Cardinality(Came(k)) /\ invites'[k].used <= MaxUses
      BY <1>2 DEF InviteBudget, Came
    <3>1. CASE k = code
      BY <2>1, <2>4, <3>1, AuthAssumption DEF Invite
    <3>2. CASE k # code
      BY <1>1, <2>1, <3>2 DEF InviteBudget, Came
    <3> QED
      BY <3>1, <3>2
  <2> QED
    BY <2>2, <2>5
<1>7. ASSUME NEW code \in DOMAIN invites, RevokeInvite(code)
      PROVE  StoreTypeOK' /\ InviteBudget'
  <2>1. [invites[code] EXCEPT !.disabled = TRUE] \in InviteRows
    BY <1>5 DEF InviteRows
  <2>2. DOMAIN invites' = DOMAIN invites /\ invites' \in [DOMAIN invites' -> InviteRows]
        /\ \A k \in DOMAIN invites : invites'[k].used = invites[k].used
    BY <1>5, <1>7, <2>1 DEF RevokeInvite, InviteRows
  <2> QED
    BY <1>1, <1>2, <1>5, <2>2 DEF StoreTypeOK, InviteBudget
<1>8. StoreInv'
  BY <1>1, <1>2, <1>6, <1>7 DEF StoreInv, NamesClashOnlyAcross
<1> QED
  BY <1>3, <1>4, <1>8 DEF AuthInv, AuthTypeOK, CallsInv, BudgetInv, StoreInv

LEMMA TimeStep == ASSUME AuthInv, SessionCleanup \/ Tick PROVE AuthInv'
<1>1. CallsInv /\ BudgetInv /\ StoreInv /\ StoreTypeOK /\ now \in Nat
  BY DEF AuthInv, AuthTypeOK, CallsInv, BudgetInv, StoreInv, ClocksTypeOK
<1>2. UNCHANGED <<failures, registers, phase, call, barred, accounts, invites, draft>>
      /\ now' \in Nat /\ now <= now'
  BY <1>1 DEF SessionCleanup, Tick, auth, store, clocks
<1>3. sessions' \in Seq(SessionRows)
  <2>1. CASE Tick
    BY <1>1, <2>1 DEF Tick, store, StoreTypeOK
  <2>2. CASE SessionCleanup
    <3>1. DOMAIN sessions' = 1 .. Len(sessions) /\ Len(sessions) \in Nat /\ DOMAIN sessions = 1 .. Len(sessions)
      BY <1>1, <2>2 DEF SessionCleanup, StoreTypeOK
    <3>2. ASSUME NEW t \in DOMAIN sessions PROVE sessions'[t] \in SessionRows
      <4>1. sessions[t] \in SessionRows /\ sessions[t].stored \in BOOLEAN
        <5>1. sessions[t] \in SessionRows
          BY <1>1 DEF StoreTypeOK
        <5>2. \A row \in SessionRows : row.stored \in BOOLEAN
          BY DEF SessionRows
        <5> QED
          BY <5>1, <5>2
      <4>2. (sessions[t].stored /\ sessions[t].expires >= now) \in BOOLEAN
        OBVIOUS
      <4>3. [sessions[t] EXCEPT !.stored = @ /\ sessions[t].expires >= now] \in SessionRows
        BY <4>1, <4>2 DEF SessionRows
      <4> QED
        BY <2>2, <4>3 DEF SessionCleanup
    <3>3. sessions' = [t \in 1 .. Len(sessions) |-> sessions'[t]]
      BY <2>2, <3>1 DEF SessionCleanup
    <3> QED
      BY <3>1, <3>2, <3>3, IsASeq
  <2> QED
    BY <2>1, <2>2
<1>4. StoreInv'
  BY <1>1, <1>2, <1>3, SessionsChange
<1>5. BudgetInv'
  BY <1>1, <1>2, BudgetKept DEF Verifying, Calling, Request, BudgetInv, ClocksTypeOK
<1>6. CallsInv'
  BY <1>1, <1>2, CallsOverRows DEF CallsInv, CallsTypeOK, BarredAreDisabled, Named, Disabled
<1> QED
  BY <1>4, <1>5, <1>6 DEF AuthInv, AuthTypeOK, CallsInv, BudgetInv, StoreInv

-----------------------------------------------------------------------------
(* The house: the books of the tables against the phases of the handlers.  *)

InHouse == {"lobby", "table", "watch", "closing"}

SeatsTypeOK ==
    /\ seat = [t \in Tables |-> [user |-> seat[t].user, sink |-> seat[t].sink]]
    /\ \A t \in Tables : seat[t].sink \in Clients \cup {None}
    /\ DOMAIN player = Tables
LobbyTypeOK ==
    /\ phase \in [Clients -> Phases] /\ place \in [Clients -> Tables \cup {None}]
    /\ toClose \subseteq Tables /\ listed \subseteq Tables
    /\ watchers \in [Tables -> SUBSET Clients]
    /\ hand \in [Tables -> {"none", "running", "done"}]
    /\ closing \in [Closers -> Awaits \cup {None}]
    /\ SeatsTypeOK

Warned == told \cup late

(***************************************************************************)
(* Who closes a table does nothing else.  Whoever is at a table without    *)
(* being in its books has been told, or came while it was closed; and what *)
(* a close has been through is in nobody's hands but theirs.               *)
(***************************************************************************)
CloserCloses == \A c \in Clients : closing[c] # None => phase[c] = "closing"
PlayerIsHolder == \A t \in Tables : seat[t].user # None => player[t] = seat[t].user
InBooksOrWarned ==
    \A c \in Clients :
        /\ phase[c] = "table" => place[c] \in Tables /\ (seat[place[c]].sink = c \/ c \in Warned)
        /\ phase[c] = "watch" => place[c] \in Tables /\ (c \in watchers[place[c]] \/ c \in Warned)
CloseHasWarned ==
    \A a \in Closers : closing[a] # None =>
        LET t == closing[a].table
        IN /\ closing[a].stage \in {"seat", "watchers"} => seat[t].sink \in Warned \cup {None}
           /\ closing[a].stage = "watchers" => watchers[t] \subseteq Warned

LobbyInv ==
    /\ LobbyTypeOK /\ BoundWhereItIs /\ CloserCloses /\ PlayerIsHolder
    /\ InBooksOrWarned /\ CloseHasWarned /\ LeftBehindCameLate

\* One seat of the tables is set.
LEMMA SeatSet ==
    ASSUME SeatsTypeOK, NEW t \in Tables, NEW user, NEW sink \in Clients \cup {None},
           seat' = [seat EXCEPT ![t] = [user |-> user, sink |-> sink]], DOMAIN player' = Tables
    PROVE  /\ SeatsTypeOK' /\ seat'[t].user = user /\ seat'[t].sink = sink
           /\ \A u \in Tables \ {t} : seat'[u] = seat[u]
<1>1. DOMAIN seat = Tables /\ DOMAIN seat' = Tables
  BY DEF SeatsTypeOK
<1>2. seat'[t] = [user |-> user, sink |-> sink] /\ \A u \in Tables \ {t} : seat'[u] = seat[u]
  BY <1>1
<1>3. \A u \in Tables : seat[u] = [user |-> seat[u].user, sink |-> seat[u].sink]
  BY DEF SeatsTypeOK
<1>4. \A u \in Tables : seat'[u] = [user |-> seat'[u].user, sink |-> seat'[u].sink]
  BY <1>2, <1>3
<1>5. seat' = [u \in Tables |-> seat'[u]]
  BY <1>1
<1>6. seat' = [u \in Tables |-> [user |-> seat'[u].user, sink |-> seat'[u].sink]]
  BY <1>4, <1>5
<1> QED
  BY <1>2, <1>6 DEF SeatsTypeOK

\* Steps that move nobody and touch no books but what may start, end or be opened.
LEMMA NobodyMoves ==
    ASSUME LobbyInv, UNCHANGED <<phase, place, seat, watchers, player, closing, told, late>>,
           listed \subseteq listed', listed' \subseteq Tables, toClose' \subseteq Tables,
           hand' \in [Tables -> {"none", "running", "done"}]
    PROVE  LobbyInv'
<1>1. LobbyTypeOK' /\ PlayerIsHolder'
  BY DEF LobbyInv, LobbyTypeOK, SeatsTypeOK, PlayerIsHolder
<1>2. BoundWhereItIs' /\ CloserCloses' /\ InBooksOrWarned' /\ CloseHasWarned'
  BY DEF LobbyInv, BoundWhereItIs, CloserCloses, InBooksOrWarned, CloseHasWarned, Warned
<1>3. LeftBehindCameLate'
  BY DEF LobbyInv, LeftBehindCameLate
<1> QED
  BY <1>1, <1>2, <1>3 DEF LobbyInv

LEMMA CreateTableStep == ASSUME LobbyInv, NEW c \in Clients, CreateTable(c) PROVE LobbyInv'
  BY NobodyMoves DEF CreateTable, CreateTableDirect, LobbyInv, LobbyTypeOK

LEMMA HandStep ==
    ASSUME LobbyInv,
           (\E c \in Clients : StartHand(c)) \/ (\E t \in Tables : HandEnds(t))
              \/ DrainAll \/ TablesDrained \/ ServerDown
    PROVE  LobbyInv'
  BY NobodyMoves DEF StartHand, HandEnds, DrainAll, TablesDrained, ServerDown, LobbyInv, LobbyTypeOK, rooms

\* Someone leaves the lobby for good.
LEMMA GoneStep ==
    ASSUME LobbyInv, NEW c \in Clients, phase[c] = "lobby", Go(c, "gone", None),
           UNCHANGED <<listed, toClose, hand, seat, watchers, player, closing, told, late>>
    PROVE  LobbyInv'
<1>1. phase' \in [Clients -> Phases] /\ place' \in [Clients -> Tables \cup {None}]
      /\ phase'[c] = "gone" /\ \A d \in Clients \ {c} : phase'[d] = phase[d] /\ place'[d] = place[d]
  BY DEF Go, LobbyInv, LobbyTypeOK, Phases
<1>2. LobbyTypeOK' /\ PlayerIsHolder'
  BY <1>1 DEF LobbyInv, LobbyTypeOK, SeatsTypeOK, PlayerIsHolder
<1>3. BoundWhereItIs' /\ CloserCloses'
  BY <1>1 DEF LobbyInv, BoundWhereItIs, CloserCloses
<1>4. InBooksOrWarned' /\ CloseHasWarned' /\ LeftBehindCameLate'
  BY <1>1 DEF LobbyInv, InBooksOrWarned, CloseHasWarned, LeftBehindCameLate, Warned
<1> QED
  BY <1>2, <1>3, <1>4 DEF LobbyInv

\* Someone arrives at a table, and is in its books.
LEMMA ArrivalEffect ==
    ASSUME LobbyInv, NEW c \in Clients, NEW t \in Tables, NEW where \in {"table", "watch"}, Arrives(c, where, t)
    PROVE  /\ phase' \in [Clients -> Phases] /\ place' \in [Clients -> Tables \cup {None}]
           /\ phase'[c] = where /\ place'[c] = t
           /\ \A d \in Clients \ {c} : phase'[d] = phase[d] /\ place'[d] = place[d] /\ (d \in late' <=> d \in late)
           /\ BeingClosed(t) => c \in late'
<1>1. phase \in [Clients -> Phases] /\ place \in [Clients -> Tables \cup {None}]
  BY DEF LobbyInv, LobbyTypeOK
<1> QED
  BY <1>1 DEF Arrives, Go, Phases

LEMMA AttachStep == ASSUME LobbyInv, NEW c \in Clients, NEW t \in Tables, Attach(c, t) PROVE LobbyInv'
<1>1. CASE Go(c, "gone", None) /\ UNCHANGED <<seat, player, told, late>>
  BY <1>1, GoneStep DEF Attach
<1>2. CASE t \in listed /\ ~AttachRefused(t, User(c)) /\ Arrives(c, "table", t)
           /\ seat' = [seat EXCEPT ![t] = [user |-> User(c), sink |-> c]]
           /\ player' = [player EXCEPT ![t] = User(c)]
           /\ told' = (told \cup ({seat[t].sink} \ {None})) \ {c}
  <2>1. phase[c] = "lobby" /\ UNCHANGED <<toClose, listed, watchers, hand, closing>>
    BY DEF Attach
  <2>2. /\ phase' \in [Clients -> Phases] /\ place' \in [Clients -> Tables \cup {None}]
        /\ phase'[c] = "table" /\ place'[c] = t
        /\ \A d \in Clients \ {c} : phase'[d] = phase[d] /\ place'[d] = place[d] /\ (d \in late' <=> d \in late)
        /\ BeingClosed(t) => c \in late'
    BY <1>2, ArrivalEffect
  <2>3. DOMAIN player = Tables /\ SeatsTypeOK
    BY DEF LobbyInv, LobbyTypeOK, SeatsTypeOK
  <2>4. SeatsTypeOK' /\ seat'[t].user = User(c) /\ seat'[t].sink = c
        /\ \A u \in Tables \ {t} : seat'[u] = seat[u]
    BY <1>2, <2>3, SeatSet
  <2>5. LobbyTypeOK'
    BY <2>1, <2>2, <2>4 DEF LobbyInv, LobbyTypeOK
  <2>6. BoundWhereItIs' /\ CloserCloses'
    BY <2>1, <2>2, <2>4 DEF LobbyInv, BoundWhereItIs, CloserCloses
  <2>7. PlayerIsHolder'
    BY <1>2, <2>3, <2>4 DEF LobbyInv, PlayerIsHolder
  <2>8. \A d \in Clients \ {c} : (d \in Warned => d \in Warned') /\ (d = seat[t].sink => d \in Warned')
    BY <1>2, <2>2, AuthAssumption DEF Warned
  <2>9. InBooksOrWarned'
    <3> SUFFICES ASSUME NEW d \in Clients
                 PROVE  /\ phase'[d] = "table" => place'[d] \in Tables /\ (seat'[place'[d]].sink = d \/ d \in Warned')
                        /\ phase'[d] = "watch" => place'[d] \in Tables /\ (d \in watchers'[place'[d]] \/ d \in Warned')
      BY DEF InBooksOrWarned
    <3>1. CASE d = c
      BY <2>2, <2>4, <3>1
    <3>2. CASE d # c
      <4>1. phase[d] = "table" => place[d] \in Tables /\ (seat[place[d]].sink = d \/ d \in Warned)
        BY DEF LobbyInv, InBooksOrWarned
      <4>2. phase[d] = "watch" => place[d] \in Tables /\ (d \in watchers[place[d]] \/ d \in Warned)
        BY DEF LobbyInv, InBooksOrWarned
      <4> QED
        BY <2>1, <2>2, <2>4, <2>8, <3>2, <4>1, <4>2
    <3> QED
      BY <3>1, <3>2
  <2>10. CloseHasWarned'
    <3> SUFFICES ASSUME NEW a \in Closers, closing[a] # None
                 PROVE  /\ closing[a].stage \in {"seat", "watchers"} =>
                            seat'[closing[a].table].sink \in Warned' \cup {None}
                        /\ closing[a].stage = "watchers" => watchers[closing[a].table] \subseteq Warned'
      BY <2>1 DEF CloseHasWarned
    <3>1. closing[a].table \in Tables
      BY DEF LobbyInv, LobbyTypeOK, Awaits
    <3>2. c \notin watchers[closing[a].table] /\ seat[closing[a].table].sink # c
      BY <2>1, <3>1 DEF LobbyInv, BoundWhereItIs
    <3>3. watchers[closing[a].table] \subseteq Clients /\ seat[closing[a].table].sink \in Clients \cup {None}
      BY <3>1 DEF LobbyInv, LobbyTypeOK, SeatsTypeOK
    <3>4. CASE closing[a].table = t
      BY <2>2, <2>4, <2>8, <3>2, <3>3, <3>4 DEF LobbyInv, CloseHasWarned, BeingClosed, Warned
    <3>5. CASE closing[a].table # t
      BY <2>2, <2>4, <2>8, <3>1, <3>2, <3>3, <3>5 DEF LobbyInv, CloseHasWarned
    <3> QED
      BY <3>4, <3>5
  <2>11. LeftBehindCameLate'
    BY <1>2, <2>1, <2>2, <2>8 DEF LobbyInv, LeftBehindCameLate, Warned
  <2> QED
    BY <2>5, <2>6, <2>7, <2>9, <2>10, <2>11 DEF LobbyInv
<1> QED
  BY <1>1, <1>2 DEF Attach

LEMMA SpectateStep == ASSUME LobbyInv, NEW c \in Clients, NEW t \in Tables, Spectate(c, t) PROVE LobbyInv'
<1>1. CASE Go(c, "gone", None) /\ UNCHANGED <<watchers, told, late>>
  BY <1>1, GoneStep DEF Spectate
<1>2. CASE t \in listed /\ Arrives(c, "watch", t)
           /\ watchers' = [watchers EXCEPT ![t] = @ \cup {c}] /\ told' = told \ {c}
  <2>1. phase[c] = "lobby" /\ UNCHANGED <<toClose, listed, seat, player, hand, closing>>
    BY DEF Spectate
  <2>2. /\ phase' \in [Clients -> Phases] /\ place' \in [Clients -> Tables \cup {None}]
        /\ phase'[c] = "watch" /\ place'[c] = t
        /\ \A d \in Clients \ {c} : phase'[d] = phase[d] /\ place'[d] = place[d] /\ (d \in late' <=> d \in late)
        /\ BeingClosed(t) => c \in late'
    BY <1>2, ArrivalEffect
  <2>3. watchers' \in [Tables -> SUBSET Clients] /\ watchers'[t] = watchers[t] \cup {c}
        /\ \A u \in Tables \ {t} : watchers'[u] = watchers[u]
    BY <1>2 DEF LobbyInv, LobbyTypeOK
  <2>5. LobbyTypeOK' /\ PlayerIsHolder'
    BY <2>1, <2>2, <2>3 DEF LobbyInv, LobbyTypeOK, SeatsTypeOK, PlayerIsHolder
  <2>6. BoundWhereItIs' /\ CloserCloses'
    BY <2>1, <2>2, <2>3 DEF LobbyInv, BoundWhereItIs, CloserCloses
  <2>8. \A d \in Clients \ {c} : d \in Warned => d \in Warned'
    BY <1>2, <2>2 DEF Warned
  <2>9. InBooksOrWarned'
    BY <2>1, <2>2, <2>3, <2>8 DEF LobbyInv, InBooksOrWarned
  <2>10. CloseHasWarned'
    <3> SUFFICES ASSUME NEW a \in Closers, closing[a] # None
                 PROVE  /\ closing[a].stage \in {"seat", "watchers"} =>
                            seat[closing[a].table].sink \in Warned' \cup {None}
                        /\ closing[a].stage = "watchers" => watchers'[closing[a].table] \subseteq Warned'
      BY <2>1 DEF CloseHasWarned
    <3>1. closing[a].table \in Tables
      BY DEF LobbyInv, LobbyTypeOK, Awaits
    <3>2. c \notin watchers[closing[a].table] /\ seat[closing[a].table].sink # c
      BY <2>1, <3>1 DEF LobbyInv, BoundWhereItIs
    <3>3. watchers[closing[a].table] \subseteq Clients /\ seat[closing[a].table].sink \in Clients \cup {None}
      BY <3>1 DEF LobbyInv, LobbyTypeOK, SeatsTypeOK
    <3>4. closing[a].stage = "watchers" => watchers[closing[a].table] \subseteq Warned'
      BY <2>8, <3>2, <3>3 DEF LobbyInv, CloseHasWarned
    <3>5. closing[a].table = t => c \in Warned'
      BY <2>2 DEF BeingClosed, Warned
    <3> QED
      BY <2>3, <2>8, <3>1, <3>2, <3>3, <3>4, <3>5 DEF LobbyInv, CloseHasWarned
  <2>11. LeftBehindCameLate'
    BY <1>2, <2>1, <2>2, <2>8 DEF LobbyInv, LeftBehindCameLate, Warned
  <2> QED
    BY <2>5, <2>6, <2>9, <2>10, <2>11 DEF LobbyInv
<1> QED
  BY <1>1, <1>2 DEF Spectate

-----------------------------------------------------------------------------
(* Leaving, and what the seat does by itself.                              *)

\* Someone who is at a table leaves it, and its books.
LEMMA DepartStep ==
    ASSUME LobbyInv, NEW c \in Clients, NEW where \in {"lobby", "gone"}, phase[c] \in {"table", "watch"},
           Departs(c, where), UNCHANGED <<toClose, listed, hand, player, closing>>, SeatsTypeOK',
           watchers' \in [Tables -> SUBSET Clients],
           \A t \in Tables : /\ seat'[t].user \in {seat[t].user, None}
                             /\ seat'[t].sink # c /\ seat'[t].sink \in {seat[t].sink, None}
                             /\ (seat[t].sink # c => seat'[t].sink = seat[t].sink)
                             /\ watchers'[t] = watchers[t] \ {c}
    PROVE  LobbyInv'
<1>1. /\ phase' \in [Clients -> Phases] /\ place' \in [Clients -> Tables \cup {None}]
      /\ phase'[c] = where /\ \A d \in Clients \ {c} : phase'[d] = phase[d] /\ place'[d] = place[d]
  BY DEF Departs, Go, LobbyInv, LobbyTypeOK, Phases
<1>2. Warned \ {c} \subseteq Warned'
  BY DEF Departs, Warned
<1>3. LobbyTypeOK' /\ PlayerIsHolder'
  <2>1. LobbyTypeOK'
    BY <1>1 DEF LobbyInv, LobbyTypeOK
  <2>2. PlayerIsHolder'
    BY DEF LobbyInv, PlayerIsHolder
  <2> QED
    BY <2>1, <2>2
<1>4. BoundWhereItIs' /\ CloserCloses'
  <2>1. BoundWhereItIs'
    <3> SUFFICES ASSUME NEW d \in Clients, NEW t \in Tables
                 PROVE  /\ seat'[t].sink = d => phase'[d] = "table" /\ place'[d] = t
                        /\ d \in watchers'[t] => phase'[d] = "watch" /\ place'[d] = t
      BY DEF BoundWhereItIs
    <3> QED
      BY <1>1, AuthAssumption DEF LobbyInv, BoundWhereItIs
  <2>2. CloserCloses'
    BY <1>1 DEF LobbyInv, CloserCloses
  <2> QED
    BY <2>1, <2>2
<1>5. InBooksOrWarned'
  <2> SUFFICES ASSUME NEW d \in Clients, d # c
               PROVE  /\ phase[d] = "table" => place[d] \in Tables /\ (seat'[place[d]].sink = d \/ d \in Warned')
                      /\ phase[d] = "watch" => place[d] \in Tables /\ (d \in watchers'[place[d]] \/ d \in Warned')
    BY <1>1 DEF InBooksOrWarned
  <2> QED
    BY <1>2 DEF LobbyInv, InBooksOrWarned
<1>6. CloseHasWarned'
  <2> SUFFICES ASSUME NEW a \in Closers, closing[a] # None
               PROVE  /\ closing[a].stage \in {"seat", "watchers"} =>
                          seat'[closing[a].table].sink \in Warned' \cup {None}
                      /\ closing[a].stage = "watchers" => watchers'[closing[a].table] \subseteq Warned'
    BY DEF CloseHasWarned
  <2>1. closing[a].table \in Tables
    BY DEF LobbyInv, LobbyTypeOK, Awaits
  <2> QED
    BY <1>2, <2>1 DEF LobbyInv, CloseHasWarned
<1>7. LeftBehindCameLate'
  BY <1>1, <1>2 DEF LobbyInv, LeftBehindCameLate, Warned
<1> QED
  BY <1>3, <1>4, <1>5, <1>6, <1>7 DEF LobbyInv

LEMMA LeaveStep == ASSUME LobbyInv, NEW c \in Clients, Leave(c) \/ SocketDropped(c) PROVE LobbyInv'
<1>1. phase[c] \in {"table", "watch"} /\ place[c] \in Tables /\ SeatsTypeOK
      /\ UNCHANGED <<toClose, listed, hand, player, closing>>
  BY DEF Leave, SocketDropped, LobbyInv, LobbyTypeOK, InBooksOrWarned
<1>2. \A t \in Tables : (t # place[c] => seat[t].sink # c /\ c \notin watchers[t])
        /\ (phase[c] = "watch" => seat[t].sink # c) /\ (phase[c] = "table" => c \notin watchers[t])
  BY DEF LobbyInv, BoundWhereItIs
<1>3. PICK where \in {"lobby", "gone"} : Departs(c, where)
  BY DEF Leave, SocketDropped
<1>4. CASE UNCHANGED seat
  <2>1. seat[place[c]].sink # c
    <3>1. CASE Leave(c)
      <4>1. ASSUME phase[c] = "table", Detached(c, place[c]), seat[place[c]].sink = c PROVE FALSE
        <5>1. seat[place[c]] = NoOne
          BY <1>1, <1>4, <4>1 DEF Detached, SeatsTypeOK
        <5> QED
          BY <4>1, <5>1, AuthAssumption DEF NoOne
      <4> QED
        BY <1>1, <1>2, <3>1, <4>1 DEF Leave
    <3>2. CASE SocketDropped(c)
      <4>1. ASSUME seat[place[c]].sink = c PROVE FALSE
        <5>1. seat[place[c]] = [seat[place[c]] EXCEPT !.sink = None]
          BY <1>1, <1>4, <3>2, <4>1 DEF SocketDropped, SeatsTypeOK
        <5>2. seat[place[c]] = [user |-> seat[place[c]].user, sink |-> seat[place[c]].sink]
          BY <1>1 DEF SeatsTypeOK
        <5> QED
          BY <4>1, <5>1, <5>2, AuthAssumption
      <4> QED
        BY <4>1
    <3> QED
      BY <3>1, <3>2
  <2>2. watchers' \in [Tables -> SUBSET Clients] /\ \A t \in Tables : watchers'[t] = watchers[t] \ {c}
    BY <1>1, <1>2 DEF Leave, SocketDropped, Unsubscribed, LobbyInv, LobbyTypeOK
  <2>3. \A t \in Tables : seat[t].sink # c
    BY <1>2, <2>1
  <2>4. UNCHANGED <<toClose, listed, hand, player, closing>> /\ SeatsTypeOK'
    BY <1>1, <1>4 DEF SeatsTypeOK
  <2> QED
    BY <1>1, <1>3, <1>4, <2>2, <2>3, <2>4, DepartStep
<1>5. ASSUME NEW user \in {seat[place[c]].user, None}, seat[place[c]].sink = c,
             seat' = [seat EXCEPT ![place[c]] = [user |-> user, sink |-> None]]
      PROVE  LobbyInv'
  <2>1. SeatsTypeOK' /\ seat'[place[c]].user = user /\ seat'[place[c]].sink = None
        /\ \A u \in Tables \ {place[c]} : seat'[u] = seat[u]
    BY <1>1, <1>5, SeatSet DEF SeatsTypeOK
  <2>2. watchers' \in [Tables -> SUBSET Clients] /\ \A t \in Tables : watchers'[t] = watchers[t] \ {c}
    BY <1>1, <1>2 DEF Leave, SocketDropped, Unsubscribed, LobbyInv, LobbyTypeOK
  <2>3. \A t \in Tables : /\ seat'[t].user \in {seat[t].user, None}
                          /\ seat'[t].sink # c /\ seat'[t].sink \in {seat[t].sink, None}
                          /\ (seat[t].sink # c => seat'[t].sink = seat[t].sink)
    BY <1>2, <1>5, <2>1, AuthAssumption
  <2> QED
    BY <1>1, <1>3, <2>1, <2>2, <2>3, DepartStep
<1>6. CASE seat[place[c]].sink = c /\ seat' = [seat EXCEPT ![place[c]] = NoOne]
  BY <1>5, <1>6 DEF NoOne
<1>7. CASE seat[place[c]].sink = c /\ seat' = [seat EXCEPT ![place[c]].sink = None]
  <2>1. seat' = [seat EXCEPT ![place[c]] = [seat[place[c]] EXCEPT !.sink = None]]
    BY <1>7
  <2>2. seat[place[c]] = [user |-> seat[place[c]].user, sink |-> seat[place[c]].sink]
    BY <1>1 DEF SeatsTypeOK
  <2>3. [seat[place[c]] EXCEPT !.sink = None] = [user |-> seat[place[c]].user, sink |-> None]
    BY <2>2
  <2> QED
    BY <1>5, <1>7, <2>1, <2>3
<1> QED
  BY <1>4, <1>6, <1>7 DEF Leave, SocketDropped, Detached

\* A seat that nobody is connected to is given up.
LEMMA HoldExpiresStep == ASSUME LobbyInv, NEW t \in Tables, HoldExpires(t) PROVE LobbyInv'
<1>1. SeatsTypeOK' /\ seat'[t].user = None /\ seat'[t].sink = None
      /\ \A u \in Tables \ {t} : seat'[u] = seat[u]
  BY SeatSet DEF HoldExpires, LobbyInv, LobbyTypeOK, SeatsTypeOK, NoOne
<1>2. UNCHANGED <<phase, place, toClose, listed, watchers, hand, player, closing, told, late>> /\ seat[t].sink = None
  BY DEF HoldExpires
<1>3. \A u \in Tables : seat'[u].sink = seat[u].sink /\ seat'[u].user \in {seat[u].user, None}
  BY <1>1, <1>2
<1>4. LobbyTypeOK' /\ PlayerIsHolder'
  BY <1>1, <1>2, <1>3 DEF LobbyInv, LobbyTypeOK, PlayerIsHolder
<1>5. BoundWhereItIs' /\ CloserCloses' /\ InBooksOrWarned' /\ LeftBehindCameLate'
  BY <1>2, <1>3 DEF LobbyInv, BoundWhereItIs, CloserCloses, InBooksOrWarned, LeftBehindCameLate, Warned
<1>6. CloseHasWarned'
  <2>1. \A a \in Closers : closing[a] # None => closing[a].table \in Tables
    BY DEF LobbyInv, LobbyTypeOK, Awaits
  <2> QED
    BY <1>2, <1>3, <2>1 DEF LobbyInv, CloseHasWarned, Warned
<1> QED
  BY <1>4, <1>5, <1>6 DEF LobbyInv

-----------------------------------------------------------------------------
(* Closing a table.                                                        *)

Stages == {"start", "hand", "seat", "watchers"}

\* From one await to the next: nobody is struck from the books unwarned.
LEMMA CloseStep ==
    ASSUME LobbyInv, NEW a \in Closers, NEW t \in Tables, NEW stage \in Stages,
           stage # "start" => closing[a] # None /\ closing[a].table = t /\ closing[a].stage = stage,
           a # Server => phase[a] \in {"lobby", "closing"},
           CloseFrom(a, t, stage), toClose' \subseteq Tables
    PROVE  LobbyInv'
<1> DEFINE await == AwaitAfter(t, stage)
<1>1. LobbyTypeOK /\ SeatsTypeOK /\ seat[t].sink \in Clients \cup {None} /\ watchers[t] \subseteq Clients
  BY DEF LobbyInv, LobbyTypeOK, SeatsTypeOK
<1>2. UNCHANGED <<next, hand, player, late>> /\ told' = told \cup Guests(t, await) /\ Warned \subseteq Warned'
  BY DEF CloseFrom, Warned
<1>3. await \in {"hand", "seat", "watchers", "delete"}
      /\ (stage = "seat" => await \in {"watchers", "delete"}) /\ (stage = "watchers" => await = "delete")
  BY DEF AwaitAfter, Stages
<1>4. (await = "seat" => seat[t].sink \in Warned') /\ (await = "watchers" => watchers[t] \subseteq Warned')
  BY <1>2 DEF Guests, Warned
<1>5. await \in {"watchers", "delete"} => seat[t].sink \in Warned' \cup {None}
  <2>1. CASE stage \in {"start", "hand"}
    BY <2>1 DEF AwaitAfter
  <2>2. CASE stage \in {"seat", "watchers"}
    BY <1>2, <2>2 DEF LobbyInv, CloseHasWarned
  <2> QED
    BY <2>1, <2>2 DEF Stages
<1>6. await = "delete" => watchers[t] \subseteq Warned'
  <2>1. CASE stage = "watchers"
    BY <1>2, <2>1 DEF LobbyInv, CloseHasWarned
  <2>2. CASE stage # "watchers"
    BY <2>2 DEF AwaitAfter
  <2> QED
    BY <2>1, <2>2
<1>7. SeatsTypeOK' /\ (\A u \in Tables \ {t} : seat'[u] = seat[u]) /\ seat'[t].user \in {seat[t].user, None}
      /\ \/ seat'[t].sink = seat[t].sink
         \/ seat'[t].sink = None /\ seat[t].sink \in Warned' \cup {None}
  <2>1. CASE UNCHANGED seat
    BY <1>1, <1>2, <2>1 DEF SeatsTypeOK
  <2>2. CASE await \in {"watchers", "delete"} /\ seat' = [seat EXCEPT ![t] = NoOne]
    BY <1>1, <1>2, <1>5, <2>2, SeatSet DEF NoOne, SeatsTypeOK
  <2> QED
    BY <2>1, <2>2 DEF CloseFrom
<1>8. watchers' \in [Tables -> SUBSET Clients] /\ (\A u \in Tables \ {t} : watchers'[u] = watchers[u])
      /\ (watchers'[t] = watchers[t] \/ (watchers'[t] = {} /\ watchers[t] \subseteq Warned'))
      /\ (await = "delete" => watchers'[t] = {})
  BY <1>1, <1>6 DEF CloseFrom, LobbyTypeOK
<1>9. /\ phase' \in [Clients -> Phases] /\ place' \in [Clients -> Tables \cup {None}]
      /\ \A d \in Clients \ {a} : phase'[d] = phase[d] /\ place'[d] = place[d]
      /\ a \in Clients => phase'[a] = IF await = "delete" THEN "lobby" ELSE "closing"
  BY <1>1, LobbyAssumption DEF CloseFrom, Go, LobbyTypeOK, Phases
<1>10. /\ closing' \in [Closers -> Awaits \cup {None}]
       /\ \A b \in Closers \ {a} : closing'[b] = closing[b]
       /\ IF await = "delete" THEN closing'[a] = None ELSE closing'[a] = [table |-> t, stage |-> await]
  <2>1. await # "delete" => [table |-> t, stage |-> await] \in Awaits
    BY <1>3 DEF Awaits
  <2> QED
    BY <1>1, <2>1 DEF CloseFrom, LobbyTypeOK
<1>11. listed' = (IF await = "delete" THEN listed \ {t} ELSE listed)
  BY DEF CloseFrom
<1>12. a \in Clients => phase[a] \notin {"table", "watch"}
  BY LobbyAssumption
<1> HIDE DEF await
<1>13. LobbyTypeOK'
  BY <1>1, <1>2, <1>7, <1>8, <1>9, <1>10, <1>11 DEF LobbyTypeOK
<1>14. PlayerIsHolder'
  BY <1>2, <1>7 DEF LobbyInv, PlayerIsHolder
<1>15. BoundWhereItIs'
  <2> SUFFICES ASSUME NEW d \in Clients, NEW u \in Tables
               PROVE  /\ seat'[u].sink = d => phase'[d] = "table" /\ place'[d] = u
                      /\ d \in watchers'[u] => phase'[d] = "watch" /\ place'[d] = u
    BY DEF BoundWhereItIs
  <2>1. (seat'[u].sink = d => seat[u].sink = d) /\ (d \in watchers'[u] => d \in watchers[u])
    BY <1>7, <1>8, AuthAssumption
  <2>2. (seat[u].sink = d => phase[d] = "table" /\ place[d] = u)
        /\ (d \in watchers[u] => phase[d] = "watch" /\ place[d] = u)
    BY DEF LobbyInv, BoundWhereItIs
  <2> QED
    BY <1>9, <1>12, <2>1, <2>2
<1>16. CloserCloses'
  BY <1>9, <1>10 DEF LobbyInv, CloserCloses, Closers
<1>17. InBooksOrWarned'
  <2> SUFFICES ASSUME NEW d \in Clients, phase'[d] \in {"table", "watch"}
               PROVE  /\ phase'[d] = "table" => place'[d] \in Tables /\ (seat'[place'[d]].sink = d \/ d \in Warned')
                      /\ phase'[d] = "watch" => place'[d] \in Tables /\ (d \in watchers'[place'[d]] \/ d \in Warned')
    BY DEF InBooksOrWarned
  <2>1. d # a /\ phase'[d] = phase[d] /\ place'[d] = place[d]
    BY <1>9
  <2>2. /\ phase[d] = "table" => place[d] \in Tables /\ (seat[place[d]].sink = d \/ d \in Warned)
        /\ phase[d] = "watch" => place[d] \in Tables /\ (d \in watchers[place[d]] \/ d \in Warned)
    BY DEF LobbyInv, InBooksOrWarned
  <2>3. \A u \in Tables : (seat[u].sink = d => seat'[u].sink = d \/ d \in Warned')
                         /\ (d \in watchers[u] => d \in watchers'[u] \/ d \in Warned')
    BY <1>7, <1>8, AuthAssumption
  <2> QED
    BY <1>2, <2>1, <2>2, <2>3
<1>18. CloseHasWarned'
  <2> SUFFICES ASSUME NEW b \in Closers, closing'[b] # None
               PROVE  /\ closing'[b].stage \in {"seat", "watchers"} =>
                          seat'[closing'[b].table].sink \in Warned' \cup {None}
                      /\ closing'[b].stage = "watchers" => watchers'[closing'[b].table] \subseteq Warned'
    BY DEF CloseHasWarned
  <2>1. CASE b = a
    BY <1>4, <1>5, <1>7, <1>8, <1>10, <2>1
  <2>2. CASE b # a
    <3>1. closing'[b] = closing[b] /\ closing[b].table \in Tables
      BY <1>1, <1>10, <2>2 DEF LobbyTypeOK, Awaits
    <3> QED
      BY <1>2, <1>7, <1>8, <3>1 DEF LobbyInv, CloseHasWarned
  <2> QED
    BY <2>1, <2>2
<1>19. LeftBehindCameLate'
  <2> SUFFICES ASSUME NEW d \in Clients, phase'[d] \in {"table", "watch"}, place'[d] \notin listed'
               PROVE  d \in Warned'
    BY DEF LeftBehindCameLate, Warned
  <2>1. d # a /\ phase'[d] = phase[d] /\ place'[d] = place[d]
    BY <1>9
  <2>2. CASE place[d] \notin listed
    BY <1>2, <2>1, <2>2 DEF LobbyInv, LeftBehindCameLate, Warned
  <2>3. CASE place[d] = t /\ await = "delete"
    BY <1>2, <1>5, <1>6, <2>1, <2>3, AuthAssumption DEF LobbyInv, InBooksOrWarned
  <2> QED
    BY <1>11, <2>1, <2>2, <2>3
<1> QED
  BY <1>13, <1>14, <1>15, <1>16, <1>17, <1>18, <1>19 DEF LobbyInv

LEMMA CloserStep ==
    ASSUME LobbyInv,
           \/ \E c \in Clients, t \in Tables : CloseTable(c, t)
           \/ \E a \in Closers : CloseGoesOn(a)
           \/ CloseNext
    PROVE  LobbyInv'
<1>1. LobbyTypeOK /\ CloserCloses
  BY DEF LobbyInv
<1>2. ASSUME NEW c \in Clients, NEW t \in Tables, CloseTable(c, t) PROVE LobbyInv'
  BY <1>1, <1>2, CloseStep, LobbyAssumption DEF CloseTable, Stages, Closers, LobbyTypeOK
<1>3. ASSUME NEW a \in Closers, CloseGoesOn(a) PROVE LobbyInv'
  <2>1. closing[a] # None /\ closing[a].table \in Tables /\ closing[a].stage \in Stages
        /\ CloseFrom(a, closing[a].table, closing[a].stage) /\ toClose' \subseteq Tables
    BY <1>1, <1>3 DEF CloseGoesOn, LobbyTypeOK, Awaits, Stages
  <2>2. a # Server => phase[a] = "closing"
    BY <1>1, <2>1 DEF CloserCloses, Closers
  <2> QED
    BY <2>1, <2>2, CloseStep
<1>4. ASSUME CloseNext PROVE LobbyInv'
  <2>1. PICK t \in toClose :
          /\ toClose' = toClose \ {t}
          /\ IF t \in listed THEN CloseFrom(Server, t, "start")
             ELSE UNCHANGED <<phase, place, rooms, closing, told, late>>
    BY <1>4 DEF CloseNext
  <2>2. t \in Tables /\ toClose' \subseteq Tables
    BY <1>1, <2>1 DEF LobbyTypeOK
  <2>3. CASE t \in listed
    BY <2>1, <2>2, <2>3, CloseStep DEF Closers, Stages
  <2>4. CASE t \notin listed
    BY <1>1, <2>1, <2>2, <2>4, NobodyMoves DEF rooms, LobbyTypeOK
  <2> QED
    BY <2>3, <2>4
<1> QED
  BY <1>2, <1>3, <1>4

\* The hand that a close cancels ends; its player is told.
LEMMA HandCancelledStep == ASSUME LobbyInv, NEW a \in Closers, HandCancelled(a) PROVE LobbyInv'
<1>1. PICK t \in Tables :
        /\ hand' = [hand EXCEPT ![t] = "done"]
        /\ told' = told \cup ({seat[t].sink} \ {None}) /\ seat' = [seat EXCEPT ![t] = NoOne]
  <2>1. closing[a].table \in Tables
    BY DEF HandCancelled, LobbyInv, LobbyTypeOK, Awaits
  <2> QED
    BY <2>1 DEF HandCancelled
<1>2. UNCHANGED <<phase, place, toClose, listed, watchers, player, closing, late>>
  BY DEF HandCancelled
<1>3. SeatsTypeOK' /\ seat'[t].user = None /\ seat'[t].sink = None
      /\ \A u \in Tables \ {t} : seat'[u] = seat[u]
  BY <1>1, <1>2, SeatSet DEF LobbyInv, LobbyTypeOK, SeatsTypeOK, NoOne
<1>4. Warned \subseteq Warned' /\ seat[t].sink \in Warned' \cup {None}
  BY <1>1, <1>2 DEF Warned
<1>5. \A u \in Tables : seat'[u].sink \in {seat[u].sink, None} /\ seat'[u].user \in {seat[u].user, None}
                        /\ (seat'[u].sink # seat[u].sink => seat[u].sink \in Warned' \cup {None})
  BY <1>3, <1>4
<1>6. LobbyTypeOK' /\ PlayerIsHolder'
  BY <1>1, <1>2, <1>3, <1>5 DEF LobbyInv, LobbyTypeOK, PlayerIsHolder
<1>7. BoundWhereItIs' /\ CloserCloses' /\ LeftBehindCameLate'
  BY <1>2, <1>4, <1>5, AuthAssumption DEF LobbyInv, BoundWhereItIs, CloserCloses, LeftBehindCameLate, Warned
<1>8. InBooksOrWarned'
  BY <1>2, <1>4, <1>5, AuthAssumption DEF LobbyInv, InBooksOrWarned
<1>9. CloseHasWarned'
  <2>1. \A b \in Closers : closing[b] # None => closing[b].table \in Tables
    BY DEF LobbyInv, LobbyTypeOK, Awaits
  <2> QED
    BY <1>2, <1>4, <1>5, <2>1 DEF LobbyInv, CloseHasWarned
<1> QED
  BY <1>6, <1>7, <1>8, <1>9 DEF LobbyInv

-----------------------------------------------------------------------------
(* The whole.                                                              *)

HouseInv == AuthInv /\ LobbyInv /\ DOMAIN identity = Clients

LEMMA AuthStep == ASSUME AuthInv, AuthNext PROVE AuthInv'
<1>1. ASSUME NEW c \in Clients, Frame(c) PROVE AuthInv'
  BY <1>1, AuthRequestStep, ResumeStep, RegisterStep, NoCallStep DEF Frame
<1>2. ASSUME NEW c \in Clients, NoFrame(c) \/ CallReads(c) \/ CallWrites(c) \/ Answer(c) PROVE AuthInv'
  BY <1>2, NoCallStep, CallReadsStep, CallWritesStep, AnswerStep
<1>3. ASSUME OperatorNext PROVE AuthInv'
  BY <1>3, CreateStep, SetAccountStep, InviteStep, TimeStep DEF OperatorNext
<1> QED
  BY <1>1, <1>2, <1>3 DEF AuthNext

LEMMA LobbyStep == ASSUME LobbyInv, LobbyNext PROVE LobbyInv'
<1>1. ASSUME NEW c \in Clients, ConnectionNext(c) PROVE LobbyInv'
  <2>1. CASE LeaveLobby(c)
    BY <2>1, GoneStep DEF LeaveLobby, rooms, LobbyInv, LobbyTypeOK
  <2>2. CASE \E t \in Tables : Attach(c, t) \/ Spectate(c, t) \/ CloseTable(c, t)
    BY <2>2, AttachStep, SpectateStep, CloserStep
  <2> QED
    BY <1>1, <2>1, <2>2, CreateTableStep, LeaveStep, HandStep DEF ConnectionNext
<1>2. ASSUME NEW t \in Tables, HandEnds(t) \/ HoldExpires(t) PROVE LobbyInv'
  BY <1>2, HandStep, HoldExpiresStep
<1>3. ASSUME NEW a \in Closers, HandCancelled(a) \/ CloseGoesOn(a) PROVE LobbyInv'
  BY <1>3, HandCancelledStep, CloserStep
<1>4. ASSUME ServerNext PROVE LobbyInv'
  BY <1>4, HandStep, CloserStep DEF ServerNext
<1> QED
  BY <1>1, <1>2, <1>3, <1>4 DEF LobbyNext

\* The door moves connections that are at the door, and to no table.
LEMMA DoorPhases ==
    ASSUME AuthInv, AuthNext, NEW c \in Clients
    PROVE  phase'[c] = phase[c] \/ (phase[c] \in {"auth", "verify"} /\ phase'[c] \notin {"table", "watch", "closing"})
<1>1. phase \in [Clients -> Phases] /\ CallsInVerify
  BY DEF AuthInv, AuthTypeOK, CallsTypeOK
<1>2. ASSUME NEW d \in Clients, phase[d] \in {"auth", "verify"},
             Failed(d) \/ LeaveAuth(d, "gone") \/ LeaveAuth(d, "lobby") \/ phase' = [phase EXCEPT ![d] = "verify"]
      PROVE  phase'[c] = phase[c] \/ (phase[c] \in {"auth", "verify"} /\ phase'[c] \notin {"table", "watch", "closing"})
  BY <1>1, <1>2 DEF Failed, LeaveAuth
<1>3. ASSUME OperatorNext PROVE phase' = phase
  <2>1. CASE (\E name \in Names : CreateChecks(name)) \/ CreateInserts \/ SessionCleanup \/ Tick
    BY <2>1 DEF CreateChecks, CreateInserts, SessionCleanup, Tick, auth
  <2>2. CASE \E a \in DOMAIN accounts : \/ \E disabled \in BOOLEAN : SetAccountDisabled(a, disabled)
                                        \/ \E role \in {"user", "admin"} : SetAccountRole(a, role)
    BY <2>2 DEF SetAccountDisabled, SetAccountRole, auth
  <2>3. CASE \/ \E code \in Codes : \E expires \in {1, MaxTime + 1} : MintInvite(code, expires)
             \/ \E code \in DOMAIN invites : RevokeInvite(code)
    BY <2>3 DEF MintInvite, RevokeInvite, auth
  <2> QED
    BY <1>3, <2>1, <2>2, <2>3 DEF OperatorNext
<1>4. ASSUME NEW d \in Clients, Frame(d) \/ NoFrame(d)
      PROVE  phase[d] = "auth"
             /\ (Failed(d) \/ LeaveAuth(d, "gone") \/ phase' = [phase EXCEPT ![d] = "verify"])
  BY <1>4 DEF Frame, NoFrame, AuthRequest, Resume, Register, OtherFrame, Submit
<1>5. ASSUME NEW d \in Clients, Answer(d)
      PROVE  phase[d] = "verify" /\ (Failed(d) \/ LeaveAuth(d, "gone") \/ LeaveAuth(d, "lobby"))
  BY <1>1, <1>5 DEF Answer, Admitted, Refused, HandlerDies, At, CallsInVerify, Calling
<1> QED
  BY <1>2, <1>3, <1>4, <1>5 DEF AuthNext, CallReads, CallWrites

\* The house moves connections that are in it.
LEMMA HousePhases ==
    ASSUME LobbyInv, LobbyNext, NEW c \in Clients
    PROVE  phase'[c] = phase[c] \/ phase[c] \in InHouse
<1>1. phase \in [Clients -> Phases] /\ CloserCloses /\ Server \notin Clients
  BY LobbyAssumption DEF LobbyInv, LobbyTypeOK
<1>2. ASSUME NEW d \in Clients, NEW where, NEW t, Go(d, where, t), phase[d] \in InHouse
      PROVE  phase'[c] = phase[c] \/ phase[c] \in InHouse
  BY <1>1, <1>2 DEF Go
<1>3. ASSUME NEW a \in Closers, NEW t, NEW stage, CloseFrom(a, t, stage), a # Server => phase[a] \in InHouse
      PROVE  phase'[c] = phase[c] \/ phase[c] \in InHouse
  BY <1>2, <1>3 DEF CloseFrom, Closers
<1>4. ASSUME NEW d \in Clients, ConnectionNext(d) PROVE phase'[c] = phase[c] \/ phase[c] \in InHouse
  <2>1. CASE LeaveLobby(d) \/ Leave(d) \/ SocketDropped(d)
    BY <1>2, <2>1 DEF LeaveLobby, Leave, SocketDropped, Departs, InHouse
  <2>2. CASE CreateTable(d) \/ StartHand(d)
    BY <2>2 DEF CreateTable, StartHand
  <2>3. ASSUME NEW t \in Tables, Attach(d, t) \/ Spectate(d, t)
        PROVE  phase'[c] = phase[c] \/ phase[c] \in InHouse
    BY <1>2, <2>3 DEF Attach, Spectate, Arrives, InHouse
  <2>4. ASSUME NEW t \in Tables, CloseTable(d, t) PROVE phase'[c] = phase[c] \/ phase[c] \in InHouse
    BY <1>3, <2>4 DEF CloseTable, InHouse, Closers
  <2> QED
    BY <1>4, <2>1, <2>2, <2>3, <2>4 DEF ConnectionNext
<1>5. ASSUME NEW a \in Closers, HandCancelled(a) \/ CloseGoesOn(a)
      PROVE  phase'[c] = phase[c] \/ phase[c] \in InHouse
  BY <1>1, <1>3, <1>5 DEF HandCancelled, CloseGoesOn, CloserCloses, InHouse, Closers
<1>6. ASSUME ServerNext PROVE phase'[c] = phase[c] \/ phase[c] \in InHouse
  BY <1>3, <1>6 DEF ServerNext, DrainAll, TablesDrained, CloseNext, ServerDown, Closers
<1> QED
  BY <1>4, <1>5, <1>6 DEF LobbyNext, HandEnds, HoldExpires

LEMMA HouseInvInit == AuthInit /\ LobbyInit => HouseInv
<1> SUFFICES ASSUME AuthInit, LobbyInit PROVE HouseInv
  OBVIOUS
<1>1. SeatsTypeOK
  BY DEF LobbyInit, NoOne, SeatsTypeOK
<1>2. LobbyTypeOK
  BY <1>1 DEF LobbyInit, AuthInit, LobbyTypeOK, Phases
<1>3. BoundWhereItIs /\ CloserCloses /\ PlayerIsHolder /\ InBooksOrWarned /\ CloseHasWarned /\ LeftBehindCameLate
  BY AuthAssumption
     DEF LobbyInit, AuthInit, NoOne, BoundWhereItIs, CloserCloses, PlayerIsHolder, InBooksOrWarned, CloseHasWarned,
         LeftBehindCameLate, Closers
<1>4. DOMAIN identity = Clients
  BY DEF AuthInit
<1> QED
  BY <1>2, <1>3, <1>4, AuthInvInit DEF HouseInv, LobbyInv

LEMMA HouseInvStep == ASSUME HouseInv, [Door \/ House]_<<authVars, lobbyVars>> PROVE HouseInv'
<1>1. AuthInv /\ LobbyInv
  BY DEF HouseInv
<1>2. CASE Door
  <2>1. AuthInv'
    BY <1>1, <1>2, AuthStep DEF Door
  <2>2. phase' \in [Clients -> Phases]
    BY <2>1 DEF AuthInv, AuthTypeOK, CallsTypeOK
  <2>3. \A c \in Clients :
          phase'[c] = phase[c] \/ (phase[c] \in {"auth", "verify"} /\ phase'[c] \notin {"table", "watch", "closing"})
    BY <1>1, <1>2, DoorPhases DEF Door
  <2>4. LobbyTypeOK' /\ PlayerIsHolder' /\ CloseHasWarned'
    BY <1>1, <1>2, <2>2
       DEF Door, lobbyVars, rooms, LobbyInv, LobbyTypeOK, SeatsTypeOK, PlayerIsHolder, CloseHasWarned, Warned
  <2>5. BoundWhereItIs' /\ CloserCloses' /\ InBooksOrWarned' /\ LeftBehindCameLate'
    BY <1>1, <1>2, <2>3
       DEF Door, lobbyVars, rooms, LobbyInv, BoundWhereItIs, CloserCloses, InBooksOrWarned, LeftBehindCameLate, Warned
  <2>6. DOMAIN identity' = Clients
    <3>1. UNCHANGED identity \/ \E c \in Clients : Admitted(c)
      BY <1>2 DEF Door, AuthNext, Frame, NoFrame, AuthRequest, Resume, Register, OtherFrame, CallReads, CallWrites,
         Answer, Refused, HandlerDies, OperatorNext, CreateChecks, CreateInserts, SetAccountDisabled, SetAccountRole,
         MintInvite, RevokeInvite, SessionCleanup, Tick, auth
    <3> QED
      BY <3>1 DEF HouseInv, Admitted
  <2> QED
    BY <2>1, <2>4, <2>5, <2>6 DEF HouseInv, LobbyInv
<1>3. CASE House
  <2>1. LobbyInv'
    BY <1>1, <1>3, LobbyStep DEF House
  <2>2. phase' \in [Clients -> Phases]
    BY <2>1 DEF LobbyInv, LobbyTypeOK
  <2>3. \A c \in Clients : phase'[c] = phase[c] \/ phase[c] \in InHouse
    BY <1>1, <1>3, HousePhases DEF House
  <2>4. StoreInv /\ CallsInv /\ BudgetInv /\ UNCHANGED <<store, call, barred, accounts, failures, registers, now>>
    BY <1>1, <1>3 DEF House, store, clocks, AuthInv, AuthTypeOK, StoreInv, CallsInv, BudgetInv
  <2>5. StoreInv' /\ BudgetInv'
    BY <2>4, StoreStays, BudgetKept DEF BudgetInv, ClocksTypeOK, Verifying, Calling, Request
  <2>6. CallsTypeOK' /\ CallsInVerify'
    BY <2>2, <2>3, <2>4 DEF CallsInv, CallsTypeOK, CallsInVerify, Calling, InHouse
  <2>7. OneWriter' /\ NameStaysFree' /\ BarredAreDisabled' /\ CheckedIsNotBarred'
    BY <2>4 DEF CallsInv, OneWriter, NameStaysFree, BarredAreDisabled, CheckedIsNotBarred, At, Request, Named,
       Disabled, Checked
  <2> QED
    BY <1>3, <2>1, <2>5, <2>6, <2>7 DEF House, HouseInv, AuthInv, AuthTypeOK, StoreInv, BudgetInv
<1>4. CASE UNCHANGED <<authVars, lobbyVars>>
  <2>1. AuthInv'
    <3>1. UNCHANGED authVars /\ AuthInv
      BY <1>1, <1>4
    <3>2. AuthTypeOK' /\ InviteBudget' /\ NamesClashOnlyAcross'
      BY <3>1 DEF authVars, auth, store, clocks, AuthInv, AuthTypeOK, StoreTypeOK, CallsTypeOK, ClocksTypeOK,
                  InviteBudget, NamesClashOnlyAcross, Named
    <3>3. CallsInVerify' /\ OneWriter' /\ NameStaysFree' /\ BarredAreDisabled' /\ CheckedIsNotBarred'
      BY <3>1 DEF authVars, auth, store, clocks, AuthInv, CallsInVerify, OneWriter, NameStaysFree,
                  BarredAreDisabled, CheckedIsNotBarred, Calling, At, Request, Named, Disabled, Checked
    <3>4. BudgetWithCalls'
      BY <3>1 DEF authVars, auth, store, clocks, AuthInv, BudgetWithCalls, Calling, Verifying, Recent, At, Request
    <3> QED
      BY <3>2, <3>3, <3>4 DEF AuthInv
  <2>2. LobbyInv'
    BY <1>1, <1>4, NobodyMoves DEF authVars, auth, lobbyVars, rooms, LobbyInv, LobbyTypeOK
  <2> QED
    BY <1>4, <2>1, <2>2 DEF HouseInv, authVars, auth
<1> QED
  BY <1>2, <1>3, <1>4

\* The inductive invariant holds.
LEMMA HouseInvariant == HouseSpec => []HouseInv
<1>1. AuthInit /\ LobbyInit => HouseInv
  BY HouseInvInit
<1>2. HouseInv /\ [Door \/ House]_<<authVars, lobbyVars>> => HouseInv'
  BY HouseInvStep
<1> QED
  BY <1>1, <1>2, PTL DEF HouseSpec

\* Registrations and logins that race each other overdraw no invite, clash on no
\* name, and exceed the address's budgets by those under way alone.
THEOREM DoorHeld == HouseSpec => []DoorHolds
<1>1. HouseInv => DoorHolds
  <2> SUFFICES ASSUME HouseInv PROVE DoorHolds
    OBVIOUS
  <2>1. InviteBudget /\ NamesClashOnlyAcross /\ BudgetWithCalls /\ failures \in Seq(Nat) /\ now \in Nat
    BY DEF HouseInv, AuthInv, AuthTypeOK, ClocksTypeOK
  <2>2. Cardinality(Verifying) \in Nat /\ Cardinality(Clients) \in Nat
    BY AuthAssumption, FS_Subset, FS_CardinalityType DEF Verifying
  <2>3. Len(Recent(failures)) \in Nat
    BY <2>1, PruneType DEF Recent
  <2>4. BudgetsHold
    BY <2>1, <2>2, <2>3, AuthAssumption DEF BudgetWithCalls, BudgetsHold
  <2> QED
    BY <2>1, <2>4 DEF DoorHolds
<1> QED
  BY <1>1, HouseInvariant, PTL

\* An account that was disabled when a connection asked, and still is, does not
\* let it in, whatever the call had read by then.
THEOREM DisabledKeptOut == HouseSpec => DisabledStaysOut
<1> DEFINE A == \A c \in Clients : (phase[c] = "verify" /\ phase'[c] = "lobby") => identity'[c].account \notin barred[c]
<1>1. HouseInv /\ [Door \/ House]_<<authVars, lobbyVars>> => [A]_authVars
  <2> SUFFICES ASSUME HouseInv, [Door \/ House]_<<authVars, lobbyVars>>,
                      NEW c \in Clients, phase[c] = "verify", phase'[c] = "lobby"
               PROVE  identity'[c].account \notin barred[c] \/ UNCHANGED authVars
    OBVIOUS
  <2>1. AuthInv /\ LobbyInv /\ DOMAIN identity = Clients /\ phase \in [Clients -> Phases]
    BY DEF HouseInv, AuthInv, AuthTypeOK, CallsTypeOK
  <2>2. CASE Door
    <3>1. \A d \in Clients : (Frame(d) \/ NoFrame(d)) => phase'[c] # "lobby"
      BY <2>1 DEF Frame, NoFrame, AuthRequest, Resume, Register, OtherFrame, Submit, Failed, LeaveAuth
    <3>2. OperatorNext => phase'[c] = phase[c]
      <4>1. CASE (\E name \in Names : CreateChecks(name)) \/ CreateInserts \/ SessionCleanup \/ Tick
        BY <4>1 DEF CreateChecks, CreateInserts, SessionCleanup, Tick, auth
      <4>2. CASE \E a \in DOMAIN accounts : \/ \E disabled \in BOOLEAN : SetAccountDisabled(a, disabled)
                                            \/ \E role \in {"user", "admin"} : SetAccountRole(a, role)
        BY <4>2 DEF SetAccountDisabled, SetAccountRole, auth
      <4>3. CASE \/ \E code \in Codes : \E expires \in {1, MaxTime + 1} : MintInvite(code, expires)
                 \/ \E code \in DOMAIN invites : RevokeInvite(code)
        BY <4>3 DEF MintInvite, RevokeInvite, auth
      <4> QED
        BY <4>1, <4>2, <4>3 DEF OperatorNext
    <3>3. PICK d \in Clients : Answer(d)
      BY <2>2, <3>1, <3>2 DEF Door, AuthNext, CallReads, CallWrites
    <3>4. d = c /\ Admitted(c)
      BY <2>1, <3>3 DEF Answer, Admitted, Refused, HandlerDies, Failed, LeaveAuth
    <3>5. At(c, "ok") /\ identity'[c].account = call[c].account
      BY <2>1, <3>4 DEF Admitted
    <3> QED
      BY <2>1, <3>5 DEF AuthInv, CheckedIsNotBarred, Checked
  <2>3. CASE House
    BY <2>1, <2>3, HousePhases DEF House, InHouse
  <2>4. CASE UNCHANGED <<authVars, lobbyVars>>
    BY <2>4
  <2> QED
    BY <2>2, <2>3, <2>4
<1> QED
  BY <1>1, HouseInvariant, PTL DEF HouseSpec, DisabledStaysOut

\* A connection is bound where its handler is, and nowhere else.
THEOREM BoundThere == HouseSpec => []BoundWhereItIs
<1>1. HouseInv => BoundWhereItIs
  BY DEF HouseInv, LobbyInv
<1> QED
  BY <1>1, HouseInvariant, PTL

\* Nobody is left at a closed table unwarned, but who came while it closed.
THEOREM NobodyLeftBehind == HouseSpec => []LeftBehindCameLate
<1>1. HouseInv => LeftBehindCameLate
  BY DEF HouseInv, LobbyInv
<1> QED
  BY <1>1, HouseInvariant, PTL

\* While a hand runs nobody else takes the seat.
THEOREM PlayerKept == HouseSpec => HandKeepsItsPlayer
<1> DEFINE A == \A t \in Tables : (hand[t] = "running" /\ hand'[t] = "running") => player'[t] = player[t]
<1>1. HouseInv /\ [Door \/ House]_<<authVars, lobbyVars>> => [A]_lobbyVars
  <2> SUFFICES ASSUME HouseInv, [Door \/ House]_<<authVars, lobbyVars>>, NEW t \in Tables, hand[t] = "running"
               PROVE  player'[t] = player[t] \/ UNCHANGED lobbyVars
    OBVIOUS
  <2>1. PlayerIsHolder /\ DOMAIN player = Tables
    BY DEF HouseInv, LobbyInv, LobbyTypeOK, SeatsTypeOK
  <2>2. ASSUME NEW c \in Clients, NEW u \in Tables, Attach(c, u) PROVE player'[t] = player[t]
    BY <2>1, <2>2 DEF Attach, AttachRefused, PlayerIsHolder
  <2>3. UNCHANGED player \/ \E c \in Clients, u \in Tables : Attach(c, u)
    <3>1. CASE Door \/ UNCHANGED <<authVars, lobbyVars>>
      BY <3>1 DEF Door, lobbyVars, rooms
    <3>2. CASE House
      <4>1. ASSUME NEW c \in Clients, ConnectionNext(c)
            PROVE  UNCHANGED player \/ \E u \in Tables : Attach(c, u)
        BY <4>1 DEF ConnectionNext, CreateTable, LeaveLobby, Leave, SocketDropped, StartHand, Spectate, CloseTable,
           CloseFrom, rooms
      <4>2. ASSUME NEW u \in Tables, HandEnds(u) \/ HoldExpires(u) PROVE UNCHANGED player
        BY <4>2 DEF HandEnds, HoldExpires
      <4>3. ASSUME NEW a \in Closers, HandCancelled(a) \/ CloseGoesOn(a) PROVE UNCHANGED player
        BY <4>3 DEF HandCancelled, CloseGoesOn, CloseFrom
      <4>4. ASSUME ServerNext PROVE UNCHANGED player
        BY <4>4 DEF ServerNext, DrainAll, TablesDrained, CloseNext, ServerDown, CloseFrom, rooms
      <4> QED
        BY <3>2, <4>1, <4>2, <4>3, <4>4 DEF House, LobbyNext
    <3> QED
      BY <3>1, <3>2
  <2> QED
    BY <2>2, <2>3
<1> QED
  BY <1>1, HouseInvariant, PTL DEF HouseSpec, HandKeepsItsPlayer

=============================================================================
