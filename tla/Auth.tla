-------------------------------- MODULE Auth --------------------------------
(***************************************************************************)
(* How a connection gets in: the auth phase of the handler, the account,   *)
(* session and invite tables it works on through the façade of the server, *)
(* and the operator who works on the same tables from another process (the *)
(* account command line, the control panel).                               *)
(***************************************************************************)
EXTENDS Integers, Sequences, FiniteSets, SequencesExt

CONSTANTS
    None,
    Clients,     \* connections, all from one address
    Names,       \* spellings of user names
    Lower,       \* [Names -> Names], the SQL function
    Codes,       \* invite codes
    MaxUses,     \* max_uses of every invite
    Attempts,    \* the attempts of one connection (three)
    LoginMax, RegisterMax, Window, \* the two limiters
    Lifetime,    \* SESSION_LIFETIME_MS
    MaxTime,
    MaxOps       \* what the operator does

Requests ==     \* AUTH_REQUEST, RESUME, REGISTER
    [op : {"login"}, name : Names, password : {"right", "wrong"}]
        \cup [op : {"resume"}, resumed : Nat]
        \cup [op : {"register"}, name : Names, code : Codes]
Calls == [request : Requests, step : {"queued", "write", "ok", "failed", "raised"},
          account : Nat \cup {None}, token : Nat \cup {None}]

ASSUME AuthAssumption ==
    /\ Lower \in [Names -> Names] /\ Attempts \in Nat \ {0} /\ MaxUses \in Nat \ {0}
    /\ IsFiniteSet(Clients) /\ None \notin Clients \cup Calls /\ Names # {} /\ "operator" \notin Codes /\ MaxTime \in Nat
    /\ LoginMax \in Nat \ {0} /\ RegisterMax \in Nat \ {0} /\ Window \in Nat \ {0} /\ Lifetime \in Nat \ {0}

VARIABLES
    phase,     \* of each connection: "auth", "verify" (a call runs in the executor), "lobby", ... "gone"
    attempts,  \* failed attempts of a connection
    identity,  \* _AuthState: account and role, as read when the connection got in
    call,      \* the façade call of a connection in "verify"
    accounts,  \* the rows of `accounts`; the id is the position
    sessions,  \* the rows of `sessions`; the token is the position
    invites,   \* the rows of `invites`
    draft,     \* the operator's `account create` between its check and its INSERT
    failures, registers, \* the events of the two limiters
    now,
    ops,       \* operations of the operator so far
    barred     \* accounts disabled ever since the connection's frame came in (observed)

auth == <<phase, attempts, identity, call>>
store == <<accounts, sessions, invites, draft>>
clocks == <<failures, registers, now, ops>>
authVars == <<auth, store, clocks, barred>>

Account(name, role, via) == [name |-> name, role |-> role, disabled |-> FALSE, via |-> via]

Invite(expires) == [used |-> 0, disabled |-> FALSE, expires |-> expires]

\* Before the first connection: one admin, who may have minted invites.
AuthInit ==
    /\ phase = [c \in Clients |-> "auth"] /\ attempts = [c \in Clients |-> 0]
    /\ identity = [c \in Clients |-> None] /\ call = [c \in Clients |-> None]
    /\ accounts = <<Account(CHOOSE n \in Names : TRUE, "admin", "operator")>>
    /\ sessions = <<>> /\ draft = None
    /\ \E minted \in SUBSET Codes : invites = [k \in minted |-> Invite(MaxTime + 1)]
    /\ failures = <<>> /\ registers = <<>> /\ now = 0 /\ ops = 0
    /\ barred = [c \in Clients |-> {}]

-----------------------------------------------------------------------------
(* SlidingWindowLimiter.                                                   *)

\* _prune pops from the left what the window has passed at a time t.
Prune(events, t) ==
    LET passed == CHOOSE n \in 0 .. Len(events) :
            /\ \A k \in 1 .. n : events[k] <= t - Window
            /\ n < Len(events) => events[n + 1] > t - Window
    IN SubSeq(events, passed + 1, Len(events))
Recent(events) == Prune(events, now)

\* Mutant: the budget is compared with <=.
WouldAllowOneMore(events, max) == Len(Recent(events)) <= max

WouldAllow(events, max) == Len(Recent(events)) < max
Recorded(events) == Append(Recent(events), now)

-----------------------------------------------------------------------------
(* The frames of the auth phase.                                           *)

Named(name) == {a \in DOMAIN accounts : Lower[accounts[a].name] = Lower[name]}
Disabled == {a \in DOMAIN accounts : accounts[a].disabled}

\* The auth phase is over; its count of attempts with it.
LeaveAuth(c, to) ==
    /\ phase' = [phase EXCEPT ![c] = to]
    /\ attempts' = [attempts EXCEPT ![c] = 0]

\* An attempt that failed: after the last one the server hangs up.
Failed(c) ==
    IF attempts[c] + 1 = Attempts THEN LeaveAuth(c, "gone")
    ELSE attempts' = [attempts EXCEPT ![c] = @ + 1] /\ phase' = [phase EXCEPT ![c] = "auth"]

\* run_in_executor: the call waits for the façade's lock.
Submit(c, request) ==
    /\ phase' = [phase EXCEPT ![c] = "verify"]
    /\ call' = [call EXCEPT ![c] = [request |-> request, step |-> "queued", account |-> None, token |-> None]]
    /\ barred' = [barred EXCEPT ![c] = Disabled]
    /\ UNCHANGED attempts

\* With the right password, which only an account has, or a wrong one.
AuthRequest(c, name, password) ==
    /\ phase[c] = "auth" /\ (password = "right" => Named(name) # {})
    /\ IF WouldAllow(failures, LoginMax)
       THEN Submit(c, [op |-> "login", name |-> name, password |-> password])
       ELSE Failed(c) /\ UNCHANGED <<call, barred>>
    /\ UNCHANGED <<identity, store, clocks>>

\* A token the store gave out, or one it never did (0).
Resume(c, token) ==
    /\ phase[c] = "auth"
    /\ Submit(c, [op |-> "resume", resumed |-> token])
    /\ UNCHANGED <<identity, store, clocks>>

Register(c, name, code) ==
    /\ phase[c] = "auth"
    /\ IF WouldAllow(registers, RegisterMax)
       THEN /\ registers' = Recorded(registers)
            /\ Submit(c, [op |-> "register", name |-> name, code |-> code])
       ELSE Failed(c) /\ UNCHANGED <<call, barred, registers>>
    /\ UNCHANGED <<identity, store, failures, now, ops>>

OtherFrame(c) ==
    /\ phase[c] = "auth" /\ Failed(c)
    /\ UNCHANGED <<identity, call, store, clocks, barred>>

\* No frame for FIRST_FRAME_TIMEOUT_S, or the client is gone.
NoFrame(c) ==
    /\ phase[c] = "auth" /\ LeaveAuth(c, "gone")
    /\ UNCHANGED <<identity, call, store, clocks, barred>>

-----------------------------------------------------------------------------
(* The calls. What happens before the first write of a call and the write  *)
(* itself are two steps: another process may write in between.             *)

At(c, step) == call[c] # None /\ call[c].step = step
Request(c) == call[c].request
Step(c, step, account, token) ==
    call' = [call EXCEPT ![c].step = step, ![c].account = account, ![c].token = token]

\* Mutant: the façade is not synchronized.
FacadeUnlocked == TRUE

\* _synchronized: one call at a time.
FacadeFree == \A c \in Clients : ~At(c, "write")

\* handle_auth_request up to the verify; which of several matching rows is
\* fetched is the database's choice.
LoginReads(c) ==
    /\ Request(c).op = "login"
    /\ \/ Named(Request(c).name) = {} /\ Step(c, "failed", None, None)
       \/ \E a \in Named(Request(c).name) :
            IF accounts[a].disabled \/ Request(c).password # "right" THEN Step(c, "failed", None, None)
            ELSE Step(c, "write", a, None)

GetSession(t) == t \in DOMAIN sessions /\ sessions[t].stored

\* Mutant: handle_resume does not join the account.
ResumeReadsSessionOnly(c) ==
    /\ Request(c).op = "resume"
    /\ LET t == Request(c).resumed
       IN IF GetSession(t) /\ sessions[t].expires > now
          THEN Step(c, "write", sessions[t].account, t)
          ELSE Step(c, "failed", None, None)

ResumeReads(c) ==
    /\ Request(c).op = "resume"
    /\ LET t == Request(c).resumed
       IN IF /\ GetSession(t) /\ sessions[t].expires > now
             /\ ~accounts[sessions[t].account].disabled
          THEN Step(c, "write", sessions[t].account, t)
          ELSE Step(c, "failed", None, None)

\* handle_register up to the dup-check: a SELECT, which begins no transaction.
RegisterReads(c) ==
    /\ Request(c).op = "register"
    /\ IF Named(Request(c).name) = {} THEN Step(c, "write", None, None) ELSE Step(c, "failed", None, None)

CallReads(c) ==
    /\ At(c, "queued") /\ FacadeFree
    /\ LoginReads(c) \/ ResumeReads(c) \/ RegisterReads(c)
    /\ UNCHANGED <<phase, attempts, identity, store, clocks, barred>>

\* issue_session.
Issue(account) == Append(sessions, [account |-> account, expires |-> now + Lifetime, stored |-> TRUE])

LoginWrites(c) ==
    /\ Request(c).op = "login"
    /\ sessions' = Issue(call[c].account)
    /\ Step(c, "ok", call[c].account, Len(sessions'))
    /\ UNCHANGED <<accounts, invites>>

RenewSession(t) == [sessions EXCEPT ![t].expires = now + Lifetime]
ResumeWrites(c) ==
    /\ Request(c).op = "resume"
    /\ sessions' = RenewSession(call[c].token)
    /\ Step(c, "ok", call[c].account, call[c].token)
    /\ UNCHANGED <<accounts, invites>>

\* redeem_invite's WHERE.
Redeemable(code) ==
    /\ code \in DOMAIN invites
    /\ ~invites[code].disabled /\ invites[code].used < MaxUses /\ invites[code].expires > now

Redeem(code) == invites' = [invites EXCEPT ![code].used = @ + 1]

\* Mutant: the redemption is committed before the INSERT.
RegisterWritesTwice(c) ==
    /\ Request(c).op = "register"
    /\ \/ ~Redeemable(Request(c).code) /\ Step(c, "failed", None, None)
          /\ UNCHANGED <<accounts, sessions, invites>>
       \/ /\ Redeemable(Request(c).code)
          /\ \E a \in DOMAIN accounts : accounts[a].name = Request(c).name
          /\ Redeem(Request(c).code)
          /\ Step(c, "raised", None, None) /\ UNCHANGED <<accounts, sessions>>
       \/ /\ Redeemable(Request(c).code)
          /\ \A a \in DOMAIN accounts : accounts[a].name # Request(c).name
          /\ Redeem(Request(c).code)
          /\ accounts' = Append(accounts, Account(Request(c).name, "user", Request(c).code))
          /\ sessions' = Issue(Len(accounts'))
          /\ Step(c, "ok", Len(accounts'), Len(sessions'))

\* The transaction of handle_register. The column is UNIQUE, case and all: the
\* INSERT of a name that came in since the check raises, and is rolled back.
RegisterWrites(c) ==
    /\ Request(c).op = "register"
    /\ \/ ~Redeemable(Request(c).code) /\ Step(c, "failed", None, None)
          /\ UNCHANGED <<accounts, sessions, invites>>
       \/ /\ Redeemable(Request(c).code)
          /\ \E a \in DOMAIN accounts : accounts[a].name = Request(c).name
          /\ Step(c, "raised", None, None) /\ UNCHANGED <<accounts, sessions, invites>>
       \/ /\ Redeemable(Request(c).code)
          /\ \A a \in DOMAIN accounts : accounts[a].name # Request(c).name
          /\ Redeem(Request(c).code)
          /\ accounts' = Append(accounts, Account(Request(c).name, "user", Request(c).code))
          /\ sessions' = Issue(Len(accounts'))
          /\ Step(c, "ok", Len(accounts'), Len(sessions'))

CallWrites(c) ==
    /\ At(c, "write")
    /\ LoginWrites(c) \/ ResumeWrites(c) \/ RegisterWrites(c)
    /\ UNCHANGED <<phase, attempts, identity, draft, clocks, barred>>

-----------------------------------------------------------------------------
(* The handler takes the answer up.                                        *)

\* The role is read once, now (_lookup_role).
Admitted(c) ==
    /\ At(c, "ok")
    /\ identity' = [identity EXCEPT ![c] = [account |-> call[c].account, role |-> accounts[call[c].account].role]]
    /\ LeaveAuth(c, "lobby")
    /\ UNCHANGED failures

\* Only a failed login uses the limiter's budget up.
Refused(c) ==
    /\ At(c, "failed") /\ Failed(c)
    /\ failures' = IF Request(c).op = "login" THEN Recorded(failures) ELSE failures
    /\ UNCHANGED identity

\* Any other exception of the call ends the handler.
HandlerDies(c) ==
    /\ At(c, "raised") /\ LeaveAuth(c, "gone")
    /\ UNCHANGED <<identity, failures>>

Answer(c) ==
    /\ Admitted(c) \/ Refused(c) \/ HandlerDies(c)
    /\ call' = [call EXCEPT ![c] = None] /\ barred' = [barred EXCEPT ![c] = {}]
    /\ UNCHANGED <<store, registers, now, ops>>

-----------------------------------------------------------------------------
(* The operator, and time.                                                 *)

Operates == ops < MaxOps /\ ops' = ops + 1

\* create_account: the dup-check, and the INSERT after the password was hashed.
CreateChecks(name) ==
    /\ Operates /\ draft = None /\ Named(name) = {}
    /\ draft' = name
    /\ UNCHANGED <<auth, accounts, sessions, invites, failures, registers, now, barred>>
CreateInserts ==
    /\ draft # None /\ draft' = None
    /\ \/ (\E a \in DOMAIN accounts : accounts[a].name = draft) /\ UNCHANGED accounts
       \/ /\ \A a \in DOMAIN accounts : accounts[a].name # draft
          /\ accounts' = Append(accounts, Account(draft, "user", "operator"))
    /\ UNCHANGED <<auth, sessions, invites, clocks, barred>>

SetAccountDisabled(a, disabled) ==
    /\ Operates /\ accounts[a].disabled # disabled
    /\ accounts' = [accounts EXCEPT ![a].disabled = disabled]
    /\ barred' = [c \in Clients |-> barred[c] \ {a}]
    /\ UNCHANGED <<auth, sessions, invites, draft, failures, registers, now>>

SetAccountRole(a, role) ==
    /\ Operates /\ accounts[a].role # role
    /\ accounts' = [accounts EXCEPT ![a].role = role]
    /\ UNCHANGED <<auth, sessions, invites, draft, failures, registers, now, barred>>

\* An invite may carry an expiry or none (one that lies beyond MaxTime).
MintInvite(code, expires) ==
    /\ Operates /\ code \notin DOMAIN invites
    /\ invites' = [k \in DOMAIN invites \cup {code} |->
                     IF k = code THEN Invite(expires) ELSE invites[k]]
    /\ UNCHANGED <<auth, accounts, sessions, draft, failures, registers, now, barred>>

RevokeInvite(code) ==
    /\ Operates /\ ~invites[code].disabled
    /\ invites' = [invites EXCEPT ![code].disabled = TRUE]
    /\ UNCHANGED <<auth, accounts, sessions, draft, failures, registers, now, barred>>

\* periodic_session_cleanup, on the event loop, waits for the façade too.
SessionCleanup ==
    /\ FacadeFree
    /\ \E t \in DOMAIN sessions : sessions[t].stored /\ sessions[t].expires < now
    /\ sessions' = [t \in DOMAIN sessions |->
                      [sessions[t] EXCEPT !.stored = @ /\ sessions[t].expires >= now]]
    /\ UNCHANGED <<auth, accounts, invites, draft, clocks, barred>>

Tick ==
    /\ now < MaxTime /\ now' = now + 1
    /\ UNCHANGED <<auth, store, failures, registers, ops, barred>>

-----------------------------------------------------------------------------
Frame(c) ==
    \/ \E name \in Names, password \in {"right", "wrong"} : AuthRequest(c, name, password)
    \/ \E token \in 0 .. Len(sessions) : Resume(c, token)
    \/ \E name \in Names, code \in Codes : Register(c, name, code)
    \/ OtherFrame(c)

OperatorNext ==
    \/ \E name \in Names : CreateChecks(name)
    \/ CreateInserts
    \/ \E a \in DOMAIN accounts : \/ \E disabled \in BOOLEAN : SetAccountDisabled(a, disabled)
                                  \/ \E role \in {"user", "admin"} : SetAccountRole(a, role)
    \/ \E code \in Codes : \E expires \in {1, MaxTime + 1} : MintInvite(code, expires)
    \/ \E code \in DOMAIN invites : RevokeInvite(code)
    \/ SessionCleanup
    \/ Tick

AuthNext ==
    \/ \E c \in Clients : Frame(c) \/ NoFrame(c) \/ CallReads(c) \/ CallWrites(c) \/ Answer(c)
    \/ OperatorNext

-----------------------------------------------------------------------------
\* Every use of an invite made exactly one account, and no invite made more than
\* it was minted for: a rejected registration leaves it as it was (handle_register).
InviteBudget ==
    \A k \in DOMAIN invites :
        /\ invites[k].used = Cardinality({a \in DOMAIN accounts : accounts[a].via = k})
        /\ invites[k].used <= MaxUses

\* Two accounts whose names differ in case alone cannot come from two
\* registrations: it takes the operator, whose INSERT comes from another process
\* (the façade's lock around check and INSERT).
NamesClashOnlyAcross ==
    \A a, b \in DOMAIN accounts :
        (a # b /\ Lower[accounts[a].name] = Lower[accounts[b].name]) =>
            "operator" \in {accounts[a].via, accounts[b].via}

\* The limiters hold the address to its budget: registrations exactly, failed
\* logins but for those that were being verified when the budget ran out, one
\* of each other connection at most (would_allow and record around the executor).
BudgetsHold ==
    /\ Len(Recent(registers)) <= RegisterMax
    /\ Len(Recent(failures)) <= LoginMax + Cardinality(Clients) - 1

\* What the door keeps against registrations and logins that race each other:
\* invites, names and budgets.
DoorHolds == InviteBudget /\ NamesClashOnlyAcross /\ BudgetsHold

\* Nobody gets in with an account that was disabled when they asked, and still
\* is: not by password, not by a session of before (handle_auth_request, handle_resume).
DisabledStaysOut ==
    [][\A c \in Clients : (phase[c] = "verify" /\ phase'[c] = "lobby") => identity'[c].account \notin barred[c]]_authVars
=============================================================================
