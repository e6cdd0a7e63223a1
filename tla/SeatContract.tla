---------------------------- MODULE SeatContract ----------------------------
(***************************************************************************)
(* What a seat promises the hand task and its players, whatever sockets    *)
(* and timers do: it has at most one owner, it passes to another account   *)
(* only by being released first, and each question put to it is settled    *)
(* once: by its owner, by a default, or by a failure.  What it does not    *)
(* promise: a takeover that went on after its await although the seat had  *)
(* changed may seat a guest, who can answer as well as the owner can.      *)
(***************************************************************************)
CONSTANTS Users, NoUser     \* NoUser, not an account, holds a free seat

VARIABLES
    owner,      \* the account that holds the seat
    guest,      \* the account whose takeover was overtaken
    question,   \* where the hand task's current question stands
    answerer    \* the account that answered it

vars == <<owner, guest, question, answerer>>

Init ==
    /\ owner = NoUser /\ guest = NoUser
    /\ question = "idle" /\ answerer = NoUser

\* A free seat is bound, and whoever was a guest there is one no longer.
Bind(u) ==
    /\ owner = NoUser
    /\ owner' = u /\ guest' = NoUser
    /\ UNCHANGED <<question, answerer>>

\* The owner leaves, loses the seat to the hold timer, or is sent away, and the
\* guest with it.  What was asked of the seat then is settled without them.
Release ==
    /\ owner' = NoUser /\ guest' = NoUser
    /\ \/ question' = question /\ question # "open"
       \/ question = "open" /\ question' \in {"defaulted", "failed"}
    /\ UNCHANGED answerer

\* A takeover installs its sink in a seat that is not, or no longer, its own; a
\* later one, a resume or a drop puts an end to that.
Intrude ==
    /\ guest' \in Users \cup {NoUser}
    /\ UNCHANGED <<owner, question, answerer>>

Ask ==
    /\ question = "idle"
    /\ question' = "open" /\ answerer' = NoUser
    /\ UNCHANGED <<owner, guest>>

Answer ==
    /\ question = "open"
    /\ answerer' \in {owner, guest} \ {NoUser}
    /\ question' = "answered"
    /\ UNCHANGED <<owner, guest>>

Lapse ==
    /\ question = "open"
    /\ question' \in {"defaulted", "failed"}
    /\ UNCHANGED <<owner, guest, answerer>>

\* The hand task takes the outcome, or is cancelled and takes nothing.
Collect ==
    /\ question # "idle"
    /\ question' = "idle"
    /\ UNCHANGED <<owner, guest, answerer>>

Next ==
    \/ \E u \in Users : Bind(u)
    \/ Release \/ Intrude \/ Ask \/ Answer \/ Lapse \/ Collect

Spec == Init /\ [][Next]_vars
=============================================================================
