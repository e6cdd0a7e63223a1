------------------------------ MODULE MCReturn ------------------------------
(***************************************************************************)
(* What comes of a player who was dropped, for TLC: on the side of the     *)
(* seat, with two connections of one account, and on that of the page,     *)
(* with two pages of one account or of two.  The two share no state, so    *)
(* each behaviour is of one of them; of the other nothing is due then.     *)
(***************************************************************************)
EXTENDS MCSeatSession, Absent, Tabs

CONSTANTS Attempts, MaxDrops, MaxClicks, p1, p2

VARIABLES
    part,
    owner, page, link, up, down, handler, seat, ghosts, misled, played, drops, clicks

Way == INSTANCE Rejoin WITH hand <- played

wayVars == <<owner, page, link, up, down, handler, seat, ghosts, misled, played, drops, clicks>>

MCInit ==
    /\ part \in {"seat", "page"} /\ Init /\ Way!Init
    \* Pages and accounts are alike: two pages of one account, or one page each.
    /\ owner \in {[p \in Pages |-> x], [p \in Pages |-> IF p = p1 THEN x ELSE y]}
    \* The pages are at the table, and owe nothing.
    /\ part = "seat" => played = "first"
MCNext ==
    /\ UNCHANGED part
    /\ \/ part = "seat" /\ Next /\ UNCHANGED wayVars
       \/ part = "page" /\ Way!RejoinNext /\ UNCHANGED vars
MCSpec == MCInit /\ [][MCNext]_<<part, vars, wayVars>> /\ Fairness /\ Way!RejoinFairness

\* A page comes to know whether it has its seat (Rejoin).
PageSettles == Way!PageSettles
\* Once every human seat is LIVE the first hand starts (Rejoin).
HandStarts == Way!HandStarts
=============================================================================
