------------------------------ MODULE HandLoop ------------------------------
(***************************************************************************)
(* One table of mahjong/server/registry.py: its human seats as the hand    *)
(* loop sees them, the loop that plays hand after hand, the ready gate     *)
(* between two hands, and the drain and the close that end the table.      *)
(* What happens inside one seat is the subject of SeatSession, what        *)
(* happens inside one hand (run_hand) is one step, HandEnds.               *)
(***************************************************************************)
EXTENDS Naturals, FiniteSets

CONSTANTS
    SeatCount,       \* human seats 0 .. SeatCount - 1; bots never gate
    MaxHands,        \* bound on the hands played
    Moves            \* what the players of an instance do

PlayerMoves == {"detach", "drop", "early_ready", "late_start"}

ASSUME LoopAssumption ==
    /\ SeatCount \in Nat \ {0}
    /\ MaxHands \in Nat \ {0}
    /\ Moves \subseteq PlayerMoves

Seats == 0 .. SeatCount - 1

VARIABLES
    seat,       \* SeatState of each human seat
    hold,       \* whether its hold timer is armed
    expiring,   \* seats whose on_hold_expired task has yet to run
    loop,       \* where the hand task stands
    step,       \* the seat begin_next_hand has come to
    hand,       \* _hand_index + 1
    ready,      \* _ready_seats
    changed,    \* _ready_changed
    stop,       \* _stop_event
    roster,     \* waiting_on of the last READY_STATE
    sent,       \* the client has swapped its Ready button for "you're ready"
    clicked,    \* history: READY arrived since this hand ended
    phase,      \* of the server: serving, draining, closed
    awaited,    \* the drain waits for this table's hand task
    timedOut,   \* the drain gave up waiting
    late,       \* history: the first hand was started after the drain began
    cut         \* history: a hand was cancelled before its end, and why

seatVars == <<seat, hold, expiring>>
gateVars == <<ready, changed, roster, sent, clicked>>
loopVars == <<loop, step, hand, cut>>
serverVars == <<stop, phase, awaited, timedOut, late>>
vars == <<seatVars, gateVars, loopVars, serverVars>>

States == {"UNBOUND", "LIVE", "HELD"}
LoopSteps == {"none", "playing", "pausing", "showing", "asleep", "boundary", "over"}

SeatTypeOK ==
    /\ seat \in [Seats -> States]
    /\ hold \in [Seats -> BOOLEAN]
    /\ expiring \subseteq Seats

GateTypeOK ==
    /\ ready \subseteq Seats
    /\ changed \in BOOLEAN
    /\ roster \subseteq Seats
    /\ sent \in [Seats -> BOOLEAN]
    /\ clicked \subseteq Seats

LoopTypeOK ==
    /\ loop \in LoopSteps
    /\ step \in 0 .. SeatCount
    /\ hand \in 1 .. MaxHands
    /\ cut \in {"no", "timeout", "closed", "crash", "drain"}

ServerTypeOK ==
    /\ stop \in BOOLEAN
    /\ phase \in {"serving", "draining", "closed"}
    /\ awaited \in BOOLEAN
    /\ timedOut \in BOOLEAN
    /\ late \in BOOLEAN

TypeOK == SeatTypeOK /\ GateTypeOK /\ LoopTypeOK /\ ServerTypeOK

Init ==
    /\ seat = [s \in Seats |-> "UNBOUND"] /\ hold = [s \in Seats |-> FALSE]
    /\ expiring = {}
    /\ loop = "none" /\ step = 0 /\ hand = 1 /\ cut = "no"
    /\ ready = {} /\ changed = FALSE /\ roster = {}
    /\ sent = [s \in Seats |-> FALSE] /\ clicked = {}
    /\ stop = FALSE /\ phase = "serving" /\ awaited = FALSE
    /\ timedOut = FALSE /\ late = FALSE

InProgress == loop \notin {"none", "over"}
InGate == loop \in {"showing", "asleep"}

\* LIVE and HELD seats hold the gate; a released seat does not.
GatedHumanSeats == {s \in Seats : seat[s] \in {"LIVE", "HELD"}}
AllGatedReady == GatedHumanSeats \subseteq ready

-----------------------------------------------------------------------------
(* Seats, as SeatSession moves them.                                       *)

\* A released seat of a running match cannot be taken again; a HELD seat can
\* always be resumed.  A page that was reloaded shows its Ready button again.
Attach(s) ==
    /\ phase # "closed"
    /\ seat[s] = "HELD" \/ (seat[s] = "UNBOUND" /\ ~InProgress)
    /\ seat' = [seat EXCEPT ![s] = "LIVE"]
    /\ hold' = [hold EXCEPT ![s] = FALSE]
    /\ \E reloaded \in BOOLEAN :
        sent' = [sent EXCEPT ![s] = sent[s] /\ ~reloaded /\ loop # "playing"]
    /\ UNCHANGED <<expiring, ready, changed, roster, clicked, loopVars, serverVars>>

Drop(s) ==
    /\ "drop" \in Moves
    /\ seat[s] = "LIVE"
    /\ seat' = [seat EXCEPT ![s] = "HELD"]
    /\ hold' = [hold EXCEPT ![s] = TRUE]
    /\ UNCHANGED <<expiring, gateVars, loopVars, serverVars>>

\* Leaving by DETACH releases the seat and wakes nobody.
Detach(s) ==
    /\ "detach" \in Moves
    /\ seat[s] = "LIVE"
    /\ seat' = [seat EXCEPT ![s] = "UNBOUND"]
    /\ UNCHANGED <<hold, expiring, gateVars, loopVars, serverVars>>

HoldExpires(s) ==
    /\ hold[s] /\ seat[s] = "HELD"
    /\ seat' = [seat EXCEPT ![s] = "UNBOUND"]
    /\ hold' = [hold EXCEPT ![s] = FALSE]
    /\ expiring' = expiring \cup {s}
    /\ UNCHANGED <<gateVars, loopVars, serverVars>>

\* Mutant: a hold expiry does not wake the gate.
OnGatedSeatExpiredSilent(s) ==
    /\ s \in expiring
    /\ expiring' = expiring \ {s}
    /\ UNCHANGED <<seat, hold, changed, ready, roster, sent, clicked, loopVars, serverVars>>

\* _on_gated_seat_expired runs as a task of its own, after the teardown.
OnGatedSeatExpired(s) ==
    /\ s \in expiring
    /\ expiring' = expiring \ {s}
    /\ changed' = TRUE
    /\ UNCHANGED <<seat, hold, ready, roster, sent, clicked, loopVars, serverVars>>

\* A client offers Ready once per HAND_END it shows; the server records READY
\* whenever it comes.
MarkReady(s) ==
    /\ InGate \/ (loop = "pausing" /\ "early_ready" \in Moves)
    /\ seat[s] = "LIVE" /\ ~sent[s]
    /\ sent' = [sent EXCEPT ![s] = TRUE]
    /\ ready' = ready \cup {s} /\ clicked' = clicked \cup {s}
    /\ changed' = TRUE
    /\ UNCHANGED <<seatVars, roster, loopVars, serverVars>>

-----------------------------------------------------------------------------
(* The hand loop.                                                          *)

\* START_HAND: once per table, every human LIVE.  The stop is not looked at.
StartHand ==
    /\ loop = "none" /\ phase # "closed"
    /\ \A s \in Seats : seat[s] = "LIVE"
    /\ stop => "late_start" \in Moves
    /\ loop' = "playing" /\ late' = stop
    /\ UNCHANGED <<seatVars, gateVars, step, hand, cut, stop, phase, awaited, timedOut>>

\* The strike limit during a hand: left("REPLACED") shuts the seat down.
SeatReplaced(s) ==
    /\ loop = "playing" /\ seat[s] # "UNBOUND"
    /\ seat' = [seat EXCEPT ![s] = "UNBOUND"]
    /\ hold' = [hold EXCEPT ![s] = FALSE]
    /\ UNCHANGED <<expiring, gateVars, loopVars, serverVars>>

\* run_hand returned: the last hand of the match and a requested stop end the
\* loop, otherwise the players read the summary for a moment.
HandEnds ==
    /\ loop = "playing"
    /\ clicked' = {}
    /\ loop' = IF stop \/ hand = MaxHands THEN "over" ELSE "pausing"
    /\ UNCHANGED <<seatVars, ready, changed, roster, sent, step, hand, cut, serverVars>>

\* The pause ends early when a stop is requested.
PauseStopped ==
    /\ loop = "pausing" /\ stop
    /\ loop' = "over"
    /\ UNCHANGED <<seatVars, gateVars, step, hand, cut, serverVars>>

\* Mutant: the READYs of the hand before still count.
GateOpensStale ==
    /\ loop = "pausing" /\ ~stop
    /\ changed' = FALSE /\ UNCHANGED ready
    /\ IF GatedHumanSeats = {}
       THEN loop' = "boundary" /\ UNCHANGED roster
       ELSE loop' = "showing" /\ roster' = GatedHumanSeats
    /\ step' = 0
    /\ UNCHANGED <<seatVars, sent, clicked, hand, cut, serverVars>>

\* The pause is over: READYs that came during it are forgotten, and the roster
\* goes out unless nobody is gated.
GateOpens ==
    /\ loop = "pausing" /\ ~stop
    /\ ready' = {} /\ changed' = FALSE
    /\ IF GatedHumanSeats = {}
       THEN loop' = "boundary" /\ UNCHANGED roster
       ELSE loop' = "showing" /\ roster' = GatedHumanSeats
    /\ step' = 0
    /\ UNCHANGED <<seatVars, sent, clicked, hand, cut, serverVars>>

\* The roster has been sent, with an await per seat: leave, or clear the flag
\* and wait for it.
GateChecks ==
    /\ loop = "showing"
    /\ IF stop \/ AllGatedReady
       THEN /\ loop' = IF stop THEN "over" ELSE "boundary"
            /\ UNCHANGED changed
       ELSE loop' = "asleep" /\ changed' = FALSE
    /\ UNCHANGED <<seatVars, ready, roster, sent, clicked, step, hand, cut, serverVars>>

\* Mutant: the gate waits for the flag alone.
GateWakesByFlag ==
    /\ loop = "asleep" /\ changed
    /\ loop' = "showing"
    /\ roster' = GatedHumanSeats \ ready
    /\ UNCHANGED <<seatVars, ready, changed, sent, clicked, step, hand, cut, serverVars>>

\* A READY, a hold expiry or the stop wakes the gate, which sends the roster.
GateWakes ==
    /\ loop = "asleep" /\ (stop \/ changed)
    /\ loop' = "showing"
    /\ roster' = GatedHumanSeats \ ready
    /\ UNCHANGED <<seatVars, ready, changed, sent, clicked, step, hand, cut, serverVars>>

\* begin_next_hand, seat after seat: a LIVE client gets the new deal and its
\* Ready button back, a HELD seat loses its hold timer.
BeginNextHand ==
    /\ loop = "boundary" /\ step < SeatCount
    /\ step' = step + 1
    /\ sent' = [sent EXCEPT ![step] = sent[step] /\ seat[step] # "LIVE"]
    /\ hold' = [hold EXCEPT ![step] = hold[step] /\ seat[step] # "HELD"]
    /\ UNCHANGED <<seat, expiring, ready, changed, roster, clicked, loop, hand, cut,
                   serverVars>>

NextHand ==
    /\ loop = "boundary" /\ step = SeatCount
    /\ loop' = "playing" /\ hand' = hand + 1 /\ step' = 0
    /\ UNCHANGED <<seatVars, gateVars, cut, serverVars>>

ReleaseSeats ==
    /\ seat' = [s \in Seats |-> "UNBOUND"]
    /\ hold' = [s \in Seats |-> FALSE]

\* An exception in the loop: the sessions are shut down with "hand_aborted".
LoopCrashes ==
    /\ loop \in {"playing", "boundary"}
    /\ loop' = "over" /\ cut' = IF loop = "playing" THEN "crash" ELSE cut
    /\ ReleaseSeats
    /\ UNCHANGED <<expiring, gateVars, step, hand, serverVars>>

-----------------------------------------------------------------------------
(* Drain and close.                                                        *)

\* drain_all, then await_tables_drained: only a hand task that runs at that
\* moment is waited for.
RequestStop ==
    /\ phase = "serving"
    /\ phase' = "draining" /\ stop' = TRUE /\ awaited' = InProgress
    /\ UNCHANGED <<seatVars, gateVars, loopVars, timedOut, late>>

DrainTimesOut ==
    /\ phase = "draining" /\ awaited /\ InProgress /\ ~timedOut
    /\ timedOut' = TRUE
    /\ UNCHANGED <<seatVars, gateVars, loopVars, stop, phase, awaited, late>>

\* close_table: the hand task is cancelled, then the sessions are shut down.
Close(why) ==
    /\ cut' = IF loop = "playing" THEN why ELSE cut
    /\ loop' = "over" /\ phase' = "closed"
    /\ ReleaseSeats
    /\ UNCHANGED <<expiring, gateVars, step, hand, stop, awaited, timedOut, late>>

CloseTable == phase # "closed" /\ Close("closed")

\* Mutant: the drain does not wait for the hand tasks.
CloseAtOnce ==
    /\ phase = "draining"
    /\ Close(IF timedOut THEN "timeout" ELSE "drain")

CloseAfterDrain ==
    /\ phase = "draining"
    /\ awaited /\ InProgress => timedOut
    /\ Close(IF timedOut THEN "timeout" ELSE "drain")

-----------------------------------------------------------------------------
SeatNext(s) ==
    \/ Attach(s) \/ Drop(s) \/ Detach(s) \/ HoldExpires(s)
    \/ OnGatedSeatExpired(s) \/ MarkReady(s) \/ SeatReplaced(s)

LoopNext ==
    \/ StartHand \/ HandEnds \/ PauseStopped
    \/ GateOpens \/ GateChecks \/ GateWakes
    \/ BeginNextHand \/ NextHand \/ LoopCrashes

Next ==
    \/ \E s \in Seats : SeatNext(s)
    \/ LoopNext
    \/ RequestStop \/ DrainTimesOut \/ CloseTable \/ CloseAfterDrain

Spec == Init /\ [][Next]_vars

\* The hand task and the timers of the loop run; hands end (run_hand is timed
\* by its watchdog).  Players and operators owe nothing.
Fairness ==
    /\ WF_vars(HandEnds) /\ WF_vars(PauseStopped) /\ WF_vars(GateOpens)
    /\ WF_vars(GateChecks) /\ WF_vars(GateWakes) /\ WF_vars(BeginNextHand)
    /\ WF_vars(NextHand) /\ WF_vars(CloseAfterDrain)
    /\ \A s \in Seats : WF_vars(HoldExpires(s)) /\ WF_vars(OnGatedSeatExpired(s))

FairSpec == Spec /\ Fairness

-----------------------------------------------------------------------------
(* Properties.                                                             *)

\* The next hand never starts under a player who is present or coming back and
\* has not acknowledged the summary of the hand that just ended.
NobodySteamrolled ==
    [][loop # "boundary" /\ loop' = "boundary" => GatedHumanSeats \subseteq clicked]_vars

\* A hand that was running when the drain began is cut short only by the drain
\* timeout, by an administrator or by a crash.
DrainKeepsHand == cut = "drain" => late

\* A requested stop ends the loop: nothing in it waits for a player for ever.
StopEndsLoop == (stop /\ InProgress) ~> ~InProgress

(* A promise of the documents that the code breaks.                        *)

\* No wake-up is lost: once every seat that still holds the gate is ready, the
\* loop leaves the gate.
GateAdvances == (InGate /\ AllGatedReady) ~> ~InGate
=============================================================================
