------------------------------- MODULE Rejoin -------------------------------
(***************************************************************************)
(* A page and its way back to the table: web/static/app.js against the     *)
(* handler of its connection (server/orchestrator.py) and the seats.  The  *)
(* page reconnects by itself, resumes its session, attaches again to a     *)
(* seat that was kept for it and asks for the hand to start.  Frames are   *)
(* in flight both ways and are lost with the socket, whose end the page    *)
(* and the server notice at different times.  A takeover waits for the     *)
(* close of the socket it replaces, whose handler goes on meanwhile.       *)
(* Every user has one human seat of one table; the session token is good;  *)
(* frames the page ignores and the list the lobby refreshes every two      *)
(* seconds are left out.                                                   *)
(***************************************************************************)
EXTENDS Absent, Tabs, Naturals, Sequences

CONSTANTS
    Users,
    Attempts,       \* max_attempts of _run_auth_phase
    MaxDrops,       \* bound: sockets that die
    MaxClicks       \* bound: what the players click

VARIABLES
    owner,      \* page -> the user who is logged in there
    page,       \* page -> [view, attached, started, poll]: the view "profile" is the
                \* profile or a replay opened from it, attached is _attachedTableId
    link,       \* page -> its socket is open, as far as the page knows
    up, down,   \* page -> frames in flight on that socket
    handler,    \* page -> [phase, attempts] of the connection at the server
    seat,       \* user -> [state, conn]: UNBOUND, LIVE or HELD; a page, "stale" or None
    ghosts,     \* user -> takeovers of the seat by sockets that died meanwhile
    misled,     \* history: pages a takeover told ATTACHED without a LIVE seat, or put
                \* out of their seat without closing their socket
    hand,       \* "none", "first", "second", "over"
    drops, clicks
seats == <<seat, ghosts, misled>>
served == <<handler, seats, hand>>
vars == <<owner, page, link, up, down, served, drops, clicks>>

InLobby == [view |-> "lobby", attached |-> FALSE, started |-> FALSE, poll |-> "none"]
Dealt == [view |-> "table", attached |-> TRUE, started |-> TRUE, poll |-> "none"]
Gone == [phase |-> "none", attempts |-> 0]
Free == [state |-> "UNBOUND", conn |-> None]
Frame(kind) == [kind |-> kind]

\* Everyone is in the lobby, not yet connected; or at the table, the hand dealt.
Init ==
    /\ owner \in [Pages -> Users] /\ drops = 0 /\ clicks = 0
    /\ ghosts = [u \in Users |-> 0] /\ misled = {}
    /\ up = [p \in Pages |-> <<>>] /\ down = [p \in Pages |-> <<>>]
    /\ \/ /\ page = [p \in Pages |-> InLobby] /\ link = [p \in Pages |-> FALSE]
          /\ handler = [p \in Pages |-> Gone] /\ seat = [u \in Users |-> Free] /\ hand = "none"
       \/ /\ \A p, q \in Pages : owner[p] = owner[q] => p = q
          /\ page = [p \in Pages |-> Dealt]
          /\ link = [p \in Pages |-> TRUE]
          /\ handler = [p \in Pages |-> [phase |-> "table", attempts |-> 0]]
          /\ seat = [u \in Users |->
                        IF \E p \in Pages : owner[p] = u
                        THEN [state |-> "LIVE", conn |-> CHOOSE p \in Pages : owner[p] = u]
                        ELSE Free]
          /\ hand = "first"

AtTable(p) == seat[owner[p]] = [state |-> "LIVE", conn |-> p]
InProgress == hand \in {"first", "second"}
\* The human seats of the table: those of the users there are.
Humans == {owner[p] : p \in Pages}
AllLive == \A u \in Humans : seat[u].state = "LIVE"
\* In the table list a seat is taken while its player is expected back.
Occupied(u) == seat[u].state # "UNBOUND"
AllOccupied == \A u \in Humans : Occupied(u)

-----------------------------------------------------------------------------
(* The page. *)

\* send throws on a socket that is not open, and the caller goes on.
Sent(p, frames) == up' = [up EXCEPT ![p] = IF link[p] THEN @ \o frames ELSE @]

\* The page reads the frame at the head of what came down.
Reads(p, kind) ==
    /\ down[p] # <<>> /\ Head(down[p]).kind = kind /\ down' = [down EXCEPT ![p] = Tail(@)]

\* ConnectionManager: a socket that closed is opened again, after a back-off.
Connect(p) ==
    /\ ~link[p] /\ link' = [link EXCEPT ![p] = TRUE]
    /\ up' = [up EXCEPT ![p] = <<>>] /\ down' = [down EXCEPT ![p] = <<Frame("HELLO")>>]
    /\ handler' = [handler EXCEPT ![p] = [phase |-> "auth", attempts |-> 0]]
    /\ UNCHANGED <<owner, page, seats, hand, drops, clicks>>

OnHello(p) ==
    /\ Reads(p, "HELLO") /\ Sent(p, <<Frame("RESUME")>>)
    /\ UNCHANGED <<owner, page, link, served, drops, clicks>>

\* Mutant: a page that was at its table stays there.
OnAuthResponseAtTable(p) ==
    /\ Reads(p, "AUTH_RESPONSE")
    /\ Sent(p, IF Head(down[p]).hold = "HELD" THEN <<Frame("ATTACH")>> ELSE <<>>)
    /\ UNCHANGED <<owner, page, link, served, drops, clicks>>
\* _enterLobby, and _maybeAutoRejoin where the one seat of the account is HELD.
OnAuthResponse(p) ==
    /\ Reads(p, "AUTH_RESPONSE")
    /\ page' = [page EXCEPT ![p] = InLobby]
    /\ Sent(p, IF Head(down[p]).hold = "HELD" THEN <<Frame("ATTACH")>> ELSE <<>>)
    /\ UNCHANGED <<owner, link, served, drops, clicks>>

\* Mutant: the hand is asked for once the table list shows every seat taken.
OnAttachedPolls(p) ==
    /\ Reads(p, "ATTACHED")
    /\ page' = [page EXCEPT ![p].view = "table", ![p].attached = TRUE,
                            ![p].poll = IF @ = "none" THEN "set" ELSE @]
    /\ UNCHANGED <<owner, link, up, served, drops, clicks>>
\* Each ATTACHED brings the table into view and asks for the hand.
OnAttached(p) ==
    /\ Reads(p, "ATTACHED")
    /\ page' = [page EXCEPT ![p].view = "table", ![p].attached = TRUE]
    /\ Sent(p, <<Frame("START_HAND")>>)
    /\ UNCHANGED <<owner, link, served, drops, clicks>>

OnEvent(p) ==
    /\ Reads(p, "EVENT")
    /\ page' = [page EXCEPT ![p].started = TRUE, ![p].poll = "none"]
    /\ UNCHANGED <<owner, link, up, served, drops, clicks>>

\* humans_not_ready: ask for the table list in two seconds.
OnNotReady(p) ==
    /\ Reads(p, "ERROR")
    /\ page' = [page EXCEPT ![p].poll = IF @ = "none" /\ ~page[p].started THEN "set" ELSE @]
    /\ UNCHANGED <<owner, link, up, served, drops, clicks>>
\* The timer's handle is forgotten by nobody: there is no second poll.
PollFires(p) ==
    /\ page[p].poll = "set" /\ page' = [page EXCEPT ![p].poll = "fired"]
    /\ Sent(p, <<Frame("LIST_TABLES")>>)
    /\ UNCHANGED <<owner, link, down, served, drops, clicks>>

\* Out of the lobby the list is an answer to the poll.
OnTableList(p) ==
    /\ Reads(p, "TABLE_LIST")
    /\ IF page[p].view = "lobby" \/ page[p].started \/ ~page[p].attached
       THEN UNCHANGED <<page, up>>
       ELSE IF Head(down[p]).occupied
       THEN page' = [page EXCEPT ![p].poll = "none"] /\ Sent(p, <<Frame("START_HAND")>>)
       ELSE page' = [page EXCEPT ![p].poll = IF @ = "none" THEN "set" ELSE @] /\ UNCHANGED up
    /\ UNCHANGED <<owner, link, served, drops, clicks>>

\* A profile comes into view wherever the page is.
OnProfile(p) ==
    /\ Reads(p, "PROFILE") /\ page' = [page EXCEPT ![p].view = "profile"]
    /\ UNCHANGED <<owner, link, up, served, drops, clicks>>

(***************************************************************************)
(* The socket closes, by the server or by the network, and what is in      *)
(* flight on it is lost.  A takeover that waited on it goes on.            *)
(***************************************************************************)
Disconnected(p) ==
    /\ link' = [link EXCEPT ![p] = FALSE]
    /\ up' = [up EXCEPT ![p] = <<>>] /\ down' = [down EXCEPT ![p] = <<>>]
    /\ handler' = [handler EXCEPT ![p] = Gone]
    /\ seat' = [u \in Users |->
                   IF seat[u].conn = p THEN [seat[u] EXCEPT !.conn = "stale"] ELSE seat[u]]
    /\ ghosts' = [ghosts EXCEPT ![owner[p]] = IF handler[p].phase = "taking" THEN @ + 1 ELSE @]
    /\ misled' = misled \ {p}
OnClose(p) ==
    /\ down[p] # <<>> /\ Head(down[p]).kind = "CLOSE" /\ Disconnected(p)
    /\ UNCHANGED <<owner, page, hand, drops, clicks>>
Drops(p) ==
    /\ link[p] /\ drops < MaxDrops /\ drops' = drops + 1 /\ Disconnected(p)
    /\ UNCHANGED <<owner, page, hand, clicks>>

\* A row of the lobby is clicked, to join or to rejoin.
JoinClicked(p) ==
    /\ page[p].view = "lobby" /\ clicks < MaxClicks /\ clicks' = clicks + 1
    /\ Sent(p, <<Frame("ATTACH")>>)
    /\ UNCHANGED <<owner, page, link, down, served, drops>>
\* Leaving does not wait for the server.
LeaveClicked(p) ==
    /\ page[p].view = "table" /\ clicks < MaxClicks /\ clicks' = clicks + 1
    /\ Sent(p, <<Frame("DETACH")>>)
    /\ page' = [page EXCEPT ![p] = InLobby]
    /\ UNCHANGED <<owner, link, down, served, drops>>
\* [ profile ] is there in every view; back from it is to the lobby.
ProfileClicked(p) ==
    /\ clicks < MaxClicks /\ clicks' = clicks + 1
    /\ page' = [page EXCEPT ![p].view = "profile"] /\ Sent(p, <<Frame("GET_PROFILE")>>)
    /\ UNCHANGED <<owner, link, down, served, drops>>
ProfileClosed(p) ==
    /\ page[p].view = "profile" /\ page' = [page EXCEPT ![p].view = "lobby"]
    /\ UNCHANGED <<owner, link, up, down, served, drops, clicks>>

-----------------------------------------------------------------------------
(* The server. *)

(***************************************************************************)
(* The handler of p's connection takes a frame in one of the given phases. *)
(* While its socket is being closed it takes what was sent before, and its *)
(* answers are lost.                                                       *)
(***************************************************************************)
Attached == {"table", "closing"}
Takes(p, phases, kinds) ==
    /\ handler[p].phase \in phases /\ up[p] # <<>> /\ Head(up[p]).kind \in kinds
    /\ up' = [up EXCEPT ![p] = Tail(@)]
Replies(p, frame) ==
    down' = [down EXCEPT ![p] = IF handler[p].phase = "closing" THEN @ ELSE Append(@, frame)]
HangsUp(p) ==
    /\ handler' = [handler EXCEPT ![p] = Gone] /\ Replies(p, Frame("CLOSE"))
    /\ up' = [up EXCEPT ![p] = <<>>]
Outside == UNCHANGED <<owner, page, link, drops, clicks>>

\* _run_auth_phase, and the seats the account holds.
HoldOf(u) == IF seat[u].state = "UNBOUND" THEN None ELSE seat[u].state
ResumeTaken(p) ==
    /\ Takes(p, {"auth"}, {"RESUME"})
    /\ handler' = [handler EXCEPT ![p] = [phase |-> "lobby", attempts |-> 0]]
    /\ Replies(p, [kind |-> "AUTH_RESPONSE", hold |-> HoldOf(owner[p])])
    /\ UNCHANGED <<seats, hand>> /\ Outside
AuthRequired(p) ==
    /\ handler[p].phase = "auth" /\ up[p] # <<>> /\ Head(up[p]).kind # "RESUME"
    /\ IF handler[p].attempts + 1 = Attempts THEN HangsUp(p)
       ELSE /\ up' = [up EXCEPT ![p] = Tail(@)]
            /\ handler' = [handler EXCEPT ![p].attempts = @ + 1] /\ UNCHANGED down
    /\ UNCHANGED <<seats, hand>> /\ Outside

ListTaken(p) ==
    /\ Takes(p, {"lobby"}, {"LIST_TABLES"})
    /\ Replies(p, [kind |-> "TABLE_LIST", occupied |-> AllOccupied])
    /\ UNCHANGED served /\ Outside

\* In the lobby as at the table.
ProfileTaken(p) ==
    /\ Takes(p, {"lobby"} \cup Attached, {"GET_PROFILE"}) /\ Replies(p, Frame("PROFILE"))
    /\ UNCHANGED served /\ Outside

(***************************************************************************)
(* ATTACH: a seat given up during a match is refused and the connection    *)
(* ends; a seat nobody has, or that is kept, is taken at once.             *)
(***************************************************************************)
AttachRefused(p) ==
    /\ handler[p].phase = "lobby" /\ up[p] # <<>> /\ Head(up[p]).kind = "ATTACH"
    /\ seat[owner[p]].state = "UNBOUND" /\ InProgress
    /\ HangsUp(p) /\ UNCHANGED <<seats, hand>> /\ Outside
AttachTaken(p) ==
    /\ Takes(p, {"lobby"}, {"ATTACH"})
    /\ seat[owner[p]].state # "LIVE" /\ ~(seat[owner[p]].state = "UNBOUND" /\ InProgress)
    /\ seat' = [seat EXCEPT ![owner[p]] = [state |-> "LIVE", conn |-> p]]
    /\ handler' = [handler EXCEPT ![p].phase = "table"]
    /\ Replies(p, Frame("ATTACHED"))
    /\ UNCHANGED <<ghosts, misled, hand>> /\ Outside

(***************************************************************************)
(* A LIVE seat is taken over: its socket is told to close, and when that   *)
(* is done or has taken too long the new one is put in its place, whatever *)
(* has become of the seat: it may be HELD by then, released, or another    *)
(* socket's.  Only the socket that was told to close knows of it.          *)
(***************************************************************************)
TakeOver(p) ==
    LET old == {q \in Pages : seat[owner[p]].conn = q}
    IN  /\ Takes(p, {"lobby"}, {"ATTACH"}) /\ seat[owner[p]].state = "LIVE"
        /\ down' = [q \in Pages |-> IF q \in old /\ handler[q].phase = "table"
                                    THEN Append(down[q], Frame("CLOSE")) ELSE down[q]]
        /\ handler' = [q \in Pages |->
                          IF q = p THEN [handler[p] EXCEPT !.phase = "taking"]
                          ELSE IF q \in old THEN [handler[q] EXCEPT !.phase = "closing"]
                          ELSE handler[q]]
        /\ UNCHANGED <<seats, hand>> /\ Outside
\* The page that is put out of the seat by new, and is not told.
Ousted(u, new) == {q \in Pages \ {new} : seat[u].conn = q /\ handler[q].phase = "table"}
Install(p) ==
    LET u == owner[p]
    IN  /\ handler[p].phase = "taking" /\ handler' = [handler EXCEPT ![p].phase = "table"]
        /\ seat' = [seat EXCEPT ![u].conn = p] /\ Replies(p, Frame("ATTACHED"))
        /\ misled' = misled \cup Ousted(u, p) \cup (IF seat[u].state = "LIVE" THEN {} ELSE {p})
        /\ UNCHANGED <<up, ghosts, hand>> /\ Outside
\* The new socket died in the meantime.
GhostInstalled(u) ==
    /\ ghosts[u] > 0 /\ ghosts' = [ghosts EXCEPT ![u] = @ - 1]
    /\ seat' = [seat EXCEPT ![u].conn = "stale"] /\ misled' = misled \cup Ousted(u, "stale")
    /\ UNCHANGED <<up, down, handler, hand>> /\ Outside

\* A frame of the table in the lobby: unexpected_kind.
Unexpected(p) ==
    /\ handler[p].phase = "lobby" /\ up[p] # <<>> /\ Head(up[p]).kind \in {"START_HAND", "DETACH"}
    /\ HangsUp(p) /\ UNCHANGED <<seats, hand>> /\ Outside

\* EVENT or ATTACHED to every connection that has a seat.
ToSeats(frame) ==
    down' = [p \in Pages |-> IF AtTable(p) /\ handler[p].phase = "table" THEN Append(down[p], frame)
                             ELSE down[p]]
StartHand(p) ==
    /\ Takes(p, Attached, {"START_HAND"})
    /\ IF hand = "none" /\ AllLive
       THEN hand' = "first" /\ ToSeats(Frame("EVENT"))
       ELSE /\ IF hand = "none" THEN Replies(p, Frame("ERROR")) ELSE UNCHANGED down
            /\ UNCHANGED hand
    /\ UNCHANGED <<handler, seats>> /\ Outside
\* DETACH releases the seat of the connection, if it has one; the handler is back in
\* the lobby, or ends with its socket.
DetachTaken(p) ==
    /\ Takes(p, Attached, {"DETACH"})
    /\ seat' = IF seat[owner[p]].conn = p THEN [seat EXCEPT ![owner[p]] = Free] ELSE seat
    /\ handler' = [handler EXCEPT ![p] =
                      IF @.phase = "table" THEN [@ EXCEPT !.phase = "lobby"] ELSE Gone]
    /\ misled' = misled \ {p}
    /\ UNCHANGED <<down, ghosts, hand>> /\ Outside
\* A table knows no LIST_TABLES and no second ATTACH: unknown_kind, which the page ignores.
UnknownKind(p) ==
    /\ Takes(p, Attached, {"LIST_TABLES", "ATTACH"})
    /\ UNCHANGED <<down, served>> /\ Outside

\* The hand loop: the next hand attaches every LIVE seat anew; the match ends.
NextHand ==
    /\ InProgress
    /\ IF hand = "first" THEN hand' = "second" /\ ToSeats(Frame("ATTACHED"))
       ELSE hand' = "over" /\ UNCHANGED down
    /\ UNCHANGED <<up, handler, seats>> /\ Outside

\* The server notices a dead socket; later the seat's hold expires.
Noticed(u) ==
    /\ seat[u] = [state |-> "LIVE", conn |-> "stale"]
    /\ seat' = [seat EXCEPT ![u] = [state |-> "HELD", conn |-> None]]
    /\ UNCHANGED <<up, down, handler, ghosts, misled, hand>> /\ Outside
HoldExpires(u) ==
    /\ seat[u].state = "HELD" /\ seat' = [seat EXCEPT ![u] = Free]
    /\ UNCHANGED <<up, down, handler, ghosts, misled, hand>> /\ Outside

PageReads(p) ==
    \/ OnHello(p) \/ OnAuthResponse(p) \/ OnAttached(p) \/ OnEvent(p) \/ OnNotReady(p)
    \/ OnTableList(p) \/ OnProfile(p) \/ OnClose(p)
ServerReads(p) ==
    \/ ResumeTaken(p) \/ AuthRequired(p) \/ ListTaken(p) \/ ProfileTaken(p)
    \/ AttachRefused(p) \/ AttachTaken(p) \/ TakeOver(p)
    \/ Unexpected(p) \/ StartHand(p) \/ DetachTaken(p) \/ UnknownKind(p)
RejoinNext ==
    \/ \E p \in Pages :
        \/ Connect(p) \/ PageReads(p) \/ ServerReads(p) \/ Install(p) \/ PollFires(p)
        \/ Drops(p) \/ JoinClicked(p) \/ LeaveClicked(p) \/ ProfileClicked(p) \/ ProfileClosed(p)
    \/ \E u \in Users : GhostInstalled(u) \/ Noticed(u) \/ HoldExpires(u)
    \/ NextHand

\* What is in flight arrives, or its socket dies; a close ends; timers fire.
RejoinFairness ==
    /\ \A p \in Pages :
        /\ WF_vars(Connect(p)) /\ WF_vars(PageReads(p)) /\ WF_vars(ServerReads(p))
        /\ WF_vars(Install(p))
    /\ \A u \in Users : WF_vars(Noticed(u))
RejoinSpec == Init /\ [][RejoinNext]_vars /\ RejoinFairness

-----------------------------------------------------------------------------
(***************************************************************************)
(* A page comes to know whether it has its seat, whatever was clicked,     *)
(* closed or lost: none sits at a table it was put out of, and none takes  *)
(* itself for unattached while it plays (it may show the lobby then, where *)
(* the profile leads back to).  The one exception is a page a takeover     *)
(* misled, over a seat that changed hands during its wait.                 *)
(***************************************************************************)
Knows(p) ==
    /\ page[p].attached = AtTable(p)
    /\ page[p].view = "table" => page[p].attached
PageSettles == \A p \in Pages : <>[](p \in misled \/ Knows(p))

(***************************************************************************)
(* Once every human seat is LIVE the first hand starts, unless one of them *)
(* drops out again: some START_HAND comes when they all are.               *)
(***************************************************************************)
HandStarts == AllLive ~> (hand # "none" \/ ~AllLive)
=============================================================================
