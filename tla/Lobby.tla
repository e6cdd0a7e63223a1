-------------------------------- MODULE Lobby --------------------------------
(***************************************************************************)
(* What a connection can do once it is in: open, close, join and watch     *)
(* tables; and how the registry closes tables, one by one for an admin or  *)
(* all of them at the end of the server. A table has one human seat, whose *)
(* session is reduced to who holds it and through which connection (the    *)
(* session itself is SeatSession). The lobby's reports (LIST_TABLES,       *)
(* GET_PROFILE, GET_HISTORY, GET_REPLAY, FEEDBACK) change nothing here.    *)
(***************************************************************************)
EXTENDS Auth

CONSTANTS
    Server,
    MaxSpectators,  \* MAHJONG_MAX_SPECTATORS_PER_TABLE
    MaxTables       \* bound: tables created

Tables == 1 .. MaxTables
Closers == Clients \cup {Server}
Awaits == [table : Tables, stage : {"hand", "seat", "watchers"}] \* what a close_table call is at

ASSUME LobbyAssumption == Server \notin Clients /\ Server # None /\ MaxTables \in Nat /\ None \notin Awaits

VARIABLES
    place,     \* the table a connection sits at, watches or is closing
    server,    \* "serving", "draining", "closing", "down"
    toClose,   \* tables the end of the server has yet to close
    accepting, \* _accepting_new
    next,      \* _next_id
    listed,    \* the keys of _tables
    seat,      \* of a table: who holds the human seat, and through which connection
    watchers,  \* its spectators
    hand,      \* its hand task: "none", "running", "done"
    player,    \* _human_identities of the seat
    closing,   \* what a close_table call awaits: its table and stage
    told,      \* connections that were told DETACH where they are (observed)
    late       \* connections that came to a table while it was being closed (observed)

rooms == <<listed, next, seat, watchers, hand, player>>
lobbyVars == <<place, server, toClose, accepting, rooms, closing, told, late>>

NoOne == [user |-> None, sink |-> None]
User(c) == identity[c].account

LobbyInit ==
    /\ place = [c \in Clients |-> None] /\ server = "serving" /\ toClose = {} /\ accepting = TRUE
    /\ next = 1 /\ listed = {}
    /\ seat = [t \in Tables |-> NoOne] /\ watchers = [t \in Tables |-> {}]
    /\ hand = [t \in Tables |-> "none"] /\ player = [t \in Tables |-> None]
    /\ closing = [a \in Closers |-> None] /\ told = {} /\ late = {}

Go(c, where, t) ==
    /\ phase' = [phase EXCEPT ![c] = where]
    /\ place' = [place EXCEPT ![c] = t]

-----------------------------------------------------------------------------
(* From the lobby.                                                         *)

\* A number is used up even where the table's directory cannot be made.
CreateTableDirect(made) ==
    /\ accepting /\ next \in Tables /\ next' = next + 1
    /\ listed' = IF made THEN listed \cup {next} ELSE listed
\* Refused (draining, a malformed request) or failed, the connection stays in the lobby.
CreateTable(c) ==
    /\ phase[c] = "lobby" /\ \E made \in BOOLEAN : CreateTableDirect(made)
    /\ UNCHANGED <<phase, place, server, toClose, accepting, seat, watchers, hand, player, closing, told, late>>

\* Thirty seconds without a frame, a frame that belongs elsewhere, or the client leaves.
LeaveLobby(c) ==
    /\ phase[c] = "lobby" /\ Go(c, "gone", None)
    /\ UNCHANGED <<server, toClose, accepting, rooms, closing, told, late>>

BeingClosed(t) == \E a \in Closers : closing[a] # None /\ closing[a].table = t

\* A connection arrives at a table.
Arrives(c, where, t) ==
    /\ Go(c, where, t)
    /\ late' = IF BeingClosed(t) THEN late \cup {c} ELSE late \ {c}

\* Mutant: a player who lost their seat, or was never there, gets into a running hand.
AttachRefusedByHolderOnly(t, user) == seat[t].user \notin {None, user}

\* hand_in_progress, seat_occupied, seat_not_yours.
AttachRefused(t, user) ==
    IF seat[t].user = None THEN hand[t] = "running" ELSE seat[t].user # user

\* _handle_attach: an unknown table and a refused seat end the connection; the
\* holder's own old connection is told that it is replaced.
Attach(c, t) ==
    /\ phase[c] = "lobby"
    /\ \/ /\ t \notin listed \/ AttachRefused(t, User(c))
          /\ Go(c, "gone", None) /\ UNCHANGED <<seat, player, told, late>>
       \/ /\ t \in listed /\ ~AttachRefused(t, User(c))
          /\ Arrives(c, "table", t)
          /\ seat' = [seat EXCEPT ![t] = [user |-> User(c), sink |-> c]]
          /\ player' = [player EXCEPT ![t] = User(c)]
          /\ told' = (told \cup ({seat[t].sink} \ {None})) \ {c}
    /\ UNCHANGED <<server, toClose, accepting, listed, next, watchers, hand, closing>>

\* spectator_limit_reached, like an unknown table, ends the connection.
Spectate(c, t) ==
    /\ phase[c] = "lobby"
    /\ \/ /\ t \notin listed \/ Cardinality(watchers[t]) >= MaxSpectators
          /\ Go(c, "gone", None) /\ UNCHANGED <<watchers, told, late>>
       \/ /\ t \in listed /\ Cardinality(watchers[t]) < MaxSpectators /\ Arrives(c, "watch", t)
          /\ watchers' = [watchers EXCEPT ![t] = @ \cup {c}] /\ told' = told \ {c}
    /\ UNCHANGED <<server, toClose, accepting, listed, next, seat, hand, player, closing>>

-----------------------------------------------------------------------------
(* At a table.                                                             *)

\* A connection leaves its table.
Departs(c, where) == Go(c, where, None) /\ told' = told \ {c} /\ late' = late \ {c}

\* Leaving as a seat, and as a spectator; whichever the connection is not is empty.
Detached(c, t) == seat' = IF seat[t].sink = c THEN [seat EXCEPT ![t] = NoOne] ELSE seat
Unsubscribed(c, t) == watchers' = [watchers EXCEPT ![t] = @ \ {c}]

\* Mutant: either of the leaving frames ends the inbound loop.
LeaveByEither(c) ==
    /\ phase[c] \in {"table", "watch"}
    /\ Departs(c, "lobby")
    /\ \/ Detached(c, place[c]) /\ UNCHANGED watchers
       \/ Unsubscribed(c, place[c]) /\ UNCHANGED seat
    /\ UNCHANGED <<server, toClose, accepting, listed, next, hand, player, closing>>

\* The leaving frame of its kind takes the connection back to the lobby, whether
\* it still held anything there or not; the other kind finds nothing to leave.
Leave(c) ==
    /\ Departs(c, "lobby")
    /\ \/ phase[c] = "table" /\ Detached(c, place[c]) /\ UNCHANGED watchers
       \/ phase[c] = "watch" /\ Unsubscribed(c, place[c]) /\ UNCHANGED seat
    /\ UNCHANGED <<server, toClose, accepting, listed, next, hand, player, closing>>

\* The socket closes, from either end: a seat is held for its player.
SocketDropped(c) ==
    /\ phase[c] \in {"table", "watch"} /\ Departs(c, "gone")
    /\ Unsubscribed(c, place[c])
    /\ seat' = IF seat[place[c]].sink = c THEN [seat EXCEPT ![place[c]].sink = None] ELSE seat
    /\ UNCHANGED <<server, toClose, accepting, listed, next, hand, player, closing>>

StartHand(c) ==
    /\ phase[c] = "table" /\ seat[place[c]].sink = c /\ hand[place[c]] = "none"
    /\ hand' = [hand EXCEPT ![place[c]] = "running"]
    /\ UNCHANGED <<phase, place, server, toClose, accepting, listed, next, seat, watchers, player, closing, told, late>>

HandEnds(t) ==
    /\ hand[t] = "running" /\ hand' = [hand EXCEPT ![t] = "done"]
    /\ UNCHANGED <<phase, place, server, toClose, accepting, listed, next, seat, watchers, player, closing, told, late>>

HoldExpires(t) ==
    /\ seat[t].user # None /\ seat[t].sink = None /\ seat' = [seat EXCEPT ![t] = NoOne]
    /\ UNCHANGED <<phase, place, server, toClose, accepting, listed, next, watchers, hand, player, closing, told, late>>

-----------------------------------------------------------------------------
(* close_table. It awaits the hand it cancels, the seat's session when it  *)
(* is LIVE, and the spectators when there are any; nothing in between.     *)

\* The first await after `stage` that has something to wait for.
AwaitAfter(t, stage) ==
    IF stage = "start" /\ hand[t] = "running" THEN "hand"
    ELSE IF stage \in {"start", "hand"} /\ seat[t].sink # None THEN "seat"
    ELSE IF stage # "watchers" /\ watchers[t] # {} THEN "watchers" ELSE "delete"

\* Mutant: the spectators are forgotten without a DETACH.
GuestsSeatOnly(t, stage) == IF stage = "seat" THEN {seat[t].sink} ELSE {}

\* Those who are told DETACH in a stage are found at its beginning.
Guests(t, stage) ==
    CASE stage = "seat" -> {seat[t].sink}
      [] stage = "watchers" -> watchers[t]
      [] OTHER -> {}

\* From one await to the next, with what lies in between: the seat, LIVE or
\* HELD, is released, the list of spectators cleared, and at last the table
\* deleted. The second of two closes raises KeyError there, and goes on.
CloseFrom(a, t, stage) ==
    LET await == AwaitAfter(t, stage)
    IN /\ told' = told \cup Guests(t, await)
       /\ seat' = IF await \in {"watchers", "delete"} /\ stage # "watchers" THEN [seat EXCEPT ![t] = NoOne] ELSE seat
       /\ watchers' = IF await = "delete" THEN [watchers EXCEPT ![t] = {}] ELSE watchers
       /\ IF await # "delete"
          THEN /\ closing' = [closing EXCEPT ![a] = [table |-> t, stage |-> await]]
               /\ IF a = Server THEN UNCHANGED <<phase, place>> ELSE Go(a, "closing", t)
               /\ UNCHANGED listed
          ELSE /\ closing' = [closing EXCEPT ![a] = None]
               /\ IF a = Server THEN UNCHANGED <<phase, place>> ELSE Go(a, "lobby", None)
               /\ listed' = listed \ {t}
       /\ UNCHANGED <<next, hand, player, late>>

IsAdmin(c) == identity[c].role = "admin"
CloseTable(c, t) ==
    /\ phase[c] = "lobby" /\ IsAdmin(c) /\ t \in listed
    /\ CloseFrom(c, t, "start")
    /\ UNCHANGED <<server, toClose, accepting>>

\* The cancelled hand ends, and its adapter leaves the seat.
HandCancelled(a) ==
    /\ closing[a] # None /\ closing[a].stage = "hand"
    /\ LET t == closing[a].table
       IN /\ hand[t] = "running" /\ hand' = [hand EXCEPT ![t] = "done"]
          /\ told' = told \cup ({seat[t].sink} \ {None}) /\ seat' = [seat EXCEPT ![t] = NoOne]
    /\ UNCHANGED <<phase, place, server, toClose, accepting, listed, next, watchers, player, closing, late>>

CloseGoesOn(a) ==
    /\ closing[a] # None /\ (closing[a].stage = "hand" => hand[closing[a].table] # "running")
    /\ CloseFrom(a, closing[a].table, closing[a].stage)
    /\ UNCHANGED <<server, toClose, accepting>>

-----------------------------------------------------------------------------
(* The end of the server.                                                  *)

DrainAll ==
    /\ server = "serving" /\ server' = "draining" /\ accepting' = FALSE
    /\ UNCHANGED <<phase, place, toClose, rooms, closing, told, late>>

\* The hands have ended, or the drain has waited long enough.
TablesDrained ==
    /\ server = "draining" /\ server' = "closing" /\ toClose' = listed
    /\ UNCHANGED <<phase, place, accepting, rooms, closing, told, late>>

\* MultiTableOrchestrator.close walks a copy of the table ids.
CloseNext ==
    /\ server = "closing" /\ closing[Server] = None
    /\ \E t \in toClose :
        /\ \A u \in toClose : t <= u
        /\ toClose' = toClose \ {t}
        /\ IF t \in listed THEN CloseFrom(Server, t, "start")
           ELSE UNCHANGED <<phase, place, rooms, closing, told, late>>
    /\ UNCHANGED <<server, accepting>>

\* The listener closes every connection.
ServerDown ==
    /\ server = "closing" /\ toClose = {} /\ closing[Server] = None
    /\ server' = "down"
    /\ UNCHANGED <<phase, place, toClose, accepting, rooms, closing, told, late>>

-----------------------------------------------------------------------------
ConnectionNext(c) ==
    \/ CreateTable(c) \/ LeaveLobby(c) \/ Leave(c) \/ SocketDropped(c) \/ StartHand(c)
    \/ \E t \in Tables : Attach(c, t) \/ Spectate(c, t) \/ CloseTable(c, t)

ServerNext == DrainAll \/ TablesDrained \/ CloseNext \/ ServerDown

LobbyNext ==
    \/ server # "down" /\ \E c \in Clients : ConnectionNext(c)
    \/ \E t \in Tables : HandEnds(t) \/ HoldExpires(t)
    \/ \E a \in Closers : HandCancelled(a) \/ CloseGoesOn(a)
    \/ ServerNext

\* The whole: connections come in by the door and go about the house.
Door == server # "down" /\ AuthNext /\ UNCHANGED lobbyVars
House == LobbyNext /\ UNCHANGED <<attempts, identity, call, store, clocks, barred>>

HouseSpec == AuthInit /\ LobbyInit /\ [][Door \/ House]_<<authVars, lobbyVars>>

-----------------------------------------------------------------------------
\* A connection is bound to at most one seat or watches at most one table, and
\* its handler is in the inbound loop of that table: a connection that went back
\* to the lobby, or away, is bound to nothing (the phases of _handler against the
\* tables' own books).
BoundWhereItIs ==
    \A c \in Clients, t \in Tables :
        /\ seat[t].sink = c => phase[c] = "table" /\ place[c] = t
        /\ c \in watchers[t] => phase[c] = "watch" /\ place[c] = t

\* A hand keeps the player it was dealt to: while it runs nobody else takes the
\* seat, not even after it was given up (the refusal of late joiners).
HandKeepsItsPlayer ==
    [][\A t \in Tables : (hand[t] = "running" /\ hand'[t] = "running") => player'[t] = player[t]]_lobbyVars

\* Whoever is at a table when it leaves the registry was told so, or came to it
\* while it was being closed (close_table).
LeftBehindCameLate ==
    \A c \in Clients :
        (phase[c] \in {"table", "watch"} /\ place[c] \notin listed) => c \in told \cup late
=============================================================================
