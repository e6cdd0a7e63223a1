------------------------------- MODULE MCLobby -------------------------------
(***************************************************************************)
(* Auth and Lobby for TLC, each over the states it is about: two           *)
(* connections at the door, before anyone is in; and two connections in    *)
(* the house, the admin and another tab of hers or a player.               *)
(***************************************************************************)
EXTENDS Lobby

CONSTANTS ann, bob, Bob, host, other

VARIABLE scene
vars == <<scene, authVars, lobbyVars>>

MCLower == (ann :> ann) @@ (bob :> bob) @@ (Bob :> bob)

Session(a) == [account |-> a, expires |-> Lifetime, stored |-> TRUE]

\* The admin's second tab, and a player.
Visitors == {[account |-> 1, role |-> "admin"], [account |-> 2, role |-> "user"]}

AtTheDoor == scene = "door" /\ AuthInit
InTheHouse ==
    /\ scene = "house"
    /\ phase = [c \in Clients |-> "lobby"] /\ attempts = [c \in Clients |-> 0]
    /\ \E visitor \in Visitors :
        identity = [c \in Clients |-> IF c = host THEN [account |-> 1, role |-> "admin"] ELSE visitor]
    /\ call = [c \in Clients |-> None] /\ barred = [c \in Clients |-> {}]
    /\ accounts = <<Account(ann, "admin", "operator"), Account(bob, "user", "operator")>>
    /\ sessions = <<Session(1), Session(2)>> /\ draft = None /\ invites = [k \in {} |-> None]
    /\ now = 0 /\ failures = <<>> /\ registers = <<>> /\ ops = 0

Init == (AtTheDoor \/ InTheHouse) /\ LobbyInit

DoorNext == scene = "door" /\ Door /\ UNCHANGED scene
HouseNext == scene = "house" /\ House /\ UNCHANGED scene
Next == DoorNext \/ HouseNext

Spec == Init /\ [][Next]_vars
=============================================================================
