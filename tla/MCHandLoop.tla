----------------------------- MODULE MCHandLoop -----------------------------
(***************************************************************************)
(* Tables whose players may do anything, and tables where nobody leaves by *)
(* DETACH at the gate, which can stall it (LoopDetachStall).               *)
(***************************************************************************)
EXTENDS HandLoop

VARIABLE anyoneLeaves

MCInit == Init /\ anyoneLeaves \in BOOLEAN
MCSpec ==
    /\ MCInit
    /\ [][/\ Next /\ UNCHANGED anyoneLeaves
          /\ InGate /\ ~anyoneLeaves => ~\E s \in Seats : Detach(s)]_<<vars, anyoneLeaves>>
    /\ Fairness

\* Where nobody leaves the gate by DETACH no wake-up is lost: once every seat that still
\* holds the gate is ready, the loop leaves it.
GateAdvancesIfAllStay == (~anyoneLeaves /\ InGate /\ AllGatedReady) ~> ~InGate
=============================================================================
