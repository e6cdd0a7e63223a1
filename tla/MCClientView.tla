---------------------------- MODULE MCClientView ----------------------------
(* The hands of MCTableHand and one viewer. *)
EXTENDS ClientView, MCTableHand
=============================================================================
