---------------------------- MODULE MCTableHand ----------------------------
(***************************************************************************)
(* The hands of MCHand, played through the table manager; one wall.        *)
(***************************************************************************)
EXTENDS TableHand, MCHand

OneDeck == {CHOOSE d \in MCDecks : d[1] # H}
=============================================================================
