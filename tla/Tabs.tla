-------------------------------- MODULE Tabs --------------------------------
(***************************************************************************)
(* The browser pages, those of the control panel and those of the game.    *)
(***************************************************************************)
CONSTANT Pages
=============================================================================
