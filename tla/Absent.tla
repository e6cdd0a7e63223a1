-------------------------------- MODULE Absent --------------------------------
(***************************************************************************)
(* None, in the modules that MCBeside brings together.                     *)
(***************************************************************************)
CONSTANT None   \* no seat, no record, no STATUS, no result
=============================================================================
