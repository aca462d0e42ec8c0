------------------------------ MODULE MCUpsite ------------------------------
(***************************************************************************)
(* Small instances of the broker for TLC.                                   *)
(***************************************************************************)
EXTENDS Upsite, TLC
=============================================================================
