----------------------------- MODULE RemovalMC -----------------------------
(***************************************************************************)
(* Instances of Removal for TLC.                                           *)
(***************************************************************************)
EXTENDS Removal
=============================================================================
