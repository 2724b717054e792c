----------------------------- MODULE SessionsMC -----------------------------
(***************************************************************************)
(* Instances of Sessions for TLC.                                          *)
(***************************************************************************)
EXTENDS Sessions
=============================================================================
