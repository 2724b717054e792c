----------------------------- MODULE HostingMC -----------------------------
(***************************************************************************)
(* Instances of Hosting for TLC.                                           *)
(***************************************************************************)
EXTENDS Hosting
=============================================================================
