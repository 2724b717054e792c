------------------------------ MODULE UsageMC ------------------------------
(***************************************************************************)
(* Instances of Usage for TLC.                                             *)
(***************************************************************************)
EXTENDS Usage, TLC

(* A report changes nothing: once one has been looked at, what follows is  *)
(* what follows without it.                                                *)
NotDone == ~Done

Symmetry == Permutations(SessionId) \cup Permutations(Caller)
=============================================================================
