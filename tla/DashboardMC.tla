---------------------------- MODULE DashboardMC ----------------------------
(***************************************************************************)
(* Instances of Dashboard for TLC.                                         *)
(***************************************************************************)
EXTENDS Dashboard, FiniteSets, TLC

CONSTANTS MaxUnderWay  \* bound of what is on its way at once

(* A dashboard that has been misled stays so, and nothing is asked of it.  *)
Bounded ==
  /\ ~misled
  /\ Cardinality(unpublished) + Len(pushes) + Cardinality(answers)
       + Cardinality({k \in Kind : read[k] # NoRead}) <= MaxUnderWay

Symmetry == Permutations(Machine)
=============================================================================
