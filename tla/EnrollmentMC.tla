---------------------------- MODULE EnrollmentMC ----------------------------
(***************************************************************************)
(* Instances of Enrollment for TLC.                                        *)
(***************************************************************************)
EXTENDS Enrollment, TLC

Symmetry == Permutations(Token) \cup Permutations(Attempt)
              \cup Permutations(Operator)
=============================================================================
