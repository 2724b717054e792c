----------------------------- MODULE NotifierMC -----------------------------
(***************************************************************************)
(* Instance of Notifier for TLC: what the loop may have sent ahead of the  *)
(* thread is bounded.                                                      *)
(***************************************************************************)
EXTENDS Notifier, TLC

CONSTANT MaxSent

SentBound == Len(queue) <= MaxSent

Names == Permutations(WarningName)
=============================================================================
