------------------------------ MODULE AgentMC ------------------------------
(***************************************************************************)
(* Instances of Agent for TLC.  One unit of time is at least the two       *)
(* seconds between ticks.                                                  *)
(***************************************************************************)
EXTENDS Agent

(* The agent at its best: messages arrive without delay and, while it      *)
(* runs, neither time nor the OS clock moves before a tick has taken       *)
(* their last reading.                                                     *)
Punctual ==
  /\ Receives /\ Running' => mem'.lastAppliedAt \in {mem.lastAppliedAt, real}
  /\ Running /\ ~relinquished /\ <<real, os>>' # <<real, os>> =>
       guard.anchor = real /\ guard.hwm >= os

PunctualSpec == Init /\ [][Next /\ Punctual]_vars

(* The guarantee of docs/offline-expiry.md: setting the OS clock back, with *)
(* the agent running or not, cannot extend a session (beyond the interval  *)
(* of one tick, which the document allows for).                            *)
RollbackCannotExtend ==
  [][Tick /\ Running' /\ ~blocked' => real <= mem'.session.expiresAt]_vars
=============================================================================
