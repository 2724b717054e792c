--------------------------- MODULE Relinquishment ---------------------------
(***************************************************************************)
(* What an installed agent promises the rest of the system, whatever       *)
(* happens to its process (docs/enrollment.md, "What the agent does"):     *)
(*   - the machine is locked only under an enrollment it has not released; *)
(*   - an enrollment is acknowledged only once it is released;             *)
(*   - a release is final: only a fresh enrollment makes it managed again. *)
(***************************************************************************)
CONSTANTS Identity, NoIdentity

VARIABLES holder,   \* the enrollment the agent answers for, or NoIdentity
          released, \* it has been released
          acked,    \* enrollments acknowledged to the server
          used,     \* enrollments ever taken up
          locked    \* the machine's screen is locked

vars == <<holder, released, acked, used, locked>>

Init ==
  /\ holder = NoIdentity
  /\ released = FALSE
  /\ acked = {} /\ used = {}
  /\ locked = FALSE

(* The agent takes up a fresh enrollment, or fails to and wastes it.       *)
TakeUp(i) ==
  /\ i \notin used
  /\ used' = used \cup {i}
  /\ \/ holder' = i /\ released' = FALSE
     \/ UNCHANGED <<holder, released>>
  /\ UNCHANGED <<acked, locked>>

Release ==
  /\ holder # NoIdentity /\ ~released
  /\ released' = TRUE
  /\ UNCHANGED <<holder, acked, used, locked>>

Acknowledge ==
  /\ holder # NoIdentity /\ released
  /\ acked' = acked \cup {holder}
  /\ UNCHANGED <<holder, released, used, locked>>

Lock ==
  /\ holder # NoIdentity /\ ~released
  /\ locked' = TRUE
  /\ UNCHANGED <<holder, released, acked, used>>

Unlock ==
  /\ locked' = FALSE
  /\ UNCHANGED <<holder, released, acked, used>>

(* The state file is lost: the agent answers for nothing, locks nothing.   *)
Forget ==
  /\ holder' = NoIdentity
  /\ released' = FALSE
  /\ UNCHANGED <<acked, used, locked>>

(* A process that was killed as it locked leaves the machine locked.       *)
LockAndForget ==
  /\ holder # NoIdentity /\ ~released
  /\ locked' = TRUE
  /\ holder' = NoIdentity
  /\ UNCHANGED <<released, acked, used>>

Next ==
  \/ \E i \in Identity : TakeUp(i)
  \/ Release \/ Acknowledge \/ Lock \/ Unlock \/ Forget \/ LockAndForget

Spec == Init /\ [][Next]_vars
=============================================================================
