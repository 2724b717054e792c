------------------------------ MODULE Handoff ------------------------------
(***************************************************************************)
(* The lifecycle docs/enrollment.md promises for a machine and the agent   *)
(* that holds its credential:                                              *)
(*   managed -- remove requested --> pending -- agent ack --> removed,     *)
(* and a direct removal only of a machine whose credential is unusable.    *)
(***************************************************************************)
VARIABLES row,      \* the machine: "managed", "pending" or "removed"
          usable,   \* its credential authenticates the agent
          released  \* the agent has durably given the machine up

vars == <<row, usable, released>>

Init == row = "managed" /\ usable = TRUE /\ released = FALSE

Request ==
  /\ row = "managed" /\ row' = "pending"
  /\ UNCHANGED <<usable, released>>

(* The agent gives up only a machine whose removal was requested.          *)
Release ==
  /\ row # "managed" /\ ~released
  /\ released' = TRUE
  /\ UNCHANGED <<row, usable>>

(* A pending machine goes once its agent has released it.                  *)
Finalize ==
  /\ row = "pending" /\ released
  /\ row' = "removed"
  /\ UNCHANGED <<usable, released>>

Revoke ==
  /\ row # "removed" /\ usable
  /\ usable' = FALSE
  /\ UNCHANGED <<row, released>>

RemoveDirectly ==
  /\ row # "removed" /\ ~usable
  /\ row' = "removed"
  /\ UNCHANGED <<usable, released>>

Next == Request \/ Release \/ Finalize \/ Revoke \/ RemoveDirectly

Spec == Init /\ [][Next]_vars
=============================================================================
