---------------------------- MODULE SessionRules ----------------------------
(***************************************************************************)
(* The agent's pure session rules (agent/src/session.rs) and its           *)
(* anti-rollback clock (agent/src/storage.rs, ClockGuard): no I/O and no   *)
(* state, only what one call computes from its arguments.  Instants are    *)
(* natural numbers; the instances choose what one unit stands for.         *)
(***************************************************************************)
EXTENDS Naturals

CONSTANTS SessionId,    \* ids of session rows
          NoSession     \* Option::None of a session

Status == {"ACTIVE", "EXPIRED", "ENDED"}

(* A SessionSnapshot; startedAt is carried but never read by the agent.    *)
Session == [id : SessionId, expiresAt : Nat, status : Status, updatedAt : Nat]

ASSUME NoSessionAssumption == NoSession \notin Session

-----------------------------------------------------------------------------
(* apply_server_message: only a strictly newer message replaces the state. *)
(* (IsNewerOrSame is the slip the checks must catch.)                      *)
IsNewerOrSame(messageTime, lastAppliedAt) == messageTime >= lastAppliedAt

IsNewer(messageTime, lastAppliedAt) == messageTime > lastAppliedAt

(* message_time of handle_message: the row's updatedAt, or serverTime when *)
(* the server reports no session.                                          *)
MessageTime(session, serverTime) ==
  IF session = NoSession THEN serverTime ELSE session.updatedAt

-----------------------------------------------------------------------------
(* advance: the local ACTIVE -> EXPIRED transition, and what the platform  *)
(* must guarantee afterwards.                                              *)

IsActive(session) == session # NoSession /\ session.status = "ACTIVE"

Advance(session, now) ==
  IF IsActive(session) /\ now >= session.expiresAt
    THEN [session EXCEPT !.status = "EXPIRED"]
    ELSE session

Allowed(session, now) == IsActive(session) /\ now < session.expiresAt

-----------------------------------------------------------------------------
(* ClockGuard: hwm is the greatest instant trusted so far and anchor the   *)
(* reading of the monotonic clock when it was set.                         *)

Guard == [hwm : Nat, anchor : Nat]

NewGuard(hwm, mono) == [hwm |-> hwm, anchor |-> mono]

(* Slips of the guard: trusting any reading, never reading at all.         *)
TrustOsClock(guard, os, mono) == os

TrustOldMark(guard, os, mono) == guard.hwm

TrustedNow(guard, os, mono) ==
  IF os >= guard.hwm THEN os ELSE guard.hwm + (mono - guard.anchor)

Resync(guard, serverTime, mono) ==
  IF serverTime > guard.hwm THEN NewGuard(serverTime, mono) ELSE guard
=============================================================================
