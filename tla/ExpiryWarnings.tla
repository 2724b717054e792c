--------------------------- MODULE ExpiryWarnings ---------------------------
(***************************************************************************)
(* Which expiry warning one tick raises (agent/src/warning.rs).  The       *)
(* decision is pure: reconcile folds the session and the trusted time of   *)
(* the tick into the warning state and yields what the notifier must do.   *)
(* The wording and the urgency of a notification are left out.             *)
(***************************************************************************)
EXTENDS SessionRules, Integers

CONSTANTS TenMinutes, FiveMinutes, OneMinute, FinalSeconds, \* thresholds
          ContinuityGap,   \* a longer gap means the agent was away
          PerSecond,       \* units of time in a second
          NoDeadline       \* nothing to warn about

Deadline == [id : SessionId, expiresAt : Nat]

ASSUME ThresholdAssumption ==
  /\ {TenMinutes, FiveMinutes, OneMinute, FinalSeconds, ContinuityGap} \subseteq Nat
  /\ FinalSeconds <= OneMinute /\ OneMinute <= FiveMinutes
  /\ FiveMinutes <= TenMinutes
  /\ PerSecond \in Nat \ {0}
  /\ NoDeadline \notin Deadline

(* Levels by urgency, as the derived Ord of Level; Silent is Option::None. *)
Silent == 0
TenMinuteLevel == 1
FiveMinuteLevel == 2
OneMinuteLevel == 3
FinalLevel == 4
Level == Silent .. FinalLevel

Never == -1     \* last_seen of a deadline that was never evaluated

Warnings == [key : Deadline \cup {NoDeadline}, fired : Level,
             lastSeen : Nat \cup {Never}, finalVisible : BOOLEAN]

NoWarnings == [key |-> NoDeadline, fired |-> Silent,
               lastSeen |-> Never, finalVisible |-> FALSE]

-----------------------------------------------------------------------------
(* num_seconds: what is left over a second is cut off.  (Nobody asks by how *)
(* much an instant has been missed.)                                       *)
WholeSeconds(units) == IF units > 0 THEN units \div PerSecond ELSE 0

LevelFor(remaining) ==
  CASE remaining <= FinalSeconds -> FinalLevel
    [] remaining > FinalSeconds /\ remaining <= OneMinute -> OneMinuteLevel
    [] remaining > OneMinute /\ remaining <= FiveMinutes -> FiveMinuteLevel
    [] remaining > FiveMinutes /\ remaining <= TenMinutes -> TenMinuteLevel
    [] remaining > TenMinutes -> Silent

ArrivingLateLevel(remaining) ==
  IF remaining <= OneMinute THEN FinalLevel ELSE LevelFor(remaining)

(* Only an ACTIVE session has a deadline worth warning about.              *)
DeadlineOf(session) ==
  IF IsActive(session)
    THEN [id |-> session.id, expiresAt |-> session.expiresAt]
    ELSE NoDeadline

(* The slip of keying the lifecycle by the session, not by its deadline.   *)
KeepEveryDeadline(warnings, key) ==
  IF key = NoDeadline THEN NoWarnings ELSE [warnings EXCEPT !.key = key]

(* Keeps the state of the same deadline, starts over for another one.      *)
Rekey(warnings, key) ==
  IF key = warnings.key THEN warnings ELSE [NoWarnings EXCEPT !.key = key]

ArrivedLate(warnings, now) ==
  \/ warnings.lastSeen = Never
  \/ WholeSeconds(now - warnings.lastSeen) > ContinuityGap

(* A final warning comes down when its deadline changes, or is less than a *)
(* second away.                                                            *)
Dismisses(warnings, session, now) ==
  /\ warnings.finalVisible
  /\ \/ DeadlineOf(session) # warnings.key
     \/ WholeSeconds(warnings.key.expiresAt - now) = 0

(* The level this evaluation raises: more urgent than every one before.    *)
LevelRaised(warnings, session, now) ==
  LET key == DeadlineOf(session)
      remaining == WholeSeconds(key.expiresAt - now)
      kept == Rekey(warnings, key)
      level == IF ArrivedLate(kept, now) THEN ArrivingLateLevel(remaining)
                                         ELSE LevelFor(remaining)
  IN IF key # NoDeadline /\ remaining > 0 /\ level > kept.fired
       THEN level ELSE Silent

Reconcile(warnings, session, now) ==
  LET kept == Rekey(warnings, DeadlineOf(session))
      raised == LevelRaised(warnings, session, now)
  IN IF kept.key = NoDeadline THEN kept
     ELSE [kept EXCEPT !.lastSeen = now,
                       !.fired = IF raised = Silent THEN @ ELSE raised,
                       !.finalVisible =
                          \/ raised = FinalLevel
                          \/ @ /\ ~Dismisses(warnings, session, now)]
=============================================================================
