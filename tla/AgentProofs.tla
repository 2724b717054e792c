---------------------------- MODULE AgentProofs ----------------------------
(***************************************************************************)
(* What holds of Agent for every number of identities and session ids, all *)
(* thresholds and every bound of time, faults and clock steps.             *)
(***************************************************************************)
EXTENDS Agent, TLAPS

-----------------------------------------------------------------------------
(* What one evaluation of the warnings yields (ExpiryWarnings).            *)

(* num_seconds (warning.rs): a later reading has no more seconds to go, and *)
(* who has a whole one has not arrived.                                    *)
LEMMA WholeSecondsType ==
  ASSUME NEW units \in Int
  PROVE  WholeSeconds(units) \in Nat /\ (WholeSeconds(units) > 0 => units > 0)
BY ThresholdAssumption DEF WholeSeconds

LEMMA WholeSecondsGrow ==
  ASSUME NEW u \in Int, NEW v \in Int, u <= v
  PROVE  WholeSeconds(u) <= WholeSeconds(v)
PROOF
<1> DEFINE d == PerSecond
           p == u \div d
           q == v \div d
<1>1. d \in Nat /\ d > 0
  BY ThresholdAssumption
<1>2. CASE u <= 0
  BY <1>2, WholeSecondsType DEF WholeSeconds
<1>3. CASE u > 0
  <2>1. /\ u \in Nat /\ v \in Nat
        /\ WholeSeconds(u) = p /\ WholeSeconds(v) = q
    BY <1>3 DEF WholeSeconds
  <2> HIDE DEF d
  <2>2. p \in Nat /\ q \in Nat /\ d * p <= u /\ v < d * q + d
    BY <1>1, <2>1
  <2> HIDE DEF p, q
  <2>3. SUFFICES ASSUME p >= q + 1 PROVE FALSE
    BY <2>1, <2>2
  <2>4. p - q - 1 \in Nat
    BY <2>2, <2>3
  <2>5. d * p = d * (p - q - 1) + d * q + d
    BY <1>1, <2>2
  <2>6. d * (p - q - 1) \in Nat /\ d * q \in Nat /\ d * p \in Nat
    BY <1>1, <2>2, <2>4
  <2> QED BY <1>1, <2>1, <2>2, <2>5, <2>6
<1> QED BY <1>2, <1>3

(* Only an active session has a deadline, its own.                         *)
LEMMA DeadlineOfType ==
  ASSUME NEW s \in Session \cup {NoSession}
  PROVE  DeadlineOf(s) \in Deadline \cup {NoDeadline}
BY NoSessionAssumption DEF DeadlineOf, IsActive, Deadline, Session

(* ExpiryWarnings::new (warning.rs) is a warning state.                    *)
LEMMA NoWarningsType == NoWarnings \in Warnings
BY DEF NoWarnings, Warnings, Level, Silent, FinalLevel, Never

(* reconcile raises one of the levels of warning.rs, or none.              *)
LEMMA LevelRaisedType ==
  ASSUME NEW w \in Warnings, NEW s, NEW t \in Nat,
         DeadlineOf(s) \in Deadline \cup {NoDeadline}
  PROVE  LevelRaised(w, s, t) \in Level
PROOF
<1> DEFINE key == DeadlineOf(s)
           remaining == WholeSeconds(key.expiresAt - t)
<1>1. Silent \in Level
  BY DEF Level, Silent, FinalLevel
<1>2. CASE key = NoDeadline
  BY <1>1, <1>2 DEF LevelRaised
<1>3. CASE key # NoDeadline
  <2>1. remaining \in Nat
    BY <1>3, WholeSecondsType DEF Deadline
  <2>2. LevelFor(remaining) \in Level
    BY <2>1, ThresholdAssumption
    DEF LevelFor, Level, Silent, TenMinuteLevel, FiveMinuteLevel,
        OneMinuteLevel, FinalLevel
  <2>3. ArrivingLateLevel(remaining) \in Level
    BY <2>2 DEF ArrivingLateLevel, Level, Silent, FinalLevel
  <2> QED
    BY <1>1, <2>2, <2>3 DEF LevelRaised
<1> QED BY <1>2, <1>3

(* reconcile (warning.rs) yields a warning state again.                    *)
LEMMA ReconcileType ==
  ASSUME NEW w \in Warnings, NEW s, NEW t \in Nat,
         DeadlineOf(s) \in Deadline \cup {NoDeadline}
  PROVE  Reconcile(w, s, t) \in Warnings
PROOF
<1> DEFINE kept == Rekey(w, DeadlineOf(s))
           raised == LevelRaised(w, s, t)
<1>1. kept \in Warnings
  BY NoWarningsType DEF Rekey, Warnings
<1>2. raised \in Level
  BY LevelRaisedType
<1>3. t \in Nat \cup {Never}
  OBVIOUS
<1>4. Dismisses(w, s, t) \in BOOLEAN
  BY DEF Dismisses, Warnings
<1> QED
  BY <1>1, <1>2, <1>3 DEF Reconcile, Warnings

(* A final warning is visible for the deadline it was just raised for, or  *)
(* for the one it was visible for before, if nothing dismissed it.         *)
LEMMA FinalOutcome ==
  ASSUME NEW w \in Warnings, NEW s, NEW t \in Nat,
         DeadlineOf(s) \in Deadline \cup {NoDeadline},
         w.finalVisible => w.key # NoDeadline
  PROVE  LET r == Reconcile(w, s, t)
         IN /\ LevelRaised(w, s, t) = FinalLevel =>
                 r.finalVisible /\ r.key = DeadlineOf(s)
            /\ LevelRaised(w, s, t) # FinalLevel =>
                 (r.finalVisible <=> w.finalVisible /\ ~Dismisses(w, s, t))
            /\ LevelRaised(w, s, t) # FinalLevel /\ r.finalVisible =>
                 r.key = w.key
            /\ r.finalVisible => r.key # NoDeadline
PROOF
<1> DEFINE key == DeadlineOf(s)
           kept == Rekey(w, key)
           raised == LevelRaised(w, s, t)
           r == Reconcile(w, s, t)
<1>1. /\ kept.key = key /\ kept.finalVisible \in BOOLEAN
      /\ key = w.key => kept.finalVisible = w.finalVisible
      /\ key # w.key => ~kept.finalVisible
      /\ kept \in Warnings
  BY NoWarningsType DEF Rekey, Warnings, NoWarnings
<1>2. w.finalVisible /\ key # w.key => Dismisses(w, s, t)
  BY DEF Dismisses
<1>3. Dismisses(w, s, t) => w.finalVisible
  BY DEF Dismisses
<1>4. CASE key = NoDeadline
  <2>1. r = kept
    BY <1>1, <1>4 DEF Reconcile
  <2>2. raised # FinalLevel
    BY <1>4 DEF LevelRaised, Silent, FinalLevel
  <2> QED BY <1>1, <1>2, <1>3, <1>4, <2>1, <2>2 DEF Warnings
<1>5. CASE key # NoDeadline
  <2>1. /\ r.key = key
        /\ r.finalVisible <=> \/ raised = FinalLevel
                              \/ kept.finalVisible /\ ~Dismisses(w, s, t)
    BY <1>1, <1>5 DEF Reconcile, Warnings
  <2> QED BY <1>1, <1>2, <1>3, <1>5, <2>1 DEF Warnings
<1> QED BY <1>4, <1>5

(* A deadline that is watched was ahead at the last look; once it was near *)
(* enough its final warning was raised, which stays visible.               *)
Left(w) == WholeSeconds(w.key.expiresAt - w.lastSeen)

Warned(w) ==
  w.key # NoDeadline =>
    /\ w.lastSeen # Never
    /\ w.finalVisible => Left(w) > 0
    /\ Left(w) > 0 =>
         /\ w.fired = FinalLevel => w.finalVisible
         /\ Left(w) <= FinalSeconds => w.fired = FinalLevel

(* So it is after the next look.                                           *)
LEMMA WarnedStays ==
  ASSUME NEW w \in Warnings, Warned(w), NEW s, NEW t \in Nat,
         DeadlineOf(s) \in Deadline \cup {NoDeadline},
         w.key # NoDeadline => w.lastSeen <= t
  PROVE  /\ Warned(Reconcile(w, s, t))
         /\ Reconcile(w, s, t).key # NoDeadline => Reconcile(w, s, t).lastSeen = t
PROOF
<1> DEFINE key == DeadlineOf(s)
           kept == Rekey(w, key)
           raised == LevelRaised(w, s, t)
           r == Reconcile(w, s, t)
           remaining == WholeSeconds(key.expiresAt - t)
           level == IF ArrivedLate(kept, t) THEN ArrivingLateLevel(remaining)
                                              ELSE LevelFor(remaining)
<1>1. /\ kept \in Warnings /\ kept.key = key
      /\ key = w.key => kept = w
      /\ key # w.key => kept.fired = Silent /\ ~kept.finalVisible
  BY NoWarningsType DEF Rekey, Warnings, NoWarnings
<1>2. CASE key = NoDeadline
  <2>1. r = kept
    BY <1>1, <1>2 DEF Reconcile
  <2> QED BY <1>1, <1>2, <2>1 DEF Warned
<1>3. CASE key # NoDeadline
  <2>1. remaining \in Nat
    BY <1>3, WholeSecondsType DEF Deadline
  <2>2. /\ raised \in Level
        /\ raised = IF remaining > 0 /\ level > kept.fired THEN level ELSE Silent
    BY <1>3, LevelRaisedType DEF LevelRaised
  <2>3. /\ r.key = key /\ r.lastSeen = t
        /\ r.fired = IF raised = Silent THEN kept.fired ELSE raised
        /\ r.finalVisible <=> \/ raised = FinalLevel
                              \/ kept.finalVisible /\ ~Dismisses(w, s, t)
    BY <1>1, <1>3 DEF Reconcile, Warnings
  <2>4. r.lastSeen # Never /\ Left(r) = remaining
    BY <1>3, <2>3 DEF Never, Left
  <2>5. kept.finalVisible => (Dismisses(w, s, t) <=> remaining = 0)
    BY <1>1 DEF Dismisses
  <2>6. key = w.key => Left(w) >= remaining
    <3> SUFFICES ASSUME key = w.key PROVE Left(w) >= remaining
      OBVIOUS
    <3>1. w.lastSeen # Never /\ w.lastSeen <= t
      BY <1>3 DEF Warned
    <3>2. /\ key.expiresAt - t \in Int /\ key.expiresAt - w.lastSeen \in Int
          /\ key.expiresAt - t <= key.expiresAt - w.lastSeen
      BY <1>3, <3>1 DEF Deadline, Warnings
    <3>3. WholeSeconds(key.expiresAt - w.lastSeen) \in Nat
      BY <3>2, WholeSecondsType
    <3> QED BY <2>1, <3>2, <3>3, WholeSecondsGrow DEF Left
  <2> HIDE DEF level, remaining
  <2>7. r.finalVisible => remaining > 0
    BY <2>1, <2>2, <2>3, <2>5 DEF Silent, FinalLevel
  <2>8. remaining > 0 /\ r.fired = FinalLevel => r.finalVisible
    <3> SUFFICES ASSUME remaining > 0, r.fired = FinalLevel, raised # FinalLevel
                 PROVE  r.finalVisible
      BY <2>3
    <3>1. kept.fired = FinalLevel
      BY <2>3
    <3>2. key = w.key /\ kept = w
      BY <1>1, <3>1 DEF Silent, FinalLevel
    <3>3. Left(w) \in Int /\ Left(w) > 0
      <4>1. key.expiresAt - w.lastSeen \in Int
        BY <1>3, <3>2 DEF Deadline, Warnings, Never
      <4>2. Left(w) \in Nat
        BY <3>2, <4>1, WholeSecondsType DEF Left
      <4> QED BY <2>1, <2>6, <3>2, <4>2
    <3>4. w.finalVisible
      BY <1>3, <3>1, <3>2, <3>3 DEF Warned
    <3> QED BY <2>3, <2>5, <3>2, <3>4
  <2>9. remaining > 0 /\ remaining <= FinalSeconds => r.fired = FinalLevel
    <3> SUFFICES ASSUME remaining > 0, remaining <= FinalSeconds
                 PROVE  r.fired = FinalLevel
      OBVIOUS
    <3>1. level = FinalLevel
      BY <2>1, ThresholdAssumption DEF level, ArrivingLateLevel, LevelFor
    <3>2. kept.fired \in Level
      BY <1>1 DEF Warnings
    <3> QED BY <2>2, <2>3, <3>1, <3>2 DEF Level, Silent, FinalLevel
  <2> HIDE DEF r
  <2>10. Warned(r)
    BY <2>4, <2>7, <2>8, <2>9 DEF Warned
  <2> QED BY <2>3, <2>10 DEF r
<1> QED BY <1>2, <1>3

-----------------------------------------------------------------------------
(* The pure rules keep to their types.                                     *)

(* advance (session.rs) returns the session or its expired form.           *)
LEMMA AdvanceType ==
  ASSUME NEW session \in Session \cup {NoSession}, NEW now \in Nat
  PROVE  /\ Advance(session, now) \in Session \cup {NoSession}
         /\ Advance(session, now) # NoSession => session # NoSession
BY NoSessionAssumption DEF Advance, IsActive, Session, Status

(* ClockGuard::now (storage.rs) never yields less than its mark.           *)
LEMMA TrustedNowBound ==
  ASSUME NEW clock \in Guard, NEW t \in Nat, NEW mono \in Nat,
         clock.anchor <= mono
  PROVE  TrustedNow(clock, t, mono) \in Nat
         /\ TrustedNow(clock, t, mono) >= clock.hwm
BY DEF TrustedNow, Guard

(* ClockGuard::resync never lowers the mark, nor anchors it in the future. *)
LEMMA ResyncBound ==
  ASSUME NEW clock \in Guard, NEW t \in Nat, NEW mono \in Nat,
         clock.anchor <= mono
  PROVE  /\ Resync(clock, t, mono) \in Guard
         /\ Resync(clock, t, mono).hwm >= clock.hwm
         /\ Resync(clock, t, mono).anchor <= mono
BY DEF Resync, NewGuard, Guard

(* ClockGuard::new (storage.rs) builds a guard of two instants.            *)
LEMMA NewGuardType ==
  ASSUME NEW t \in Nat, NEW mono \in Nat
  PROVE  /\ NewGuard(t, mono) \in Guard
         /\ NewGuard(t, mono).hwm = t /\ NewGuard(t, mono).anchor = mono
BY DEF NewGuard, Guard

-----------------------------------------------------------------------------
(* Type correctness: every handler, every exit half-way through one and    *)
(* every step of the environment keeps each variable in its type, and the  *)
(* guard is anchored at an instant that has been.                          *)

(* AgentState::default (storage.rs) is a state.                            *)
LEMMA DefaultStateType == \A now \in Nat : DefaultState(now) \in AgentState
BY DEF DefaultState, AgentState

(* A process that ends leaves its variables typed.                         *)
LEMMA ExitType ==
  ASSUME TypeOK, NEW outcome, ExitsAs(outcome), real' \in Nat
  PROVE  /\ proc' \in {"stopped", "running"} /\ ~Running' /\ mem' \in AgentState
         /\ ~mem'.decommissioned
         /\ guard' \in Guard /\ guard'.anchor <= real'
         /\ {expected', blocked', relinquished', ackRequested', eventsClosed'}
              \subseteq BOOLEAN
         /\ warnings' \in Warnings
         /\ finalWarning' \in Deadline \cup {NoDeadline}
PROOF
<1>1. DefaultState(0) \in AgentState /\ ~DefaultState(0).decommissioned
  BY DefaultStateType DEF DefaultState
<1>2. NewGuard(0, 0) \in Guard /\ NewGuard(0, 0).anchor = 0
  BY NewGuardType
<1>3. {expected', blocked', relinquished', ackRequested', eventsClosed'}
        \subseteq BOOLEAN
  BY DEF ExitsAs, Exit, Restarts
<1> QED
  BY <1>1, <1>2, <1>3, NoWarningsType DEF ExitsAs, Exit, Running

(* Every step of the agent and of its environment keeps the types.         *)
LEMMA TypeStep ==
  ASSUME TypeOK, SavedBeforeActing, [Next]_vars
  PROVE  TypeOK'
PROOF
<1> USE AgentAssumption DEF Running
<1>0. Running => mem.decommissioned = relinquished
  BY DEF SavedBeforeActing
<1>1. ASSUME NEW i \in Identity, Enroll(i) PROVE TypeOK'
  <2>1. LoadForEnroll \in AgentState
    BY DefaultStateType DEF LoadForEnroll, TypeOK
  <2>2. /\ Enrolled(LoadForEnroll, i) \in AgentState
        /\ ~Enrolled(LoadForEnroll, i).decommissioned
    BY <2>1 DEF Enrolled, AgentState
  <2>3. /\ disk' \in AgentState \cup {Absent, Corrupt} /\ faults' \in Nat
        /\ disk' \in AgentState /\ disk'.decommissioned => disk'.session = NoSession
    BY <1>1, <2>2 DEF Enroll, Fault, TypeOK
  <2> QED
    BY <1>1, <2>3 DEF Enroll, TypeOK, loopVars
<1>2. CASE Start
  <2>1. disk \in AgentState /\ disk.hwm \in Nat /\ disk.decommissioned \in BOOLEAN
    BY <1>2 DEF Start, StartWith, Startable, AgentState
  <2>2. /\ NewGuard(disk.hwm, real) \in Guard
        /\ NewGuard(disk.hwm, real).anchor = real
    BY <2>1, NewGuardType DEF TypeOK
  <2>3. /\ {expected', blocked', relinquished', ackRequested', eventsClosed', locked'}
             \subseteq BOOLEAN
        /\ expected' = TRUE
    BY <1>2, <2>1 DEF Start, StartWith, TypeOK
  <2>4. mem' = disk /\ disk' = disk /\ proc' = "running"
    BY <1>2 DEF Start, StartWith
  <2> QED
    BY <1>2, <2>1, <2>2, <2>3, <2>4, NoWarningsType
    DEF Start, StartWith, TypeOK, envVars
<1>3. CASE Stop
  <2>1. /\ Fault /\ ExitsAs("stopped") /\ disk' \in {mem, disk}
        /\ UNCHANGED <<acked, used, locked, real, os, clockSteps>>
    BY <1>3 DEF Stop
  <2> HIDE DEF Running
  <2> QED BY <2>1, ExitType DEF TypeOK, Fault
<1>4. CASE Tick
  <2> DEFINE now == TrustedNow(guard, os, real)
             session == Advance(mem.session, now)
  <2>1. now \in Nat
    BY TrustedNowBound DEF TypeOK
  <2>2. mem.session \in Session \cup {NoSession}
    BY DEF TypeOK, AgentState
  <2>3. session \in Session \cup {NoSession}
    BY <2>1, <2>2, AdvanceType
  <2>4. [mem EXCEPT !.session = session, !.hwm = now] \in AgentState
    BY <2>1, <2>3 DEF TypeOK, AgentState
  <2>5. Allowed(session, now) \in BOOLEAN
    BY DEF Allowed
  <2>6. /\ Reconcile(warnings, session, now) \in Warnings
        /\ DeadlineOf(session) \in Deadline \cup {NoDeadline}
    BY <2>1, <2>3, ReconcileType, DeadlineOfType DEF TypeOK
  <2>7. NewGuard(now, real) \in Guard /\ NewGuard(now, real).anchor = real
    BY <2>1, NewGuardType DEF TypeOK
  <2>8. locked' \in BOOLEAN /\ UNCHANGED <<acked, used, real, os, clockSteps>>
    BY <1>4, <2>5 DEF Tick, TypeOK, ExitsAs
  <2>9. CASE Fault /\ ExitsAs("failed") /\ UNCHANGED disk
    BY <2>8, <2>9, ExitType DEF Fault, TypeOK, Running
  <2>10. CASE ~(Fault /\ ExitsAs("failed") /\ UNCHANGED disk)
    <3>1. /\ mem' = [mem EXCEPT !.session = session, !.hwm = now] /\ disk' = mem'
          /\ guard' = NewGuard(now, real)
          /\ blocked' = ~Allowed(session, now)
          /\ warnings' = Reconcile(warnings, session, now)
          /\ finalWarning' \in {DeadlineOf(session), NoDeadline, finalWarning}
          /\ UNCHANGED <<proc, expected, relinquished, ackRequested, eventsClosed,
                         faults>>
          /\ mem'.decommissioned = FALSE
      BY <1>0, <1>4, <2>10 DEF Tick, TypeOK, AgentState
    <3>2. {expected', blocked', relinquished', ackRequested', eventsClosed'} \subseteq BOOLEAN
      BY <2>5, <3>1 DEF TypeOK
    <3>3. finalWarning' \in Deadline \cup {NoDeadline}
      BY <2>6, <3>1 DEF TypeOK
    <3>4. mem' \in AgentState /\ disk' \in AgentState
      BY <2>4, <3>1
    <3>5. guard' \in Guard /\ guard'.anchor <= real'
      BY <2>7, <2>8, <3>1 DEF TypeOK
    <3>6. warnings' \in Warnings
      BY <2>6, <3>1
    <3> QED
      BY <2>8, <3>1, <3>2, <3>3, <3>4, <3>5, <3>6 DEF TypeOK
  <2> QED BY <2>9, <2>10
<1>5. CASE SendAck
  <2>1. mem.creds \in Identity
    BY <1>5 DEF Running, SendAck, Receives, SavedBeforeActing, TypeOK, AgentState
  <2> QED
    BY <1>5, <2>1 DEF SendAck, TypeOK, loopVars, envVars
<1>6. CASE OnDecommission
  <2>1. AcceptedState \in AgentState /\ AcceptedState.session = NoSession
    BY DEF AcceptedState, TypeOK, AgentState
  <2>2. CASE mem' = AcceptedState /\ disk' = AcceptedState /\ Relinquish
    BY <2>1, <2>2 DEF Relinquish, TypeOK, envVars
  <2>3. CASE /\ Fault /\ ExitsAs("failed")
             /\ UNCHANGED <<disk, acked, used, locked, real, os, clockSteps>>
    BY <2>3, ExitType DEF Fault, TypeOK
  <2> QED BY <1>6, <2>2, <2>3 DEF OnDecommission, ExitsAs
<1>7. ASSUME NEW session \in Session \cup {NoSession}, NEW t \in Nat,
             OnSessionState(session, t)
      PROVE  TypeOK'
  <2> DEFINE time == MessageTime(session, t)
             clock == Resync(guard, time, real)
             applied == [mem EXCEPT !.session = session, !.lastAppliedAt = time,
                                    !.hwm = clock.hwm]
  <2>1. time \in Nat
    BY NoSessionAssumption DEF MessageTime, Session
  <2>2. clock \in Guard /\ clock.anchor <= real /\ clock.hwm \in Nat
    BY <2>1, ResyncBound DEF TypeOK, Guard
  <2>3. applied \in AgentState
    BY <2>1, <2>2 DEF TypeOK, AgentState
  <2>4. UNCHANGED <<acked, used, locked, real, os, clockSteps>>
    BY <1>7 DEF OnSessionState, ExitsAs
  <2>5. CASE Fault /\ ExitsAs("failed") /\ UNCHANGED disk
    BY <2>4, <2>5, ExitType DEF Fault, TypeOK
  <2>6. CASE ~(Fault /\ ExitsAs("failed") /\ UNCHANGED disk)
    <3>1. /\ mem' = applied /\ disk' = applied /\ guard' = clock
          /\ UNCHANGED <<proc, expected, blocked, relinquished, warnings, ackRequested,
                         eventsClosed, finalWarning, faults>>
          /\ mem'.decommissioned = FALSE
      BY <1>0, <1>7, <2>6 DEF OnSessionState, Receives, TypeOK, AgentState
    <3> QED BY <2>2, <2>3, <2>4, <3>1 DEF TypeOK
  <2> QED BY <2>5, <2>6
<1>8. ASSUME NEW t \in Nat, OnServerTime(t) PROVE TypeOK'
  <2> DEFINE clock == Resync(guard, t, real)
  <2>1. clock \in Guard /\ clock.anchor <= real /\ clock.hwm \in Nat
    BY ResyncBound DEF TypeOK, Guard
  <2>2. /\ [mem EXCEPT !.hwm = clock.hwm] \in AgentState
        /\ [mem EXCEPT !.hwm = clock.hwm].decommissioned = mem.decommissioned
        /\ [mem EXCEPT !.hwm = clock.hwm].session = mem.session
    BY <2>1 DEF TypeOK, AgentState
  <2>3. guard' = clock /\ mem' = [mem EXCEPT !.hwm = clock.hwm]
    BY <1>8 DEF OnServerTime
  <2> QED BY <1>8, <2>1, <2>2, <2>3 DEF OnServerTime, TypeOK, envVars
<1>9. CASE ConnectionEnds
  BY <1>9 DEF ConnectionEnds, TypeOK, envVars
<1>10. CASE Environment
  <2>1. CASE Crash
    BY <2>1, ExitType DEF Crash, Fault, TypeOK
  <2>2. CASE DamageFile
    BY <2>2 DEF DamageFile, Fault, TypeOK, loopVars
  <2>3. CASE Unlock
    BY <2>3 DEF Unlock, TypeOK, loopVars, envVars
  <2>4. CASE PassTime
    BY <2>4 DEF PassTime, TypeOK, loopVars, Guard
  <2>5. ASSUME NEW t \in 0 .. MaxTime, SetClock(t) PROVE TypeOK'
    BY <2>5 DEF SetClock, TypeOK, loopVars
  <2> QED BY <1>10, <2>1, <2>2, <2>3, <2>4, <2>5 DEF Environment
<1>11. CASE UNCHANGED vars
  BY <1>11 DEF vars, loopVars, envVars, TypeOK
<1>12. Receivable \subseteq Session /\ 0 .. real \subseteq Nat /\ real \in Nat
  BY DEF Receivable, Session, TypeOK
<1>13. CASE StartFails
  <2>1. expected' \in BOOLEAN
    BY <1>13 DEF StartFails, Restarts
  <2> QED BY <1>13, <2>1 DEF StartFails, TypeOK, envVars
<1> QED
  BY <1>1, <1>2, <1>3, <1>4, <1>5, <1>6, <1>7, <1>8, <1>9, <1>10, <1>11, <1>12, <1>13
  DEF Next, ReceiveEvent

-----------------------------------------------------------------------------
(* The file agrees with the loop.  A step that ends the process has nothing *)
(* to show; every other handler either saves what it changed or changes    *)
(* the mark alone, upwards.                                                *)

(* A process that has ended does not run.                                  *)
LEMMA ExitStops == Exit => ~Running'
BY DEF Exit, Running

(* Every step leaves a running loop in agreement with its file.            *)
LEMMA SavedStep ==
  ASSUME TypeOK, SavedBeforeActing, [Next]_vars
  PROVE  SavedBeforeActing'
PROOF
<1> USE AgentAssumption
<1>1. ASSUME NEW i \in Identity, Enroll(i) PROVE SavedBeforeActing'
  BY <1>1 DEF Enroll, SavedBeforeActing, Running, loopVars
<1>2. CASE Start
  <2>1. disk \in AgentState /\ disk.hwm \in Nat /\ NewGuard(disk.hwm, real).hwm = disk.hwm
    BY <1>2, NewGuardType DEF Start, StartWith, Startable, AgentState, TypeOK
  <2>2. /\ mem' = disk /\ disk' = disk /\ disk.creds # NoIdentity
        /\ guard' = NewGuard(disk.hwm, real)
        /\ relinquished' = disk.decommissioned /\ ackRequested' = disk.decommissioned
    BY <1>2 DEF Start, StartWith, Startable
  <2> QED
    BY <2>1, <2>2 DEF SavedBeforeActing
<1>3. CASE Stop \/ Crash
  BY <1>3, ExitStops DEF Stop, Crash, SavedBeforeActing, ExitsAs
<1>4. CASE Tick
  <2> DEFINE now == TrustedNow(guard, os, real)
             session == Advance(mem.session, now)
  <2>1. CASE Exit
    BY <2>1, ExitStops DEF SavedBeforeActing
  <2>2. CASE ~Exit
    <3>1. now \in Nat
      BY TrustedNowBound DEF TypeOK
    <3>2. NewGuard(now, real).hwm = now
      BY <3>1, NewGuardType DEF TypeOK
    <3>3. /\ Running /\ mem' = [mem EXCEPT !.session = session, !.hwm = now]
          /\ disk' = mem' /\ guard' = NewGuard(now, real)
          /\ UNCHANGED <<relinquished, ackRequested>>
      BY <1>4, <2>2 DEF Tick, ExitsAs
    <3>4. /\ mem'.creds = mem.creds /\ mem'.decommissioned = mem.decommissioned
          /\ mem'.hwm = now
      BY <3>3 DEF TypeOK, AgentState
    <3> QED
      BY <3>1, <3>2, <3>3, <3>4 DEF SavedBeforeActing
  <2> QED BY <2>1, <2>2
<1>5. CASE SendAck \/ Unlock \/ PassTime \/ ConnectionEnds
  BY <1>5
  DEF SendAck, Unlock, PassTime, ConnectionEnds, SavedBeforeActing, Running,
      loopVars, envVars
<1>6. CASE OnDecommission
  <2>1. CASE Exit
    BY <2>1, ExitStops DEF SavedBeforeActing
  <2>2. CASE ~Exit
    <3>1. /\ Running /\ mem' = AcceptedState /\ disk' = mem'
          /\ relinquished' = TRUE /\ ackRequested' = TRUE /\ guard' = guard
      BY <1>6, <2>2 DEF OnDecommission, Receives, Relinquish, ExitsAs
    <3>2. /\ mem'.creds = mem.creds /\ mem'.decommissioned = TRUE
          /\ mem'.hwm = mem.hwm /\ mem.hwm \in Nat
      BY <3>1 DEF AcceptedState, TypeOK, AgentState
    <3>3. mem'.hwm = guard'.hwm /\ mem'.creds # NoIdentity
      BY <3>1, <3>2 DEF SavedBeforeActing
    <3>4. mem'.decommissioned = relinquished' /\ ackRequested' = relinquished'
      BY <3>1, <3>2
    <3> QED BY <3>1, <3>2, <3>3, <3>4 DEF SavedBeforeActing
  <2> QED BY <2>1, <2>2
<1>7. ASSUME NEW session \in Session \cup {NoSession}, NEW t \in Nat,
             OnSessionState(session, t)
      PROVE  SavedBeforeActing'
  <2> DEFINE time == MessageTime(session, t)
             clock == Resync(guard, time, real)
  <2>1. CASE Exit
    BY <2>1, ExitStops DEF SavedBeforeActing
  <2>2. CASE ~Exit
    <3>1. /\ Running
          /\ mem' = [mem EXCEPT !.session = session, !.lastAppliedAt = time,
                                !.hwm = clock.hwm]
          /\ disk' = mem' /\ guard' = clock
          /\ UNCHANGED <<relinquished, ackRequested>>
      BY <1>7, <2>2 DEF OnSessionState, Receives, ExitsAs
    <3>2. clock.hwm \in Nat
      BY NoSessionAssumption, ResyncBound DEF TypeOK, Guard, MessageTime, Session
    <3>3. /\ mem'.creds = mem.creds /\ mem'.decommissioned = mem.decommissioned
          /\ mem'.hwm = clock.hwm
      BY <3>1 DEF TypeOK, AgentState
    <3> QED BY <3>1, <3>2, <3>3 DEF SavedBeforeActing
  <2> QED BY <2>1, <2>2
<1>8. ASSUME NEW t \in Nat, OnServerTime(t) PROVE SavedBeforeActing'
  <2> DEFINE clock == Resync(guard, t, real)
  <2>1. clock.hwm \in Nat /\ clock.hwm >= guard.hwm
    BY ResyncBound DEF TypeOK, Guard
  <2>2. /\ Running /\ mem' = [mem EXCEPT !.hwm = clock.hwm] /\ guard' = clock
        /\ UNCHANGED <<disk, relinquished, ackRequested>>
    BY <1>8 DEF OnServerTime, Receives
  <2>3. /\ mem'.creds = mem.creds /\ mem'.decommissioned = mem.decommissioned
        /\ mem'.session = mem.session /\ mem'.lastAppliedAt = mem.lastAppliedAt
        /\ mem'.hwm = clock.hwm
    BY <2>2 DEF TypeOK, AgentState
  <2>4. disk \in AgentState => disk.hwm \in Nat
    BY DEF AgentState
  <2> QED BY <2>1, <2>2, <2>3, <2>4 DEF SavedBeforeActing, TypeOK, Guard
<1>9. CASE DamageFile
  BY <1>9 DEF DamageFile, SavedBeforeActing, Running, loopVars
<1>10. ASSUME NEW t \in 0 .. MaxTime, SetClock(t) PROVE SavedBeforeActing'
  BY <1>10 DEF SetClock, SavedBeforeActing, Running, loopVars
<1>11. CASE UNCHANGED vars \/ StartFails
  BY <1>11 DEF vars, loopVars, StartFails, SavedBeforeActing, Running
<1>12. Receivable \subseteq Session /\ 0 .. real \subseteq Nat /\ real \in Nat
  BY DEF Receivable, Session, TypeOK
<1> QED
  BY <1>1, <1>2, <1>3, <1>4, <1>5, <1>6, <1>7, <1>8, <1>9, <1>10, <1>11, <1>12
  DEF Next, ReceiveEvent, Environment

(* Both together are inductive: an acknowledgement names an identity only  *)
(* because a running loop has one, which the file it started from shows.   *)
THEOREM InductiveInvariant == Spec => [](TypeOK /\ SavedBeforeActing)
PROOF
<1>1. Init => TypeOK /\ SavedBeforeActing
  <2> SUFFICES ASSUME Init PROVE TypeOK /\ SavedBeforeActing
    OBVIOUS
  <2>1. DefaultState(0) \in AgentState /\ ~DefaultState(0).decommissioned
    BY DefaultStateType DEF DefaultState
  <2>2. NewGuard(0, 0) \in Guard /\ NewGuard(0, 0).anchor = 0
    BY NewGuardType
  <2>3. {expected, blocked, relinquished, ackRequested, eventsClosed, locked} \subseteq BOOLEAN
    BY DEF Init
  <2> QED
    BY <2>1, <2>2, <2>3, NoWarningsType, AgentAssumption
    DEF Init, TypeOK, SavedBeforeActing, Running
<1>2. TypeOK /\ SavedBeforeActing /\ [Next]_vars
        => (TypeOK /\ SavedBeforeActing)'
  BY TypeStep, SavedStep
<1> QED BY <1>1, <1>2, PTL DEF Spec

(* Every variable keeps its type.                                          *)
THEOREM TypeCorrect == Spec => []TypeOK
BY InductiveInvariant, PTL

(* The loop never acts on what a restart would not find in the file.       *)
THEOREM SavedBeforeActingHolds == Spec => []SavedBeforeActing
BY InductiveInvariant, PTL

-----------------------------------------------------------------------------
(* The high-water mark.                                                    *)

(* No step lowers the mark of ClockGuard, in the loop or in the file.      *)
LEMMA MarkStep ==
  ASSUME TypeOK, SavedBeforeActing, [Next]_vars
  PROVE  [MarkRises]_vars
PROOF
<1> SUFFICES ASSUME Next PROVE MarkRises
  OBVIOUS
<1> USE AgentAssumption
<1>1. guard.hwm \in Nat /\ (disk \in AgentState => disk.hwm \in Nat)
  BY DEF TypeOK, Guard, AgentState
<1>2. disk \in AgentState /\ Running => disk.hwm <= guard.hwm
  BY DEF SavedBeforeActing
<1>3. ASSUME NEW i \in Identity, Enroll(i) PROVE MarkRises
  <2>1. proc = "stopped" /\ UNCHANGED proc
    BY <1>3 DEF Enroll, loopVars
  <2>2. disk \in AgentState /\ disk' # disk => disk' = Enrolled(disk, i)
    BY <1>3 DEF Enroll, LoadForEnroll
  <2>3. disk \in AgentState => Enrolled(disk, i).hwm = disk.hwm
    BY DEF Enrolled, AgentState
  <2> QED
    BY <1>1, <2>1, <2>2, <2>3 DEF MarkRises, Running
<1>4. CASE Start
  <2>1. /\ disk \in AgentState /\ disk' = disk /\ proc = "stopped"
        /\ guard' = NewGuard(disk.hwm, real)
    BY <1>4 DEF Start, StartWith, Startable
  <2>2. NewGuard(disk.hwm, real).hwm = disk.hwm
    BY <1>1, <2>1, NewGuardType DEF TypeOK
  <2> QED
    BY <1>1, <2>1, <2>2 DEF MarkRises, Running
<1>5. CASE Stop
  <2>1. ~Running' /\ disk' \in {mem, disk} /\ Running
    BY <1>5, ExitStops DEF Stop, ExitsAs
  <2> QED
    BY <1>1, <1>2, <2>1 DEF MarkRises, SavedBeforeActing
<1>6. ASSUME Exit, UNCHANGED disk PROVE MarkRises
  BY <1>1, <1>6, ExitStops DEF MarkRises
<1>7. ASSUME UNCHANGED <<disk, proc, guard>> PROVE MarkRises
  BY <1>1, <1>2, <1>7 DEF MarkRises, Running
<1>8. ASSUME Running, guard'.hwm \in Nat, guard'.hwm >= guard.hwm,
             \/ disk' = disk
             \/ disk' = mem' /\ mem'.hwm = guard'.hwm
      PROVE  MarkRises
  BY <1>1, <1>2, <1>8 DEF MarkRises
<1>9. CASE Tick
  <2> DEFINE now == TrustedNow(guard, os, real)
  <2>1. now \in Nat /\ now >= guard.hwm
    BY TrustedNowBound DEF TypeOK
  <2>2. NewGuard(now, real).hwm = now
    BY <2>1, NewGuardType DEF TypeOK
  <2>3. CASE Exit /\ UNCHANGED disk
    BY <1>6, <2>3
  <2>4. CASE ~(Exit /\ UNCHANGED disk)
    <3>1. /\ Running /\ disk' = mem' /\ guard' = NewGuard(now, real)
          /\ mem' = [mem EXCEPT !.session = Advance(mem.session, now), !.hwm = now]
      BY <1>9, <2>4 DEF Tick, ExitsAs
    <3>2. mem'.hwm = now
      BY <3>1 DEF TypeOK, AgentState
    <3> QED BY <1>8, <2>1, <2>2, <3>1, <3>2
  <2> QED BY <2>3, <2>4
<1>10. CASE OnDecommission
  <2>1. CASE Exit /\ UNCHANGED disk
    BY <1>6, <2>1
  <2>2. CASE ~(Exit /\ UNCHANGED disk)
    <3>1. /\ Running /\ mem' = AcceptedState /\ disk' = mem' /\ guard' = guard
      BY <1>10, <2>2 DEF OnDecommission, Receives, Relinquish, ExitsAs
    <3>2. mem'.hwm = mem.hwm
      BY <3>1 DEF AcceptedState, TypeOK, AgentState
    <3> QED BY <1>1, <1>8, <3>1, <3>2 DEF SavedBeforeActing
  <2> QED BY <2>1, <2>2
<1>11. ASSUME NEW session \in Session \cup {NoSession}, NEW t \in Nat,
              OnSessionState(session, t)
       PROVE  MarkRises
  <2> DEFINE time == MessageTime(session, t)
             clock == Resync(guard, time, real)
  <2>1. clock.hwm \in Nat /\ clock.hwm >= guard.hwm
    BY NoSessionAssumption, ResyncBound DEF TypeOK, Guard, MessageTime, Session
  <2>2. CASE Exit /\ UNCHANGED disk
    BY <1>6, <2>2
  <2>3. CASE ~(Exit /\ UNCHANGED disk)
    <3>1. /\ Running /\ disk' = mem' /\ guard' = clock
          /\ mem' = [mem EXCEPT !.session = session, !.lastAppliedAt = time,
                                !.hwm = clock.hwm]
      BY <1>11, <2>3 DEF OnSessionState, Receives, ExitsAs
    <3>2. mem'.hwm = clock.hwm
      BY <3>1 DEF TypeOK, AgentState
    <3> QED BY <1>8, <2>1, <3>1, <3>2
  <2> QED BY <2>2, <2>3
<1>12. ASSUME NEW t \in Nat, OnServerTime(t) PROVE MarkRises
  <2>1. /\ Resync(guard, t, real).hwm \in Nat
        /\ Resync(guard, t, real).hwm >= guard.hwm
    BY ResyncBound DEF TypeOK, Guard
  <2> QED
    BY <1>8, <1>12, <2>1 DEF OnServerTime, Receives
<1>13. CASE SendAck \/ ConnectionEnds \/ Unlock \/ PassTime \/ StartFails
  BY <1>7, <1>13 DEF StartFails, SendAck, ConnectionEnds, Unlock, PassTime, loopVars
<1>14. CASE Crash
  BY <1>6, <1>14 DEF Crash, ExitsAs
<1>15. CASE DamageFile
  <2>1. disk' \notin AgentState /\ UNCHANGED <<proc, guard>>
    BY <1>15 DEF DamageFile, loopVars
  <2> QED BY <1>1, <1>2, <2>1 DEF MarkRises, Running
<1>16. ASSUME NEW t \in 0 .. MaxTime, SetClock(t) PROVE MarkRises
  BY <1>7, <1>16 DEF SetClock, loopVars
<1>17. Receivable \subseteq Session /\ 0 .. real \subseteq Nat /\ real \in Nat
  BY DEF Receivable, Session, TypeOK
<1> QED
  BY <1>3, <1>4, <1>5, <1>9, <1>10, <1>11, <1>12, <1>13, <1>14, <1>15, <1>16, <1>17
  DEF Next, ReceiveEvent, Environment

(* Neither the OS clock, nor the server, nor a restart moves it back.      *)
THEOREM MarkNeverFalls == Spec => HighWaterMarkNeverFalls
PROOF
<1>1. TypeOK /\ SavedBeforeActing /\ [Next]_vars => [MarkRises]_vars
  BY MarkStep
<1> QED BY <1>1, InductiveInvariant, PTL DEF Spec, HighWaterMarkNeverFalls

-----------------------------------------------------------------------------
(* Stale messages.  That an enrollment never repeats an identity, which is *)
(* what tells a fresh enrollment from a lost session, is invariant too.    *)

IdentitiesIssued ==
  /\ disk \in AgentState => disk.creds \in used \cup {NoIdentity}
  /\ Running => mem.creds \in used

(* A step keeps the enrollment, ends the process with what was saved, or   *)
(* starts from the file; only Enroll brings another identity.              *)
LEMMA EnrollmentStep ==
  ASSUME TypeOK, SavedBeforeActing, Next
  PROVE  \/ \E i \in Identity : Enroll(i)
         \/ Start
         \/ /\ Running /\ used' = used
            /\ Running' => mem'.creds = mem.creds
            /\ disk' \in {disk, mem, Corrupt} \/ (Running' /\ disk' = mem')
         \/ ~Running /\ ~Running' /\ used' = used /\ disk' \in {disk, Corrupt}
         \/ UNCHANGED <<disk, proc, mem, used>>
PROOF
<1> DEFINE Goal == \/ \E i \in Identity : Enroll(i)
                   \/ Start
                   \/ /\ Running /\ used' = used
                      /\ Running' => mem'.creds = mem.creds
                      /\ disk' \in {disk, mem, Corrupt} \/ (Running' /\ disk' = mem')
                   \/ ~Running /\ ~Running' /\ used' = used /\ disk' \in {disk, Corrupt}
                   \/ UNCHANGED <<disk, proc, mem, used>>
<1>1. CASE Stop \/ Crash
  BY <1>1, ExitStops DEF Stop, Crash, ExitsAs
<1>2. CASE Tick
  <2>1. Running /\ used' = used
    BY <1>2 DEF Tick, ExitsAs
  <2>2. CASE Exit /\ UNCHANGED disk
    BY <2>1, <2>2, ExitStops
  <2>3. CASE ~(Exit /\ UNCHANGED disk)
    <3>1. /\ disk' = mem' /\ proc' = proc
          /\ mem' = [mem EXCEPT !.session = Advance(mem.session,
                                                    TrustedNow(guard, os, real)),
                                !.hwm = TrustedNow(guard, os, real)]
      BY <1>2, <2>3 DEF Tick, ExitsAs
    <3>2. mem'.creds = mem.creds
      BY <3>1 DEF TypeOK, AgentState
    <3> QED BY <2>1, <3>1, <3>2 DEF Running
  <2> QED BY <2>2, <2>3
<1>3. CASE OnDecommission
  <2>1. Running /\ used' = used
    BY <1>3 DEF OnDecommission, Receives, Relinquish, ExitsAs
  <2>2. CASE Exit /\ UNCHANGED disk
    BY <2>1, <2>2, ExitStops
  <2>3. CASE ~(Exit /\ UNCHANGED disk)
    <3>1. disk' = mem' /\ proc' = proc /\ mem' = AcceptedState
      BY <1>3, <2>3 DEF OnDecommission, Relinquish, ExitsAs
    <3>2. mem'.creds = mem.creds
      BY <3>1 DEF AcceptedState, TypeOK, AgentState
    <3> QED BY <2>1, <3>1, <3>2 DEF Running
  <2> QED BY <2>2, <2>3
<1>4. ASSUME NEW session, NEW t, OnSessionState(session, t) PROVE Goal
  <2> DEFINE time == MessageTime(session, t)
  <2>1. Running /\ used' = used
    BY <1>4 DEF OnSessionState, Receives, ExitsAs
  <2>2. CASE Exit /\ UNCHANGED disk
    BY <2>1, <2>2, ExitStops
  <2>3. CASE ~(Exit /\ UNCHANGED disk)
    <3>1. /\ disk' = mem' /\ proc' = proc
          /\ mem' = [mem EXCEPT !.session = session, !.lastAppliedAt = time,
                                !.hwm = Resync(guard, time, real).hwm]
      BY <1>4, <2>3 DEF OnSessionState, ExitsAs
    <3>2. mem'.creds = mem.creds
      BY <3>1 DEF TypeOK, AgentState
    <3> QED BY <2>1, <3>1, <3>2 DEF Running
  <2> QED BY <2>2, <2>3
<1>5. ASSUME NEW t, OnServerTime(t) PROVE Goal
  <2>1. /\ Running /\ used' = used /\ disk' = disk /\ proc' = proc
        /\ mem' = [mem EXCEPT !.hwm = Resync(guard, t, real).hwm]
    BY <1>5 DEF OnServerTime, Receives
  <2>2. mem'.creds = mem.creds
    BY <2>1 DEF TypeOK, AgentState
  <2> QED BY <2>1, <2>2
<1>6. CASE SendAck \/ ConnectionEnds \/ Unlock \/ PassTime \/ StartFails
  BY <1>6 DEF StartFails, SendAck, ConnectionEnds, Unlock, PassTime, loopVars
<1>7. CASE DamageFile
  BY <1>7 DEF DamageFile, loopVars, Running
<1>8. ASSUME NEW t, SetClock(t) PROVE Goal
  BY <1>8 DEF SetClock, loopVars
<1> QED
  BY <1>1, <1>2, <1>3, <1>4, <1>5, <1>6, <1>7, <1>8
  DEF Next, ReceiveEvent, Environment

(* Every step keeps the identities in the file and in the loop issued ones. *)
LEMMA IssuedStep ==
  ASSUME TypeOK, SavedBeforeActing, IdentitiesIssued, [Next]_vars
  PROVE  IdentitiesIssued'
PROOF
<1> USE AgentAssumption
<1>1. ASSUME NEW i \in Identity, Enroll(i) PROVE IdentitiesIssued'
  <2>1. LoadForEnroll \in AgentState
    BY DefaultStateType DEF LoadForEnroll, TypeOK
  <2>2. Enrolled(LoadForEnroll, i).creds = i
    BY <2>1 DEF Enrolled, AgentState
  <2>3. /\ used' = used \cup {i} /\ ~Running'
        /\ disk' \in {Enrolled(LoadForEnroll, i), disk, Absent}
    BY <1>1 DEF Enroll, loopVars, Running
  <2> QED BY <2>2, <2>3 DEF IdentitiesIssued
<1>2. CASE Start
  <2>1. mem' = disk /\ disk' = disk /\ used' = used /\ disk \in AgentState
        /\ disk.creds # NoIdentity
    BY <1>2 DEF Start, StartWith, Startable
  <2> QED BY <2>1 DEF IdentitiesIssued
<1>3. CASE UNCHANGED vars
  BY <1>3 DEF vars, loopVars, IdentitiesIssued, Running
<1> QED
  BY <1>1, <1>2, <1>3, EnrollmentStep DEF IdentitiesIssued, Running

(* Whatever identity the agent holds was issued by an enrollment.          *)
LEMMA IssuedInvariant == Spec => []IdentitiesIssued
PROOF
<1>1. Init => IdentitiesIssued
  BY AgentAssumption DEF Init, IdentitiesIssued, Running
<1>2. TypeOK /\ SavedBeforeActing /\ IdentitiesIssued /\ [Next]_vars
        => IdentitiesIssued'
  BY IssuedStep
<1> QED BY <1>1, <1>2, InductiveInvariant, PTL DEF Spec

(* advance leaves a session alone or expires an active one.                *)
LEMMA AdvanceOutcome ==
  ASSUME NEW session, NEW now
  PROVE  \/ Advance(session, now) = session
         \/ /\ IsActive(session)
            /\ Advance(session, now) = [session EXCEPT !.status = "EXPIRED"]
BY DEF Advance

(* Every step replaces the file's session only as Replaces allows.         *)
LEMMA ReplacesStep ==
  ASSUME TypeOK, SavedBeforeActing, IdentitiesIssued, Next,
         disk \in AgentState, disk' \in AgentState
  PROVE  Replaces(disk, disk')
PROOF
<1> USE AgentAssumption
<1>1. CASE disk' = disk
  BY <1>1 DEF Replaces
<1>2. CASE Running /\ disk' = mem
  BY <1>2 DEF Replaces, SavedBeforeActing
<1>3. ASSUME NEW i \in Identity, Enroll(i), disk' # disk
      PROVE  Replaces(disk, disk')
  <2>1. disk' = Enrolled(disk, i) /\ i \notin used
    BY <1>3 DEF Enroll, LoadForEnroll
  <2>2. /\ disk'.creds = i /\ disk'.session = NoSession
        /\ disk'.lastAppliedAt = disk.lastAppliedAt
    BY <2>1 DEF Enrolled, AgentState
  <2>3. disk'.creds # disk.creds
    BY <2>1, <2>2 DEF IdentitiesIssued
  <2> QED BY <2>2, <2>3 DEF Replaces
<1>4. CASE Tick
  <2> DEFINE now == TrustedNow(guard, os, real)
  <2>1. CASE disk' # disk
    <3>1. /\ Running /\ disk' = mem'
          /\ mem' = [mem EXCEPT !.session = Advance(mem.session, now), !.hwm = now]
      BY <1>4, <2>1 DEF Tick, ExitsAs
    <3>2. /\ disk'.session = Advance(disk.session, now)
          /\ disk'.lastAppliedAt = disk.lastAppliedAt
      BY <3>1 DEF TypeOK, AgentState, SavedBeforeActing
    <3> QED BY <3>2, AdvanceOutcome DEF Replaces
  <2> QED BY <1>1, <2>1
<1>5. CASE OnDecommission
  <2>1. CASE disk' # disk
    <3>1. Running /\ disk' = AcceptedState
      BY <1>5, <2>1 DEF OnDecommission, Receives, ExitsAs
    <3>2. /\ disk'.session = NoSession /\ disk'.decommissioned = TRUE
          /\ disk'.lastAppliedAt = disk.lastAppliedAt
      BY <3>1 DEF AcceptedState, TypeOK, AgentState, SavedBeforeActing
    <3> QED BY <3>2 DEF Replaces
  <2> QED BY <1>1, <2>1
<1>6. ASSUME NEW session, NEW t, OnSessionState(session, t)
      PROVE  Replaces(disk, disk')
  <2> DEFINE time == MessageTime(session, t)
  <2>1. CASE disk' # disk
    <3>1. /\ Running /\ IsNewer(time, mem.lastAppliedAt)
          /\ disk' = [mem EXCEPT !.session = session, !.lastAppliedAt = time,
                                 !.hwm = Resync(guard, time, real).hwm]
      BY <1>6, <2>1 DEF OnSessionState, Receives, ExitsAs
    <3>2. disk'.lastAppliedAt = time /\ mem.lastAppliedAt = disk.lastAppliedAt
      BY <3>1 DEF TypeOK, AgentState, SavedBeforeActing
    <3> QED BY <3>1, <3>2 DEF Replaces, IsNewer
  <2> QED BY <1>1, <2>1
<1>7. CASE OnServerTime(real) \/ \E t \in 0 .. real : OnServerTime(t)
  BY <1>1, <1>7 DEF OnServerTime
<1>8. CASE Start \/ StartFails \/ SendAck \/ ConnectionEnds \/ Crash \/ Unlock
             \/ PassTime
  BY <1>1, <1>8
  DEF Start, StartWith, StartFails, SendAck, ConnectionEnds, Crash, Unlock, PassTime
<1>9. CASE Stop \/ DamageFile
  BY <1>1, <1>2, <1>9 DEF Stop, DamageFile, ExitsAs
<1>10. ASSUME NEW t, SetClock(t) PROVE Replaces(disk, disk')
  BY <1>1, <1>10 DEF SetClock
<1> QED
  BY <1>1, <1>3, <1>4, <1>5, <1>6, <1>7, <1>8, <1>9, <1>10
  DEF Next, ReceiveEvent, Environment

(* A message the file has overtaken never comes back, whatever order       *)
(* messages, saves, crashes and enrollments take.                          *)
THEOREM StaleNeverApplies == Spec => NeverReverts
PROOF
<1> DEFINE Kept == {disk, disk'} \subseteq AgentState => Replaces(disk, disk')
<1>1. TypeOK /\ SavedBeforeActing /\ IdentitiesIssued /\ [Next]_vars => [Kept]_vars
  BY ReplacesStep
<1> QED
  BY <1>1, InductiveInvariant, IssuedInvariant, PTL DEF Spec, NeverReverts

-----------------------------------------------------------------------------
(* In time.  Where the OS clock is never behind real time, neither is the  *)
(* trusted time of a tick: above the mark it is the OS clock, below it the *)
(* mark, which the OS clock has then not reached.                          *)

ClockIsAhead == real \in Nat /\ os \in Nat /\ os >= real

(* An OS clock that SetClock keeps at or ahead of real time stays there.   *)
LEMMA AheadInvariant == ASSUME ~MayFallBehind PROVE Spec => []ClockIsAhead
PROOF
<1>1. Init => ClockIsAhead
  BY DEF Init, ClockIsAhead
<1>2. ClockIsAhead /\ [Next]_vars => ClockIsAhead'
  <2> SUFFICES ASSUME ClockIsAhead, [Next]_vars PROVE ClockIsAhead'
    OBVIOUS
  <2>1. CASE UNCHANGED <<real, os>>
    BY <2>1 DEF ClockIsAhead
  <2>2. CASE PassTime
    BY <2>2 DEF PassTime, ClockIsAhead
  <2>3. ASSUME NEW t \in 0 .. MaxTime, SetClock(t) PROVE ClockIsAhead'
    BY <2>3, AgentAssumption DEF SetClock, ClockIsAhead
  <2>4. ASSUME NEW i, Enroll(i) PROVE UNCHANGED <<real, os>>
    BY <2>4 DEF Enroll
  <2>5. ASSUME NEW session, NEW t, OnSessionState(session, t)
        PROVE  UNCHANGED <<real, os>>
    BY <2>5 DEF OnSessionState, ExitsAs
  <2>6. CASE UNCHANGED vars
    BY <2>6 DEF vars, envVars, ClockIsAhead
  <2> QED
    BY <2>1, <2>2, <2>3, <2>4, <2>5, <2>6
    DEF Next, ReceiveEvent, Environment, Start, StartWith, StartFails, Stop, Tick, SendAck,
        OnDecommission, Relinquish, OnServerTime, ConnectionEnds, Crash,
        DamageFile, Unlock, envVars, ExitsAs
<1> QED BY <1>1, <1>2, PTL DEF Spec

(* A tick that leaves the machine usable does so before the deadline.      *)
THEOREM NoTickAllowsLate == ASSUME ~MayFallBehind PROVE Spec => AllowedInTime
PROOF
<1>1. TypeOK /\ SavedBeforeActing /\ ClockIsAhead /\ [Next]_vars
        => [AllowsInTime]_vars
  <2> SUFFICES ASSUME TypeOK, ClockIsAhead, Tick, Running', ~blocked'
               PROVE  real < mem'.session.expiresAt
    BY DEF AllowsInTime
  <2> DEFINE now == TrustedNow(guard, os, real)
             session == Advance(mem.session, now)
  <2>1. now \in Nat /\ now >= real
    BY DEF TrustedNow, TypeOK, Guard, ClockIsAhead
  <2>2. ~Exit
    BY ExitStops
  <2>3. /\ mem' = [mem EXCEPT !.session = session, !.hwm = now]
        /\ Allowed(session, now)
    BY <2>2 DEF Tick, ExitsAs
  <2>4. mem'.session = session
    BY <2>3 DEF TypeOK, AgentState
  <2>5. session \in Session
    BY <2>1, <2>3, AdvanceType DEF Allowed, IsActive, TypeOK, AgentState
  <2> QED
    BY <2>1, <2>3, <2>4, <2>5 DEF Allowed, Session, ClockIsAhead
<1> QED
  BY <1>1, InductiveInvariant, AheadInvariant, PTL DEF Spec, AllowedInTime

-----------------------------------------------------------------------------
(* The final warning.  It is what the warning state says, and none once    *)
(* the process is gone or the machine is released; the loop has not looked *)
(* at its deadline later than the mark of its clock.                       *)
Shown ==
  /\ Warned(warnings)
  /\ warnings.key # NoDeadline => Running /\ warnings.lastSeen <= guard.hwm
  /\ warnings.finalVisible => warnings.key # NoDeadline
  /\ finalWarning = IF Running /\ ~relinquished /\ warnings.finalVisible
                THEN warnings.key ELSE NoDeadline

(* A new process, and one that is gone, have nothing visible.              *)
LEMMA NothingVisible ==
  Warned(NoWarnings) /\ ~NoWarnings.finalVisible /\ NoWarnings.key = NoDeadline
BY DEF Warned, NoWarnings

(* A tick shows and takes down what it decided.                            *)
LEMMA TickShows ==
  ASSUME TypeOK, Shown, Tick, Running'
  PROVE  Shown'
PROOF
<1> DEFINE now == TrustedNow(guard, os, real)
           session == Advance(mem.session, now)
           down == Dismisses(warnings, session, now)
<1>1. /\ Running /\ ~relinquished /\ ~relinquished'
      /\ warnings' = Reconcile(warnings, session, now)
      /\ guard' = NewGuard(now, real)
      /\ finalWarning' = IF LevelRaised(warnings, session, now) = FinalLevel
                     THEN DeadlineOf(session)
                   ELSE IF down THEN NoDeadline ELSE finalWarning
  BY ExitStops DEF Tick, ExitsAs
<1>2. /\ now \in Nat /\ now >= guard.hwm /\ guard.hwm \in Nat
      /\ mem.session \in Session \cup {NoSession} /\ warnings \in Warnings
  BY TrustedNowBound DEF TypeOK, AgentState, Guard
<1>3. session \in Session \cup {NoSession}
  BY <1>2, AdvanceType
<1> HIDE DEF session, now
<1>4. DeadlineOf(session) \in Deadline \cup {NoDeadline}
  BY <1>3, DeadlineOfType
<1>5. Warned(warnings') /\ (warnings'.key # NoDeadline => warnings'.lastSeen = now)
  <2>1. warnings.key # NoDeadline => warnings.lastSeen <= now
    BY <1>2 DEF Shown, Warnings, Warned, Never
  <2> QED BY <1>1, <1>2, <1>3, <1>4, <2>1, WarnedStays DEF Shown
<1>8. guard'.hwm = now
  BY <1>1, <1>2, NewGuardType DEF TypeOK
<1>6. /\ LevelRaised(warnings, session, now) = FinalLevel =>
           warnings'.finalVisible /\ warnings'.key = DeadlineOf(session)
      /\ LevelRaised(warnings, session, now) # FinalLevel =>
           (warnings'.finalVisible <=> warnings.finalVisible /\ ~down)
      /\ LevelRaised(warnings, session, now) # FinalLevel /\ warnings'.finalVisible =>
           warnings'.key = warnings.key
      /\ warnings'.finalVisible => warnings'.key # NoDeadline
  BY <1>1, <1>2, <1>4, FinalOutcome DEF Shown
<1> HIDE DEF down
<1>7. finalWarning' = IF warnings'.finalVisible THEN warnings'.key ELSE NoDeadline
  BY <1>1, <1>6 DEF Shown
<1> QED BY <1>1, <1>2, <1>5, <1>6, <1>7, <1>8 DEF Shown

(* So does every step that ends the process, starts one or releases.       *)
LEMMA ShownStep ==
  ASSUME TypeOK, Shown, [Next]_vars
  PROVE  Shown'
PROOF
<1> USE AgentAssumption
<1>0. guard.hwm \in Nat /\ (warnings.key # NoDeadline => warnings.lastSeen \in Int)
  BY DEF TypeOK, Guard, Warnings, Never
<1>1. ASSUME UNCHANGED <<proc, relinquished, warnings, finalWarning>>,
             guard'.hwm \in Nat, guard'.hwm >= guard.hwm
      PROVE  Shown'
  BY <1>0, <1>1 DEF Shown, Running, Warned
<1>10. ASSUME UNCHANGED <<proc, relinquished, warnings, finalWarning, guard>>
       PROVE  Shown'
  BY <1>0, <1>1, <1>10
<1>2. ASSUME Exit PROVE Shown'
  BY <1>2, NothingVisible DEF Exit, Shown, Running
<1>3. CASE Tick
  <2>1. Running' \/ Exit
    BY <1>3 DEF Tick, Running, ExitsAs
  <2> QED BY <1>2, <1>3, <2>1, TickShows
<1>4. CASE Start
  <2>1. ~Running /\ warnings' = NoWarnings /\ finalWarning' = finalWarning
    BY <1>4 DEF Start, StartWith, Running
  <2> QED BY <2>1, NothingVisible DEF Shown
<1>5. CASE OnDecommission
  <2>1. CASE ExitsAs("failed")
    BY <1>2, <2>1 DEF ExitsAs
  <2>2. CASE Relinquish
    BY <2>2 DEF Relinquish, Shown, Running
  <2> QED BY <1>5, <2>1, <2>2 DEF OnDecommission
<1>6. ASSUME NEW s \in Session \cup {NoSession}, NEW t \in Nat, OnSessionState(s, t)
      PROVE  Shown'
  <2> DEFINE clock == Resync(guard, MessageTime(s, t), real)
  <2>1. CASE ExitsAs("failed")
    BY <1>2, <2>1 DEF ExitsAs
  <2>2. CASE ~ExitsAs("failed")
    <3>1. UNCHANGED <<proc, relinquished, warnings, finalWarning>> /\ guard' = clock
      BY <1>6, <2>2 DEF OnSessionState
    <3>2. clock.hwm \in Nat /\ clock.hwm >= guard.hwm
      BY NoSessionAssumption, ResyncBound DEF TypeOK, Guard, MessageTime, Session
    <3> QED BY <1>1, <3>1, <3>2
  <2> QED BY <2>1, <2>2
<1>7. CASE Stop \/ Crash
  BY <1>2, <1>7 DEF Stop, Crash, ExitsAs
<1>8. ASSUME NEW i \in Identity, Enroll(i) PROVE Shown'
  BY <1>8, <1>10 DEF Enroll, loopVars
<1>9. ASSUME \/ SendAck \/ ConnectionEnds \/ DamageFile \/ Unlock \/ PassTime
             \/ StartFails
             \/ \E t \in Nat : SetClock(t)
             \/ UNCHANGED vars
      PROVE  Shown'
  BY <1>9, <1>10
  DEF SendAck, ConnectionEnds, DamageFile, Unlock, PassTime, StartFails, SetClock,
      vars, loopVars
<1>11. ASSUME NEW t \in Nat, OnServerTime(t) PROVE Shown'
  <2>1. /\ Resync(guard, t, real).hwm \in Nat
        /\ Resync(guard, t, real).hwm >= guard.hwm
    BY ResyncBound DEF TypeOK, Guard
  <2> QED BY <1>1, <1>11, <2>1 DEF OnServerTime
<1>12. /\ Receivable \subseteq Session /\ 0 .. real \subseteq Nat /\ real \in Nat
       /\ 0 .. MaxTime \subseteq Nat
  BY DEF Receivable, Session, TypeOK
<1> QED
  BY <1>3, <1>4, <1>5, <1>6, <1>7, <1>8, <1>9, <1>11, <1>12
  DEF Next, ReceiveEvent, Environment

LEMMA ShownInvariant == Spec => []Shown
PROOF
<1>1. Init => Shown
  BY NothingVisible DEF Init, Shown
<1>2. TypeOK /\ Shown /\ [Next]_vars => Shown'
  BY ShownStep
<1> QED BY <1>1, <1>2, InductiveInvariant, PTL DEF Spec

(* The final warning the agent has up is never about a deadline that was   *)
(* changed, had passed or was released when the loop last looked.          *)
THEOREM WarningStaysCurrent == Spec => []WarningIsCurrent
PROOF
<1>1. Shown => WarningIsCurrent
  BY DEF Shown, Warned, Left, WarningIsCurrent
<1> QED BY <1>1, ShownInvariant, PTL

(* Within the final seconds the final warning is up, however the agent     *)
(* came to be there: by waiting, late, or by a change of the deadline.     *)
THEOREM NobodyUnannounced == Spec => []FinalWarningUp
PROOF
<1>1. Shown => FinalWarningUp
  <2> SUFFICES ASSUME Shown, Running, ~relinquished, warnings.key # NoDeadline,
                      Left(warnings) \in 1 .. FinalSeconds
               PROVE  finalWarning = warnings.key
    BY DEF FinalWarningUp, Left
  <2>1. Left(warnings) > 0 /\ Left(warnings) <= FinalSeconds
    BY ThresholdAssumption
  <2>2. warnings.finalVisible
    BY <2>1 DEF Shown, Warned
  <2> QED BY <2>2 DEF Shown
<1> QED BY <1>1, ShownInvariant, PTL

-----------------------------------------------------------------------------
(* The agent implements Relinquishment.  A stopped agent answers for its   *)
(* file; that a running one agrees with it makes a start a stutter, and    *)
(* every death a stutter or, with the file damaged meanwhile, a Forget.    *)

(* The end of a process maps to a stutter, a lock or a loss of the file.   *)
LEMMA ExitMaps ==
  ASSUME TypeOK, SavedBeforeActing, Running, Exit,
         disk' = disk \/ (disk' = mem /\ mem \in AgentState)
  PROVE  \/ holder' = holder /\ released' = released
         \/ holder' = NoIdentity /\ released' = FALSE
PROOF
<1>1. ~Running'
  BY ExitStops
<1>2. holder = mem.creds /\ released = relinquished
  BY DEF holder, released
<1>3. CASE disk' \in AgentState
  <2>1. disk'.creds = mem.creds /\ disk'.decommissioned = relinquished
    BY <1>3 DEF SavedBeforeActing
  <2>2. holder' = disk'.creds
    BY <1>1, <1>3 DEF holder
  <2>3. released' = disk'.decommissioned
    <3>1. disk'.decommissioned \in BOOLEAN
      BY <1>3 DEF AgentState
    <3> QED BY <1>1, <1>3, <3>1 DEF released
  <2> QED BY <1>2, <2>1, <2>2, <2>3
<1>4. CASE disk' \notin AgentState
  BY <1>1, <1>4 DEF holder, released
<1> QED BY <1>3, <1>4

(* Every step maps to a step of Relinquishment or to a stutter.            *)
LEMMA PromiseStep ==
  ASSUME TypeOK, SavedBeforeActing, [Next]_vars
  PROVE  [Promise!Next]_<<holder, released, acked, used, locked>>
PROOF
<1> DEFINE Goal == [Promise!Next]_<<holder, released, acked, used, locked>>
<1> USE AgentAssumption
<1>1. released \in BOOLEAN
  BY DEF released, TypeOK, AgentState
<1>2. ASSUME UNCHANGED <<disk, proc, relinquished, acked, used, locked>>,
             mem'.creds = mem.creds
      PROVE  Goal
  BY <1>2 DEF holder, released, Running
<1>3. ASSUME Running, Exit, disk' = disk \/ (disk' = mem /\ mem \in AgentState),
             UNCHANGED <<acked, used, locked>>
      PROVE  Goal
  BY <1>3, ExitMaps DEF Promise!Next, Promise!Forget
<1>4. ASSUME NEW i \in Identity, Enroll(i) PROVE Goal
  <2>1. LoadForEnroll \in AgentState
    BY DefaultStateType DEF LoadForEnroll, TypeOK
  <2>2. /\ Enrolled(LoadForEnroll, i) \in AgentState
        /\ Enrolled(LoadForEnroll, i).creds = i
        /\ Enrolled(LoadForEnroll, i).decommissioned = FALSE
    BY <2>1 DEF Enrolled, AgentState
  <2>3. /\ i \notin used /\ used' = used \cup {i} /\ ~Running /\ ~Running'
        /\ UNCHANGED <<acked, locked>>
    BY <1>4 DEF Enroll, Running, loopVars
  <2>4. CASE disk' = Enrolled(LoadForEnroll, i)
    <3>1. holder' = i /\ released' = FALSE
      BY <2>2, <2>3, <2>4 DEF holder, released
    <3> QED BY <2>3, <3>1 DEF Promise!Next, Promise!TakeUp
  <2>5. CASE disk' = IF disk = Corrupt THEN Absent ELSE disk
    <3>1. holder' = holder /\ released' = released
      BY <2>3, <2>5 DEF holder, released
    <3> QED BY <2>3, <3>1 DEF Promise!Next, Promise!TakeUp
  <2> QED BY <1>4, <2>4, <2>5 DEF Enroll
<1>5. CASE Start
  <2>1. /\ disk \in AgentState /\ ~Running /\ Running' /\ mem' = disk
        /\ relinquished' = disk.decommissioned
        /\ UNCHANGED <<acked, used, locked>>
    BY <1>5 DEF Start, StartWith, Startable, Running
  <2>2. disk.decommissioned \in BOOLEAN
    BY <2>1 DEF AgentState
  <2>3. holder' = holder
    BY <2>1 DEF holder
  <2>4. released' = released
    BY <2>1, <2>2 DEF released
  <2> QED BY <2>1, <2>3, <2>4
<1>6. CASE Stop
  BY <1>3, <1>6 DEF Stop, TypeOK, ExitsAs
<1>7. CASE Tick
  <2>1. Running /\ ~relinquished /\ UNCHANGED <<acked, used>> /\ locked' \in {locked, TRUE}
    BY <1>7 DEF Tick, TypeOK, ExitsAs
  <2>2. holder = mem.creds /\ holder # NoIdentity /\ ~released
    BY <2>1 DEF holder, released, SavedBeforeActing
  <2>3. CASE Exit /\ UNCHANGED disk
    <3>1. \/ holder' = holder /\ released' = released
          \/ holder' = NoIdentity /\ released' = FALSE
      BY <2>1, <2>3, ExitMaps
    <3> QED
      BY <1>1, <2>1, <2>2, <3>1
      DEF Promise!Next, Promise!Lock, Promise!Forget, Promise!LockAndForget
  <2>4. CASE ~(Exit /\ UNCHANGED disk)
    <3>1. /\ proc' = proc /\ relinquished' = relinquished
          /\ mem' = [mem EXCEPT !.session = Advance(mem.session,
                                                    TrustedNow(guard, os, real)),
                                !.hwm = TrustedNow(guard, os, real)]
      BY <1>7, <2>4 DEF Tick, ExitsAs
    <3>2. mem'.creds = mem.creds
      BY <3>1 DEF TypeOK, AgentState
    <3>3. holder' = holder /\ released' = released
      BY <2>1, <3>1, <3>2 DEF holder, released, Running
    <3> QED BY <2>1, <2>2, <3>3 DEF Promise!Next, Promise!Lock
  <2> QED BY <2>3, <2>4
<1>8. CASE SendAck
  <2>1. /\ Running /\ ackRequested /\ acked' = acked \cup {mem.creds}
        /\ UNCHANGED <<disk, proc, mem, relinquished, used, locked>>
    BY <1>8 DEF SendAck, Receives, loopVars
  <2>2. holder = mem.creds /\ holder # NoIdentity /\ released
    BY <2>1 DEF holder, released, SavedBeforeActing
  <2>3. holder' = holder /\ released' = released
    BY <2>1 DEF holder, released, Running
  <2> QED BY <2>1, <2>2, <2>3 DEF Promise!Next, Promise!Acknowledge
<1>9. CASE OnDecommission
  <2>1. Running /\ ~relinquished /\ UNCHANGED <<acked, used, locked>>
    BY <1>9 DEF OnDecommission, Receives, Relinquish, ExitsAs
  <2>2. CASE Exit /\ UNCHANGED disk
    BY <1>3, <2>1, <2>2
  <2>3. CASE ~(Exit /\ UNCHANGED disk)
    <3>1. proc' = proc /\ relinquished' = TRUE /\ mem' = AcceptedState
      BY <1>9, <2>3 DEF OnDecommission, Relinquish, ExitsAs
    <3>2. mem'.creds = mem.creds
      BY <3>1 DEF AcceptedState, TypeOK, AgentState
    <3>3. holder' = holder /\ holder # NoIdentity /\ ~released /\ released' = TRUE
      BY <2>1, <3>1, <3>2 DEF holder, released, Running, SavedBeforeActing
    <3> QED BY <2>1, <3>3 DEF Promise!Next, Promise!Release
  <2> QED BY <2>2, <2>3
<1>10. ASSUME NEW session, NEW t, OnSessionState(session, t) PROVE Goal
  <2>1. Running /\ UNCHANGED <<acked, used, locked>>
    BY <1>10 DEF OnSessionState, Receives, ExitsAs
  <2>2. CASE Exit /\ UNCHANGED disk
    BY <1>3, <2>1, <2>2
  <2>3. CASE ~(Exit /\ UNCHANGED disk)
    <3> DEFINE time == MessageTime(session, t)
    <3>1. /\ proc' = proc /\ relinquished' = relinquished
          /\ mem' = [mem EXCEPT !.session = session, !.lastAppliedAt = time,
                                !.hwm = Resync(guard, time, real).hwm]
      BY <1>10, <2>3 DEF OnSessionState, ExitsAs
    <3>2. mem'.creds = mem.creds
      BY <3>1 DEF TypeOK, AgentState
    <3>3. holder' = holder /\ released' = released
      BY <2>1, <3>1, <3>2 DEF holder, released, Running
    <3> QED BY <2>1, <3>3
  <2> QED BY <2>2, <2>3
<1>11. ASSUME NEW t, OnServerTime(t) PROVE Goal
  <2>1. /\ UNCHANGED <<disk, proc, relinquished, acked, used, locked>>
        /\ mem' = [mem EXCEPT !.hwm = Resync(guard, t, real).hwm]
    BY <1>11 DEF OnServerTime
  <2>2. mem'.creds = mem.creds
    BY <2>1 DEF TypeOK, AgentState
  <2> QED BY <1>2, <2>1, <2>2
<1>12. CASE ConnectionEnds \/ PassTime \/ StartFails
  BY <1>2, <1>12 DEF ConnectionEnds, PassTime, StartFails, loopVars, envVars
<1>13. CASE Crash
  BY <1>3, <1>13 DEF Crash, ExitsAs
<1>14. CASE DamageFile
  <2>1. /\ disk \in AgentState /\ disk' \notin AgentState
        /\ UNCHANGED <<proc, mem, relinquished, acked, used, locked>>
    BY <1>14 DEF DamageFile, loopVars
  <2>2. CASE Running
    <3>1. holder' = holder /\ released' = released
      BY <2>1, <2>2 DEF holder, released, Running
    <3> QED BY <2>1, <3>1
  <2>3. CASE ~Running
    <3>1. holder' = NoIdentity /\ released' = FALSE
      BY <2>1, <2>3 DEF holder, released, Running
    <3> QED BY <2>1, <3>1 DEF Promise!Next, Promise!Forget
  <2> QED BY <2>2, <2>3
<1>15. CASE Unlock
  <2>1. holder' = holder /\ released' = released
    BY <1>15 DEF Unlock, loopVars, holder, released, Running
  <2> QED
    BY <1>15, <2>1 DEF Unlock, Promise!Next, Promise!Unlock
<1>16. ASSUME NEW t, SetClock(t) PROVE Goal
  BY <1>2, <1>16 DEF SetClock, loopVars
<1>17. CASE UNCHANGED vars
  BY <1>2, <1>17 DEF vars, loopVars
<1> QED
  BY <1>4, <1>5, <1>6, <1>7, <1>8, <1>9, <1>10, <1>11, <1>12, <1>13, <1>14,
     <1>15, <1>16, <1>17
  DEF Next, ReceiveEvent, Environment

(* No crash, failed save, restart or message makes the agent break its     *)
(* promise: it locks under an enrollment it holds, acknowledges only what  *)
(* it has durably released, and takes a release back for none.             *)
THEOREM AgentKeepsPromise == Spec => KeepsPromise
PROOF
<1>1. Init => Promise!Init
  BY AgentAssumption DEF Init, Promise!Init, holder, released, Running
<1>2. TypeOK /\ SavedBeforeActing /\ [Next]_vars
        => [Promise!Next]_<<holder, released, acked, used, locked>>
  BY PromiseStep
<1>3. Promise!vars = <<holder, released, acked, used, locked>>
  BY DEF Promise!vars
<1> QED
  BY <1>1, <1>2, InductiveInvariant, PTL
  DEF Spec, KeepsPromise, Promise!Spec, Promise!vars
=============================================================================
