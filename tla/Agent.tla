------------------------------- MODULE Agent -------------------------------
(***************************************************************************)
(* The agent process (agent/src/main.rs) over its state file               *)
(* (agent/src/storage.rs): the run loop's select branches, its start and   *)
(* its ends, the enroll command, and the moments at which each touches the *)
(* disk.  The connection task (agent/src/client.rs) appears as the source  *)
(* of the events the loop receives and as the carrier of the               *)
(* acknowledgement; Removal composes it with the server.                   *)
(*                                                                         *)
(* The environment: real time, which is also the server's clock; the OS    *)
(* wall clock, which may be set; a user who signs back in; faults.  A      *)
(* handler is one step unless it can fail half-way, when each outcome is a *)
(* disjunct.                                                               *)
(***************************************************************************)
EXTENDS ExpiryWarnings

CONSTANTS Identity,      \* machine credentials ever issued
          NoIdentity,    \* Option::None of the credentials
          Absent,        \* no state file
          Corrupt,       \* a state file that does not parse
          MaxTime,       \* bound of both clocks
          MaxFaults,     \* bound of exits, failed saves and file damage
          MaxClockSteps, \* bound of the times the OS clock is set
          MayFallBehind  \* whether it may be set behind real time

VARIABLES
  disk,         \* state.json
  proc,         \* the service: "stopped" or "running"
  expected,     \* it runs, or the service manager will start it again
  mem,          \* `state` of run(): the loop's copy of the file
  guard,        \* `clock`: the ClockGuard
  blocked,      \* `currently_blocked`
  relinquished, \* `decommissioned`: the loop's own flag
  warnings,     \* `warnings`: ExpiryWarnings
  ackRequested, \* an AckDecommission command was sent to the client task
  eventsClosed, \* `events_closed`: the client task has ended
  acked,        \* identities whose acknowledgement went to the server
  used,         \* identities handed out by enrollment
  locked,       \* the desktop is locked
  finalWarning, \* the final warning this process can take down, or NoDeadline
  real,         \* real time; Instant and the server's clock
  os,           \* Utc::now() of this machine
  faults,       \* faults so far
  clockSteps    \* times the OS clock was set so far

loopVars == <<proc, expected, mem, guard, blocked, relinquished, warnings,
              ackRequested, eventsClosed>>
envVars == <<real, os, faults, clockSteps>>
vars == <<disk, loopVars, acked, used, locked, finalWarning, envVars>>

(* AgentState of storage.rs.                                               *)
AgentState == [creds : Identity \cup {NoIdentity}, decommissioned : BOOLEAN,
               session : Session \cup {NoSession},
               lastAppliedAt : Nat, hwm : Nat]

ASSUME AgentAssumption ==
  /\ NoIdentity \notin Identity
  /\ Absent \notin AgentState /\ Corrupt \notin AgentState /\ Absent # Corrupt
  /\ {MaxTime, MaxFaults, MaxClockSteps} \subseteq Nat
  /\ MayFallBehind \in BOOLEAN

(* AgentState::default(), also standing for the memory of no process.      *)
DefaultState(now) == [creds |-> NoIdentity, decommissioned |-> FALSE,
                      session |-> NoSession, lastAppliedAt |-> now, hwm |-> now]

Init ==
  /\ disk = Absent
  /\ proc = "stopped" /\ expected = FALSE
  /\ mem = DefaultState(0)
  /\ guard = NewGuard(0, 0)
  /\ blocked = TRUE
  /\ relinquished = FALSE
  /\ warnings = NoWarnings
  /\ ackRequested = FALSE
  /\ eventsClosed = FALSE
  /\ acked = {} /\ used = {}
  /\ locked = FALSE
  /\ finalWarning = NoDeadline
  /\ real = 0 /\ os = 0
  /\ faults = 0 /\ clockSteps = 0

Running == proc = "running"

(* The process is gone: its memory with it, the handle of a final warning  *)
(* too; the file and the lock stay.  What a warning it did not take down   *)
(* does on the desktop is Notifier's.                                      *)
Exit ==
  /\ proc' = "stopped"
  /\ mem' = DefaultState(0)
  /\ guard' = NewGuard(0, 0)
  /\ blocked' = TRUE
  /\ relinquished' = FALSE
  /\ warnings' = NoWarnings
  /\ ackRequested' = FALSE
  /\ eventsClosed' = FALSE
  /\ finalWarning' = NoDeadline

(* Every manager restarts what was killed and none what it stopped; run    *)
(* that returns an error is restarted by systemd and launchd, but not by   *)
(* Windows, to which it is reported with exit code 0.                      *)
Restarts(outcome) == IF outcome = "failed" THEN BOOLEAN ELSE {outcome = "killed"}

ExitsAs(outcome) == Exit /\ expected' \in Restarts(outcome)

Fault == faults < MaxFaults /\ faults' = faults + 1

-----------------------------------------------------------------------------
(* The enroll command and the start of run().                              *)

(* load_for_enroll: an unreadable file is set aside, a missing one is blank.*)
LoadForEnroll == IF disk \in {Absent, Corrupt} THEN DefaultState(os) ELSE disk

Enrolled(state, i) ==
  [state EXCEPT !.creds = i, !.decommissioned = FALSE, !.session = NoSession]

(* enroll.  The installers and docs/agent-install.md stop the service      *)
(* first.  Each enrollment yields a fresh secret.                          *)
Enroll(i) ==
  /\ proc = "stopped"
  /\ i \notin used
  /\ used' = used \cup {i}
  /\ \/ disk' = Enrolled(LoadForEnroll, i) /\ UNCHANGED faults
     \/ /\ Fault   \* the save fails; the unreadable file was already set aside
        /\ disk' = IF disk = Corrupt THEN Absent ELSE disk
  /\ UNCHANGED <<loopVars, acked, locked, finalWarning, real, os, clockSteps>>

(* run() up to its loop.  Who starts it -- the manager, the installer, an  *)
(* operator, a boot -- it cannot tell.                                     *)
Startable == IF disk \in AgentState THEN disk.creds # NoIdentity ELSE FALSE

StartWith(flag) ==
  /\ proc = "stopped"
  /\ Startable
  /\ proc' = "running" /\ expected' = TRUE
  /\ mem' = disk
  /\ guard' = NewGuard(disk.hwm, real)
  /\ blocked' = TRUE
  /\ warnings' = NoWarnings
  /\ relinquished' = flag
  /\ ackRequested' = flag
  /\ eventsClosed' = FALSE
  /\ UNCHANGED <<disk, acked, used, locked, finalWarning, envVars>>

Start == StartWith(disk.decommissioned)

(* A missing, unreadable or unenrolled file makes run() fail at once.      *)
StartFails ==
  /\ proc = "stopped"
  /\ ~Startable
  /\ expected' \in Restarts("failed")
  /\ UNCHANGED <<disk, proc, mem, guard, blocked, relinquished, warnings,
                 ackRequested, eventsClosed, acked, used, locked, finalWarning,
                 envVars>>

-----------------------------------------------------------------------------
(* Events of the connection task.                                          *)

Receives == Running /\ ~eventsClosed

(* (The slip: the countdown is left up.)                                   *)
RelinquishKeepingWarning ==
  /\ relinquished' = TRUE
  /\ ackRequested' = TRUE
  /\ UNCHANGED <<proc, expected, guard, blocked, warnings, eventsClosed, acked, used,
                 locked, finalWarning, envVars>>

(* accept_decommission persists, then takes the final warning down and     *)
(* releases the acknowledgement.                                           *)
Relinquish ==
  /\ relinquished' = TRUE
  /\ finalWarning' = NoDeadline
  /\ ackRequested' = TRUE
  /\ UNCHANGED <<proc, expected, guard, blocked, warnings, eventsClosed, acked, used,
                 locked, envVars>>

(* (The slip: the session of the enrollment that is over is kept.)         *)
AcceptedKeepingSession == [mem EXCEPT !.decommissioned = TRUE]

AcceptedState == [mem EXCEPT !.decommissioned = TRUE, !.session = NoSession]

(* (The slip: the flag never reaches the file.)                            *)
AcceptInMemory ==
  /\ Receives /\ ~relinquished
  /\ mem' = AcceptedState /\ UNCHANGED disk /\ Relinquish

OnDecommission ==
  /\ Receives /\ ~relinquished
  /\ \/ mem' = AcceptedState /\ disk' = AcceptedState /\ Relinquish
     \/ /\ Fault /\ ExitsAs("failed")
        /\ UNCHANGED <<disk, acked, used, locked, real, os, clockSteps>>

(* apply_server_message, then resync and save when it was applied.  A      *)
(* rejected message changes nothing.                                       *)
OnSessionState(session, serverTime) ==
  LET messageTime == MessageTime(session, serverTime)
      clock == Resync(guard, messageTime, real)
      applied == [mem EXCEPT !.session = session, !.lastAppliedAt = messageTime,
                             !.hwm = clock.hwm]
  IN /\ Receives /\ ~relinquished
     /\ IsNewer(messageTime, mem.lastAppliedAt)
     /\ \/ /\ mem' = applied /\ disk' = applied /\ guard' = clock
           /\ UNCHANGED <<proc, expected, blocked, relinquished, warnings, ackRequested,
                          eventsClosed, finalWarning, faults>>
        \/ Fault /\ ExitsAs("failed") /\ UNCHANGED disk
     /\ UNCHANGED <<acked, used, locked, real, os, clockSteps>>

(* ServerTime resyncs the clock; the mark is written by the next tick.     *)
OnServerTime(serverTime) ==
  LET clock == Resync(guard, serverTime, real)
  IN /\ Receives /\ ~relinquished
     /\ guard' = clock
     /\ mem' = [mem EXCEPT !.hwm = clock.hwm]
     /\ UNCHANGED <<disk, proc, expected, blocked, relinquished, warnings, ackRequested,
                    eventsClosed, acked, used, locked, finalWarning, envVars>>

(* The client task ends when the server closes with the finalized code.    *)
ConnectionEnds ==
  /\ Receives
  /\ eventsClosed' = TRUE
  /\ UNCHANGED <<disk, proc, expected, mem, guard, blocked, relinquished, warnings,
                 ackRequested, acked, used, locked, finalWarning, envVars>>

(* send_decommission_ack, on the command and again on every reconnect.     *)
SendAck ==
  /\ Receives /\ ackRequested
  /\ acked' = acked \cup {mem.creds}
  /\ UNCHANGED <<disk, loopVars, used, locked, finalWarning, envVars>>

-----------------------------------------------------------------------------
(* The tick: enforce first, then warn, then save.  Once relinquished it    *)
(* does nothing at all.  disable_usage is taken to lock the screen.        *)
Tick ==
  LET now == TrustedNow(guard, os, real)
      session == Advance(mem.session, now)
      ticked == [mem EXCEPT !.session = session, !.hwm = now]
  IN /\ Running /\ ~relinquished
     /\ locked' = (locked \/ ~Allowed(session, now))
     /\ \/ /\ mem' = ticked /\ disk' = ticked
           /\ guard' = NewGuard(now, real)
           /\ blocked' = ~Allowed(session, now)
           /\ warnings' = Reconcile(warnings, session, now)
           /\ finalWarning' =
                IF LevelRaised(warnings, session, now) = FinalLevel
                  THEN DeadlineOf(session)
                ELSE IF Dismisses(warnings, session, now)
                  THEN NoDeadline ELSE finalWarning
           /\ UNCHANGED <<proc, expected, relinquished, ackRequested, eventsClosed, faults>>
        \/ Fault /\ ExitsAs("failed") /\ UNCHANGED disk
     /\ UNCHANGED <<acked, used, real, os, clockSteps>>

(* The shutdown branch saves once more and takes the final warning down.   *)
(* It was asked for: whether or not the save succeeds, or the process is   *)
(* killed before, nobody starts it again.                                  *)
Stop ==
  /\ Running
  /\ Fault /\ ExitsAs("stopped")
  /\ disk' \in {mem, disk}
  /\ UNCHANGED <<acked, used, locked, real, os, clockSteps>>

-----------------------------------------------------------------------------
(* The environment.                                                        *)

(* Killed, by the power going too.                                         *)
Crash ==
  /\ Running
  /\ Fault /\ ExitsAs("killed")
  /\ UNCHANGED <<disk, acked, used, locked, real, os, clockSteps>>

DamageFile ==
  /\ disk \in AgentState
  /\ Fault
  /\ disk' = Corrupt
  /\ UNCHANGED <<loopVars, acked, used, locked, finalWarning, real, os, clockSteps>>

(* The user signs back in with the OS password.                            *)
Unlock ==
  /\ locked
  /\ locked' = FALSE
  /\ UNCHANGED <<disk, loopVars, acked, used, finalWarning, envVars>>

PassTime ==
  /\ real < MaxTime
  /\ real' = real + 1 /\ os' = os + 1
  /\ UNCHANGED <<disk, loopVars, acked, used, locked, finalWarning, faults, clockSteps>>

SetClock(t) ==
  /\ clockSteps < MaxClockSteps
  /\ clockSteps' = clockSteps + 1
  /\ t # os /\ (MayFallBehind \/ t >= real)
  /\ os' = t
  /\ UNCHANGED <<disk, loopVars, acked, used, locked, finalWarning, real, faults>>

(* Session rows a message received by now can carry.  Nobody reads the     *)
(* deadline of a session that is over, so one value stands for them all.   *)
Receivable ==
  {s \in [id : SessionId, expiresAt : 0 .. MaxTime, status : Status,
          updatedAt : 0 .. real] :
     IF s.status = "ACTIVE" THEN s.updatedAt < s.expiresAt ELSE s.expiresAt = 0}

ReceiveEvent ==
  \/ OnDecommission
  \/ \E session \in Receivable : OnSessionState(session, real)
  \/ \E serverTime \in 0 .. real :
       OnSessionState(NoSession, serverTime) \/ OnServerTime(serverTime)
  \/ ConnectionEnds

Environment ==
  \/ Crash \/ DamageFile \/ Unlock \/ PassTime
  \/ \E t \in 0 .. MaxTime : SetClock(t)

Next ==
  \/ \E i \in Identity : Enroll(i)
  \/ Start \/ StartFails \/ Stop \/ Tick \/ SendAck
  \/ ReceiveEvent
  \/ Environment

Spec == Init /\ [][Next]_vars

(* The service manager starts again what it is to, tokio's interval fires  *)
(* and time passes; no event ever has to arrive, and nobody to start what  *)
(* was stopped.                                                            *)
Restart == expected /\ Start

Fairness == WF_vars(Restart) /\ WF_vars(Tick) /\ WF_vars(PassTime)

FairSpec == Spec /\ Fairness

-----------------------------------------------------------------------------
TypeOK ==
  /\ disk \in AgentState \cup {Absent, Corrupt}
  /\ proc \in {"stopped", "running"}
  /\ mem \in AgentState
  /\ guard \in Guard /\ guard.anchor <= real
  /\ {expected, blocked, relinquished, ackRequested, eventsClosed, locked}
       \subseteq BOOLEAN
  /\ Running => expected
  /\ mem.decommissioned => mem.session = NoSession
  /\ disk \in AgentState /\ disk.decommissioned => disk.session = NoSession
  /\ warnings \in Warnings
  /\ acked \subseteq Identity /\ used \subseteq Identity
  /\ finalWarning \in Deadline \cup {NoDeadline}
  /\ {real, os, faults, clockSteps} \subseteq Nat

(* What the loop acts on is in the file already, but for a mark that the   *)
(* next tick writes: a process that dies at any instant restarts with the  *)
(* enrollment, the release and the session it acted on.                    *)
SavedBeforeActing ==
  Running =>
    /\ mem.creds # NoIdentity
    /\ mem.decommissioned = relinquished /\ ackRequested = relinquished
    /\ mem.hwm = guard.hwm
    /\ disk \in AgentState =>
         /\ disk.creds = mem.creds /\ disk.decommissioned = mem.decommissioned
         /\ disk.session = mem.session
         /\ disk.lastAppliedAt = mem.lastAppliedAt /\ disk.hwm <= mem.hwm

(* docs/offline-expiry.md: the mark, in the loop and in the file, is never *)
(* moved back, whatever the OS clock, the server and restarts do.          *)
MarkRises ==
  /\ {disk, disk'} \subseteq AgentState => disk'.hwm >= disk.hwm
  /\ Running /\ Running' => guard'.hwm >= guard.hwm
  /\ Running' /\ disk \in AgentState => guard'.hwm >= disk.hwm

HighWaterMarkNeverFalls == [][MarkRises]_vars

(* Stale-message protection: a session the file holds gives way only to a  *)
(* message newer than every one applied before, to its own expiry, or to   *)
(* the end of the enrollment -- also over crashes and failed saves.        *)
Replaces(old, new) ==
  \/ new.lastAppliedAt > old.lastAppliedAt
  \/ /\ new.lastAppliedAt = old.lastAppliedAt
     /\ \/ new.session = old.session
        \/ /\ IsActive(old.session)
           /\ new.session = [old.session EXCEPT !.status = "EXPIRED"]
        \/ new.session = NoSession /\ (new.decommissioned \/ new.creds # old.creds)

NeverReverts ==
  [][{disk, disk'} \subseteq AgentState => Replaces(disk, disk')]_vars

(* "Must make the machine unavailable at 18:00": a tick that leaves the    *)
(* machine usable does so before the deadline in real time, after restarts *)
(* and offline too, as long as the OS clock is not behind real time.       *)
AllowsInTime == Tick /\ Running' /\ ~blocked' => real < mem'.session.expiresAt

AllowedInTime == [][AllowsInTime]_vars

(* The final warning the agent has up is about the deadline last evaluated,*)
(* was a whole second away from it then, and comes down with the enrollment*)
(* (warning.rs, reconcile; accept_decommission).                           *)
WarningIsCurrent ==
  finalWarning # NoDeadline =>
    /\ Running /\ ~relinquished
    /\ finalWarning = warnings.key
    /\ WholeSeconds(finalWarning.expiresAt - warnings.lastSeen) > 0

(* Nobody is locked out unannounced: from an evaluation within the final   *)
(* seconds until the next one, the final warning is up.  (In the very last,*)
(* of which no whole second is left, it has come down: num_seconds.)       *)
FinalWarningUp ==
  /\ Running /\ ~relinquished
  /\ warnings.key # NoDeadline
  /\ warnings.lastSeen # Never
  /\ WholeSeconds(warnings.key.expiresAt - warnings.lastSeen) \in 1 .. FinalSeconds
  => finalWarning = warnings.key

-----------------------------------------------------------------------------
(* What the agent promises (Relinquishment): a running process answers for *)
(* what it accepted, a stopped one for what its file says.                 *)
holder == IF Running THEN mem.creds
          ELSE IF disk \in AgentState THEN disk.creds ELSE NoIdentity

released == IF Running THEN relinquished
            ELSE disk \in AgentState /\ disk.decommissioned

Promise == INSTANCE Relinquishment
             WITH holder <- holder, released <- released, acked <- acked,
                  used <- used, locked <- locked

(* Crashes, failed saves and restarts neither take a release back nor let  *)
(* an acknowledgement precede it; see Relinquishment.                      *)
KeepsPromise == Promise!Spec

Managed == disk \in AgentState /\ disk.creds # NoIdentity /\ ~disk.decommissioned

Overdue == Managed /\ IsActive(disk.session) /\ real >= disk.session.expiresAt

(* "The single most important invariant": a session that has run out locks *)
(* the machine though no message ever arrives and the agent is restarted,  *)
(* unless the server has replaced it, the enrollment is over, or the agent *)
(* has come to an end from which its service manager does not start it     *)
(* again: it was stopped or, under Windows, could not save.                *)
OverdueLocks ==
  \A l \in 1 .. MaxTime - 1 :
    Overdue /\ disk.lastAppliedAt = l
      ~> \/ locked
         \/ ~expected
         \/ ~Managed
         \/ disk.session = NoSession
         \/ disk.lastAppliedAt > l
=============================================================================
