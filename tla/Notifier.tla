------------------------------ MODULE Notifier ------------------------------
(***************************************************************************)
(* How an expiry warning reaches the screen: the run loop decides in a     *)
(* tick and sends effects to a thread (agent/src/main.rs), which hands     *)
(* them one by one to the platform's notifier (agent/src/platform/*.rs).   *)
(* A final warning is a process or a notification of the desktop session:  *)
(* it lives on its own, closes itself when its seconds are over, and the   *)
(* notifier keeps a handle to take it down.  The user may close it first.  *)
(*                                                                         *)
(* The three platforms differ in what the handle is and in how a call can  *)
(* fail; what they keep and do is the same.  Wording is left out.  Time is *)
(* real and trusted here: Agent has what a clock can do, and here only     *)
(* what a tick sees of it matters.                                         *)
(***************************************************************************)
EXTENDS ExpiryWarnings, Sequences, FiniteSets

CONSTANTS WarningName, \* what tells the final warnings on screen apart
          NoWarning,   \* the handle of no final warning
          Durations,   \* lengths a deadline is set to from now
          MaxTime,     \* bound of the clock and of deadlines
          MaxFaults    \* bound of kills and failed calls

ASSUME NotifierAssumption ==
  NoWarning \notin WarningName /\ Durations \subseteq Nat

VARIABLES
  now,
  session,   \* state.session: its deadline, or NoDeadline
  released,  \* state.decommissioned
  proc,      \* "running", "stopping" (the channel is closed) or "stopped"
  warnings,  \* the loop's ExpiryWarnings
  queue,     \* the channel to the thread
  doing,     \* the effect the thread is applying, or Idle
  handle,    \* final_warning: the warning the notifier can take down
  onScreen,  \* final warnings on screen
  faults     \* kills and failed calls so far

vars == <<now, session, released, proc, warnings, queue, doing, handle,
          onScreen, faults>>

Idle == [effect |-> "none"]

Init ==
  /\ now = 0 /\ session = NoDeadline /\ released = FALSE
  /\ proc = "running" /\ warnings = NoWarnings
  /\ queue = <<>> /\ doing = Idle
  /\ handle = NoWarning /\ onScreen = {}
  /\ faults = 0

Fault == faults < MaxFaults /\ faults' = faults + 1

-----------------------------------------------------------------------------
(* The run loop.                                                           *)

(* A session is started, extended, ended or replaced by the server; once   *)
(* decommissioned the loop ignores such messages.                          *)
OnSessionState ==
  /\ proc = "running" /\ ~released
  /\ session' \in {NoDeadline} \cup
       {[id |-> s, expiresAt |-> now + d] : s \in SessionId, d \in Durations}
  /\ session' # session
  /\ session' # NoDeadline => session'.expiresAt <= MaxTime
  /\ UNCHANGED <<now, released, proc, warnings, queue, doing, handle, onScreen, faults>>

(* The session as advance leaves it, as far as a warning can tell.         *)
Advanced ==
  IF session # NoDeadline /\ now < session.expiresAt
    THEN [id |-> session.id, expiresAt |-> session.expiresAt, status |-> "ACTIVE"]
    ELSE NoSession

Down(current) ==
  IF Dismisses(warnings, current, now) THEN <<[effect |-> "dismiss"]>> ELSE <<>>

(* (The slip: the warning of the deadline before this one.)                *)
RaiseOfOldKey(current) ==
  IF LevelRaised(warnings, current, now) = FinalLevel
    THEN <<[effect |-> "show", about |-> warnings.key,
            seconds |-> WholeSeconds(current.expiresAt - now)]>>
    ELSE <<>>

Raise(current) ==
  LET level == LevelRaised(warnings, current, now)
  IN CASE level = Silent -> <<>>
       [] level = FinalLevel ->
            <<[effect |-> "show", about |-> DeadlineOf(current),
               seconds |-> WholeSeconds(current.expiresAt - now)]>>
       [] level \in Silent + 1 .. FinalLevel - 1 -> <<[effect |-> "notify"]>>

(* What reconcile yields, in the order it pushes it (the slip: to show the *)
(* new warning before the old one is taken down).                          *)
EffectsShowFirst(current) == Raise(current) \o Down(current)

Effects(current) == Down(current) \o Raise(current)

Tick ==
  /\ proc = "running" /\ ~released
  /\ session' = DeadlineOf(Advanced)
  /\ warnings' = Reconcile(warnings, Advanced, now)
  /\ queue' = queue \o Effects(Advanced)
  /\ UNCHANGED <<now, released, proc, doing, handle, onScreen, faults>>

(* accept_decommission: the session is cleared, and whatever is on screen  *)
(* comes down (the slip: it does not).  Nothing ticks from then on.        *)
ReleaseQuietly ==
  /\ proc = "running" /\ ~released
  /\ released' = TRUE /\ session' = NoDeadline
  /\ UNCHANGED <<now, proc, warnings, queue, doing, handle, onScreen, faults>>

OnDecommission ==
  /\ proc = "running" /\ ~released
  /\ released' = TRUE /\ session' = NoDeadline
  /\ queue' = Append(queue, [effect |-> "dismiss"])
  /\ UNCHANGED <<now, proc, warnings, doing, handle, onScreen, faults>>

(* Shutting down closes the channel and waits for the thread, which goes   *)
(* through what was sent and then takes down what is left (the slip: it    *)
(* leaves it).                                                             *)
StopLeaving ==
  /\ proc = "running"
  /\ proc' = "stopping"
  /\ UNCHANGED <<now, session, released, warnings, queue, doing, handle, onScreen, faults>>

Stop ==
  /\ proc = "running"
  /\ proc' = "stopping"
  /\ queue' = Append(queue, [effect |-> "dismiss"])
  /\ UNCHANGED <<now, session, released, warnings, doing, handle, onScreen, faults>>

Stopped ==
  /\ proc = "stopping" /\ queue = <<>> /\ doing = Idle
  /\ proc' = "stopped"
  /\ UNCHANGED <<now, session, released, warnings, queue, doing, handle, onScreen, faults>>

(* The process dies, or run returns an error and does not wait: what was   *)
(* sent is lost, and the screen stays as it is.                            *)
Kill ==
  /\ proc # "stopped" /\ Fault
  /\ proc' = "stopped"
  /\ queue' = <<>> /\ doing' = Idle
  /\ UNCHANGED <<now, session, released, warnings, handle, onScreen>>

Start ==
  /\ proc = "stopped"
  /\ proc' = "running"
  /\ warnings' = NoWarnings /\ handle' = NoWarning
  /\ UNCHANGED <<now, session, released, queue, doing, onScreen, faults>>

-----------------------------------------------------------------------------
(* The thread.                                                             *)

Take ==
  /\ doing = Idle /\ queue # <<>>
  /\ doing' = Head(queue) /\ queue' = Tail(queue)
  /\ UNCHANGED <<now, session, released, proc, warnings, handle, onScreen, faults>>

Notify ==
  /\ doing.effect = "notify"
  /\ doing' = Idle
  /\ UNCHANGED <<now, session, released, proc, warnings, queue, handle, onScreen, faults>>

(* dismiss_final_warning gives up its handle and then uses it; on Linux no *)
(* desktop session, or a failing gdbus, leaves the warning up (the slip:   *)
(* the handle is dropped and never used).                                  *)
TakenDown ==
  /\ onScreen' = {w \in onScreen : w.name # handle}
  /\ faults' = faults

LeftUp ==
  /\ handle # NoWarning
  /\ Fault
  /\ onScreen' = onScreen

ForgetFinalWarning ==
  /\ handle' = NoWarning
  /\ UNCHANGED <<onScreen, faults>>

TakeDown ==
  /\ handle' = NoWarning
  /\ TakenDown \/ LeftUp

DismissFinalWarning ==
  /\ doing.effect = "dismiss"
  /\ TakeDown
  /\ doing' = Idle
  /\ UNCHANGED <<now, session, released, proc, warnings, queue>>

(* show_final_warning takes down the old warning and puts up the new one.  *)
Replace ==
  /\ doing.effect = "show"
  /\ TakeDown
  /\ doing' = [doing EXCEPT !.effect = "spawn"]
  /\ UNCHANGED <<now, session, released, proc, warnings, queue>>

(* The warning is put up, with the seconds that were left when it was      *)
(* decided on.  An id of Linux's notification that cannot be read is lost. *)
Spawn ==
  /\ doing.effect = "spawn"
  /\ \E name \in WarningName \ {w.name : w \in onScreen} :
       /\ onScreen' = onScreen \cup
            {[name |-> name, about |-> doing.about,
              closesAt |-> now + doing.seconds * PerSecond]}
       /\ \/ handle' = name /\ faults' = faults
          \/ handle' = handle /\ Fault
  /\ doing' = Idle
  /\ UNCHANGED <<now, session, released, proc, warnings, queue>>

(* Nobody is at the desktop, or the command does not start.                *)
NotShown ==
  /\ doing.effect = "spawn"
  /\ Fault
  /\ doing' = Idle
  /\ UNCHANGED <<now, session, released, proc, warnings, queue, handle, onScreen>>

-----------------------------------------------------------------------------
(* The desktop.                                                            *)

UserCloses ==
  /\ \E w \in onScreen : onScreen' = onScreen \ {w}
  /\ UNCHANGED <<now, session, released, proc, warnings, queue, doing, handle, faults>>

PassTime ==
  /\ now < MaxTime
  /\ now' = now + 1
  /\ onScreen' = {w \in onScreen : w.closesAt > now'}
  /\ UNCHANGED <<session, released, proc, warnings, queue, doing, handle, faults>>

Loop == OnSessionState \/ Tick \/ OnDecommission \/ Stop \/ Kill \/ Start

Thread ==
  Take \/ Notify \/ DismissFinalWarning \/ Replace \/ Spawn \/ NotShown
  \/ Stopped

Next == Loop \/ Thread \/ UserCloses \/ PassTime

Spec == Init /\ [][Next]_vars

-----------------------------------------------------------------------------
ShowEffect(kind) == [effect : {kind}, about : Deadline, seconds : Nat \ {0}]

Effect == [effect : {"dismiss", "notify"}] \cup ShowEffect("show")

(* The state has its types: what is decided, sent, applied and shown (the  *)
(* fields of main.rs and of the notifier).                                 *)
TypeOK ==
  /\ {now, faults} \subseteq Nat
  /\ session \in Deadline \cup {NoDeadline} /\ released \in BOOLEAN
  /\ proc \in {"running", "stopping", "stopped"}
  /\ warnings \in Warnings
  /\ queue \in Seq(Effect)
  /\ doing \in Effect \cup ShowEffect("spawn") \cup {Idle}
  /\ handle \in WarningName \cup {NoWarning}
  /\ \A w \in onScreen : w \in [name : WarningName, about : Deadline, closesAt : Nat]

Quiet == proc = "running" /\ queue = <<>> /\ doing = Idle

Decided == proc = "running" /\ ~released /\ warnings.finalVisible

(* Whatever is sent and however late the thread gets to it, a replaced     *)
(* final warning is off the screen when its replacement goes up: there is  *)
(* one, but for what each kill or failed call left there                   *)
(* (platform/mod.rs: show_final_warning replaces any already on screen).   *)
OneFinalWarning == Cardinality(onScreen) <= 1 + faults

(* When the thread has caught up, every final warning on screen is about   *)
(* the deadline the loop last decided on, but for what each kill or failed *)
(* call left there: none survives an extension, an early end or a          *)
(* decommission (warning.rs, reconcile; main.rs, accept_decommission).     *)
ScreenFollowsDecision ==
  Quiet =>
    Cardinality({w \in onScreen : ~(Decided /\ w.about = warnings.key)}) <= faults

(* When the thread has caught up and no call failed, the loop's belief     *)
(* that a final warning is visible is the notifier's: it holds the handle  *)
(* to take it down, and no other (final_visible against final_warning).    *)
BeliefsAgree ==
  Quiet /\ faults = 0 => (Decided <=> handle # NoWarning)

(* An agent that stopped left no countdown behind for a session nothing is *)
(* watching any more (main.rs, the end of the warnings thread).            *)
StoppedLeavesNothing == proc = "stopped" => Cardinality(onScreen) <= faults
=============================================================================
