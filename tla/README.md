# TLA+ specifications of Taymna

Taymna limits how long a computer may be used. An operator starts a session
for a machine on a dashboard; an API server keeps it and pushes it over a
WebSocket to an agent that runs as a system service on that machine; the agent
unlocks nothing by itself, it *locks* the screen whenever no session is active,
with or without a connection. These modules specify the parts of that program
whose correctness depends on the order of events: what a crash, a reconnect, a
clock that is set back, or two requests at once can do to it. They are written
from the source in `agent/` (Rust), `api/` and `web/` (TypeScript); paths below
are relative to the repository's root.

1. [Inventory](#1-inventory)
2. [Modules](#2-modules)
3. [Runs](#3-runs)
4. [Proofs](#4-proofs)
5. [Disagreements with the documentation](#5-disagreements-with-the-documentation)
6. [Not modelled, and what is next](#6-not-modelled-and-what-is-next)

## 1. Inventory

| Component | State it keeps | Operations | Talks to |
|---|---|---|---|
| **Agent session rules** `agent/src/session.rs` | none; pure | `apply_server_message` (stale-message test), `advance` (local expiry, Blocked or Allowed) | called by the run loop |
| **Agent state file and clock guard** `agent/src/storage.rs` | `state.json`: credentials, `decommissioned`, session, `last_applied_at`, high-water mark; in memory the mark and a monotonic anchor | `load`, `load_for_enroll`, `save`; `now`, `resync_from_server` | run loop, enroll command |
| **Agent run loop** `agent/src/main.rs` | a copy of the file, the guard, `currently_blocked`, `decommissioned`, the warning state | start, tick (2 s), the four server events, shutdown; the separate `enroll` command | client task by two channels, warnings thread by one |
| **Agent connection task** `agent/src/client.rs` | `ack_decommission`, backoff, the socket | connect, heartbeat, acknowledge, hand events on, close codes 4000-4003 | run loop, gateway |
| **Agent expiry warnings** `agent/src/warning.rs` | deadline last seen, level fired, time of the last look, whether the final countdown is up | `reconcile`, delivery by a notifier thread | run loop, desktop session |
| **Agent platform layer** `agent/src/platform/*` | the handle of the final warning | `disable_usage` (Windows: the console session; macOS: the one in front; Linux: all), `enable_usage`; `notify`, show and dismiss the final warning | the OS, the desktop session |
| **Service hosting** `agent/src/main.rs` | the stop signal; what the service manager makes of the process | `main`, the Windows service handler, SIGTERM, the shutdown branch, exit with or without an error | systemd, launchd, the Service Control Manager; run loop |
| **Gateway and registry** `api/src/modules/realtime/*` | sockets per machine, operator sockets | connect and authenticate (four awaits), message listener, disconnect; register, unregister, send, broadcast, disconnect | agents, operators, the services |
| **Machines service** `api/src/modules/machines/*` | rows of `Machine` and `EnrollmentToken` | create, rename, issue token, enroll, verify, heartbeat, revoke, request and finalize removal | gateway, PostgreSQL |
| **Sessions service and sweeper** `api/src/modules/sessions/*` | rows of `Session`; a partial unique index allows one ACTIVE row per machine | start, extend, end, `getActiveSession`, sweep (30 s) | gateway, PostgreSQL |
| **Usage reports** `api/src/modules/reports/*` | none; pure over session rows | cut sessions at a range and sum them | dashboard |
| **Operator authentication** `api/src/modules/auth/*` | operator rows, signed tokens | log in, change password, verify | dashboard, gateway |
| **Dashboard** `web/src/*` | react-query's list of machines, one socket, requests under way | fetch, merge pushes and answers, split usage into days, render | API, gateway |
| **Installers and deployment** `install/*`, `docker-compose.yml` | files of the service manager | stop the service, install, enroll, start, verify; restart on failure | the OS, the enroll command |

What makes each hard, and what makes it correct:

- **Agent.** The loop is sequential, but every handler touches the disk and can
  die before, while or after it does. Its clock is not trusted, its messages
  come reordered or not at all, and its file may be damaged. Correct means: what
  was acted on survives a restart; an older message never undoes a newer one;
  time never runs backwards; an expired session locks the machine without any
  help from outside; a release of the machine is final and never acknowledged
  before it is durable; the final countdown is up exactly for the deadline that
  is near.
- **Service hosting, platform layer, installers.** Two processes write one
  `state.json.tmp`: the run loop and the enroll command. Stops, kills, reboots
  and restarts come at any point of a save, and three service managers differ in
  what they restart and in what they call stopped. Correct means: a stop
  completes; the enrollment that was reported is the one that stays; the
  installer enrolls beside nobody; whoever the lock reaches is locked out as long
  as the loop says so, over restarts and reboots.
- **Gateway, registry, machines service, connection task.** One handshake is
  four awaits, and a second handshake, a disconnect, a removal request, a
  revocation and an acknowledgement may run between any two. Correct means: one
  authoritative socket per machine; the instruction to let go is never missed
  between a request and a greeting; the row is deleted only after the agent has
  let go, and then the agent goes silent.
- **Sessions service, sweeper.** A check is made on a row that was read before,
  the write is unconditional, and stamps are taken before commits. Correct
  means: never two active sessions; what is over stays over; what the operator
  did reaches the agent, pushed or by the next greeting.
- **Enrollment.** A token is read, hashes are computed for a while, and then the
  token is used up and the credential set; removal reads the credential and
  deletes later. Correct means: no computer is left under a credential that died
  without anyone meaning it to, and what was removed stays removed.
- **Reports.** A session has three ends and a report four borders, and the rows
  change while it is made. Correct means: the seconds reported are those in
  which the machine was usable.
- **Dashboard.** Lists, answers and pushes travel separately and overtake each
  other; pushes are lost while it is disconnected. Correct means: the cards end
  up agreeing with the database.
- **Authentication.** Checks without interesting state.

`PROJECT.json` lists every hazard with the line where it bites and the
properties that guard it.

## 2. Modules

```
SessionRules  <- ExpiryWarnings <- Agent <- AgentMC      (TLC)
     ^                               |  <- AgentProofs   (TLAPS)
     |             ^                 +- implements Relinquishment
     |             |
     |             +- Notifier <- NotifierMC
     |                         <- NotifierProofs
     +- Sessions <- SessionsMC
                 <- SessionsProofs
Hosting <- HostingMC
        <- HostingProofs
Removal <- RemovalMC,  Removal implements Handoff
        <- RemovalProofs
Enrollment <- EnrollmentMC
           <- EnrollmentProofs
Usage <- UsageMC
      <- UsageProofs
Dashboard <- DashboardMC
          <- DashboardProofs
```

**SessionRules** holds the agent's pure rules: the stale-message test
(`IsNewer`), the local expiry (`Advance`, `Allowed`) and `ClockGuard`. A guard
is the pair of the mark and the monotonic reading it was anchored at;
`TrustedNow` is `now`, whose assignment of mark and anchor `Agent` makes.

**ExpiryWarnings** is the decision `reconcile` makes in one tick. A level is a
number, in the order of the derived `Ord` of `Level`; wording and urgency of a
notification are left out. `last_seen` of a deadline never looked at is `Never`.
`WholeSeconds` is `num_seconds`, which cuts off what is left over a second
(`PerSecond` units): a deadline less than a second away counts as passed.

**Agent** is the run loop over its file. `disk` is `state.json`, `mem` the
loop's copy, `guard`, `blocked`, `relinquished` and `warnings` the loop's
variables (`clock`, `currently_blocked`, `decommissioned`, `warnings`). Every
branch of `select!` is an action: `Tick`, `OnDecommission`, `OnSessionState`,
`OnServerTime`, `ConnectionEnds`, `Stop`; `Enroll` and `Start` are the command
and the prologue of `run`. Where the code ends with `store.save(&state)?` the
action has a second disjunct in which the save fails and the process ends with
what it had done until then: the tick, for instance, has already locked the
screen. A message the stale-message test rejects changes nothing and has no
step of its own. The connection task appears as the source of events and as the
carrier of the acknowledgement. Around it are real time, an OS clock that can be
set, a user who signs back in, kills and file damage. `Restarts` is what the
service managers make of the end of the process: what was killed is started
again, what was stopped is not, and a loop that returned an error is by systemd
and launchd but not by Windows, to which it is reported as exit code 0
(`expected`). `disable_usage` is taken to lock the screen: that its call may
fail, and whom it reaches, is in `Hosting`. `finalWarning` is the final warning
this process has put up and can take down; what is on screen, later than it was
decided or left there by a process that was killed, is in `Notifier`.

**Notifier** is the way of a warning from that decision to the screen. The loop
appends effects to `queue`; the thread takes one at a time (`doing`) and calls
the platform. `onScreen` holds the final warnings of the desktop session, each
with the deadline it is `about` and the time it closes itself; `handle` is the
notifier's `final_warning`. The three platforms keep the same state and take the
same steps: a process killed on macOS and Windows, a notification closed over
D-Bus on Linux. `show_final_warning` is two steps, since the old warning is
gone before the new one is up. A call may fail (`LeftUp`, `NotShown`, an id that
cannot be read in `Spawn`) and the process may be killed; `faults` counts these.
Of the loop only the session's deadline is kept, and time is real. A thread that
panics while the loop goes on is left out: then nothing is shown any more, as the
code's comment says.

**Hosting** is the process of the run loop under its service manager, the
enroll command beside it, and the installer that stops, enrolls and starts.
`process[p]` is the stage of each, `creds[p]` the credential it has loaded or
been granted, `manager` what the service manager makes of the service, `signal`
the SIGTERM or `stop_tx` the loop has not taken up. A save is three steps,
`OpenTmp`, `WriteTmp` and `RenameTmp`; `file` gives what the two names hold and
`fd` where a process is writing, since a file that is renamed or moved aside is
still written by whoever has it open. Of the state only the credential is kept,
numbered by enrollment; the loop's decision is a free choice in `Tick`. What
differs between the platforms is in `Restarts`, `RequestStop`, `SeenStopped` and
`Reached`. systemd, launchd and the Service Control Manager are not in the
repository: they are modelled by the settings `install.sh` and `install.ps1` give
them (`Restart=on-failure`, `KeepAlive`, `sc failure`). Assumed of them:
`launchctl bootout` returns when the service has stopped, and what was written
before a power cut is on the disk (the code does not `fsync`). A decommissioned
machine, whose service is inert, and an agent run by hand in the foreground are
left out.

**Relinquishment** is what the agent promises: an enrollment is taken up once,
locks happen only under one that is held and not released, an acknowledgement
follows the release it is about, and only a new enrollment undoes a release.
`Agent` implements it with `holder` and `released` read from the loop while it
runs and from the file while it does not.

**Removal** composes the operator's removal request, the finalizer and
revocation, the gateway's handshake and listener, the registry, the network and
the agent's connection task, for one enrolled machine. Node runs a handler
undisturbed from one `await` to the next, so each database call and the code
after it are two actions: `gateway[s]` counts how far `authenticateAgent` has
come with socket `s`, `request[o]` how far `requestDecommission` has come.
`inbox` and `outbox` are the messages under way; a message that arrives before
the listener is attached is dropped, as `ws` does. A socket closed by the
server stays `closing` until `HandleDisconnect`, and a handler that is still
authenticating when its socket goes away carries on and registers it. A
heartbeat of a row that is gone rejects a promise nobody awaits, which ends
Node 24 and, under `restart: unless-stopped`, brings it back: `ApiEnds`. The
client's first heartbeat waits for the server's first message (`greeted`), the
acknowledgement it owes does not. Of the run loop only the acceptance of a decommission is kept, as one atomic step;
`Agent` has it in detail, and `AgentStops` covers its failing half.

**Handoff** is the lifecycle `docs/enrollment.md` describes: managed, pending,
removed, with a direct removal only when no usable credential exists.

**Sessions** is the sessions service of one machine up to what the agent holds.
Each handler is a chain of steps carrying the row it has read: `BeginStart`,
`IssueCreate`, `Insert`, `Push` (the initial state has no session, or one that
has just been started); `ReadSession`, `Refuse` or `IssueExtend` or
`IssueEnd`, then `Extend` or `End`, and `Push`. Prisma computes `updatedAt` when
the write is issued and PostgreSQL orders writes as they commit, so the two are
separate steps. The greeting is three steps, as in `getActiveSession` and the
lines after it. `channel` is the ordered connection; losing it loses what is in
it. The agent is the two rules of `SessionRules` it applies to messages.

**Enrollment** is the life of one machine's credential: `token[t]` is a row of
`EnrollmentToken`, `attempt[a]` the handler of one POST to `/machines/enroll`
(`posted`, then `valid` or `refused` once `findUnique` has answered, then
`granted`), `secret` and `revoked` the two credential columns, `request[o]` a
removal request between its read and its write. The machine secret is the
attempt that generated it. The computer holds the credential of its state file,
and its enroll command may stop waiting and try again (`GiveUp`) while the server
still works. The run loop is another process: it goes on with what it read when it
started (`loop`, `letGo`) and saves that (`Save`, `Stop`, `LetGo`), also over a
credential that an enroll command has saved beside it. The server asks for a
credential when a connection is opened (`Connect`) and not again, and `enroll` does
not close the old one, so an agent may be told to let go, and may acknowledge, over
a connection (`connected`) whose credential has been replaced. How connections
are opened and replaced in detail, and close codes, are in `Removal`. `raced` records
that an enrollment has overlapped another, a deletion already decided on or
acknowledged, or a run loop on the same computer (`Overlap`); the documents ask for
the agent to be stopped before it is enrolled again.

**Usage** has the session rows with three ends (`endedAt`, `expiresAt`, now), the
functions of `usage.ts` over them, the handler that takes `now` before it awaits
the rows, and `dailyUsage` of the dashboard over the answer. The rows are written
by the handlers of `sessions.service.ts` step by step, as in `Sessions`: a row is
read, checked against the clock, and updated by its id whatever it has become
meanwhile. Two histories record what happened, instant by instant and session by
session: `used` has the instants in which a session ran and no end of it was under
way, `usable` those in which it ran or was being created. `overtaken` has
the sessions with a write that came too late for the row it was checked against
(`LateExtension`, `LateEnd`). Time is in fractions of a second (`PerSecond`), so that
rounding is real, and `Midnights` need not be evenly spaced, as with days of 23 and 25
hours.

**Dashboard** has the machines table, handlers that write and then broadcast
(`unpublished` lies between the two), the socket and what is on it, and the
dashboard's cache: for each machine its cards, normally one. `read` holds the
requests answered with whole machines (`list`, rename or revoke, create), which
read the row first and the session later (`toDto`); `answers` the others. Every
handler may serve this dashboard or another. `misled` records the ways the cache
can be wrong for good, as the property's comment lists them; nothing in the
actions depends on it.

**AgentMC**, **NotifierMC**, **HostingMC**, **RemovalMC**, **SessionsMC**, **EnrollmentMC**, **UsageMC** and
**DashboardMC** instantiate these for TLC.
**AgentProofs**, **NotifierProofs**, **SessionsProofs**, **HostingProofs**,
**RemovalProofs**, **EnrollmentProofs**, **UsageProofs** and **DashboardProofs** hold
the theorems about the modules of those names. Each of the first two
has the lemmas about `ExpiryWarnings` that it needs.

Some modules carry operators whose comment calls them a slip, such as
`IsNewerOrSame` beside `IsNewer`: each is a plausible mistake in the code that a
property must detect, and `PROJECT.json` ("mutants") says which.

## 3. Runs

All times are small numbers; in `Agent` a unit is at least one tick. Where
`CHECK_DEADLOCK FALSE` is set the system really may come to rest: the bounds on
time, requests and faults are used up, or the machine is gone and its agent
stopped.

**agent** (`AgentMC.cfg`, about 630,000 states). One machine, two enrollments,
one session id, time up to 3, two faults (kill, failed save, damaged file or
stop), the OS clock set twice to any value not behind real time, thresholds 3,
2, 1 and a continuity gap of 1 so that each level, a late arrival and a
continuous countdown occur. Two faults are a file that is damaged and then a kill, or
a restart that fails again. A unit is a whole second or more here (`PerSecond` is 1);
fractions are in `notifier`. Fairness: `Restart`, which is a start of what is
`expected` to run (systemd's `Restart=on-failure`, launchd's `KeepAlive` and the
recovery action of Windows, each only for the ends it acts on), `Tick` (a tokio
interval) and the passing of time; no message ever has to arrive, and nobody has to
start what was stopped. Invariants: `TypeOK`; `WarningIsCurrent` and
`FinalWarningUp`, which together say that the final warning is up exactly for the
deadline last evaluated, while it is close; `SavedBeforeActing`. Properties:
`HighWaterMarkNeverFalls`, `NeverReverts`, `AllowedInTime` (no tick leaves the machine
usable past its deadline), `KeepsPromise` (the refinement) and `OverdueLocks` (a
session that has run out locks the machine, unless the server replaces it, the
enrollment ends, or the agent was stopped or has failed in a way its service manager
does not restart). One session id suffices: `apply_server_message` never compares
ids, and two deadlines of one session already exercise the keys of the warnings. Two
enrollments are what re-enrolling over a released or damaged file takes.

**agent_rollback** (`AgentRollback.cfg`, a violation). The OS clock may be set
behind real time and the loop is at its best (`PunctualSpec`: messages are
delivered at once, nothing moves before a tick has read it). See section 5.

**notifier** (`Notifier.cfg`, about 4,590,000 states). Two sessions, deadlines of three
and seven units in seven, two units to a second, two kills or failed calls, and a
channel in which three effects wait (`SentBound`): a dismissal, a show and another
dismissal, which is more than the thread can fall behind on one deadline. With two
units to a second the last of each deadline is one in which `num_seconds` says zero;
the first look at a deadline of seven, three whole seconds away, raises an ordinary
notice, and one of three, or a first look at two, the final countdown.
`OneFinalWarning`: at most one on screen, but for what each fault left there.
`ScreenFollowsDecision`: when the thread has caught up, what is on screen is about
the deadline of the last decision. `BeliefsAgree`: without a fault, the loop thinks
a final warning is up exactly when the notifier holds a handle; with the dismissal
sent after the show, for instance, the new warning would be the one taken down.
`StoppedLeavesNothing`: nor does a stop leave one. Names of warnings are
interchangeable, which the symmetry uses; four suffice for the three that can be up.

**hosting** (`Hosting.cfg`, about 481,000 states). The three platforms, an enrolled
machine with its service running or one without an agent, one more enrollment
(two for the latter), and two kills, reboots, stray signals, or failed calls and
saves. Two faults are a loop that has died and then an enrollment that fails, or
a save that fails and then a power cut. `EnrollmentKept`: the file holds the
enrollment that was last reported as successful, unless an enroll command ran
beside a live loop. `InstallerEnrollsAlone`: the installer has waited for the
last save of the loop it stopped; only the restart Windows has pending after a
crash can fall into its enrollment. `StopCompletes`, and `LocksWhoIsThere`:
whoever `disable_usage` reaches is locked out in the end, over kills, failed
calls and reboots, if the service was started and nothing has ended it for good;
an error exit on Windows and a SIGTERM from elsewhere under systemd do
(`expected`, section 5). Fairness: the process runs and is restarted (weak), and
`Tick` and `Shutdown` are strongly fair, since `select!` picks at random among
the branches that are ready and each of them is ready again and again between
saves. Calls that always fail, as on macOS without the Accessibility permission,
are excluded by the bound on faults.

**removal** (`RemovalMC.cfg`, about 160,000 states). Two connections at once,
one removal request, revocation allowed, one fault (lost connection, agent
killed, API restarted). Two sockets give a replacement that overlaps the
disconnect of its predecessor; slots are reused, so an agent reconnects any
number of times. `OpenIsRegistered`: an open, authenticated socket is the one in
the registry. `InstructionNotMissed`: a greeted agent of a pending machine has
the instruction, or it is under way. `HelloIsHeard`: the first heartbeat, which
carries the agent's version, is under way only when the server listens.
`RevokedIsDisconnected`: when `revokeCredential` returns no authenticated
connection is open; a handshake that had read the row before may still get in
afterwards (section 5). `KeepsLifecycle`: the refinement of `Handoff`.
`RequestReachesAgent` and `QuietAfterRemoval` are the liveness:
fairness is weak, on each handler that is already running, on the client task
(which retries without bound, `client.rs`), on the run loop and on the restart
of the agent; the operator never has to act and nothing has to fail. Two faults
were also run without error (about a million states, 3.4 minutes) and are left
out of the configuration for time.

**removal_ack_lost** (`RemovalAckLost.cfg`, a violation): see section 5.

**sessions** (`Sessions.cfg`, about 525,000 states). Two concurrent callers, two
requests on top of no session or one, two session ids, one lost connection, and a
duration short enough to run out on the way. `OneActive` and `OverStaysOver` are
the safety of the table. `EndReachesAgent`: an ended session is eventually off
the agent for good, whatever greetings and pushes overtake each other. Fairness:
handlers that have begun continue, the agent reconnects, receives and ticks. One
case is excepted, and TLC finds a counterexample without the exception: where an
end and an extension are concurrent, their `updatedAt` stamps may be in the other
order than their commits, and the agent takes the end for the older of the two
(`Outdated`). What the documents promise about it is not precise enough to call
it a divergence. Callers are interchangeable, but no symmetry is used, because
liveness is checked.

**delivery_null** (`DeliveryNull.cfg`, a violation): see section 5.

**usage** (`Usage.cfg`, about 4,760,000 states). Two callers, four requests, two sessions of
one or three units, two units to a second, days of two and three units, every range
within five units. `ReportMatchesHistory`: the total counts what had been used when
`now` was taken, and no more than was usable until the rows were read;
`RowsMatchHistory`: so does each listed session, and none that was used is missing;
`DaysMatchHistory`: so does each day in the range. The two bounds meet when nothing is
under way and no time passes between `now` and the rows. Excepted are writes that came
too late (`overtaken`): for the first and third any, for the second those to the
session itself. Without the exception TLC finds a report that counts time which has
not happened, and one that forgets a session's time (section 5). Four requests are a
start, two that overlap, and a start after them; two sessions give a neighbour and a
sum of halves, and since clipping treats each session alone a third adds nothing new. A
report changes nothing, so the state after one is examined but not continued
(`NotDone`).

**enrollment** (`Enrollment.cfg`, about 112,000 states). Two tokens, three
requests, two removal requests and the run loop: a request that is given up, its
successor and a re-enrollment after the machine was released. `StrandedOnlyByRace`: a
computer holds a dead credential that nobody revoked only if something overlapped as
`raced` says, or an answer was lost. Each of the three overlaps is needed: without any
one of them TLC finds a computer stranded, by two redemptions, by an enrollment during
a deletion, and by an enroll command beside a loop whose old connection acknowledges a
removal (or whose save puts the old credential back). `RemovedForGood`: enrolling never
revives a removed machine.

**enrollment_orphan** (a violation): see section 5.

**dashboard** (`Dashboard.cfg`, about 1,460,000 states). Two machines, two
changes of each session, at most three things under way at once (`Bounded`),
enough for a list, a push and an answer to meet in every order; two changes are
what it takes for one to be older. `ShowsServer`: once everything about a machine
has arrived, its card agrees with the database, unless the dashboard was misled.
States after that are not continued. Each way of being misled is needed: without
any one of them TLC finds a wrong card.

## 4. Proofs

`AgentProofs` proves, for every set of identities and session ids, all
thresholds and every bound on time, faults and clock steps (the assumptions
`AgentAssumption`, `ThresholdAssumption`, `NoSessionAssumption`, which only say
that numbers are natural, thresholds are ordered and the markers for "none" are
no values of the type they stand beside):

- `TypeCorrect` and `SavedBeforeActingHolds`. `TypeOK` alone is inductive up to
  one action: `SendAck` puts the loop's identity into `acked`, and that it is an
  identity at all follows from `SavedBeforeActing`, because `Start` refuses a file
  without credentials. So `InductiveInvariant` proves the two together, with
  `TypeStep` and `SavedStep`, one step per action. `SavedBeforeActing` survives
  the tick because disk and loop get the same value; it survives
  `OnServerTime`, which saves nothing, because it asks of the mark only that the
  file's is not larger, and `ResyncBound` says that a resync never lowers it.
- `MarkNeverFalls`: in the loop because `TrustedNow` and `Resync` are bounded
  below by the mark (`TrustedNowBound`, which needs that the anchor lies in the
  past, part of `TypeOK`); in the file because it is written from the loop only,
  whose mark is at least the file's.
- `StaleNeverApplies`: besides the invariant it needs `IdentitiesIssued`, that
  whatever identity the file or the loop has was issued, to tell a fresh
  enrollment from a session that vanished.
- `NoTickAllowsLate`, under `~MayFallBehind`: `ClockIsAhead` is invariant, and
  trusted time is then at least real time, also below the mark, which the OS
  clock has not reached.
- `WarningStaysCurrent` and `NobodyUnannounced`, on `Shown`: the agent has up what the
  warning state takes to be visible, and `Warned`: a deadline that is watched was
  ahead at the last look, and once it was within the final seconds its warning was
  raised and has not been dismissed. `WarnedStays` preserves it for any decision of
  `reconcile`: what is left of a deadline does not grow from one look to the next,
  also in whole seconds (`WholeSecondsGrow`), so a warning that has come down because
  nothing was left is not missed later.
- `AgentKeepsPromise`: the refinement of `Relinquishment`. `PromiseStep` maps
  each action; a start is a stutter because the file is what a stopped agent
  answers for, the death of a process is one because of `SavedBeforeActing`,
  and a process that dies over a damaged file maps to `Forget` or
  `LockAndForget`.

`NotifierProofs` proves, for all thresholds, durations and numbers of kills and
failed calls, and a queue of any length (`NotifierAssumption`: durations are numbers,
and no warning is named like the missing handle):

- `NeverTwoFinal`, on `Screen`: warnings have different names, so all but one are
  `Orphans`, which no handle names; and each orphan goes back to a fault, because the
  thread puts up a warning only after it has given up the handle of the one before.
- `DecisionReachesScreen`, on `Tracks`. It says of a queue with effects in it what it
  will come to: only its last show or dismissal counts (`Last`), behind it the effect
  being applied, behind that the screen, and whichever it is, it is what the loop has
  decided. `AppendEffect`, `AppendNotify` and `TakeHead` move an effect through it;
  `TickOutcome` compares what a tick sends with what it takes to be visible.
- `BeliefsStayTrue`, on `Believes`, the converse while no call fails.
- `StopCleansUp`, on `Gone`: a loop that stops sends a dismissal last, so `Tracks`
  leaves the handle without a warning; one that is killed leaves what its handle
  names, and that kill is a fault.
- `TypeCorrect`, by `TypeStep`, one step per variable.

`SessionsProofs` proves, for every set of callers and session ids, all positive
durations and every bound (`SessionsAssumption`: the marker for "no row" is no
row, durations are positive numbers, bounds are numbers):

- `TypeCorrect`. `TypeOK` is not inductive alone: `Extend` and `End` write back a
  row that has to be there, and `Insert` must not hit one that is. Hence
  `RowsExist` (who extends or ends has read a row, and rows are never deleted)
  and `FreshIds` (the id of a row about to be inserted is nobody else's).
  `HandlersStep`, `LinkStep` and `AgentStep` preserve the three groups of
  variables, with one step per action.
- `NeverTwoActive` and `OverForGood`, along one argument: `StepIsTableStep` shows
  that every step leaves the table, expires what is stale in it, inserts a row
  where none is active, or updates a row to its own status or to ENDED;
  `OneActiveStep` and `OverStep` then need no handler any more. `Spec` is without
  fairness, so both hold of `FairSpec` as well.

`HostingProofs` proves, for each platform and any number of enrollments and faults
(`HostingAssumption`: at least one enrollment, and the markers for a torn and an
absent file are no credentials):

- `FileKeepsEnrollment` needs to know what is in the temporary file when it is
  renamed. `LoopAlone` says that a loop that never had an enroll command beside it
  has loaded the reported credential, and that what it has written is that;
  `EnrollsAlone` says of an enroll command without a loop that what it has written
  is what it was granted. `EnrollmentKept` closes the circle, because it is what a
  loop loads. Whether two processes were beside each other depends on what the
  service manager believes: `Standing` says that it takes the loop for down exactly
  when it is, and what an installer that has waited may rely on.
- `NoLoopBesideInstaller` is a consequence of `Standing`: when Windows reports a
  service as stopped that only waits for its restart, a fault has come before.
- `TypeCorrect` includes that a process has a handle exactly while it writes
  (`HandlesStep`), which `Standing` is needed for: a loop that is launched had none;
  and that a loop that serves has loaded a credential (`ServingStep`).
- `Inv` is the conjunction of the five. `StandingStep`, `EnrollsAloneStep`,
  `LoopAloneStep` and `EnrollmentKeptStep` have one step per action that changes one
  of their variables, and one for all the others.

`RemovalProofs` proves, for any number of connections, of operators who ask for the
removal, and of faults (`RemovalAssumption`: the marker for "no connection" is no
connection), where the runs have two, one and one:

- `HandoffKept`, the refinement of `Handoff`. `LifecycleStep` maps each step; that
  the finalizer deletes only what its agent has released, and a request directly
  only what has no usable credential, is `Honest`: an acknowledgement in whatever
  place (a command, the client task, a queue, the finalizer) is of a release, and a
  release, or the instruction to it in whatever place, of a row that was marked.
- `OneAuthoritativeSocket` is inductive by itself; `RevocationDisconnects` follows
  from it, since what `disconnectMachine` leaves open is not registered.
- `InstructionGetsThrough` needs `Instructed`, which looks at a handshake from the
  moment `isPendingDecommission` has answered "managed", and with it that a request
  which has marked the row finds the greeted socket in the registry.
- `FirstHeartbeatHeard` needs `Heard`: the server sends messages only on sockets it
  listens on, the registered one among them; and `Wired`: the slot of a connection is
  free again only when its queues are empty.
- `TypeCorrect`: `ControlStep` for the scalars, `QueuesStep` for the queues, by what
  each action does to them (`QueuesMove`).
- `AppendCarries` and `TailCarries` say what a queue carries. On them rest lemmas on
  what each operation sends and closes (`Disconnects`, `Registers`, `Sends`,
  `Receives` and so on), so that the steps of the invariants see no sequence.

`EnrollmentProofs` proves, for any number of tokens, enrollments and operators
(`EnrollmentAssumption`: the marker for "no enrollment" is no enrollment):

- `OnlyRacesStrand`, of a computer that is enrolled again and again. `KeepsCurrent`
  says which credential must work: the granted one whose answer is awaited, or else
  the one in the file. No other enrollment can replace it (`OneAtATime`: the server
  works only on the awaited one) and no deletion can take it (`DeletesRightly`: one is
  decided on when nothing is granted, or when the agent has let go). An agent may
  acknowledge over a connection older than its credential; what it then has let go is
  what the file says, because a run loop alone on its computer agrees with the file
  (`LoopAgrees`). All of this holds while nothing has overlapped, which is what `Apart`
  says.
- `NothingResurrected`: `Redeemed` says that a redemption needs the row, so a handler
  that has validated its token before the removal is refused.
- `TypeCorrect`, by `TypeStep`, one step per action.

`UsageProofs` proves, for any number of sessions, all durations, midnights and units of
time in a second, and every bound (`UsageAssumption`: the marker for "no row" is no
row, and numbers are numbers), where the run has two sessions and a short clock:

- `MatchesHistory`. `Inv` says of each row that no write came too late for
  (`overtaken`) that it tells what happened to its session (`Tells`): `UsableUntil`
  gives every instant of `used`, and none that is not in `usable`. A handler carries
  with it what its write will need (`CallOK`): an end under way is not earlier than what
  the session is known to have been used for, and of a row being created no time
  is missing. Of a finished report it says that each listed session counts the instants
  used before `asOf`, and only usable ones before `readAt` (`Counts`), and that a session
  not listed was not used (`Right`). What a row says read later differs only after
  `asOf`, also when the sweeper, an end or an extension has come between (`UntilGrows`,
  `StaleRows`).
- `OverlapCounts`: the overlap of a session with a window counts the instants in it.
  So each row lies within its bounds (`ListedWithin`, `RowsCorrect`); summed up, the
  total and each day within theirs (`SumsWithin`, `DaysCorrect`). Rounding keeps order
  (`SecondsGrow`), and each statement is about one rounding: that the rounded
  rows add up to the rounded total is false, and not claimed.
- Sums over a set are recursive. `SumEquation` shows that the sum satisfies its
  recursive equation, by exhibiting a solution: the sum of a function over a finite set
  is the number of its units, pairs of an element and a number below its value. Where
  induction over finite sets is needed, `SubsetInduction` has it of a set of sets, by a
  smallest counterexample. That the rows are finitely many is proved (they are added one
  at a time), not assumed.
- `TypeCorrect`, from the same invariant, which is the theorem `Invariant`.

`DashboardProofs` proves, for any number of machines, changes, requests, pushes and
answers under way (`DashboardAssumption`: the markers for rows and requests that are not
there are none), where the run has two machines, two changes each and at most three
things on their way:

- `NoRefetchNeeded`, on `Inv`, which says what must hold while something is still on its
  way (`Coming`: written and not yet broadcast, or on the socket). All news is of what
  happened (`TrueNews`); news of a session that has been superseded is not the last of
  its machine (`InOrder`, also for answers, which may come at any time); a card, and
  whatever has been read so far of a machine, is the row, or else older and what it
  lacks is coming (`MarkFresh`, `SessionFresh`); and a list has every machine but the
  one being created (`Listed`).
- `misled` is needed exactly where `Inv` would break: a push that is consumed, or lost
  with its socket, while an older reading or answer is under way (`ReadsOutdated`,
  `AnswersOutdated`), two broadcasts in the wrong order (`PublishStep`), and a machine
  whose creation the cache or a list has not seen (`CreateStep`, `OnCreateStep`).
- `MergedFresh` covers pushes and answers, `WriteStep` what the handlers write,
  `QuietNews`, `QuietRead` and `QuietCards` the steps that bring no news.
- `TypeCorrect`, by `TypeStep`, one step per action; `OneCreated`, that one create is
  under way at most, from it.

Every safety invariant and every safety action property that a passing run checks is
a theorem. Only model-checked is liveness (`OverdueLocks`, `RequestReachesAgent`,
`QuietAfterRemoval`, `EndReachesAgent`, `StopCompletes`, `LocksWhoIsThere`), which is out
of the prover's reach.

## 5. Disagreements with the documentation

- **A rolled-back clock and a restart** (`agent_rollback`). `ClockGuard::new`
  anchors the persisted mark at the moment of the restart. With the OS clock set
  back, trusted time resumes where it stopped, and the time the agent was down
  is given to the session once more. `docs/offline-expiry.md` guarantees that
  rolling the clock back "cannot extend a session, whether the agent is running
  at that exact moment or not".
- **A lost acknowledgement** (`removal_ack_lost`). An agent that already owes an
  acknowledgement sends it as soon as the socket opens, while the gateway is
  still awaiting the credential check and has no listener: the message is
  dropped. The gateway then greets it with `decommission`; the loop, already
  released, ignores it, and the client task repeats the acknowledgement only on
  the next connection. While this one lasts the machine stays pending.
- **A greeting that outruns a push** (`delivery_null`). The gateway reads "no
  active session", a session is started and pushed, and then the greeting takes
  its `serverTime`: the null carries the later time and wins. The agent stays
  blocked until the session is changed or the connection is renewed. The same
  happens when the push comes last, since it carries the older stamp.
- **A deletion that overtakes an enrollment** (`enrollment_orphan`).
  `requestDecommission` finds no usable credential and deletes the row, whatever
  has been enrolled since: the computer enforces, and can never be told to stop.
  `docs/enrollment.md` of this case: "there is no live agent to strand".

These are documented or commented otherwise as well, and have no run of their
own; what the models say about them is named with each.

- `enroll` tests `usedAt` on the row it has read and then updates it
  unconditionally, so two requests with one token are both granted and the first
  credential stops working (`docs/enrollment.md`: "a second redemption attempt
  with the same token fails"). It is one of the overlaps `StrandedOnlyByRace`
  allows for.
- A credential revoked during a handshake leaves its agent connected
  (`docs/self-hosting.md`); the exception of `RevokedIsDisconnected`.
- Both installers take the log line "connected to Taymna server" as success.
  `client.rs` writes it when the connection has been upgraded, before the server
  has answered a credential it does not accept with 4001; so it does not catch
  the stale enrollment it is there for (`docs/agent-install.md`). `Verify`
  therefore asks for a loop that serves, and for no accepted credential.
- On Windows the service reports exit code 0 although the loop has failed, so the
  recovery action the installer sets up does not restart it: `expected` becomes
  false in `LoopExits`, and may in `Agent`. A SIGTERM that the service manager has not sent ends the
  agent cleanly, and systemd restarts on failure only.
- Enrolling by hand beside a running service (`docs/enrollment.md`) is overwritten
  by the loop's next save, or tears the temporary file both write: the exception
  of `EnrollmentKept`. Nor does it close the connection of the old credential: over it
  the loop may be told to let go and acknowledge, and the row is deleted although the
  computer has just been enrolled (`verifyMachineCredential` is called when a connection is
  opened only); the third overlap of `StrandedOnlyByRace`.
- The rows of a report need not add up to its total (`docs/usage-reports.md:82`,
  `usage.ts:29-30`: "the rows always add up to the machine total"). Each row and the
  total are rounded by themselves: with two units to a second, two sessions of one
  unit are listed with one second each and total one second. No property asserts the
  sum; `RowsMatchHistory` and `ReportMatchesHistory` bound each side.
- "`endedAt` should never be past the deadline (ending requires an active, unexpired
  session)" (`usage.ts:60`): the check and the write are apart, so an end may be
  stamped after the deadline, and a late extension may move the deadline before an end.
  The clamp beside that comment is needed.
- A session is extended although it has been swept to EXPIRED between the check of
  `requireActiveSession` and the update: the row keeps its status and has a deadline in
  the future, which `usableUntil` does not cap at now, so a report counts time that has
  not happened (`docs/usage-reports.md`: "how long each machine was actually usable").
  TLC finds it when `ReportMatchesHistory` does not except `overtaken`; so it does the
  opposite, an extension that takes back what another has granted and has been used.
- A session over RDP is not locked on Windows, which looks at the console session
  only (`Reached`).
- Two concurrent extensions both add to the deadline they have read, and one is
  lost (`IssueExtend`); no document promises otherwise.

## 6. Not modelled, and what is next

Left out for good:

- operator authentication (a password check and a signed token, with one row of
  state), the dashboard's sign-in and pages, configuration and health: no state
  whose order of changes could go wrong;
- the commands the platform layer and the installers run, their wording, and the
  installers' inputs and downloads; what the operating systems make of them is an
  assumption of `Hosting` and `Notifier`;
- react-query's choice of when to fetch (`web/src/app/providers.tsx`), and presence,
  versions and names on the cards; `Dashboard` lets a fetch happen at any time;
- a panicking warnings thread, equal timestamps of two writes, and the inert
  service of a decommissioned machine.

The plan, in order of importance (all but the ninth are done):

1. `SessionRules`, `ExpiryWarnings`, `Agent`, `Relinquishment`: the agent, with
   proofs.
2. `Removal`, `Handoff`: the removal protocol end to end, with revocation and proofs.
3. `Sessions`: the sessions service and what reaches the agent, with proofs.
4. `Enrollment`: tokens, redemption, credentials and the requests that race them,
   with proofs.
5. `Usage`: reports and days against what happened, with proofs.
6. `Dashboard`: the merge of lists, answers and pushes, with proofs.
7. `Notifier`: the final warning on the desktop against what the loop decided, with
   proofs.
8. `Hosting`: the service, its managers and installers, and the file two processes
   write, with proofs.
9. How far trusted time can lag behind real time over several rollbacks.
