------------------------------ MODULE Hosting ------------------------------
(***************************************************************************)
(* The agent as a system service: main() and the Windows service handler   *)
(* (agent/src/main.rs), the service manager of each platform, the state    *)
(* file as it is written (agent/src/storage.rs), the installers and the    *)
(* enroll command, and the lock the run loop keeps up                      *)
(* (agent/src/platform/*.rs).                                              *)
(*                                                                         *)
(* The run loop and the enroll command are two processes that write one    *)
(* file: each opens state.json.tmp, writes it, and renames it.  Of the     *)
(* state a file holds only the credential matters here, a number that      *)
(* grows with each enrollment; Agent has the rest of it, and what the loop *)
(* decides.  Managers and operating systems are external: they are         *)
(* modelled by the settings the installers give them.                      *)
(***************************************************************************)
EXTENDS Naturals

CONSTANTS Platform,       \* some of "systemd", "launchd", "scm"
          Torn, Absent,   \* a file that cannot be parsed, and none
          MaxEnrollments, \* bound of enrollments granted by the server
          MaxFaults       \* bound of kills, reboots and failed calls and saves

ASSUME HostingAssumption ==
  /\ Platform \subseteq {"systemd", "launchd", "scm"}
  /\ MaxEnrollments \in Nat \ {0} /\ MaxFaults \in Nat
  /\ Torn # Absent /\ {Torn, Absent} \cap Nat = {}

VARIABLES
  platform,
  enabled,   \* the service is started at boot
  manager,   \* what the service manager makes of the service
  signal,    \* the stop signal the run loop has not taken up yet
  process,   \* the stage of each process
  creds,     \* the credential each process holds
  fd,        \* where each process is writing: a name, "gone" or "none"
  file,      \* per name, the credential of its file, Torn or Absent
  granted,   \* enrollments the server has granted
  reported,  \* the one "Enrolled successfully" was last printed for
  beside,    \* an enroll command "now" runs, or ran "before", with a loop beside
  installer, \* the stage of the installer
  needs,     \* it is to enroll
  expected,  \* the service was started and nothing has since ended it for good
  blocked,   \* the loop's decision: Desired::Blocked
  login,     \* who is at the desktop: "nobody", "console" or "remote"
  locked,    \* and has a locked screen
  faults

files == <<creds, fd, file>>
server == <<granted, reported, beside>>
setup == <<installer, needs>>
desktop == <<blocked, login, locked>>
hosting == <<platform, enabled, manager, signal, expected>>
vars == <<hosting, process, files, server, setup, desktop, faults>>

Process == {"loop", "enroll"}
Credential == 1 .. MaxEnrollments

(* state.json and state.json.tmp; a file renamed over another is gone.     *)
Name == {"state", "tmp"}

(* Stages in which the loop serves, and those of a loop asked to stop.     *)
Serving == {"serving", "opened", "written"}
Ending == {"last opened", "last written", "joining"}
LoopStage == {"down", "launched", "running"} \cup Serving \cup Ending
EnrollStage == {"down", "asking", "granted", "opened", "written"}

Fault == faults < MaxFaults /\ faults' = faults + 1

Enrolled == file["state"] \in Credential

(* An enrolled machine with its service running, or one without an agent.  *)
Init ==
  /\ platform \in Platform
  /\ enabled \in BOOLEAN /\ expected = enabled
  /\ manager = IF enabled THEN "up" ELSE "stopped"
  /\ signal = FALSE
  /\ process = [p \in Process |->
                  IF p = "loop" /\ enabled THEN "launched" ELSE "down"]
  /\ creds = [p \in Process |-> Absent]
  /\ fd = [p \in Process |-> "none"]
  /\ granted = IF enabled THEN 1 ELSE 0
  /\ reported = granted /\ beside = {}
  /\ file = [n \in Name |-> IF enabled /\ n = "state" THEN granted ELSE Absent]
  /\ installer = "idle" /\ needs = FALSE
  /\ blocked = TRUE /\ login = "console" /\ locked = FALSE
  /\ faults = 0

-----------------------------------------------------------------------------
(* Store::save, in three steps of the process p.  (The slip: to empty      *)
(* state.json first.)                                                      *)
EmptyAndOpen(p) ==
  /\ fd' = [fd EXCEPT ![p] = "tmp"]
  /\ file' = [n \in Name |-> Torn]

OpenTmp(p) ==
  /\ fd' = [fd EXCEPT ![p] = "tmp"]
  /\ file' = [file EXCEPT !["tmp"] = Torn]

(* Two writers of one file leave the longer text's tail behind the shorter.*)
WriteTmp(p) ==
  /\ \/ fd[p] = "gone" /\ UNCHANGED file
     \/ fd[p] \in Name /\ file' = [file EXCEPT ![fd[p]] = creds[p]]
     \/ fd[p] \in Name /\ file[fd[p]] # Torn /\ file' = [file EXCEPT ![fd[p]] = Torn]
  /\ fd' = [fd EXCEPT ![p] = "none"]

(* The file that had the name goes, for whoever is writing it.             *)
Moved(where, from, to) ==
  IF where = from THEN to ELSE IF where = to THEN "gone" ELSE where

RenameTmp ==
  /\ file["tmp"] # Absent
  /\ file' = [file EXCEPT !["state"] = file["tmp"], !["tmp"] = Absent]
  /\ fd' = [p \in Process |-> Moved(fd[p], "tmp", "state")]

(* A process that fails or ends.                                           *)
CloseFile(p) ==
  /\ fd' = [fd EXCEPT ![p] = "none"]
  /\ UNCHANGED file

Goes(p, from, to) ==
  process[p] = from /\ process' = [process EXCEPT ![p] = to]

-----------------------------------------------------------------------------
(* The service manager and the run loop's process.                         *)

(* The settings of the installers: Restart=on-failure, KeepAlive, and      *)
(* `sc failure`, which acts when a process dies without having reported    *)
(* SERVICE_STOPPED.  (The handler reports it with exit code 0, whether or  *)
(* not the loop failed.)                                                   *)
Restarts(outcome) ==
  \/ platform = "launchd"
  \/ platform = "systemd" /\ outcome # "clean"
  \/ platform = "scm" /\ outcome = "killed"

(* Dying counts as a failure for Windows though a stop was asked for, and  *)
(* an error as the end that was wanted.                                    *)
LoopExits(outcome) ==
  /\ process' = [process EXCEPT !["loop"] = "down"]
  /\ manager' = IF manager = "stopping" /\ ~(platform = "scm" /\ outcome = "killed")
                  THEN "stopped"
                ELSE IF Restarts(outcome) THEN "waiting" ELSE "failed"
  /\ signal' = FALSE
  /\ expected' = (expected /\ ~(platform = "scm" /\ outcome = "error"))
  /\ creds' = [creds EXCEPT !["loop"] = Absent]
  /\ blocked' = TRUE

Launches ==
  /\ process' = [process EXCEPT !["loop"] = "launched"]
  /\ manager' = "up" /\ signal' = FALSE
  /\ beside' = IF process["enroll"] = "down" THEN beside ELSE beside \cup {"now"}

Restart ==
  /\ manager = "waiting"
  /\ Launches
  /\ UNCHANGED <<platform, enabled, expected, files, granted, reported, setup,
                 desktop, faults>>

(* run_service: the handler is registered, then SERVICE_RUNNING reported.  *)
ReportRunning ==
  /\ platform = "scm" /\ Goes("loop", "launched", "running")
  /\ UNCHANGED <<hosting, files, server, setup, desktop, faults>>

(* run: Store::load, which without a credential ends it (the slip: not to  *)
(* ask for one before serving).                                            *)
LoadUnasked ==
  /\ process["loop"] = IF platform = "scm" THEN "running" ELSE "launched"
  /\ process' = [process EXCEPT !["loop"] = "serving"]
  /\ creds' = [creds EXCEPT !["loop"] = IF Enrolled THEN file["state"] ELSE Absent]
  /\ UNCHANGED <<hosting, blocked, fd, file, server, setup, login, locked, faults>>

Load ==
  /\ process["loop"] = IF platform = "scm" THEN "running" ELSE "launched"
  /\ \/ /\ Enrolled
        /\ process' = [process EXCEPT !["loop"] = "serving"]
        /\ creds' = [creds EXCEPT !["loop"] = file["state"]]
        /\ UNCHANGED <<manager, signal, expected, blocked>>
     \/ /\ ~Enrolled
        /\ LoopExits("error")
  /\ UNCHANGED <<platform, enabled, fd, file, server, setup, login, locked, faults>>

(* disable_usage: Windows locks the console session, macOS the one in      *)
(* front, Linux every session; the call may fail, which is only logged.    *)
Reached == login = "console" \/ (login = "remote" /\ platform = "systemd")

DisableUsage ==
  \/ Reached /\ locked' = TRUE /\ UNCHANGED faults
  \/ Reached /\ Fault /\ UNCHANGED locked
  \/ ~Reached /\ UNCHANGED <<locked, faults>>

(* The tick decides, locks and saves (the slip: to lock on the change).    *)
TickOnChange ==
  /\ Goes("loop", "serving", "opened")
  /\ blocked' \in BOOLEAN
  /\ IF blocked' /\ ~blocked THEN DisableUsage ELSE UNCHANGED <<locked, faults>>
  /\ OpenTmp("loop")
  /\ UNCHANGED <<hosting, creds, server, setup, login>>

Tick ==
  /\ Goes("loop", "serving", "opened")
  /\ blocked' \in BOOLEAN
  /\ IF blocked' THEN DisableUsage ELSE UNCHANGED <<locked, faults>>
  /\ OpenTmp("loop")
  /\ UNCHANGED <<hosting, creds, server, setup, login>>

(* A message of the server is saved at once, and acted upon by the tick.   *)
OnMessage ==
  /\ Goes("loop", "serving", "opened")
  /\ OpenTmp("loop")
  /\ UNCHANGED <<hosting, creds, server, setup, desktop, faults>>

(* The shutdown branch of the loop saves once more, ...                    *)
Shutdown ==
  /\ signal /\ signal' = FALSE
  /\ Goes("loop", "serving", "last opened")
  /\ OpenTmp("loop")
  /\ UNCHANGED <<platform, enabled, manager, expected, creds, server, setup,
                 desktop, faults>>

Write ==
  /\ Goes("loop", "opened", "written") \/ Goes("loop", "last opened", "last written")
  /\ WriteTmp("loop")
  /\ UNCHANGED <<hosting, creds, server, setup, desktop, faults>>

Rename ==
  /\ Goes("loop", "written", "serving") \/ Goes("loop", "last written", "joining")
  /\ RenameTmp
  /\ UNCHANGED <<hosting, creds, server, setup, desktop, faults>>

(* ... waits for the warnings thread, and ends.                            *)
Join ==
  /\ process["loop"] = "joining"
  /\ LoopExits("clean")
  /\ UNCHANGED <<platform, enabled, fd, file, server, setup, login, locked, faults>>

(* A save fails -- the disk is full, or the other process has renamed the  *)
(* file -- and run returns the error.                                      *)
SaveFails ==
  /\ process["loop"] \in {"opened", "written", "last opened", "last written"}
  /\ \/ Fault
     \/ process["loop"] \in {"written", "last written"} /\ file["tmp"] = Absent
        /\ UNCHANGED faults
  /\ LoopExits("error")
  /\ CloseFile("loop")
  /\ UNCHANGED <<platform, enabled, server, setup, login, locked>>

Kill ==
  /\ Fault /\ process["loop"] # "down"
  /\ LoopExits("killed")
  /\ CloseFile("loop")
  /\ UNCHANGED <<platform, enabled, server, setup, login, locked>>

(* systemd and launchd kill a service that takes too long to stop.         *)
StopTimesOut ==
  /\ manager = "stopping" /\ platform # "scm"
  /\ LoopExits("killed")
  /\ CloseFile("loop")
  /\ UNCHANGED <<platform, enabled, server, setup, login, locked, faults>>

(* SIGTERM from elsewhere: a clean exit, which systemd takes as final.     *)
Terminate ==
  /\ Fault /\ platform # "scm" /\ process["loop"] \in Serving
  /\ signal' = TRUE
  /\ expected' = (expected /\ platform # "systemd")
  /\ UNCHANGED <<platform, enabled, manager, process, files, server, setup, desktop>>

(* Power off and on.                                                       *)
Reboot ==
  /\ Fault
  /\ process' = [p \in Process |->
                   IF p = "loop" /\ enabled THEN "launched" ELSE "down"]
  /\ manager' = IF enabled THEN "up" ELSE "stopped"
  /\ signal' = FALSE /\ expected' = enabled
  /\ creds' = [p \in Process |-> Absent] /\ fd' = [p \in Process |-> "none"]
  /\ installer' = "idle" /\ needs' = FALSE
  /\ blocked' = TRUE /\ login' = "nobody" /\ locked' = FALSE
  /\ UNCHANGED <<platform, enabled, file, server>>

-----------------------------------------------------------------------------
(* Stopping and starting the service.                                      *)

(* The stop event: SIGTERM, or the handler's stop_tx, which the loop finds *)
(* when it gets there (the slip: one that does not listen yet misses it).  *)
EventMissed ==
  /\ manager' = "stopping" /\ signal' = (process["loop"] \in Serving)
  /\ UNCHANGED process

StopEvent ==
  /\ manager' = "stopping" /\ signal' = TRUE
  /\ UNCHANGED process

(* SIGTERM ends a process that has not installed its handler; a pending    *)
(* restart is cancelled, but by Windows, to which such a service is        *)
(* stopped; and Windows sends no event to a service that is not running.   *)
RequestStop ==
  /\ \/ /\ manager = "up" /\ process["loop"] # "launched"
        /\ StopEvent
     \/ /\ manager = "up" /\ process["loop"] = "launched" /\ platform # "scm"
        /\ manager' = "stopped"
        /\ process' = [process EXCEPT !["loop"] = "down"]
        /\ UNCHANGED signal
     \/ /\ manager \in {"waiting", "failed", "stopped"}
        /\ manager' = IF manager = "waiting" /\ platform = "scm" THEN manager
                                                                 ELSE "stopped"
        /\ UNCHANGED <<process, signal>>
     \/ /\ manager = "stopping"
        /\ UNCHANGED <<manager, process, signal>>
  /\ expected' = FALSE

RequestStart ==
  /\ enabled' = TRUE /\ expected' = TRUE
  /\ IF process["loop"] = "down" THEN Launches
                                 ELSE UNCHANGED <<process, manager, signal, beside>>

OperatorStops ==
  /\ installer \in {"idle", "succeeded"}
  /\ manager \in {"up", "waiting"}
  /\ RequestStop
  /\ UNCHANGED <<platform, enabled, files, server, setup, desktop, faults>>

OperatorStarts ==
  /\ installer \in {"idle", "succeeded"}
  /\ enabled /\ manager \in {"stopped", "failed"}
  /\ RequestStart
  /\ UNCHANGED <<platform, files, granted, reported, setup, desktop, faults>>

-----------------------------------------------------------------------------
(* The enroll command.                                                     *)

Asks ==
  /\ Goes("enroll", "down", "asking")
  /\ beside' = IF process["loop"] = "down" THEN beside ELSE beside \cup {"now"}

(* By hand, whether or not the service is stopped.                         *)
OperatorEnrolls ==
  /\ installer \in {"idle", "succeeded"}
  /\ Asks
  /\ UNCHANGED <<hosting, files, granted, reported, setup, desktop, faults>>

(* The server redeems the token.                                           *)
Granted ==
  /\ granted < MaxEnrollments /\ granted' = granted + 1
  /\ Goes("enroll", "asking", "granted")
  /\ creds' = [creds EXCEPT !["enroll"] = granted']
  /\ UNCHANGED <<hosting, fd, file, reported, beside, setup, desktop, faults>>

(* load_for_enroll moves a file that cannot be parsed aside; then save.    *)
LoadForEnroll ==
  /\ Goes("enroll", "granted", "opened")
  /\ fd' = [p \in Process |-> IF p = "enroll" THEN "tmp"
                               ELSE IF file["state"] = Torn /\ fd[p] = "state"
                                 THEN "gone" ELSE fd[p]]
  /\ file' = [file EXCEPT !["state"] = IF @ = Torn THEN Absent ELSE @, !["tmp"] = Torn]
  /\ UNCHANGED <<hosting, creds, server, setup, desktop, faults>>

WriteEnrollment ==
  /\ Goes("enroll", "opened", "written")
  /\ WriteTmp("enroll")
  /\ UNCHANGED <<hosting, creds, server, setup, desktop, faults>>

(* "Enrolled successfully as machine ...".                                 *)
FinishEnrollment ==
  /\ Goes("enroll", "written", "down")
  /\ RenameTmp
  /\ reported' = creds["enroll"]
  /\ beside' = IF "now" \in beside THEN {"before"} ELSE {}
  /\ creds' = [creds EXCEPT !["enroll"] = Absent]
  /\ installer' = IF installer = "enrolling" THEN "enrolled" ELSE installer
  /\ UNCHANGED <<hosting, granted, needs, desktop, faults>>

(* The server refuses the token or is away, the temporary file is gone, or *)
(* the command is interrupted or cannot save.  The installer ends with it. *)
EnrollmentFails ==
  /\ \/ process["enroll"] = "asking" /\ UNCHANGED faults
     \/ process["enroll"] = "written" /\ file["tmp"] = Absent /\ UNCHANGED faults
     \/ process["enroll"] # "down" /\ Fault
  /\ process' = [process EXCEPT !["enroll"] = "down"]
  /\ CloseFile("enroll")
  /\ installer' = IF installer = "enrolling" THEN "idle" ELSE installer
  /\ beside' = IF "now" \in beside THEN {"before"} ELSE beside
  /\ creds' = [creds EXCEPT !["enroll"] = Absent]
  /\ UNCHANGED <<hosting, granted, reported, needs, desktop>>

-----------------------------------------------------------------------------
(* The installer.  It is run when nobody enrolls the machine by hand.      *)

InstallerGoes(from, to) == installer = from /\ installer' = to

(* With its inputs checked and the binary downloaded it stops the service. *)
(* A file that holds no credential needs an enrollment.                    *)
Begins ==
  /\ process["enroll"] = "down"
  /\ installer \in {"idle", "succeeded"} /\ installer' = "stopping"
  /\ needs' \in {TRUE, ~Enrolled}

InstallerStops ==
  /\ Begins
  /\ RequestStop
  /\ UNCHANGED <<platform, enabled, files, server, desktop, faults>>

(* systemctl and launchctl wait until the service has stopped, and so does *)
(* WaitForStatus, to which a service that waits for its restart has.  (The *)
(* slip: to go on once the stop has been asked for.)                       *)
SeenStopped ==
  IF platform = "scm" THEN manager \notin {"up", "stopping"}
                      ELSE manager \in {"stopped", "failed"}

InstallerGoesOn ==
  /\ InstallerGoes("stopping", "stopped")
  /\ UNCHANGED <<hosting, process, files, server, needs, desktop, faults>>

InstallerWaits ==
  /\ SeenStopped
  /\ InstallerGoes("stopping", "stopped")
  /\ UNCHANGED <<hosting, process, files, server, needs, desktop, faults>>

(* On Windows whatever goes by the agent's name is killed then, which to   *)
(* the service manager is a service that has died.                         *)
StopProcess ==
  /\ platform = "scm" /\ InstallerGoes("stopped", "cleared")
  /\ IF process["loop"] = "down"
       THEN UNCHANGED <<manager, signal, expected, process, files, blocked>>
       ELSE LoopExits("killed") /\ CloseFile("loop")
  /\ UNCHANGED <<platform, enabled, server, needs, login, locked, faults>>

(* The binary and the service definition, which launchd and Windows start  *)
(* at the next boot already.                                               *)
Install ==
  /\ InstallerGoes(IF platform = "scm" THEN "cleared" ELSE "stopped", "ready")
  /\ enabled' = (enabled \/ platform # "systemd")
  /\ UNCHANGED <<platform, manager, signal, expected, process, files, server, needs,
                 desktop, faults>>

InstallerEnrolls ==
  /\ needs
  /\ InstallerGoes("ready", "enrolling")
  /\ Asks
  /\ UNCHANGED <<hosting, files, granted, reported, needs, desktop, faults>>

InstallerStarts ==
  /\ \/ InstallerGoes("ready", "verifying") /\ ~needs
     \/ InstallerGoes("enrolled", "verifying")
  /\ RequestStart
  /\ UNCHANGED <<platform, files, granted, reported, needs, desktop, faults>>

(* Success is the log line "connected to Taymna server", written when the  *)
(* connection has been upgraded; install.sh also passes over logs it cannot*)
(* read.                                                                   *)
Verify ==
  /\ platform = "scm" => process["loop"] \in Serving
  /\ InstallerGoes("verifying", "succeeded")
  /\ UNCHANGED <<hosting, process, files, server, needs, desktop, faults>>

(* Windows takes more than 30 seconds to stop the service, the binary does *)
(* not run, or no connection is seen in time.                              *)
InstallerDies ==
  /\ \/ platform = "scm" /\ installer = "stopping"
     \/ installer \in {"stopped", "cleared", "verifying"}
  /\ installer' = "idle"
  /\ UNCHANGED <<hosting, process, files, server, needs, desktop, faults>>

-----------------------------------------------------------------------------
(* The desktop.                                                            *)

SignIn ==
  /\ login = "nobody"
  /\ login' \in {"console", "remote"} /\ locked' = FALSE
  /\ UNCHANGED <<hosting, process, files, server, setup, blocked, faults>>

SignOut ==
  /\ login # "nobody"
  /\ login' = "nobody" /\ locked' = FALSE
  /\ UNCHANGED <<hosting, process, files, server, setup, blocked, faults>>

Unlock ==
  /\ locked /\ locked' = FALSE
  /\ UNCHANGED <<hosting, process, files, server, setup, blocked, login, faults>>

-----------------------------------------------------------------------------
LoopStep == ReportRunning \/ Load \/ Write \/ Rename \/ SaveFails \/ Join

EnrollStep ==
  Granted \/ LoadForEnroll \/ WriteEnrollment \/ FinishEnrollment \/ EnrollmentFails

InstallerStep ==
  \/ InstallerStops \/ InstallerWaits \/ StopProcess \/ Install \/ InstallerEnrolls
  \/ InstallerStarts \/ Verify \/ InstallerDies

Next ==
  \/ LoopStep \/ Tick \/ OnMessage \/ Shutdown \/ Restart \/ StopTimesOut
  \/ Kill \/ Terminate \/ Reboot
  \/ OperatorStops \/ OperatorStarts \/ OperatorEnrolls
  \/ EnrollStep \/ InstallerStep
  \/ SignIn \/ SignOut \/ Unlock

Spec == Init /\ [][Next]_vars

(* The manager restarts what it restarts and the process runs; select takes*)
(* a branch that stays ready in the end.  Nothing else has to happen.      *)
Fairness ==
  /\ WF_vars(LoopStep) /\ WF_vars(Restart)
  /\ SF_vars(Tick) /\ SF_vars(Shutdown)

FairSpec == Spec /\ Fairness

-----------------------------------------------------------------------------
TypeOK ==
  /\ platform \in Platform
  /\ manager \in {"stopped", "up", "stopping", "waiting", "failed"}
  /\ process \in [Process -> LoopStage \cup EnrollStage]
  /\ process["loop"] \in LoopStage /\ process["enroll"] \in EnrollStage
  /\ creds \in [Process -> Credential \cup {Absent}]
  /\ process["loop"] \in Serving \cup Ending => creds["loop"] \in Credential
  /\ fd \in [Process -> Name \cup {"gone", "none"}]
  /\ \A p \in Process :
       fd[p] # "none" <=> process[p] \in {"opened", "last opened"}
  /\ file \in [Name -> Credential \cup {Torn, Absent}]
  /\ granted \in 0 .. MaxEnrollments /\ reported \in 0 .. MaxEnrollments
  /\ installer \in {"idle", "stopping", "stopped", "cleared", "ready", "enrolling",
                    "enrolled", "verifying", "succeeded"}
  /\ login \in {"nobody", "console", "remote"}
  /\ {enabled, signal, needs, expected, blocked, locked} \subseteq BOOLEAN
  /\ beside \subseteq {"now", "before"} /\ faults \in 0 .. MaxFaults

(* The file holds the enrollment that was last reported as successful: no  *)
(* save of a loop that is being stopped overwrites it, and no kill, failed *)
(* save or power cut tears it -- unless an enroll command ran beside a     *)
(* live loop, which goes on saving what it has loaded before.              *)
EnrollmentKept ==
  beside = {} => file["state"] = IF reported = 0 THEN Absent ELSE reported

(* The installer never enrolls beside a live loop: it has waited for the   *)
(* last save of the one it stopped.  Only the recovery action of Windows,  *)
(* pending after the loop had died, can start one meanwhile.               *)
InstallerEnrollsAlone ==
  installer = "enrolling" /\ process["loop"] # "down"
    => platform = "scm" /\ faults > 0

(* A service that is asked to stop stops, whatever its loop is doing.      *)
StopCompletes == manager = "stopping" ~> manager # "stopping"

(* "Restarting the agent" is no way out: on an enrolled machine whose      *)
(* service was started and not stopped for good, whoever disable_usage     *)
(* reaches is locked out in the end, over kills, failed calls and saves,   *)
(* and reboots, unless the loop decides that the machine may be used.      *)
Due == expected /\ Enrolled

LocksWhoIsThere ==
  (Due /\ blocked /\ Reached) ~> (locked \/ ~Reached \/ ~blocked \/ ~Due)
=============================================================================
