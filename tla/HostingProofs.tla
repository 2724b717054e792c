--------------------------- MODULE HostingProofs ---------------------------
(***************************************************************************)
(* What holds of Hosting for every number of enrollments and faults, on    *)
(* any of the platforms.                                                   *)
(***************************************************************************)
EXTENDS Hosting, TLAPS

(* What the manager takes for down is down, and an installer that has      *)
(* waited finds it so, but for the restart Windows has pending.            *)
Standing ==
  /\ process["loop"] = "down" <=> manager \in {"stopped", "failed", "waiting"}
  /\ platform = "scm" /\ manager = "waiting" => faults > 0
  /\ installer \in {"stopped", "cleared", "ready", "enrolling"} =>
       \/ manager \in {"stopped", "failed"}
       \/ platform = "scm" /\ faults > 0

(* An enroll command that runs alone has the temporary file to itself.     *)
EnrollsAlone ==
  /\ process["enroll"] # "down" /\ process["loop"] # "down" => "now" \in beside
  /\ process["enroll"] \in {"granted", "opened", "written"} =>
       creds["enroll"] \in Credential
  /\ "now" \notin beside =>
       /\ process["enroll"] = "opened" => fd["enroll"] = "tmp" /\ file["tmp"] = Torn
       /\ process["enroll"] = "written" => file["tmp"] = creds["enroll"]

(* So has a loop, and it has loaded the credential that was reported.      *)
LoopAlone ==
  beside = {} =>
    /\ process["loop"] \in Serving \cup Ending => creds["loop"] = reported
    /\ process["loop"] \in {"opened", "last opened"} =>
         fd["loop"] = "tmp" /\ file["tmp"] = Torn
    /\ process["loop"] \in {"written", "last written"} =>
         file["tmp"] = creds["loop"]

Inv == TypeOK /\ Standing /\ EnrollsAlone /\ LoopAlone /\ EnrollmentKept

-----------------------------------------------------------------------------
(* The first state.                                                        *)
LEMMA InitInv == Init => Inv
PROOF
<1> SUFFICES ASSUME Init PROVE Inv
  OBVIOUS
<1>1. TypeOK
  <2>1. platform \in Platform /\ manager \in {"up", "stopped"}
    BY DEF Init
  <2>2. /\ process \in [Process -> LoopStage \cup EnrollStage]
        /\ process["loop"] \in LoopStage /\ process["enroll"] \in EnrollStage
    BY DEF Init, Process, LoopStage, EnrollStage
  <2>3. /\ creds \in [Process -> Credential \cup {Absent}]
        /\ fd \in [Process -> Name \cup {"gone", "none"}]
        /\ \A p \in Process : fd[p] # "none" <=> process[p] \in {"opened", "last opened"}
        /\ process["loop"] \notin Serving \cup Ending
    BY DEF Init, Process, Serving, Ending
  <2>4. granted \in 0 .. MaxEnrollments /\ reported \in 0 .. MaxEnrollments
    BY HostingAssumption DEF Init
  <2>5. file \in [Name -> Credential \cup {Torn, Absent}]
    <3>1. enabled => granted \in Credential
      BY HostingAssumption DEF Init, Credential
    <3> QED BY <3>1 DEF Init, Name
  <2>6. /\ installer = "idle" /\ login = "console" /\ beside = {}
        /\ faults \in 0 .. MaxFaults
    BY HostingAssumption DEF Init
  <2>7. {enabled, signal, needs, expected, blocked, locked} \subseteq BOOLEAN
    BY DEF Init
  <2> QED BY <2>1, <2>2, <2>3, <2>4, <2>5, <2>6, <2>7 DEF TypeOK
<1>2. Standing
  BY HostingAssumption DEF Init, Standing, Process
<1>3. EnrollsAlone
  BY HostingAssumption DEF Init, EnrollsAlone, Process
<1>4. LoopAlone
  BY HostingAssumption DEF Init, LoopAlone, Process, Serving, Ending
<1>5. EnrollmentKept
  BY HostingAssumption DEF Init, EnrollmentKept, Name
<1> QED BY <1>1, <1>2, <1>3, <1>4, <1>5 DEF Inv

-----------------------------------------------------------------------------
(* The types.                                                              *)

(* Everything but the processes and what they write (main.rs, the          *)
(* installers): the stages and flags.                                      *)
LEMMA StagesStep ==
  ASSUME TypeOK, [Next]_vars
  PROVE  /\ platform' \in Platform
         /\ manager' \in {"stopped", "up", "stopping", "waiting", "failed"}
         /\ installer' \in {"idle", "stopping", "stopped", "cleared", "ready",
                            "enrolling", "enrolled", "verifying", "succeeded"}
         /\ login' \in {"nobody", "console", "remote"}
         /\ beside' \subseteq {"now", "before"}
         /\ faults' \in 0 .. MaxFaults
         /\ granted' \in 0 .. MaxEnrollments
PROOF
<1> USE DEF Next, LoopStep, EnrollStep, InstallerStep, vars, hosting, files, server,
            setup, desktop, ReportRunning, Load, Write, Rename, SaveFails, Join,
            Tick, OnMessage, Shutdown, Restart, StopTimesOut, Kill, Terminate,
            Reboot, OperatorStops, OperatorStarts, OperatorEnrolls, Granted,
            LoadForEnroll, WriteEnrollment, FinishEnrollment, EnrollmentFails,
            InstallerStops, InstallerWaits, StopProcess, Install, InstallerEnrolls,
            InstallerStarts, Verify, InstallerDies, SignIn, SignOut, Unlock,
            LoopExits, Launches, DisableUsage, RequestStop, RequestStart, StopEvent,
            Asks, Begins, InstallerGoes
<1>1. platform' = platform
  OBVIOUS
<1>2. manager' \in {"stopped", "up", "stopping", "waiting", "failed"}
  BY DEF TypeOK
<1>3. installer' \in {"idle", "stopping", "stopped", "cleared", "ready",
                     "enrolling", "enrolled", "verifying", "succeeded"}
  BY DEF TypeOK
<1>4. login' \in {"nobody", "console", "remote"}
  BY DEF TypeOK
<1>5. beside' \subseteq {"now", "before"}
  BY DEF TypeOK
<1>6. faults' \in 0 .. MaxFaults
  <2>1. faults' = faults \/ Fault
    OBVIOUS
  <2>2. faults \in 0 .. MaxFaults /\ MaxFaults \in Nat
    BY HostingAssumption DEF TypeOK
  <2> HIDE DEF Next
  <2> QED BY <2>1, <2>2 DEF Fault
<1>7. granted' \in 0 .. MaxEnrollments
  <2>1. granted' = granted \/ (granted < MaxEnrollments /\ granted' = granted + 1)
    OBVIOUS
  <2>2. granted \in 0 .. MaxEnrollments /\ MaxEnrollments \in Nat
    BY HostingAssumption DEF TypeOK
  <2> HIDE DEF Next
  <2> QED BY <2>1, <2>2
<1>8. platform' \in Platform
  BY <1>1 DEF TypeOK
<1> HIDE DEF Next
<1> QED BY <1>2, <1>3, <1>4, <1>5, <1>6, <1>7, <1>8

(* The flags (main.rs, the installers).                                    *)
LEMMA FlagsStep ==
  ASSUME TypeOK, [Next]_vars
  PROVE  {enabled, signal, needs, expected, blocked, locked}' \subseteq BOOLEAN
PROOF
<1> USE DEF Next, LoopStep, EnrollStep, InstallerStep, vars, hosting, files, server,
            setup, desktop, ReportRunning, Load, Write, Rename, SaveFails, Join,
            Tick, OnMessage, Shutdown, Restart, StopTimesOut, Kill, Terminate,
            Reboot, OperatorStops, OperatorStarts, OperatorEnrolls, Granted,
            LoadForEnroll, WriteEnrollment, FinishEnrollment, EnrollmentFails,
            InstallerStops, InstallerWaits, StopProcess, Install, InstallerEnrolls,
            InstallerStarts, Verify, InstallerDies, SignIn, SignOut, Unlock,
            LoopExits, Launches, DisableUsage, RequestStop, RequestStart, StopEvent,
            Asks, Begins, InstallerGoes, TypeOK
<1>1. enabled' \in BOOLEAN
  OBVIOUS
<1>2. signal' \in BOOLEAN
  OBVIOUS
<1>3. needs' \in BOOLEAN
  BY DEF Enrolled
<1>4. expected' \in BOOLEAN
  OBVIOUS
<1>5. blocked' \in BOOLEAN
  OBVIOUS
<1>6. locked' \in BOOLEAN
  OBVIOUS
<1> QED BY <1>1, <1>2, <1>3, <1>4, <1>5, <1>6

(* The processes and their files (main.rs, storage.rs).                    *)
LEMMA ProcessesStep ==
  ASSUME TypeOK, EnrollsAlone, [Next]_vars
  PROVE  /\ process' \in [Process -> LoopStage \cup EnrollStage]
         /\ process'["loop"] \in LoopStage /\ process'["enroll"] \in EnrollStage
         /\ creds' \in [Process -> Credential \cup {Absent}]
         /\ fd' \in [Process -> Name \cup {"gone", "none"}]
         /\ file' \in [Name -> Credential \cup {Torn, Absent}]
         /\ reported' \in 0 .. MaxEnrollments
PROOF
<1> USE DEF Next, LoopStep, EnrollStep, InstallerStep, vars, hosting, files, server,
            setup, desktop, ReportRunning, Load, Write, Rename, SaveFails, Join,
            Tick, OnMessage, Shutdown, Restart, StopTimesOut, Kill, Terminate,
            Reboot, OperatorStops, OperatorStarts, OperatorEnrolls, Granted,
            LoadForEnroll, WriteEnrollment, FinishEnrollment, EnrollmentFails,
            InstallerStops, InstallerWaits, StopProcess, Install, InstallerEnrolls,
            InstallerStarts, Verify, InstallerDies, SignIn, SignOut, Unlock,
            LoopExits, Launches, DisableUsage, RequestStop, RequestStart, StopEvent,
            Asks, Begins, CloseFile
<1>1. /\ process' \in [Process -> LoopStage \cup EnrollStage]
      /\ process'["loop"] \in LoopStage /\ process'["enroll"] \in EnrollStage
  <2>1. \/ process' = process
        \/ \E stage \in LoopStage : process' = [process EXCEPT !["loop"] = stage]
        \/ \E stage \in EnrollStage : process' = [process EXCEPT !["enroll"] = stage]
        \/ Reboot
    BY DEF Goes, Process, LoopStage, EnrollStage, Serving, Ending
  <2>2. CASE Reboot
    BY <2>2 DEF Process, LoopStage, EnrollStage
  <2>3. /\ process \in [Process -> LoopStage \cup EnrollStage]
        /\ process["loop"] \in LoopStage /\ process["enroll"] \in EnrollStage
    BY DEF TypeOK
  <2> HIDE DEF Next
  <2>4. ASSUME NEW stage \in LoopStage, process' = [process EXCEPT !["loop"] = stage]
        PROVE  /\ process' \in [Process -> LoopStage \cup EnrollStage]
               /\ process'["loop"] \in LoopStage /\ process'["enroll"] \in EnrollStage
    BY <2>3, <2>4 DEF Process
  <2>5. ASSUME NEW stage \in EnrollStage, process' = [process EXCEPT !["enroll"] = stage]
        PROVE  /\ process' \in [Process -> LoopStage \cup EnrollStage]
               /\ process'["loop"] \in LoopStage /\ process'["enroll"] \in EnrollStage
    BY <2>3, <2>5 DEF Process
  <2> QED BY <2>1, <2>2, <2>3, <2>4, <2>5
<1>2. creds' \in [Process -> Credential \cup {Absent}]
  <2>1. \/ creds' = creds
        \/ \E p \in Process : creds' = [creds EXCEPT ![p] = Absent]
        \/ creds' = [p \in Process |-> Absent]
        \/ Load \/ Granted
    BY DEF Goes, Process
  <2>2. CASE Load
    BY <2>2 DEF TypeOK, Enrolled, Process
  <2>3. CASE Granted
    <3>1. granted + 1 \in Credential
      <4>1. granted \in 0 .. MaxEnrollments /\ MaxEnrollments \in Nat
        BY HostingAssumption DEF TypeOK
      <4>2. granted < MaxEnrollments
        BY <2>3
      <4> HIDE DEF Next
      <4> QED BY <4>1, <4>2 DEF Credential
    <3> QED BY <2>3, <3>1 DEF TypeOK, Process
  <2> QED BY <2>1, <2>2, <2>3 DEF TypeOK, Process
<1>3. fd' \in [Process -> Name \cup {"gone", "none"}]
  <2>1. \/ fd' = fd
        \/ \E p \in Process, n \in {"tmp", "none"} : fd' = [fd EXCEPT ![p] = n]
        \/ fd' = [p \in Process |-> "none"]
        \/ RenameTmp \/ LoadForEnroll
    BY DEF OpenTmp, WriteTmp, Process
  <2>2. CASE RenameTmp
    BY <2>2 DEF TypeOK, RenameTmp, Moved, Process, Name
  <2>3. CASE LoadForEnroll
    BY <2>3 DEF TypeOK, Process, Name
  <2> QED BY <2>1, <2>2, <2>3 DEF TypeOK, Process, Name
<1>4. file' \in [Name -> Credential \cup {Torn, Absent}]
  <2>1. \/ file' = file
        \/ \E p \in Process : OpenTmp(p) \/ WriteTmp(p)
        \/ RenameTmp \/ LoadForEnroll
    BY DEF Process
  <2>2. CASE RenameTmp
    BY <2>2 DEF TypeOK, RenameTmp, Name
  <2>3. CASE LoadForEnroll
    BY <2>3 DEF TypeOK, Name
  <2>4. ASSUME NEW p \in Process, OpenTmp(p)
        PROVE  file' \in [Name -> Credential \cup {Torn, Absent}]
    <3>1. file' = [file EXCEPT !["tmp"] = Torn]
      BY <2>4 DEF OpenTmp
    <3> HIDE DEF Next
    <3> QED BY <3>1 DEF TypeOK, Name
  <2>5. ASSUME NEW p \in Process, WriteTmp(p)
        PROVE  file' \in [Name -> Credential \cup {Torn, Absent}]
    <3>1. \/ file' = file
          \/ \E n \in Name : \E c \in {creds[p], Torn} : file' = [file EXCEPT ![n] = c]
      BY <2>5 DEF WriteTmp
    <3>2. creds[p] \in Credential \cup {Absent}
      BY DEF TypeOK
    <3> HIDE DEF Next
    <3> QED BY <3>1, <3>2 DEF TypeOK
  <2>6. file \in [Name -> Credential \cup {Torn, Absent}]
    BY DEF TypeOK
  <2> HIDE DEF Next
  <2> QED BY <2>1, <2>2, <2>3, <2>4, <2>5, <2>6
<1>5. reported' \in 0 .. MaxEnrollments
  <2>1. reported' = reported \/ FinishEnrollment
    OBVIOUS
  <2>2. CASE FinishEnrollment
    BY <2>2, HostingAssumption DEF EnrollsAlone, Credential, Goes
  <2> QED BY <2>1, <2>2 DEF TypeOK
<1> QED BY <1>1, <1>2, <1>3, <1>4, <1>5

(* A loop that serves has loaded a credential (main.rs, run).              *)
LEMMA ServingStep ==
  ASSUME TypeOK, [Next]_vars
  PROVE  (process["loop"] \in Serving \cup Ending => creds["loop"] \in Credential)'
PROOF
<1> DEFINE Serves == process["loop"] \in Serving \cup Ending
<1>1. \/ Serves' => Serves /\ creds'["loop"] = creds["loop"]
      \/ Load
  <2> USE DEF Next, LoopStep, EnrollStep, InstallerStep, vars, hosting, files, server,
            setup, desktop, ReportRunning, Write, Rename, SaveFails, Join,
            Tick, OnMessage, Shutdown, Restart, StopTimesOut, Kill, Terminate,
            Reboot, OperatorStops, OperatorStarts, OperatorEnrolls, Granted,
            LoadForEnroll, WriteEnrollment, FinishEnrollment, EnrollmentFails,
            InstallerStops, InstallerWaits, StopProcess, Install, InstallerEnrolls,
            InstallerStarts, Verify, InstallerDies, SignIn, SignOut, Unlock,
            LoopExits, Launches, DisableUsage, RequestStop, RequestStart, StopEvent,
            Asks, Begins, Goes, TypeOK
  <2>1. Load \/ (Serves' => Serves)
    <3>1. CASE LoopStep
      BY <3>1 DEF Process, Serving, Ending
    <3>2. CASE EnrollStep \/ InstallerStep
      BY <3>2 DEF Process, Serving, Ending
    <3>3. CASE ~(LoopStep \/ EnrollStep \/ InstallerStep)
      <4> HIDE DEF LoopStep, EnrollStep, InstallerStep
      <4> QED BY <3>3 DEF Process, Serving, Ending
    <3> HIDE DEF Next, LoopStep, EnrollStep, InstallerStep
    <3> QED BY <3>1, <3>2, <3>3
  <2>2. Load \/ ~Serves' \/ creds'["loop"] = creds["loop"]
    BY DEF Process, Serving, Ending
  <2> HIDE DEF Next
  <2> QED BY <2>1, <2>2
<1>2. CASE Load
  BY <1>2 DEF Load, LoopExits, Enrolled, TypeOK, Process, Serving, Ending
<1> QED BY <1>1, <1>2 DEF TypeOK

(* Credentials are numbers from 1; no file content but theirs is one.      *)
LEMMA Credentials ==
  /\ Credential \subseteq Nat /\ 0 \notin Credential
  /\ Torn \notin Credential /\ Absent \notin Credential /\ Torn # Absent
  /\ Torn \notin Nat /\ Absent \notin Nat
PROOF
BY HostingAssumption DEF Credential

(* Faults are counted.                                                     *)
LEMMA FaultsAreCounted ==
  ASSUME faults \in Nat, Fault
  PROVE  faults' \in Nat /\ faults' > 0
PROOF
BY DEF Fault

(* What was reported is an enrollment, or none.                            *)
LEMMA ReportedIsNat == TypeOK => reported \in Nat
PROOF
<1> SUFFICES ASSUME TypeOK PROVE reported \in Nat
  OBVIOUS
<1>1. reported \in 0 .. MaxEnrollments
  BY DEF TypeOK
<1> QED BY <1>1

(* A process has a handle while it writes (storage.rs, Store::save).       *)
LEMMA HandlesStep ==
  ASSUME Standing, TypeOK, [Next]_vars,
         process' \in [Process -> LoopStage \cup EnrollStage]
  PROVE  \A p \in Process : (fd[p] # "none" <=> process[p] \in {"opened", "last opened"})'
PROOF
<1> USE DEF TypeOK, Process, Name, LoopStage, EnrollStage, Serving, Ending
<1>0. ASSUME NEW outcome, LoopExits(outcome), CloseFile("loop")
      PROVE  \A p \in Process :
               (fd[p] # "none" <=> process[p] \in {"opened", "last opened"})'
  BY <1>0 DEF LoopExits, CloseFile
<1>1. CASE UNCHANGED <<process, fd>>
  BY <1>1
<1>2. CASE ReportRunning
  BY <1>2 DEF ReportRunning, files, server, setup, desktop, hosting, Goes
<1>3. CASE Load
  BY <1>3 DEF Load, server, setup, Enrolled, Restarts, LoopExits
<1>4. CASE Tick
  BY <1>4 DEF Tick, server, setup, hosting, OpenTmp, Goes, Reached, DisableUsage
<1>5. CASE OnMessage
  BY <1>5 DEF OnMessage, server, setup, desktop, hosting, OpenTmp, Goes
<1>6. CASE Shutdown
  BY <1>6 DEF Shutdown, server, setup, desktop, OpenTmp, Goes
<1>7. CASE Write
  BY <1>7 DEF Write, server, setup, desktop, hosting, WriteTmp, Goes
<1>8. CASE Rename
  BY <1>8 DEF Rename, server, setup, desktop, hosting, Moved, RenameTmp, Goes
<1>9. CASE Join
  BY <1>9 DEF Join, server, setup, Restarts, LoopExits
<1>10. CASE SaveFails
  BY <1>0, <1>10 DEF SaveFails
<1>11. CASE Kill
  BY <1>0, <1>11 DEF Kill
<1>12. CASE StopTimesOut
  BY <1>0, <1>12 DEF StopTimesOut
<1>13. CASE Reboot
  BY <1>13 DEF Reboot, server
<1>14. CASE Restart
  <2>1. process["loop"] = "down"
    BY <1>14 DEF Restart, Standing
  <2> QED BY <1>14, <2>1 DEF Restart, Launches, files
<1>15. CASE OperatorStops
  BY <1>15
     DEF OperatorStops, files, server, setup, desktop, StopEvent, RequestStop
<1>16. CASE OperatorStarts
  BY <1>16 DEF OperatorStarts, files, setup, desktop, Launches, RequestStart
<1>17. CASE OperatorEnrolls
  BY <1>17 DEF OperatorEnrolls, files, setup, desktop, hosting, Goes, Asks
<1>18. CASE Granted
  BY <1>18 DEF Granted, setup, desktop, hosting, Goes
<1>19. CASE LoadForEnroll
  BY <1>19 DEF LoadForEnroll, server, setup, desktop, hosting, Goes
<1>20. CASE WriteEnrollment
  BY <1>20 DEF WriteEnrollment, server, setup, desktop, hosting, WriteTmp, Goes
<1>21. CASE FinishEnrollment
  BY <1>21 DEF FinishEnrollment, desktop, hosting, Moved, RenameTmp, Goes
<1>22. CASE EnrollmentFails
  BY <1>22 DEF EnrollmentFails, desktop, hosting, CloseFile
<1>23. CASE InstallerStops
  BY <1>23
     DEF InstallerStops, files, server, desktop, Enrolled, StopEvent,
         RequestStop, Begins
<1>24. CASE StopProcess
  <2>1. \/ UNCHANGED <<process, fd>>
        \/ LoopExits("killed") /\ CloseFile("loop")
    BY <1>24 DEF StopProcess, files
  <2> QED BY <1>1, <1>0, <2>1
<1>25. CASE InstallerEnrolls
  BY <1>25
     DEF InstallerEnrolls, files, desktop, hosting, Goes, Asks, InstallerGoes
<1>26. CASE InstallerStarts
  BY <1>26
     DEF InstallerStarts, files, desktop, Launches, RequestStart,
         InstallerGoes
<1>27. CASE ~(ReportRunning \/ Load \/ Tick \/ OnMessage \/ Shutdown \/ Write \/
            Rename \/ Join \/ SaveFails \/ Kill \/ StopTimesOut \/ Reboot \/
            Restart \/ OperatorStops \/ OperatorStarts \/ OperatorEnrolls \/
            Granted \/ LoadForEnroll \/ WriteEnrollment \/ FinishEnrollment \/
            EnrollmentFails \/ InstallerStops \/ StopProcess \/ InstallerEnrolls
            \/ InstallerStarts)
  <2>1. UNCHANGED <<process, fd>>
    BY [Next]_vars, <1>27
       DEF Next, LoopStep, EnrollStep, InstallerStep, vars, hosting, files,
           server, setup, desktop, Terminate, InstallerGoes, SeenStopped,
           InstallerWaits, Install, Verify, InstallerDies, SignIn, SignOut, Unlock
  <2> QED BY <2>1, <1>1
<1> QED BY <1>2, <1>3, <1>4, <1>5, <1>6, <1>7, <1>8, <1>9, <1>10, <1>11,
           <1>12, <1>13, <1>14, <1>15, <1>16, <1>17, <1>18, <1>19, <1>20,
           <1>21, <1>22, <1>23, <1>24, <1>25, <1>26, <1>27

(* The manager learns how the loop has ended, and an installer that waits  *)
(* for it sees that (main.rs, install.sh, install.ps1).                    *)
LEMMA StandingStep ==
  ASSUME Standing, TypeOK, [Next]_vars
  PROVE  Standing'
PROOF
<1>1. faults \in Nat /\ faults' \in Nat
  <2>1. faults \in 0 .. MaxFaults /\ faults' \in 0 .. MaxFaults
    BY StagesStep DEF TypeOK
  <2> QED BY <2>1, HostingAssumption
<1>2. faults > 0 => faults' > 0
  <2>1. faults' = faults \/ Fault
    BY DEF Next, LoopStep, EnrollStep, InstallerStep, vars, files, server,
           setup, desktop, hosting, OpenTmp, WriteTmp, RenameTmp, CloseFile,
           Goes, LoopExits, Launches, Restart, ReportRunning, Load,
           DisableUsage, Tick, OnMessage, Shutdown, Write, Rename, Join,
           SaveFails, Kill, StopTimesOut, Terminate, Reboot, StopEvent,
           RequestStop, RequestStart, OperatorStops, OperatorStarts, Asks,
           OperatorEnrolls, Granted, LoadForEnroll, WriteEnrollment,
           FinishEnrollment, EnrollmentFails, InstallerGoes, Begins,
           InstallerStops, InstallerWaits, StopProcess, Install,
           InstallerEnrolls, InstallerStarts, Verify, InstallerDies, SignIn,
           SignOut, Unlock
  <2> QED BY <1>1, <2>1 DEF Fault
<1> USE DEF Standing, TypeOK, LoopStage, Serving, Ending, Process
<1>3. CASE UNCHANGED <<process, manager, platform, faults, installer>>
  BY <1>3
<1>4. CASE ReportRunning
  BY <1>4 DEF ReportRunning, files, server, setup, desktop, hosting, Goes
<1>5. CASE Load
  BY <1>5 DEF Load, server, setup, Enrolled, Restarts, LoopExits
<1>6. CASE Tick
  <2>1. process["loop"] # "down" /\ process'["loop"] # "down"
    BY <1>6 DEF Tick, Goes
  <2>2. UNCHANGED <<manager, platform, installer>>
    BY <1>6 DEF Tick, hosting, setup
  <2> QED BY <1>2, <2>1, <2>2
<1>7. CASE OnMessage
  BY <1>7 DEF OnMessage, server, setup, desktop, hosting, OpenTmp, Goes
<1>8. CASE Shutdown
  BY <1>8 DEF Shutdown, server, setup, desktop, OpenTmp, Goes
<1>9. CASE Write
  BY <1>9 DEF Write, server, setup, desktop, hosting, Name, WriteTmp, Goes
<1>10. CASE Rename
  BY <1>10 DEF Rename, server, setup, desktop, hosting, Moved, RenameTmp, Goes
<1>11. CASE Join
  BY <1>11 DEF Join, server, setup, Restarts, LoopExits
<1>12. CASE SaveFails
  BY <1>12 DEF SaveFails, server, setup, CloseFile, Restarts, LoopExits
<1>13. CASE Kill
  <2>1. faults' > 0
    BY <1>13, <1>1, FaultsAreCounted DEF Kill
  <2>2. UNCHANGED <<platform, installer>> /\ process["loop"] # "down"
    BY <1>13 DEF Kill, setup
  <2>3. process'["loop"] = "down" /\ manager' \in {"stopped", "waiting", "failed"}
    BY <1>13 DEF Kill, LoopExits
  <2> QED BY <2>1, <2>2, <2>3
<1>14. CASE StopTimesOut
  BY <1>14 DEF StopTimesOut, server, setup, CloseFile, Restarts, LoopExits
<1>15. CASE Terminate
  BY <1>15 DEF Terminate, files, server, setup, desktop
<1>16. CASE Reboot
  BY <1>16 DEF Reboot, server
<1>17. CASE Restart
  BY <1>17 DEF Restart, files, setup, desktop, Launches
<1>18. CASE OperatorStops
  BY <1>18
     DEF OperatorStops, files, server, setup, desktop, StopEvent, RequestStop
<1>19. CASE OperatorStarts
  BY <1>19 DEF OperatorStarts, files, setup, desktop, Launches, RequestStart
<1>20. CASE OperatorEnrolls
  BY <1>20 DEF OperatorEnrolls, files, setup, desktop, hosting, Goes, Asks
<1>21. CASE Granted
  BY <1>21 DEF Granted, setup, desktop, hosting, Goes
<1>22. CASE LoadForEnroll
  BY <1>22 DEF LoadForEnroll, server, setup, desktop, hosting, Goes
<1>23. CASE WriteEnrollment
  BY <1>23
     DEF WriteEnrollment, server, setup, desktop, hosting, Name, WriteTmp,
         Goes
<1>24. CASE FinishEnrollment
  BY <1>24 DEF FinishEnrollment, desktop, hosting, Moved, RenameTmp, Goes
<1>25. CASE EnrollmentFails
  <2>1. UNCHANGED <<manager, platform, process["loop"]>>
    BY <1>25 DEF EnrollmentFails, hosting
  <2>2. installer' \in {installer, "idle"}
    BY <1>25 DEF EnrollmentFails
  <2> QED BY <1>2, <2>1, <2>2
<1>26. CASE InstallerStops
  BY <1>26
     DEF InstallerStops, files, server, desktop, Enrolled, StopEvent,
         RequestStop, Begins
<1>27. CASE InstallerWaits
  BY <1>27
     DEF InstallerWaits, files, server, desktop, hosting, InstallerGoes,
         SeenStopped
<1>28. CASE StopProcess
  BY <1>28
     DEF StopProcess, files, server, CloseFile, Restarts, LoopExits,
         InstallerGoes
<1>29. CASE Install
  BY <1>29 DEF Install, files, server, desktop, InstallerGoes
<1>30. CASE InstallerEnrolls
  BY <1>30
     DEF InstallerEnrolls, files, desktop, hosting, Goes, Asks, InstallerGoes
<1>31. CASE InstallerStarts
  BY <1>31
     DEF InstallerStarts, files, desktop, Launches, RequestStart,
         InstallerGoes
<1>32. CASE Verify
  BY <1>32 DEF Verify, files, server, desktop, hosting, InstallerGoes
<1>33. CASE InstallerDies
  BY <1>33 DEF InstallerDies, files, server, desktop, hosting
<1>34. CASE ~(ReportRunning \/ Load \/ Tick \/ OnMessage \/ Shutdown \/ Write \/
            Rename \/ Join \/ SaveFails \/ Kill \/ StopTimesOut \/ Terminate \/
            Reboot \/ Restart \/ OperatorStops \/ OperatorStarts \/
            OperatorEnrolls \/ Granted \/ LoadForEnroll \/ WriteEnrollment \/
            FinishEnrollment \/ EnrollmentFails \/ InstallerStops \/
            InstallerWaits \/ StopProcess \/ Install \/ InstallerEnrolls \/
            InstallerStarts \/ Verify \/ InstallerDies)
  <2>1. UNCHANGED <<process, manager, platform, faults, installer>>
    BY [Next]_vars, <1>34
       DEF Next, LoopStep, EnrollStep, InstallerStep, vars, hosting, files,
           server, setup, desktop, SignIn, SignOut, Unlock
  <2> QED BY <2>1, <1>3
<1> QED BY <1>4, <1>5, <1>6, <1>7, <1>8, <1>9, <1>10, <1>11, <1>12, <1>13,
           <1>14, <1>15, <1>16, <1>17, <1>18, <1>19, <1>20, <1>21, <1>22,
           <1>23, <1>24, <1>25, <1>26, <1>27, <1>28, <1>29, <1>30, <1>31,
           <1>32, <1>33, <1>34

(* A token is redeemed for an enrollment the server has not granted yet.   *)
LEMMA GrantedIsNew ==
  ASSUME TypeOK, Granted
  PROVE  granted' \in Credential
PROOF
<1>1. granted \in 0 .. MaxEnrollments /\ MaxEnrollments \in Nat
  BY HostingAssumption DEF TypeOK
<1>2. granted < MaxEnrollments /\ granted' = granted + 1
  BY DEF Granted
<1> QED BY <1>1, <1>2 DEF Credential

(* Two processes run beside each other when the one that comes second      *)
(* finds the other (main.rs).                                              *)
LEMMA EnrollsAloneStep ==
  ASSUME Standing, EnrollsAlone, TypeOK, [Next]_vars
  PROVE  EnrollsAlone'
PROOF
<1> USE DEF TypeOK, EnrollsAlone, Process, Name, LoopStage, EnrollStage, Serving,
       Ending, Standing
<1>1. CASE UNCHANGED <<process, beside, creds, fd, file>>
  BY <1>1
<1>2. CASE ReportRunning
  BY <1>2 DEF ReportRunning, files, server, setup, desktop, hosting, Goes
<1>3. CASE Load
  BY <1>3 DEF Load, server, setup, Enrolled, Restarts, LoopExits
<1>4. CASE Tick
  BY <1>4 DEF Tick, server, setup, hosting, OpenTmp, Goes, Reached, DisableUsage
<1>5. CASE OnMessage
  BY <1>5 DEF OnMessage, server, setup, desktop, hosting, OpenTmp, Goes
<1>6. CASE Shutdown
  BY <1>6 DEF Shutdown, server, setup, desktop, OpenTmp, Goes
<1>7. CASE Write
  BY <1>7 DEF Write, server, setup, desktop, hosting, WriteTmp, Goes
<1>8. CASE Rename
  BY <1>8 DEF Rename, server, setup, desktop, hosting, Moved, RenameTmp, Goes
<1>9. CASE Join
  BY <1>9 DEF Join, server, setup, Restarts, LoopExits
<1>10. CASE SaveFails
  BY <1>10 DEF SaveFails, server, setup, CloseFile, Restarts, LoopExits
<1>11. CASE Kill
  BY <1>11 DEF Kill, server, setup, CloseFile, Restarts, LoopExits
<1>12. CASE StopTimesOut
  BY <1>12 DEF StopTimesOut, server, setup, CloseFile, Restarts, LoopExits
<1>13. CASE Reboot
  BY <1>13 DEF Reboot, server
<1>14. CASE Restart
  BY <1>14 DEF Restart, files, setup, desktop, Launches
<1>15. CASE OperatorStops
  BY <1>15
     DEF OperatorStops, files, server, setup, desktop, StopEvent, RequestStop
<1>16. CASE OperatorStarts
  BY <1>16 DEF OperatorStarts, files, setup, desktop, Launches, RequestStart
<1>17. CASE OperatorEnrolls
  BY <1>17 DEF OperatorEnrolls, files, setup, desktop, hosting, Goes, Asks
<1>18. CASE Granted
  <2>1. granted' \in Credential
    BY <1>18, GrantedIsNew
  <2> QED BY <1>18, <2>1 DEF Granted, Goes
<1>19. CASE LoadForEnroll
  BY <1>19 DEF LoadForEnroll, server, setup, desktop, hosting, Goes
<1>20. CASE WriteEnrollment
  BY <1>20 DEF WriteEnrollment, server, setup, desktop, hosting, WriteTmp, Goes
<1>21. CASE FinishEnrollment
  BY <1>21 DEF FinishEnrollment, desktop, hosting, Moved, RenameTmp, Goes
<1>22. CASE EnrollmentFails
  BY <1>22 DEF EnrollmentFails, desktop, hosting, CloseFile
<1>23. CASE InstallerStops
  BY <1>23
     DEF InstallerStops, files, server, desktop, Enrolled, StopEvent,
         RequestStop, Begins
<1>24. CASE StopProcess
  BY <1>24
     DEF StopProcess, files, server, CloseFile, Restarts, LoopExits,
         InstallerGoes
<1>25. CASE InstallerEnrolls
  BY <1>25
     DEF InstallerEnrolls, files, desktop, hosting, Goes, Asks, InstallerGoes
<1>26. CASE InstallerStarts
  BY <1>26
     DEF InstallerStarts, files, desktop, Launches, RequestStart,
         InstallerGoes
<1>27. CASE ~(ReportRunning \/ Load \/ Tick \/ OnMessage \/ Shutdown \/ Write \/
            Rename \/ Join \/ SaveFails \/ Kill \/ StopTimesOut \/ Reboot \/
            Restart \/ OperatorStops \/ OperatorStarts \/ OperatorEnrolls \/
            Granted \/ LoadForEnroll \/ WriteEnrollment \/ FinishEnrollment \/
            EnrollmentFails \/ InstallerStops \/ StopProcess \/ InstallerEnrolls
            \/ InstallerStarts)
  <2>1. UNCHANGED <<process, beside, creds, fd, file>>
    BY [Next]_vars, <1>27
       DEF Next, LoopStep, EnrollStep, InstallerStep, vars, hosting, files,
           server, setup, desktop, Terminate, InstallerGoes, SeenStopped,
           InstallerWaits, Install, Verify, InstallerDies, SignIn, SignOut, Unlock
  <2> QED BY <2>1, <1>1
<1> QED BY <1>2, <1>3, <1>4, <1>5, <1>6, <1>7, <1>8, <1>9, <1>10, <1>11,
           <1>12, <1>13, <1>14, <1>15, <1>16, <1>17, <1>18, <1>19, <1>20,
           <1>21, <1>22, <1>23, <1>24, <1>25, <1>26, <1>27

(* The loop has the credential it loaded, and no other process reports     *)
(* another meanwhile (main.rs, storage.rs).                                *)
LEMMA LoopAloneStep ==
  ASSUME EnrollmentKept, Standing, EnrollsAlone, LoopAlone, TypeOK, [Next]_vars
  PROVE  LoopAlone'
PROOF
<1> USE DEF TypeOK, LoopAlone, EnrollsAlone, Process, Name, LoopStage, EnrollStage,
       Serving, Ending, Standing
<1>1. CASE UNCHANGED <<process, beside, creds, fd, file, reported>>
  BY <1>1
<1>2. CASE ReportRunning
  BY <1>2 DEF ReportRunning, files, server, setup, desktop, hosting, Goes
<1>3. CASE Load
  <2>1. CASE Enrolled /\ beside = {}
    <3>1. file["state"] = reported
      BY <2>1, Credentials DEF Enrolled, EnrollmentKept
    <3>2. beside' = {} => creds'["loop"] = reported /\ process'["loop"] = "serving"
      BY <1>3, <2>1, <3>1 DEF Load, LoopExits
    <3> QED BY <1>3, <3>1, <2>1 DEF Load, LoopExits, server
  <2>2. CASE ~(Enrolled /\ beside = {})
    BY <1>3, <2>2 DEF Load, LoopExits, server
  <2> QED BY <2>1, <2>2
<1>4. CASE Tick
  BY <1>4 DEF Tick, server, setup, hosting, OpenTmp, Goes, Reached, DisableUsage
<1>5. CASE OnMessage
  BY <1>5 DEF OnMessage, server, setup, desktop, hosting, OpenTmp, Goes
<1>6. CASE Shutdown
  BY <1>6 DEF Shutdown, server, setup, desktop, OpenTmp, Goes
<1>7. CASE Write
  BY <1>7 DEF Write, server, setup, desktop, hosting, WriteTmp, Goes
<1>8. CASE Rename
  BY <1>8 DEF Rename, server, setup, desktop, hosting, Moved, RenameTmp, Goes
<1>9. CASE Join
  BY <1>9 DEF Join, server, setup, Restarts, LoopExits
<1>10. CASE SaveFails
  BY <1>10 DEF SaveFails, server, setup, CloseFile, Restarts, LoopExits
<1>11. CASE Kill
  BY <1>11 DEF Kill, server, setup, CloseFile, Restarts, LoopExits
<1>12. CASE StopTimesOut
  BY <1>12 DEF StopTimesOut, server, setup, CloseFile, Restarts, LoopExits
<1>13. CASE Reboot
  BY <1>13 DEF Reboot, server
<1>14. CASE Restart
  BY <1>14 DEF Restart, files, setup, desktop, Launches
<1>15. CASE OperatorStops
  BY <1>15
     DEF OperatorStops, files, server, setup, desktop, StopEvent, RequestStop
<1>16. CASE OperatorStarts
  BY <1>16 DEF OperatorStarts, files, setup, desktop, Launches, RequestStart
<1>17. CASE OperatorEnrolls
  BY <1>17 DEF OperatorEnrolls, files, setup, desktop, hosting, Goes, Asks
<1>18. CASE Granted
  BY <1>18 DEF Granted, setup, desktop, hosting, Goes
<1>19. CASE LoadForEnroll
  BY <1>19 DEF LoadForEnroll, server, setup, desktop, hosting, Goes
<1>20. CASE WriteEnrollment
  BY <1>20 DEF WriteEnrollment, server, setup, desktop, hosting, WriteTmp, Goes
<1>21. CASE FinishEnrollment
  BY <1>21 DEF FinishEnrollment, desktop, hosting, Moved, RenameTmp, Goes
<1>22. CASE EnrollmentFails
  BY <1>22 DEF EnrollmentFails, desktop, hosting, CloseFile
<1>23. CASE InstallerStops
  BY <1>23
     DEF InstallerStops, files, server, desktop, Enrolled, StopEvent,
         RequestStop, Begins
<1>24. CASE StopProcess
  BY <1>24
     DEF StopProcess, files, server, CloseFile, Restarts, LoopExits,
         InstallerGoes
<1>25. CASE InstallerEnrolls
  BY <1>25
     DEF InstallerEnrolls, files, desktop, hosting, Goes, Asks, InstallerGoes
<1>26. CASE InstallerStarts
  BY <1>26
     DEF InstallerStarts, files, desktop, Launches, RequestStart,
         InstallerGoes
<1>27. CASE ~(ReportRunning \/ Load \/ Tick \/ OnMessage \/ Shutdown \/ Write \/
            Rename \/ Join \/ SaveFails \/ Kill \/ StopTimesOut \/ Reboot \/
            Restart \/ OperatorStops \/ OperatorStarts \/ OperatorEnrolls \/
            Granted \/ LoadForEnroll \/ WriteEnrollment \/ FinishEnrollment \/
            EnrollmentFails \/ InstallerStops \/ StopProcess \/ InstallerEnrolls
            \/ InstallerStarts)
  <2>1. UNCHANGED <<process, beside, creds, fd, file, reported>>
    BY [Next]_vars, <1>27
       DEF Next, LoopStep, EnrollStep, InstallerStep, vars, hosting, files,
           server, setup, desktop, Terminate, InstallerGoes, SeenStopped,
           InstallerWaits, Install, Verify, InstallerDies, SignIn, SignOut, Unlock
  <2> QED BY <2>1, <1>1
<1> QED BY <1>2, <1>3, <1>4, <1>5, <1>6, <1>7, <1>8, <1>9, <1>10, <1>11,
           <1>12, <1>13, <1>14, <1>15, <1>16, <1>17, <1>18, <1>19, <1>20,
           <1>21, <1>22, <1>23, <1>24, <1>25, <1>26, <1>27

(* Only a rename changes state.json, and it renames what was written whole *)
(* (storage.rs, Store::save).                                              *)
LEMMA EnrollmentKeptStep ==
  ASSUME EnrollmentKept, EnrollsAlone, LoopAlone, TypeOK, [Next]_vars
  PROVE  EnrollmentKept'
PROOF
<1>1. \A p \in Process : process[p] = "opened" /\ beside = {} => fd[p] = "tmp"
  BY DEF EnrollsAlone, LoopAlone, Process
<1> USE DEF TypeOK, EnrollmentKept, Process, Name, LoopStage, EnrollStage, Serving,
       Ending
<1>2. CASE UNCHANGED <<beside, file, reported>>
  BY <1>2
<1>3. CASE Tick
  BY <1>3 DEF Tick, server, setup, hosting, OpenTmp, Goes, Reached, DisableUsage
<1>4. CASE OnMessage
  BY <1>4 DEF OnMessage, server, setup, desktop, hosting, OpenTmp, Goes
<1>5. CASE Shutdown
  BY <1>5 DEF Shutdown, server, setup, desktop, OpenTmp, Goes
<1>6. CASE Write
  BY <1>6, <1>1 DEF Write, server, WriteTmp, Goes, LoopAlone
<1>7. CASE Rename
  <2>1. beside = {} => file["tmp"] = reported
    BY <1>7 DEF Rename, Goes, LoopAlone
  <2>2. UNCHANGED <<reported, beside>> /\ file'["state"] = file["tmp"]
    BY <1>7 DEF Rename, RenameTmp, server
  <2>3. beside = {} => reported # 0
    <3>1. beside = {} => creds["loop"] = reported
      BY <1>7 DEF Rename, Goes, LoopAlone
    <3>2. creds["loop"] \in Credential \cup {Absent}
      BY DEF TypeOK
    <3> HIDE DEF TypeOK
    <3> QED BY <3>1, <3>2, Credentials
  <2> QED BY <2>1, <2>2, <2>3
<1>8. CASE Restart
  BY <1>8 DEF Restart, files, setup, desktop, Launches
<1>9. CASE OperatorStarts
  BY <1>9 DEF OperatorStarts, files, setup, desktop, Launches, RequestStart
<1>10. CASE OperatorEnrolls
  BY <1>10 DEF OperatorEnrolls, files, setup, desktop, hosting, Goes, Asks
<1>11. CASE LoadForEnroll
  <2>1. beside = {} => file["state"] # Torn
    BY ReportedIsNat, Credentials
  <2> QED BY <1>11, <2>1 DEF LoadForEnroll, server
<1>12. CASE WriteEnrollment
  BY <1>12, <1>1 DEF WriteEnrollment, server, WriteTmp, Goes
<1>13. CASE FinishEnrollment
  <2>1. CASE "now" \in beside
    BY <1>13, <2>1 DEF FinishEnrollment
  <2>2. CASE "now" \notin beside
    <3>1. file["tmp"] = creds["enroll"] /\ creds["enroll"] # 0
      BY <1>13, <2>2, Credentials DEF FinishEnrollment, Goes, EnrollsAlone
    <3> QED BY <1>13, <3>1 DEF FinishEnrollment, RenameTmp
  <2> QED BY <2>1, <2>2
<1>14. CASE EnrollmentFails
  BY <1>14 DEF EnrollmentFails, desktop, hosting, CloseFile
<1>15. CASE InstallerEnrolls
  BY <1>15
     DEF InstallerEnrolls, files, desktop, hosting, Goes, Asks, InstallerGoes
<1>16. CASE InstallerStarts
  BY <1>16
     DEF InstallerStarts, files, desktop, Launches, RequestStart,
         InstallerGoes
<1>17. CASE ~(Tick \/ OnMessage \/ Shutdown \/ Write \/ Rename \/ Restart \/
            OperatorStarts \/ OperatorEnrolls \/ LoadForEnroll \/ WriteEnrollment
            \/ FinishEnrollment \/ EnrollmentFails \/ InstallerEnrolls \/
            InstallerStarts)
  <2>1. UNCHANGED <<beside, file, reported>>
    BY [Next]_vars, <1>17
       DEF Next, LoopStep, EnrollStep, InstallerStep, vars, hosting, files,
           server, setup, desktop, Process, CloseFile, Goes, Restarts, LoopExits,
           ReportRunning, Load, Join, SaveFails, Kill, StopTimesOut, Terminate,
           Reboot, StopEvent, RequestStop, OperatorStops, Granted, InstallerGoes,
           Begins, InstallerStops, SeenStopped, InstallerWaits, StopProcess,
           Install, Verify, InstallerDies, SignIn, SignOut, Unlock
  <2> QED BY <2>1, <1>2
<1> QED BY <1>3, <1>4, <1>5, <1>6, <1>7, <1>8, <1>9, <1>10, <1>11, <1>12,
           <1>13, <1>14, <1>15, <1>16, <1>17

(* No step of the agent, its manager, an installer or a user breaks it.    *)
LEMMA InvStep == Inv /\ [Next]_vars => Inv'
PROOF
<1> SUFFICES ASSUME Inv, [Next]_vars PROVE Inv'
  OBVIOUS
<1> USE DEF Inv
<1>1. TypeOK'
  <2>1. /\ platform' \in Platform
        /\ manager' \in {"stopped", "up", "stopping", "waiting", "failed"}
        /\ installer' \in {"idle", "stopping", "stopped", "cleared", "ready",
                           "enrolling", "enrolled", "verifying", "succeeded"}
        /\ login' \in {"nobody", "console", "remote"}
        /\ beside' \subseteq {"now", "before"}
        /\ faults' \in 0 .. MaxFaults
        /\ granted' \in 0 .. MaxEnrollments
    BY StagesStep
  <2>2. /\ process' \in [Process -> LoopStage \cup EnrollStage]
        /\ process'["loop"] \in LoopStage /\ process'["enroll"] \in EnrollStage
        /\ creds' \in [Process -> Credential \cup {Absent}]
        /\ fd' \in [Process -> Name \cup {"gone", "none"}]
        /\ file' \in [Name -> Credential \cup {Torn, Absent}]
        /\ reported' \in 0 .. MaxEnrollments
    BY ProcessesStep
  <2>3. \A p \in Process :
          (fd[p] # "none" <=> process[p] \in {"opened", "last opened"})'
    BY <2>2, HandlesStep
  <2>4. {enabled, signal, needs, expected, blocked, locked}' \subseteq BOOLEAN
    BY FlagsStep
  <2>5. (process["loop"] \in Serving \cup Ending => creds["loop"] \in Credential)'
    BY ServingStep
  <2> QED BY <2>1, <2>2, <2>3, <2>4, <2>5 DEF TypeOK
<1>2. Standing'
  BY StandingStep
<1>3. EnrollsAlone'
  BY EnrollsAloneStep
<1>4. LoopAlone'
  BY LoopAloneStep
<1>5. EnrollmentKept'
  BY EnrollmentKeptStep
<1> QED BY <1>1, <1>2, <1>3, <1>4, <1>5

LEMMA Invariance == Spec => []Inv
PROOF
<1>1. Init => Inv
  BY InitInv
<1>2. Inv /\ [Next]_vars => Inv'
  BY InvStep
<1> QED BY <1>1, <1>2, PTL DEF Spec

-----------------------------------------------------------------------------
(* Every state the service goes through has its type: a handle is open     *)
(* exactly while its process is between opening and writing, and a loop    *)
(* that serves has a credential (main.rs, run).                            *)
THEOREM TypeCorrect == Spec => []TypeOK
PROOF
<1>1. Inv => TypeOK
  BY DEF Inv
<1> QED BY <1>1, Invariance, PTL

(* The file holds the enrollment last reported as successful, whatever     *)
(* fails and whenever, unless an enroll command ran beside a live loop     *)
(* (storage.rs, Store::save; main.rs, enroll).                             *)
THEOREM FileKeepsEnrollment == Spec => []EnrollmentKept
PROOF
<1>1. Inv => EnrollmentKept
  BY DEF Inv
<1> QED BY <1>1, Invariance, PTL

(* An installer enrolls beside a live loop only where Windows has restarted*)
(* one that had died (install.ps1, main.rs).                               *)
THEOREM NoLoopBesideInstaller == Spec => []InstallerEnrollsAlone
PROOF
<1>1. Inv => InstallerEnrollsAlone
  BY DEF Inv, Standing, InstallerEnrollsAlone
<1> QED BY <1>1, Invariance, PTL

=============================================================================
