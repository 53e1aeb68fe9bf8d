---------------------------- MODULE ServiceProofs ----------------------------
(***************************************************************************)
(* Proofs about Service, on Linux and on macOS, for any arguments, any     *)
(* number of commands and any number of failures and reboots, wherever     *)
(* they come.                                                              *)
(***************************************************************************)
EXTENDS Service, TLAPS

-----------------------------------------------------------------------------
(* Where a script is.                                                      *)

LinuxOnly == {"check", "restart", "enable", "start", "stop", "disable", "reload"}
MacOnly   == {"list", "bootout", "bootstrap", "dismiss"}

(* The steps between which a unit has been written and the service has not *)
(* been started.                                                           *)
Written   == {"check", "restart", "enable", "start", "list", "bootout", "bootstrap"}
Removing  == {"rm", "rmdir", "reload"}

Idle == script \in {"none", "again"}

(* No process but one that is ending, and launchd without the job.         *)
Gone      == job = "off" \/ (os = "macos" /\ job = "stopping")
Forgotten == job = "stopping" \/ loaded = Absent

(* What each script has done so far.  Neither failures of the process, nor *)
(* the manager's own starts, nor sshd undo any of it, and a reboot ends    *)
(* the script.                                                             *)
ScriptsInOrder ==
    /\ script \in LinuxOnly => os = "linux"
    /\ script \in MacOnly => os = "macos"
    /\ ~Idle => outcome = "none"
    /\ script = "unit" => wanted \in Params
    /\ script \in Written => wanted \in Params /\ unit = wanted
    /\ script = "start" => enabled /\ loaded = unit

(* The same for an uninstall: what is undone already, but for what failed. *)
RemovalsInOrder ==
    /\ script = "disable" => job = "off" \/ "stop" \in missed
    /\ script \in Removing =>
           /\ enabled => "disable" \in missed
           /\ Gone \/ "stop" \in missed
           /\ os = "macos" => Forgotten \/ "stop" \in missed
    /\ script \in {"rmdir", "reload"} => unit = Absent \/ "rm" \in missed
    /\ script = "reload" => idfile = "absent" \/ missed \cap {"stop", "rmdir"} # {}

(* launchd has nothing to enable, systemd no process that is ending.       *)
OneManager ==
    /\ os = "macos" => ~enabled
    /\ job = "stopping" => os = "macos"

(* What an install that took its arguments into effect leaves behind: the  *)
(* manager remembers no others.                                            *)
AfterInstall ==
    outcome = "installed" =>
        /\ wanted \in Params /\ unit = wanted
        /\ fresh \/ os = "macos" =>
               /\ loaded \in {Absent, wanted}
               /\ os = "linux" => enabled
               /\ job \in Active => args = wanted

(* And what an uninstall leaves behind: nothing that could start again,    *)
(* but through a command that failed.                                      *)
AfterUninstall ==
    outcome = "uninstalled" =>
        /\ unit # Absent => "rm" \in missed
        /\ enabled => "disable" \in missed
        /\ Gone \/ missed \cap {"stop", "rm"} # {}
        /\ idfile = "absent" \/ missed \cap {"stop", "rm", "rmdir"} # {}
        /\ Forgotten \/ missed \cap {"stop", "rm"} # {}

(* The file of a process that runs: it is there unless an uninstall could  *)
(* not stop the process, and an install that has found it down, or         *)
(* succeeded, has started it anew since.                                   *)
Published ==
    job = "running" =>
        \/ idfile = "id"
        \/ "stop" \in missed /\ outcome # "installed" /\ script \notin {"enable", "start"}

(* Whatever failed is on record.                                           *)
OnRecord == ~cut => missed = {}

(* As long as no script is cut off on Linux and no command of an uninstall *)
(* fails, the service runs iff it is enabled, but for the moments between  *)
(* a start or a stop and its counterpart; and systemd has no unit to start *)
(* that is not enabled.                                                    *)
EnabledIffRunning ==
    os = "linux" /\ ~cut =>
        /\ job # "off" => enabled
        /\ enabled /\ script \notin {"start", "disable"} => job # "off"
        /\ enabled => unit # Absent
        /\ ~enabled /\ Idle => unit = Absent /\ loaded = Absent
        /\ script = "restart" => enabled

(* On macOS the last install that succeeded has a job.                     *)
InstalledRuns ==
    os = "macos" /\ outcome = "installed" => job \notin {"off", "stopping"}

IInv ==
    /\ TypeOK
    /\ ScriptsInOrder
    /\ RemovalsInOrder
    /\ OneManager
    /\ AfterInstall
    /\ AfterUninstall
    /\ Published
    /\ OnRecord
    /\ EnabledIffRunning
    /\ InstalledRuns

-----------------------------------------------------------------------------
(* IInv is inductive.                                                      *)

LEMMA InitHolds == Init => IInv
<1>1. Init => TypeOK
  <2>1. Init => {unit, loaded, args, wanted} \subseteq Params \cup {Absent}
    BY DEF Init
  <2>2. Init => ops \in 0..MaxOps /\ fails \in 0..MaxFails
    BY ServiceOK DEF Init
  <2>. QED  BY <2>1, <2>2 DEF Init, TypeOK, Active
<1>2. Init => /\ ScriptsInOrder /\ RemovalsInOrder /\ OneManager /\ AfterInstall
              /\ AfterUninstall /\ Published /\ OnRecord /\ EnabledIffRunning
              /\ InstalledRuns
  BY DEF Init, ScriptsInOrder, RemovalsInOrder, OneManager, AfterInstall, AfterUninstall,
     Published, OnRecord, EnabledIffRunning, InstalledRuns, Idle, LinuxOnly, MacOnly,
     Written, Removing
<1>. QED  BY <1>1, <1>2 DEF IInv

(* The administrator's commands, which only name the script's first step.  *)
LEMMA CommandsKeep ==
    ASSUME IInv,
           Install \/ Uninstall \/ Restart \/ Interrupt
    PROVE  IInv'
<1>. USE ServiceOK DEF IInv, TypeOK, ScriptsInOrder, RemovalsInOrder, OneManager,
        AfterInstall, AfterUninstall, Published, OnRecord, EnabledIffRunning, InstalledRuns,
        Idle, LinuxOnly, MacOnly, Written, Removing, Gone, Forgotten, Active, Systems,
        Removals
<1>1. CASE Install
  BY <1>1 DEF Install, Command
<1>2. CASE Uninstall
  BY <1>2 DEF Uninstall, Command
<1>3. CASE Restart
  BY <1>3 DEF Restart, Command
<1>4. CASE Interrupt
  BY <1>4 DEF Interrupt
<1>. QED  BY <1>1, <1>2, <1>3, <1>4

(* install_linux.sh, and `systemctl restart`.                              *)
LEMMA InstallLinuxKeeps ==
    ASSUME IInv,
           WriteUnit \/ IsActive \/ RestartUnit \/ Enable \/ StartUnit \/ RestartAgain
    PROVE  IInv'
<1>. USE ServiceOK DEF IInv, TypeOK, ScriptsInOrder, RemovalsInOrder, OneManager,
        AfterInstall, AfterUninstall, Published, OnRecord, EnabledIffRunning, InstalledRuns,
        Idle, LinuxOnly, MacOnly, Written, Removing, Gone, Forgotten, Active, Systems,
        Removals
<1>1. CASE WriteUnit
  BY <1>1 DEF WriteUnit
<1>2. CASE IsActive
  BY <1>2 DEF IsActive
<1>3. CASE RestartUnit
  BY <1>3 DEF RestartUnit, Launch, Loaded
<1>4. CASE Enable
  BY <1>4 DEF Enable
<1>5. CASE StartUnit
  <2>1. CASE job \in Active
    BY <1>5, <2>1 DEF StartUnit
  <2>2. CASE job \notin Active
    BY <1>5, <2>2 DEF StartUnit, Launch, Loaded
  <2>. QED  BY <2>1, <2>2
<1>6. CASE RestartAgain
  <2>1. CASE Loaded = Absent
    BY <1>6, <2>1 DEF RestartAgain
  <2>2. CASE Loaded # Absent
    BY <1>6, <2>2 DEF RestartAgain, Launch, Loaded
  <2>. QED  BY <2>1, <2>2
<1>. QED  BY <1>1, <1>2, <1>3, <1>4, <1>5, <1>6

(* uninstall_linux.sh and uninstall_macos.sh.                              *)
(* A command that fails changes nothing but the account of it.             *)
LEMMA MissKeeps ==
    ASSUME IInv, NEW c \in Removals, NEW before \in SUBSET Removals,
           script \in {"stop", "dismiss", "disable", "rm", "rmdir", "reload"},
           before = (IF c = "stop" THEN {} ELSE missed), missed' = before \cup {c},
           fails < MaxFails, fails' = fails + 1, cut' = TRUE, outcome' = outcome,
           UNCHANGED <<unit, loaded, enabled, job, idfile>>, Elsewhere,
           \/ script = "stop" /\ c = "stop" /\ script' = "disable"
           \/ script = "dismiss" /\ c = "stop" /\ script' = "rm"
           \/ script = "disable" /\ c = "disable" /\ script' = "rm"
           \/ script = "rm" /\ c = "rm" /\ script' = "rmdir"
           \/ script = "rmdir" /\ c = "rmdir" /\ os = "linux" /\ script' = "reload"
           \/ script = "rmdir" /\ c = "rmdir" /\ script' = "none"
           \/ script = "reload" /\ c = "reload" /\ script' = "none"
    PROVE  IInv'
<1>. USE ServiceOK DEF IInv, Elsewhere
<1>1. TypeOK'
  BY DEF TypeOK
<1>2. OneManager' /\ AfterInstall' /\ InstalledRuns' /\ ScriptsInOrder'
  BY DEF TypeOK, OneManager, AfterInstall, InstalledRuns, ScriptsInOrder, Idle, LinuxOnly,
     MacOnly, Written, Removing, Systems, Active
<1>3. outcome = "none" /\ outcome' = "none"
  BY DEF ScriptsInOrder, Idle
<1>4. OnRecord' /\ AfterUninstall' /\ EnabledIffRunning'
  BY <1>3 DEF OnRecord, AfterUninstall, EnabledIffRunning
<1>5. Published'
  BY <1>3 DEF Published
<1>6. RemovalsInOrder'
  BY DEF TypeOK, RemovalsInOrder, OneManager, ScriptsInOrder, Gone, Forgotten, Removing,
     LinuxOnly, MacOnly, Systems
<1>. QED  BY <1>1, <1>2, <1>4, <1>5, <1>6

LEMMA UninstallKeeps ==
    ASSUME IInv,
           StopUnit \/ Disable \/ RemoveUnit \/ RemoveDir \/ DaemonReload \/ BootOutOrUnload
    PROVE  IInv'
<1>. USE ServiceOK DEF IInv
<1>. DEFINE Missed(c) ==
         /\ missed' = (IF c = "stop" THEN {} ELSE missed) \cup {c}
         /\ fails < MaxFails /\ fails' = fails + 1 /\ cut' = TRUE
         /\ UNCHANGED <<unit, loaded, enabled, job, idfile>>
<1>0. missed \subseteq Removals
  BY DEF TypeOK
<1>1. CASE StopUnit
  <2>. DEFINE Does ==
            /\ script = "stop" /\ script' = "disable" /\ job' = "off" /\ missed' = {}
            /\ UNCHANGED <<unit, loaded, enabled, idfile, outcome, cut, fails>>
  <2>1. Elsewhere /\ (Does \/ Missed("stop"))
    BY <1>1 DEF StopUnit, Attempt
  <2>2. CASE Missed("stop")
    BY <1>1, <2>1, <2>2, <1>0, MissKeeps DEF StopUnit, Removals, Concludes
  <2>3. CASE Does
    <3>1. TypeOK' /\ OnRecord'
      BY <2>1, <2>3, <1>0 DEF TypeOK, OnRecord, Elsewhere, Removals, Active, Dismiss
    <3>2. ScriptsInOrder' /\ RemovalsInOrder' /\ OneManager'
      BY <2>1, <2>3 DEF TypeOK, ScriptsInOrder, RemovalsInOrder, OneManager,
         Elsewhere, Idle, LinuxOnly, MacOnly, Written, Removing, Gone, Forgotten, Systems,
         Active, Dismiss
    <3>3. AfterInstall' /\ AfterUninstall' /\ Published' /\ EnabledIffRunning' /\ InstalledRuns'
      BY <2>1, <2>3 DEF TypeOK, ScriptsInOrder, RemovalsInOrder, OneManager,
         AfterInstall, AfterUninstall, Published, OnRecord, EnabledIffRunning, InstalledRuns,
         Elsewhere, Idle, LinuxOnly, MacOnly, Removing, Gone, Forgotten, Active, Dismiss
    <3>. QED  BY <3>1, <3>2, <3>3
  <2>. QED  BY <2>1, <2>2, <2>3
<1>2. CASE Disable
  <2>. DEFINE Does ==
            /\ script = "disable" /\ script' = "rm" /\ enabled' = FALSE
            /\ loaded' = unit
            /\ UNCHANGED <<unit, job, idfile, outcome, missed, cut, fails>>
  <2>1. Elsewhere /\ (Does \/ Missed("disable"))
    BY <1>2 DEF Disable, Attempt
  <2>2. CASE Missed("disable")
    BY <1>2, <2>1, <2>2, <1>0, MissKeeps DEF Disable, Removals, Concludes
  <2>3. CASE Does
    <3>1. TypeOK' /\ OnRecord'
      BY <2>1, <2>3, <1>0 DEF TypeOK, OnRecord, Elsewhere, Removals, Active, Dismiss
    <3>2. ScriptsInOrder' /\ RemovalsInOrder' /\ OneManager'
      BY <2>1, <2>3 DEF TypeOK, ScriptsInOrder, RemovalsInOrder, OneManager,
         Elsewhere, Idle, LinuxOnly, MacOnly, Written, Removing, Gone, Forgotten, Systems,
         Active, Dismiss
    <3>3. AfterInstall' /\ AfterUninstall' /\ Published' /\ EnabledIffRunning' /\ InstalledRuns'
      BY <2>1, <2>3 DEF TypeOK, ScriptsInOrder, RemovalsInOrder, OneManager,
         AfterInstall, AfterUninstall, Published, OnRecord, EnabledIffRunning, InstalledRuns,
         Elsewhere, Idle, LinuxOnly, MacOnly, Removing, Gone, Forgotten, Active, Dismiss
    <3>. QED  BY <3>1, <3>2, <3>3
  <2>. QED  BY <2>1, <2>2, <2>3
<1>3. CASE RemoveUnit
  <2>. DEFINE Does ==
            /\ script = "rm" /\ script' = "rmdir" /\ unit' = Absent
            /\ UNCHANGED <<loaded, enabled, job, idfile, outcome, missed, cut, fails>>
  <2>1. Elsewhere /\ (Does \/ Missed("rm"))
    BY <1>3 DEF RemoveUnit, Attempt
  <2>2. CASE Missed("rm")
    BY <1>3, <2>1, <2>2, <1>0, MissKeeps DEF RemoveUnit, Removals, Concludes
  <2>3. CASE Does
    <3>1. TypeOK' /\ OnRecord'
      BY <2>1, <2>3, <1>0 DEF TypeOK, OnRecord, Elsewhere, Removals, Active, Dismiss
    <3>2. ScriptsInOrder' /\ RemovalsInOrder' /\ OneManager'
      BY <2>1, <2>3 DEF TypeOK, ScriptsInOrder, RemovalsInOrder, OneManager,
         Elsewhere, Idle, LinuxOnly, MacOnly, Written, Removing, Gone, Forgotten, Systems,
         Active, Dismiss
    <3>3. AfterInstall' /\ AfterUninstall' /\ Published' /\ EnabledIffRunning' /\ InstalledRuns'
      BY <2>1, <2>3 DEF TypeOK, ScriptsInOrder, RemovalsInOrder, OneManager,
         AfterInstall, AfterUninstall, Published, OnRecord, EnabledIffRunning, InstalledRuns,
         Elsewhere, Idle, LinuxOnly, MacOnly, Removing, Gone, Forgotten, Active, Dismiss
    <3>. QED  BY <3>1, <3>2, <3>3
  <2>. QED  BY <2>1, <2>2, <2>3
<1>4. CASE RemoveDir
  <2>. DEFINE Does ==
            /\ script = "rmdir" /\ idfile' = "absent"
            /\ \/ os = "linux" /\ script' = "reload" /\ outcome' = outcome
               \/ os # "linux" /\ script' = "none" /\ outcome' = "uninstalled"
            /\ UNCHANGED <<unit, loaded, enabled, job, missed, cut, fails>>
  <2>1. Elsewhere /\ (Does \/ Missed("rmdir"))
    BY <1>4 DEF RemoveDir, Attempt, Concludes
  <2>2. CASE Missed("rmdir")
    BY <1>4, <2>1, <2>2, <1>0, MissKeeps DEF RemoveDir, Removals, Concludes
  <2>3. CASE Does
    <3>1. TypeOK' /\ OnRecord'
      BY <2>1, <2>3, <1>0 DEF TypeOK, OnRecord, Elsewhere, Removals, Active, Dismiss
    <3>2. ScriptsInOrder' /\ RemovalsInOrder' /\ OneManager'
      BY <2>1, <2>3 DEF TypeOK, ScriptsInOrder, RemovalsInOrder, OneManager,
         Elsewhere, Idle, LinuxOnly, MacOnly, Written, Removing, Gone, Forgotten, Systems,
         Active, Dismiss
    <3>3. AfterInstall' /\ Published' /\ EnabledIffRunning' /\ InstalledRuns'
      BY <2>1, <2>3 DEF TypeOK, ScriptsInOrder, RemovalsInOrder, OneManager,
         AfterInstall, Published, OnRecord, EnabledIffRunning, InstalledRuns,
         Elsewhere, Idle, LinuxOnly, MacOnly, Removing, Gone, Active
    <3>4. AfterUninstall'
      <4>1. /\ unit = Absent \/ "rm" \in missed
            /\ enabled => "disable" \in missed
            /\ Gone \/ "stop" \in missed
            /\ os = "macos" => Forgotten \/ "stop" \in missed
        BY <2>3 DEF RemovalsInOrder, Removing
      <4>2. os = "linux" => outcome' # "uninstalled"
        BY <2>3 DEF ScriptsInOrder, Idle
      <4>3. os # "linux" => os = "macos"
        BY DEF TypeOK, Systems
      <4>. QED  BY <2>1, <2>3, <4>1, <4>2, <4>3 DEF AfterUninstall, Gone, Forgotten, Elsewhere
    <3>. QED  BY <3>1, <3>2, <3>3, <3>4
  <2>. QED  BY <2>1, <2>2, <2>3
<1>5. CASE DaemonReload
  <2>. DEFINE Does ==
            /\ script = "reload" /\ script' = "none" /\ loaded' = unit
            /\ outcome' = "uninstalled"
            /\ UNCHANGED <<unit, enabled, job, idfile, missed, cut, fails>>
  <2>1. Elsewhere /\ (Does \/ Missed("reload"))
    BY <1>5 DEF DaemonReload, Attempt, Concludes
  <2>2. CASE Missed("reload")
    BY <1>5, <2>1, <2>2, <1>0, MissKeeps DEF DaemonReload, Removals, Concludes
  <2>3. CASE Does
    <3>1. TypeOK' /\ OnRecord'
      BY <2>1, <2>3, <1>0 DEF TypeOK, OnRecord, Elsewhere, Removals, Active, Dismiss
    <3>2. ScriptsInOrder' /\ RemovalsInOrder' /\ OneManager'
      BY <2>1, <2>3 DEF TypeOK, ScriptsInOrder, RemovalsInOrder, OneManager,
         Elsewhere, Idle, LinuxOnly, MacOnly, Written, Removing, Gone, Forgotten, Systems,
         Active, Dismiss
    <3>3. AfterInstall' /\ AfterUninstall' /\ Published' /\ EnabledIffRunning' /\ InstalledRuns'
      BY <2>1, <2>3 DEF TypeOK, ScriptsInOrder, RemovalsInOrder, OneManager,
         AfterInstall, AfterUninstall, Published, OnRecord, EnabledIffRunning, InstalledRuns,
         Elsewhere, Idle, LinuxOnly, MacOnly, Removing, Gone, Forgotten, Active, Dismiss
    <3>. QED  BY <3>1, <3>2, <3>3
  <2>. QED  BY <2>1, <2>2, <2>3
<1>6. CASE BootOutOrUnload
  <2>. DEFINE Does ==
            /\ script = "dismiss" /\ script' = "rm" /\ missed' = {} /\ Dismiss
            /\ UNCHANGED <<unit, enabled, idfile, outcome, cut, fails>>
  <2>1. Elsewhere /\ (Does \/ Missed("stop"))
    BY <1>6 DEF BootOutOrUnload, Attempt
  <2>2. CASE Missed("stop")
    BY <1>6, <2>1, <2>2, <1>0, MissKeeps DEF BootOutOrUnload, Removals, Concludes
  <2>3. CASE Does
    <3>1. TypeOK' /\ OnRecord'
      BY <2>1, <2>3, <1>0 DEF TypeOK, OnRecord, Elsewhere, Removals, Active, Dismiss
    <3>2. ScriptsInOrder' /\ RemovalsInOrder' /\ OneManager'
      BY <2>1, <2>3 DEF TypeOK, ScriptsInOrder, RemovalsInOrder, OneManager,
         Elsewhere, Idle, LinuxOnly, MacOnly, Written, Removing, Gone, Forgotten, Systems,
         Active, Dismiss
    <3>3. AfterInstall' /\ AfterUninstall' /\ Published' /\ EnabledIffRunning' /\ InstalledRuns'
      BY <2>1, <2>3 DEF TypeOK, ScriptsInOrder, RemovalsInOrder, OneManager,
         AfterInstall, AfterUninstall, Published, OnRecord, EnabledIffRunning, InstalledRuns,
         Elsewhere, Idle, LinuxOnly, MacOnly, Removing, Gone, Forgotten, Active, Dismiss
    <3>. QED  BY <3>1, <3>2, <3>3
  <2>. QED  BY <2>1, <2>2, <2>3
<1>. QED  BY <1>1, <1>2, <1>3, <1>4, <1>5, <1>6

(* install_macos.sh from its second command on, and `launchctl kickstart`. *)
LEMMA InstallMacKeeps ==
    ASSUME IInv,
           IsListed \/ BootOut \/ Bootstrap \/ Kickstart \/ Ended
    PROVE  IInv'
<1>. USE ServiceOK DEF IInv, TypeOK, ScriptsInOrder, RemovalsInOrder, OneManager,
        AfterInstall, AfterUninstall, Published, OnRecord, EnabledIffRunning, InstalledRuns,
        Idle, LinuxOnly, MacOnly, Written, Removing, Gone, Forgotten, Active, Systems,
        Removals
<1>1. CASE IsListed
  BY <1>1 DEF IsListed
<1>2. CASE BootOut
  BY <1>2 DEF BootOut, Dismiss
<1>3. CASE Bootstrap
  <2>1. CASE loaded = Absent
    BY <1>3, <2>1 DEF Bootstrap, Launch, Loaded
  <2>2. CASE loaded # Absent
    BY <1>3, <2>2 DEF Bootstrap
  <2>. QED  BY <2>1, <2>2
<1>4. CASE Kickstart
  BY <1>4 DEF Kickstart, Launch, Loaded
<1>5. CASE Ended
  BY <1>5 DEF Ended
<1>. QED  BY <1>1, <1>2, <1>3, <1>4, <1>5

(* The process, its manager and the machine.                               *)
LEMMA ProcessKeeps ==
    ASSUME IInv,
           Build \/ PublishOpen \/ PublishWrite \/ Fail \/ Wake \/ Reboot \/ Forget \/ Sshd
    PROVE  IInv'
<1>. USE ServiceOK DEF IInv, TypeOK, ScriptsInOrder, RemovalsInOrder, OneManager,
        AfterInstall, AfterUninstall, Published, OnRecord, EnabledIffRunning, InstalledRuns,
        Idle, LinuxOnly, MacOnly, Written, Removing, Gone, Forgotten, Active, Systems,
        Removals
<1>1. CASE Build
  BY <1>1 DEF Build, Step
<1>2. CASE PublishOpen
  BY <1>2 DEF PublishOpen, Step
<1>3. CASE PublishWrite
  BY <1>3 DEF PublishWrite, Step
<1>4. CASE Fail
  BY <1>4 DEF Fail, Step
<1>5. CASE Wake
  BY <1>5 DEF Wake, Launch, Loaded
<1>6. CASE Reboot
  <2>1. TypeOK' /\ ScriptsInOrder' /\ OneManager' /\ Published'
    BY <1>6 DEF Reboot
  <2>2. AfterInstall' /\ InstalledRuns'
    BY <1>6 DEF Reboot, StartsAtBoot
  <2>3. AfterUninstall' /\ RemovalsInOrder'
    BY <1>6 DEF Reboot, StartsAtBoot
  <2>4. EnabledIffRunning'
    BY <1>6 DEF Reboot, StartsAtBoot
  <2>5. OnRecord'
    BY <1>6 DEF Reboot, StartsAtBoot
  <2>. QED  BY <2>1, <2>2, <2>3, <2>4, <2>5
<1>7. CASE Forget
  <2>1. TypeOK' /\ ScriptsInOrder' /\ OneManager' /\ Published' /\ OnRecord'
    BY <1>7 DEF Forget
  <2>2. RemovalsInOrder' /\ AfterUninstall'
    BY <1>7 DEF Forget
  <2>3. AfterInstall' /\ EnabledIffRunning' /\ InstalledRuns'
    BY <1>7 DEF Forget
  <2>. QED  BY <2>1, <2>2, <2>3
<1>8. CASE Sshd
  BY <1>8 DEF Sshd
<1>. QED  BY <1>1, <1>2, <1>3, <1>4, <1>5, <1>6, <1>7, <1>8

LEMMA Inductive == Spec => []IInv
<1>1. IInv /\ [Next]_vars => IInv'
  <2>. SUFFICES ASSUME IInv, [Next]_vars
                PROVE  IInv'
    OBVIOUS
  <2>1. CASE Next
    BY <2>1, CommandsKeep, InstallLinuxKeeps, UninstallKeeps, InstallMacKeeps, ProcessKeeps
       DEF Next
  <2>2. CASE UNCHANGED vars
    BY <2>2 DEF vars, IInv, TypeOK, ScriptsInOrder, RemovalsInOrder, OneManager,
       AfterInstall, AfterUninstall, Published, OnRecord, EnabledIffRunning, InstalledRuns,
       Idle, Gone, Forgotten
  <2>. QED  BY <2>1, <2>2
<1>. QED  BY <1>1, InitHolds, PTL DEF Spec

-----------------------------------------------------------------------------
(* What the commands promise.                                              *)

(* Every variable keeps its type, on both systems.                         *)
THEOREM TypeCorrect == Spec => []TypeOK
<1>1. IInv => TypeOK
  BY DEF IInv
<1>. QED  BY <1>1, Inductive, PTL

(* An install that reported success stands until the next install or       *)
(* uninstall: the service comes back with the machine and is never off.    *)
(* On Linux, if no script was cut off and no command of an uninstall       *)
(* failed before it (install_linux.sh, install_macos.sh).                  *)
THEOREM InstallStands == Spec => []InstalledStays
<1>1. IInv => InstalledStays
  BY ServiceOK DEF IInv, TypeOK, Systems, ScriptsInOrder, OneManager, AfterInstall,
     EnabledIffRunning, InstalledRuns, InstalledStays, StartsAtBoot, Idle
<1>. QED  BY <1>1, Inductive, PTL

(* No process runs with the arguments of an earlier install after one that *)
(* started the service itself, or any on macOS: no start of the manager's  *)
(* own brings them back (install_linux.sh:8-28, install_macos.sh:47-53).   *)
THEOREM InstallTakesArguments == Spec => []ArgumentsTaken
<1>1. IInv => ArgumentsTaken
  BY DEF IInv, AfterInstall, ArgumentsTaken
<1>. QED  BY <1>1, Inductive, PTL

(* An uninstall that reported success, scripts cut off before it or not,   *)
(* leaves of the unit, the process and the endpoint ID only what a command *)
(* of its own that failed was to remove, and nothing comes back later but  *)
(* for one of these failures (uninstall_linux.sh, uninstall_macos.sh).     *)
THEOREM UninstallIsClean == Spec => []UninstallCleans
<1>1. IInv => UninstallCleans
  BY DEF IInv, AfterUninstall, UninstallCleans, Status, Gone
<1>. QED  BY <1>1, Inductive, PTL

(* No uninstall removes the endpoint ID under a process that runs, but one *)
(* whose stop failed, however scripts, failures and restarts interleave;   *)
(* and after the next install a service that runs is found again           *)
(* (service.rs:129-143, uninstall_linux.sh:2-5).                           *)
THEOREM StatusFindsRunning == Spec => []StatusFindsIt
<1>1. IInv => StatusFindsIt
  BY DEF IInv, Published, StatusFindsIt, Status
<1>. QED  BY <1>1, Inductive, PTL
=============================================================================
