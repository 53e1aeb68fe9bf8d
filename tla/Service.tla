------------------------------ MODULE Service ------------------------------
(***************************************************************************)
(* The roost as a service of systemd or launchd: `pigeons service install`, *)
(* `uninstall`, `restart` and `status` on Linux and macOS                  *)
(* (src/src/service.rs, src/src/service/linux.rs and macos.rs, the scripts *)
(* in src/service), and the life of the process they start                 *)
(* (src/src/main.rs:264-309).                                              *)
(*                                                                         *)
(* The scripts run one command at a time and may be interrupted between    *)
(* any two; those of an uninstall go on after one that failed.  The        *)
(* service's process runs, fails and is started again by the service       *)
(* manager meanwhile, and the machine may reboot.                          *)
(***************************************************************************)
EXTENDS Naturals

CONSTANTS Params,     \* the arguments of an install: port and relays
          MaxOps,     \* bound on the commands an administrator runs
          MaxFails    \* bound on reboots and failures, of processes or commands

Absent == "absent"

ASSUME ServiceOK ==
    /\ Absent \notin Params
    /\ MaxOps \in Nat
    /\ MaxFails \in Nat

(* The two that are managed by scripts.                                    *)
Systems == {"linux", "macos"}

VARIABLES
    os,        \* which of the two systems this is
    unit,      \* the arguments in the unit file or the plist
    loaded,    \* the ones of the unit systemd, or the job launchd, has in memory
    enabled,   \* systemd starts the service with the machine
    job,       \* the service's process
    args,      \* the arguments it runs with
    idfile,    \* /etc/pigeons/endpoint_id: absent, empty, id
    sshd,      \* sshd listens
    script,    \* the next command of the script that runs
    wanted,    \* the arguments of the last install
    outcome,   \* what the last install or uninstall reported
    fresh,     \* the last install started the service, and not restarted it
    missed,    \* the commands of the last uninstall that failed
    cut,       \* a script was ever cut off, or went on after a failure
    ops, fails

vars == <<os, unit, loaded, enabled, job, args, idfile, sshd, script, wanted,
          outcome, fresh, missed, cut, ops, fails>>

(* build: keys, endpoint, the look for sshd; open, write: the publishing   *)
(* of the endpoint ID; waiting: for RestartSec, or launchd's throttle;     *)
(* stopping: told to end by launchd, which still has the job.              *)
Active == {"build", "open", "write", "running"}

(* The commands of the uninstall scripts; on macOS the first of them is    *)
(* bootout, and the last the fourth.                                       *)
Removals == {"stop", "disable", "rm", "rmdir", "reload"}

TypeOK ==
    /\ os \in Systems
    /\ {unit, loaded, args, wanted} \subseteq Params \cup {Absent}
    /\ enabled \in BOOLEAN
    /\ job \in {"off", "waiting", "stopping"} \cup Active
    /\ idfile \in {"absent", "empty", "id"}
    /\ sshd \in BOOLEAN
    /\ script \in {"none", "unit", "check", "restart", "enable", "start", "again",
                   "stop", "disable", "rm", "rmdir", "reload",
                   "list", "bootout", "bootstrap", "dismiss"}
    /\ outcome \in {"none", "installed", "uninstalled"}
    /\ fresh \in BOOLEAN
    /\ missed \subseteq Removals
    /\ cut \in BOOLEAN
    /\ ops \in 0..MaxOps
    /\ fails \in 0..MaxFails

Init ==
    /\ os \in Systems
    /\ unit = Absent /\ loaded = Absent /\ args = Absent /\ wanted = Absent
    /\ enabled = FALSE
    /\ job = "off"
    /\ idfile = "absent"
    /\ sshd \in BOOLEAN
    /\ script = "none"
    /\ outcome = "none"
    /\ fresh = FALSE
    /\ missed = {}
    /\ cut = FALSE
    /\ ops = 0 /\ fails = 0

(* systemd reads a unit file when it first needs it, and keeps what it     *)
(* read until it is told to read all of them again.                        *)
Loaded == IF loaded = Absent THEN unit ELSE loaded

(* The process is started, with what the service manager has loaded.       *)
Launch ==
    /\ Loaded # Absent
    /\ job' = "build"
    /\ args' = Loaded
    /\ loaded' = Loaded

(***************************************************************************)
(* The commands.                                                           *)
(***************************************************************************)
Command(first) ==
    /\ script = "none"
    /\ ops < MaxOps
    /\ ops' = ops + 1
    /\ script' = first
    /\ UNCHANGED <<unit, loaded, enabled, job, args, idfile, sshd, fresh,
                   missed, cut, fails, os>>

Install ==
    /\ Command("unit")
    /\ wanted' \in Params
    /\ outcome' = "none"

Uninstall ==
    /\ Command(IF os = "linux" THEN "stop" ELSE "dismiss")
    /\ outcome' = "none"
    /\ UNCHANGED wanted

Restart ==
    /\ Command("again")
    /\ UNCHANGED <<wanted, outcome>>

(* install_linux.sh and install_macos.sh, under set -e.                    *)
WriteUnit ==
    /\ script = "unit"
    /\ unit' = wanted
    /\ script' = IF os = "linux" THEN "check" ELSE "list"
    /\ UNCHANGED <<loaded, enabled, job, args, idfile, sshd, wanted, outcome,
                   fresh, missed, cut, ops, fails, os>>

(* Mutant of IsActive: start without enable.                               *)
IsActiveElseStart ==
    /\ script = "check"
    /\ script' = IF job \in Active THEN "restart" ELSE "start"
    /\ UNCHANGED <<unit, loaded, enabled, job, args, idfile, sshd, wanted,
                   outcome, fresh, missed, cut, ops, fails, os>>

IsActive ==
    /\ script = "check"
    /\ script' = IF job \in Active THEN "restart" ELSE "enable"
    /\ UNCHANGED <<unit, loaded, enabled, job, args, idfile, sshd, wanted,
                   outcome, fresh, missed, cut, ops, fails, os>>

(* The active branch: no daemon-reload, and no enable.                     *)
RestartUnit ==
    /\ script = "restart"
    /\ Launch
    /\ script' = "none"
    /\ outcome' = "installed"
    /\ fresh' = FALSE
    /\ UNCHANGED <<unit, enabled, idfile, sshd, wanted, missed, cut, ops,
                   fails, os>>

(* systemctl enable reads the unit files again.                            *)
Enable ==
    /\ script = "enable"
    /\ enabled' = TRUE
    /\ loaded' = unit
    /\ script' = "start"
    /\ UNCHANGED <<unit, job, args, idfile, sshd, wanted, outcome, fresh,
                   missed, cut, ops, fails, os>>

(* systemctl start does nothing if systemd's own restart came first.       *)
StartUnit ==
    /\ script = "start"
    /\ IF job \in Active THEN UNCHANGED <<job, args, loaded>> ELSE Launch
    /\ fresh' = (job \notin Active)
    /\ script' = "none"
    /\ outcome' = "installed"
    /\ UNCHANGED <<unit, enabled, idfile, sshd, wanted, missed, cut, ops,
                   fails, os>>

(* `service restart`: systemctl restart, an error if there is no unit.     *)
RestartAgain ==
    /\ script = "again" /\ os = "linux"
    /\ IF Loaded = Absent THEN UNCHANGED <<job, args, loaded>> ELSE Launch
    /\ script' = "none"
    /\ UNCHANGED <<unit, enabled, idfile, sshd, wanted, outcome, fresh, missed,
                   cut, ops, fails, os>>

(* A command of an uninstall script: what it does, or nothing if it fails. *)
(* Without set -e the script goes on either way.  The first command starts *)
(* the account of what was missed.                                         *)
Attempt(command, effect) ==
    LET before == IF command = "stop" THEN {} ELSE missed
    IN  \/ effect
           /\ missed' = before
           /\ UNCHANGED <<cut, fails>>
        \/ fails < MaxFails
           /\ fails' = fails + 1
           /\ missed' = before \cup {command}
           /\ cut' = TRUE
           /\ UNCHANGED <<unit, loaded, enabled, job, idfile>>

(* The last command's result is the script's, and so the uninstall's.      *)
Concludes ==
    /\ script' = "none"
    /\ outcome' = IF fails' = fails THEN "uninstalled" ELSE outcome

Elsewhere == UNCHANGED <<args, sshd, wanted, fresh, ops, os>>

(* Mutant of StopUnit: systemctl stop --no-block.                          *)
StopUnitLater ==
    /\ script = "stop"
    /\ Attempt("stop", UNCHANGED <<unit, loaded, enabled, job, idfile>>)
    /\ script' = "disable"
    /\ Elsewhere /\ UNCHANGED outcome

(* uninstall_linux.sh.                                                     *)
StopUnit ==
    /\ script = "stop"
    /\ Attempt("stop", /\ job' = "off"
                       /\ UNCHANGED <<unit, loaded, enabled, idfile>>)
    /\ script' = "disable"
    /\ Elsewhere /\ UNCHANGED outcome

Disable ==
    /\ script = "disable"
    /\ Attempt("disable", /\ enabled' = FALSE
                          /\ loaded' = unit
                          /\ UNCHANGED <<unit, job, idfile>>)
    /\ script' = "rm"
    /\ Elsewhere /\ UNCHANGED outcome

RemoveUnit ==
    /\ script = "rm"
    /\ Attempt("rm", /\ unit' = Absent
                     /\ UNCHANGED <<loaded, enabled, job, idfile>>)
    /\ script' = "rmdir"
    /\ Elsewhere /\ UNCHANGED outcome

RemoveDir ==
    /\ script = "rmdir"
    /\ Attempt("rmdir", /\ idfile' = "absent"
                        /\ UNCHANGED <<unit, loaded, enabled, job>>)
    /\ IF os = "linux"
         THEN script' = "reload" /\ UNCHANGED outcome
         ELSE Concludes
    /\ Elsewhere

DaemonReload ==
    /\ script = "reload"
    /\ Attempt("reload", /\ loaded' = unit
                         /\ UNCHANGED <<unit, enabled, job, idfile>>)
    /\ Concludes
    /\ Elsewhere

(* install_macos.sh, after the plist.                                      *)
IsListed ==
    /\ script = "list"
    /\ script' = IF loaded = Absent THEN "bootstrap" ELSE "bootout"
    /\ UNCHANGED <<unit, loaded, enabled, job, args, idfile, sshd, wanted,
                   outcome, fresh, missed, cut, ops, fails, os>>

(* launchd tells the process to end, and forgets the job once it has.      *)
Dismiss ==
    /\ job' = IF job \in Active \cup {"stopping"} THEN "stopping" ELSE "off"
    /\ loaded' = IF job' = "stopping" THEN loaded ELSE Absent

(* `launchctl bootout || true; sleep 1`: the second is no promise.         *)
BootOut ==
    /\ script = "bootout"
    /\ Dismiss
    /\ script' = "bootstrap"
    /\ UNCHANGED <<unit, enabled, args, idfile, sshd, wanted, outcome, fresh,
                   missed, cut, ops, fails, os>>

(* Mutant of Bootstrap: its error is ignored, as that of bootout is.       *)
BootstrapOrTrue ==
    /\ script = "bootstrap"
    /\ IF loaded = Absent THEN Launch ELSE UNCHANGED <<job, args, loaded>>
    /\ outcome' = "installed"
    /\ fresh' = TRUE
    /\ script' = "none"
    /\ UNCHANGED <<unit, enabled, idfile, sshd, wanted, missed, cut, ops,
                   fails, os>>

(* RunAtLoad; an error, and the end of the script, if the job is there.     *)
Bootstrap ==
    /\ script = "bootstrap"
    /\ IF loaded = Absent
         THEN Launch /\ outcome' = "installed" /\ fresh' = TRUE
         ELSE UNCHANGED <<job, args, loaded, outcome, fresh>>
    /\ script' = "none"
    /\ UNCHANGED <<unit, enabled, idfile, sshd, wanted, missed, cut, ops,
                   fails, os>>

(* uninstall_macos.sh: goes on with rm and rm -rf.                         *)
BootOutOrUnload ==
    /\ script = "dismiss"
    /\ Attempt("stop", Dismiss /\ UNCHANGED <<unit, enabled, idfile>>)
    /\ script' = "rm"
    /\ Elsewhere /\ UNCHANGED outcome

(* `launchctl kickstart -k`: an error if the job is not there.              *)
Kickstart ==
    /\ script = "again" /\ os = "macos"
    /\ IF loaded = Absent \/ job = "stopping"
         THEN UNCHANGED <<job, args, loaded>>
         ELSE Launch
    /\ script' = "none"
    /\ UNCHANGED <<unit, enabled, idfile, sshd, wanted, outcome, fresh, missed,
                   cut, ops, fails, os>>

(* Ctrl-c, or a command that fails under set -e.                           *)
Interrupt ==
    /\ script # "none"
    /\ script' = "none"
    /\ cut' = TRUE
    /\ UNCHANGED <<unit, loaded, enabled, job, args, idfile, sshd, wanted,
                   outcome, fresh, missed, ops, fails, os>>

(***************************************************************************)
(* The service's process: `pigeons roost`, run by root.                    *)
(***************************************************************************)
Step(next) ==
    /\ job' = next
    /\ UNCHANGED <<unit, loaded, enabled, args, sshd, script, wanted, outcome,
                   fresh, missed, cut, ops, os>>

(* Mutant of Build: a roost without sshd ends without an error.            *)
BuildGivesUp ==
    /\ job = "build"
    /\ Step(IF sshd THEN "open" ELSE "off")
    /\ UNCHANGED <<idfile, fails>>

Build ==
    /\ job = "build"
    /\ Step(IF sshd THEN "open" ELSE "waiting")
    /\ UNCHANGED <<idfile, fails>>

PublishOpen ==
    /\ job = "open"
    /\ idfile' = "empty"
    /\ Step("write")
    /\ UNCHANGED fails

(* Mutant of PublishWrite: the address of the endpoint, which is no ID.     *)
PublishAddress ==
    /\ job = "write"
    /\ idfile' = "address"
    /\ Step("running")
    /\ UNCHANGED fails

PublishWrite ==
    /\ job = "write"
    /\ idfile' = "id"
    /\ Step("running")
    /\ UNCHANGED fails

(* An error, or a crash.                                                   *)
Fail ==
    /\ job \in Active
    /\ fails < MaxFails
    /\ fails' = fails + 1
    /\ Step("waiting")
    /\ UNCHANGED idfile

(* The process has ended, and launchd has seen it.                         *)
Ended ==
    /\ job = "stopping"
    /\ loaded' = Absent
    /\ job' = "off"
    /\ UNCHANGED <<unit, enabled, args, idfile, sshd, script, wanted, outcome,
                   fresh, missed, cut, ops, fails, os>>

(* Restart=on-failure; KeepAlive unless SuccessfulExit.                     *)
Wake ==
    /\ job = "waiting"
    /\ Launch
    /\ UNCHANGED <<unit, enabled, idfile, sshd, script, wanted, outcome, fresh,
                   missed, cut, ops, fails, os>>

(* launchd starts whatever lies in LaunchDaemons.                          *)
StartsAtBoot == unit # Absent /\ (enabled \/ os = "macos")

Reboot ==
    /\ fails < MaxFails
    /\ fails' = fails + 1
    /\ job' = IF StartsAtBoot THEN "build" ELSE "off"
    /\ args' = IF StartsAtBoot THEN unit ELSE args
    /\ loaded' = unit
    /\ script' = "none"
    /\ cut' = (cut \/ script # "none")
    /\ UNCHANGED <<unit, enabled, idfile, sshd, wanted, outcome, fresh, missed,
                   ops, os>>

(* systemd forgets a unit that is off and that nothing refers to.           *)
Forget ==
    /\ os = "linux"
    /\ job = "off" /\ ~enabled
    /\ loaded # Absent
    /\ loaded' = Absent
    /\ UNCHANGED <<unit, enabled, job, args, idfile, sshd, script, wanted,
                   outcome, fresh, missed, cut, ops, fails, os>>

Sshd ==
    /\ sshd' = ~sshd
    /\ UNCHANGED <<unit, loaded, enabled, job, args, idfile, script, wanted,
                   outcome, fresh, missed, cut, ops, fails, os>>

(* service_endpoint_id: what `status` calls running.                       *)
Status == idfile = "id"

Next ==
    \/ Install \/ WriteUnit \/ IsActive \/ RestartUnit \/ Enable \/ StartUnit
    \/ Uninstall \/ StopUnit \/ Disable \/ RemoveUnit \/ RemoveDir \/ DaemonReload
    \/ IsListed \/ BootOut \/ Bootstrap \/ BootOutOrUnload \/ Ended
    \/ Restart \/ RestartAgain \/ Kickstart
    \/ Interrupt
    \/ Build \/ PublishOpen \/ PublishWrite \/ Fail \/ Wake
    \/ Reboot \/ Forget \/ Sshd

Spec == Init /\ [][Next]_vars

(* The process runs, and the manager restarts it;  nobody has to run a      *)
(* command or keep sshd up.                                                *)
Fairness == WF_vars(Build) /\ WF_vars(PublishOpen) /\ WF_vars(PublishWrite) /\ WF_vars(Wake)

FairSpec == Spec /\ Fairness

(***************************************************************************)
(* Properties.                                                             *)
(***************************************************************************)

(* "Pigeons service installed." stands: the service is there, comes back   *)
(* with the machine and is not given up by its manager, whatever fails; on *)
(* Linux as long as no script was cut off or went on after a failure       *)
(* (install_linux.sh, install_macos.sh, main.rs:418-424).                  *)
InstalledStays ==
    outcome = "installed" /\ (os = "linux" => ~cut) =>
        StartsAtBoot /\ job \notin {"off", "stopping"}

(* An install that had to start the service takes its arguments into       *)
(* effect, for every start that follows: none runs with those of an        *)
(* earlier one that the manager remembers.  On Linux, one that restarted   *)
(* it does not; on macOS every install that succeeds does                  *)
(* (install_linux.sh:8-28, install_macos.sh:47-53).                        *)
ArgumentsTaken ==
    outcome = "installed" /\ (fresh \/ os = "macos") /\ job \in Active => args = wanted

(* "Pigeons service uninstalled.": whatever is left then, or comes back    *)
(* later, is the work of a command that failed.  The unit is there only if *)
(* its removal failed, and enabled only if disable did; a process that is  *)
(* not ending needs a stop that failed or a unit that is still there; and  *)
(* an endpoint ID that status finds needs one of these, or that its        *)
(* removal failed.  With no failure nothing is left                        *)
(* (uninstall_linux.sh, uninstall_macos.sh, main.rs:427-436).              *)
UninstallCleans ==
    outcome = "uninstalled" =>
        /\ unit # Absent => "rm" \in missed
        /\ enabled => "disable" \in missed
        /\ job \notin {"off", "stopping"} => missed \cap {"stop", "rm"} # {}
        /\ Status => missed \cap {"stop", "rm", "rmdir"} # {}

(* A service that is running is found by status: nothing removes or        *)
(* empties the file under it, but an uninstall that could not stop it; and *)
(* the next install that succeeds makes good for that                      *)
(* (main.rs:284-305, service.rs:129-143, uninstall_linux.sh:2-5).          *)
StatusFindsIt ==
    job = "running" /\ ("stop" \in missed => outcome = "installed") => Status

(* "always-on access" (README.md:99-100): an installed service ends up    *)
(* running if sshd does, however often it failed before.                   *)
AlwaysOn ==
    <>[](outcome = "installed" /\ ~cut /\ sshd) => <>[](job = "running")
=============================================================================
