--------------------------- MODULE WindowsService ---------------------------
(***************************************************************************)
(* The roost as a Windows service: `pigeons service install`, `uninstall`  *)
(* and `restart` against the Service Control Manager                       *)
(* (src/src/service/windows.rs), the firewall rules they keep              *)
(* (src/src/service/windows/firewall.rs) and the service's runtime.        *)
(*                                                                         *)
(* A command runs one call at a time and may end between any two.  The     *)
(* SCM starts, restarts and forgets the service meanwhile, others hold     *)
(* handles on it, and its process takes its time to start and to stop.     *)
(***************************************************************************)
EXTENDS Naturals

CONSTANTS Params,    \* the arguments of an install: port and relays
          MaxOps,    \* bound on the commands an administrator runs
          MaxFails   \* bound on failures and reboots

Absent == "absent"

ASSUME WindowsOK ==
    /\ Absent \notin Params
    /\ MaxOps \in Nat
    /\ MaxFails \in Nat

(* The display names, in the order in which they are added and removed.    *)
Rules == <<"Outbound", "Inbound", "HTTPS">>

VARIABLES
    entry,    \* the arguments in the SCM's database
    marked,   \* the entry is marked for deletion
    held,     \* somebody else has a handle on the service
    state,    \* what the SCM says of it
    due,      \* the SCM owes it a start: after a crash, or a boot
    proc,     \* where its process is
    args,     \* the arguments the process was started with
    asked,    \* a stop is in the runtime's channel
    leaving,  \* a process that reported Stopped has not ended yet
    exe,      \* the binary is staged
    rules,    \* how many firewall rules there are, by position in Rules
    granted,  \* the service's account may write to its directories
    idfile,   \* C:\ProgramData\pigeons\endpoint_id
    cmd,      \* the command that runs
    step,     \* its next call
    wanted,   \* the arguments of the last install
    outcome,  \* what the last command reported
    renewed,  \* a process was started since the last command began
    fresh,    \* the last install itself started the service
    ops, fails

scm == <<entry, marked, held, state, due>>
process == <<proc, args, asked, leaving>>
files == <<exe, rules, granted, idfile>>
command == <<cmd, step, wanted, outcome, renewed, fresh>>
vars == <<scm, process, files, command, ops, fails>>

(* starting: created by the SCM; registering: connected to it; building:   *)
(* from the report Running to the end of build; publishing; serving: waits *)
(* in recv; closing: the roost task has been asked to stop, or failed.     *)
Live == {"starting", "registering", "building", "publishing", "serving", "closing"}

ScmOK ==
    /\ entry \in Params \cup {Absent}
    /\ marked \in BOOLEAN /\ held \in BOOLEAN /\ due \in BOOLEAN
    /\ state \in {"stopped", "starting", "running"}

ProcessOK ==
    /\ proc \in Live \cup {"none"}
    /\ args \in Params \cup {Absent}
    /\ asked \in BOOLEAN /\ leaving \in BOOLEAN

FilesOK ==
    /\ exe \in BOOLEAN /\ granted \in BOOLEAN
    /\ rules \in [1..3 -> 0..MaxOps]
    /\ idfile \in {"absent", "empty", "id"}

CommandOK ==
    /\ cmd \in {"none", "install", "uninstall", "restart"}
    /\ step \in {"none", "stage", "firewall", "configure", "prepare", "start", "launched",
                 "open", "delete", "stop", "poll", "unrule", "unstage", "query", "halt", "wait"}
    /\ wanted \in Params \cup {Absent}
    /\ outcome \in {"none", "installed", "uninstalled", "restarted"}
    /\ renewed \in BOOLEAN /\ fresh \in BOOLEAN

TypeOK ==
    /\ ScmOK /\ ProcessOK /\ FilesOK /\ CommandOK
    /\ ops \in 0..MaxOps
    /\ fails \in 0..MaxFails

Init ==
    /\ entry = Absent /\ wanted = Absent /\ args = Absent
    /\ marked = FALSE /\ held = FALSE /\ due = FALSE
    /\ state = "stopped" /\ proc = "none"
    /\ asked = FALSE /\ leaving = FALSE
    /\ exe = FALSE /\ granted = FALSE /\ idfile = "absent"
    /\ rules = [r \in 1..3 |-> 0]
    /\ cmd = "none" /\ step = "none" /\ outcome = "none"
    /\ renewed = FALSE /\ fresh = FALSE
    /\ ops = 0 /\ fails = 0

(***************************************************************************)
(* The SCM (external).                                                     *)
(***************************************************************************)
Launchable == state = "stopped" /\ entry # Absent /\ ~marked /\ exe

Launch ==
    /\ state' = "starting"
    /\ proc' = "starting"
    /\ args' = entry
    /\ asked' = FALSE
    /\ renewed' = TRUE

(* A command has the service open: its entry stays.                        *)
Opened == step \in {"prepare", "start", "launched", "delete", "stop", "query", "halt", "wait"}

Purge ==
    /\ marked /\ state = "stopped" /\ ~held /\ ~Opened
    /\ entry' = Absent
    /\ marked' = FALSE
    /\ due' = FALSE
    /\ UNCHANGED <<held, state, process, files, command, ops, fails>>

(* The failure action of a process that ended without a report, and the    *)
(* delayed start after a boot.                                             *)
Due ==
    /\ due
    /\ due' = FALSE
    /\ IF Launchable THEN Launch ELSE UNCHANGED <<state, proc, args, asked, renewed>>
    /\ UNCHANGED <<entry, marked, held, leaving, files, cmd, step, wanted, outcome, fresh,
                   ops, fails>>

(* services.msc and the like.                                              *)
Viewer ==
    /\ held' \in {h \in BOOLEAN : h => entry # Absent}
    /\ UNCHANGED <<entry, marked, state, due, process, files, command, ops, fails>>

Reboot ==
    /\ fails < MaxFails
    /\ fails' = fails + 1
    /\ entry' = IF marked THEN Absent ELSE entry
    /\ marked' = FALSE /\ held' = FALSE
    /\ due' = (entry' # Absent)
    /\ state' = "stopped" /\ proc' = "none"
    /\ asked' = FALSE /\ leaving' = FALSE
    /\ cmd' = "none" /\ step' = "none"
    /\ UNCHANGED <<args, files, wanted, outcome, renewed, fresh, ops>>

(***************************************************************************)
(* The commands.                                                           *)
(***************************************************************************)
Command(name, first) ==
    /\ cmd = "none"
    /\ ops < MaxOps
    /\ ops' = ops + 1
    /\ cmd' = name
    /\ step' = first
    /\ outcome' = "none"
    /\ renewed' = FALSE
    /\ UNCHANGED <<scm, process, files, fresh, fails>>

Install == Command("install", "stage") /\ wanted' \in Params

Uninstall == Command("uninstall", "open") /\ UNCHANGED wanted

Restart == Command("restart", "open") /\ UNCHANGED wanted

(* The command goes on, or returns what it reports.                        *)
Go(next) ==
    /\ step' = next
    /\ UNCHANGED <<cmd, wanted, outcome, fresh, ops, fails>>

Returns(report) ==
    /\ cmd' = "none"
    /\ step' = "none"
    /\ outcome' = report
    /\ UNCHANGED <<wanted, ops, fails>>

Errs == Returns("none") /\ UNCHANGED fresh

(* An error of any call, or ctrl-c.                                        *)
Interrupt ==
    /\ cmd # "none"
    /\ fails < MaxFails
    /\ fails' = fails + 1
    /\ cmd' = "none"
    /\ step' = "none"
    /\ UNCHANGED <<scm, process, files, wanted, outcome, renewed, fresh, ops>>

(* Windows lets nobody write or delete the image of a process.             *)
Locked == proc # "none" \/ leaving

StageBinary ==
    /\ step = "stage"
    /\ IF Locked THEN Errs /\ UNCHANGED exe ELSE Go("firewall") /\ exe' = TRUE
    /\ UNCHANGED <<scm, process, rules, granted, idfile, renewed>>

(* The script removes two of the three rules, whether they are there or    *)
(* not, and adds the first k.                                              *)
Replaced(k) ==
    [r \in 1..3 |-> (IF r = 3 THEN rules[r] ELSE 0) + (IF r <= k THEN 1 ELSE 0)]

AddFirewallRules ==
    /\ step = "firewall"
    /\ rules' = Replaced(3)
    /\ Go("configure")
    /\ UNCHANGED <<scm, process, exe, granted, idfile, renewed>>

AddFirewallRulesFails ==
    /\ step = "firewall"
    /\ fails < MaxFails
    /\ fails' = fails + 1
    /\ \E k \in 0..2 : rules' = Replaced(k)
    /\ cmd' = "none" /\ step' = "none"
    /\ UNCHANGED <<scm, process, exe, granted, idfile, wanted, outcome, renewed, fresh, ops>>

(* Mutant of CreateOrConfigure: an existing service is left as it is.      *)
CreateOrKeep ==
    /\ step = "configure"
    /\ IF marked THEN Errs ELSE Go("prepare")
    /\ entry' = IF entry = Absent THEN wanted ELSE entry
    /\ UNCHANGED <<marked, held, state, due, process, files, renewed>>

CreateOrConfigure ==
    /\ step = "configure"
    /\ IF marked THEN Errs ELSE Go("prepare")
    /\ entry' = IF marked THEN entry ELSE wanted
    /\ UNCHANGED <<marked, held, state, due, process, files, renewed>>

(* The service's SID, its directories and their access lists.              *)
ApplyServicePermissions ==
    /\ step = "prepare"
    /\ granted' = TRUE
    /\ Go("start")
    /\ UNCHANGED <<scm, process, exe, rules, idfile, renewed>>

Reported == IF cmd = "install" THEN "installed" ELSE "restarted"

(* ERROR_SERVICE_ALREADY_RUNNING is fine; the call returns once the        *)
(* process has connected to the SCM, or ended.                             *)
StartService ==
    /\ step = "start"
    /\ \/ /\ state # "stopped"
          /\ Returns(Reported)
          /\ fresh' = FALSE
          /\ UNCHANGED <<state, proc, args, asked, renewed>>
       \/ /\ Launchable
          /\ Launch
          /\ step' = "launched"
          /\ UNCHANGED <<cmd, wanted, outcome, fresh, ops, fails>>
       \/ /\ state = "stopped" /\ ~Launchable
          /\ Errs
          /\ UNCHANGED <<state, proc, args, asked, renewed>>
    /\ UNCHANGED <<entry, marked, held, due, leaving, files>>

(* remove_service and restart_blocking open the service first.             *)
OpenService ==
    /\ step = "open"
    /\ IF entry # Absent
         THEN Go(IF cmd = "uninstall" THEN "delete" ELSE "query")
         ELSE IF cmd = "uninstall" THEN Go("unrule") ELSE Errs
    /\ UNCHANGED <<scm, process, files, renewed>>

Delete ==
    /\ step = "delete"
    /\ IF marked THEN Errs ELSE Go("stop")
    /\ marked' = TRUE
    /\ UNCHANGED <<entry, held, state, due, process, files, renewed>>

(* The SCM passes a stop on to a service that runs, and refuses it to one  *)
(* that is starting; ERROR_SERVICE_NOT_ACTIVE is fine.                     *)
Stop(next) ==
    /\ IF state = "starting" THEN Errs ELSE Go(next)
    /\ asked' = (asked \/ state = "running")
    /\ UNCHANGED <<scm, proc, args, leaving, files, renewed>>

StopRemoved == step = "stop" /\ Stop("poll")

(* Up to five seconds for the entry to go; a timeout is no error.          *)
Poll ==
    /\ step = "poll"
    /\ Go("unrule")
    /\ UNCHANGED <<scm, process, files, renewed>>

(* The script ends at the first rule that it does not find or cannot       *)
(* remove, and whatever it says is ignored.                                *)
RemoveFirewallRules ==
    /\ step = "unrule"
    /\ \E k \in 0..3 :
          /\ \A r \in 1..k : rules[r] > 0
          /\ rules' = [r \in 1..3 |-> IF r <= k THEN 0 ELSE rules[r]]
    /\ Go("unstage")
    /\ UNCHANGED <<scm, process, exe, granted, idfile, renewed>>

(* Mutant of RemoveStagedBinary: its error is ignored, too.                *)
RemoveStagedIfFree ==
    /\ step = "unstage"
    /\ Returns("uninstalled")
    /\ exe' = (exe /\ Locked)
    /\ UNCHANGED <<scm, process, rules, granted, idfile, renewed, fresh>>

RemoveStagedBinary ==
    /\ step = "unstage"
    /\ IF Locked THEN Errs ELSE Returns("uninstalled") /\ UNCHANGED fresh
    /\ exe' = (exe /\ Locked)
    /\ UNCHANGED <<scm, process, rules, granted, idfile, renewed>>

Query ==
    /\ step = "query"
    /\ Go(IF state = "stopped" THEN "wait" ELSE "halt")
    /\ UNCHANGED <<scm, process, files, renewed>>

Halt == step = "halt" /\ Stop("wait")

(* Mutant of WaitTimesOut: a timeout is no error, as in remove_service.    *)
WaitGivesUp ==
    /\ step = "wait"
    /\ state # "stopped"
    /\ Go("start")
    /\ UNCHANGED <<scm, process, files, renewed>>

(* Thirty seconds for the service to stop.                                 *)
WaitTimesOut ==
    /\ step = "wait"
    /\ state # "stopped"
    /\ Errs
    /\ UNCHANGED <<scm, process, files, renewed>>

WaitOver ==
    /\ step = "wait"
    /\ state = "stopped"
    /\ Go("start")
    /\ UNCHANGED <<scm, process, files, renewed>>

(***************************************************************************)
(* The service's process.                                                  *)
(***************************************************************************)

(* StartService returns to the command that waits in it.                   *)
Answer(ok) ==
    IF step # "launched" THEN UNCHANGED <<cmd, step, outcome, fresh>>
    ELSE /\ cmd' = "none"
         /\ step' = "none"
         /\ outcome' = IF ok THEN Reported ELSE "none"
         /\ fresh' = ok

(* run_service: the dispatcher connects to the SCM.                        *)
RunService ==
    /\ proc = "starting"
    /\ Answer(TRUE)
    /\ proc' = "registering"
    /\ UNCHANGED <<scm, args, asked, leaving, files, wanted, renewed, ops, fails>>

(* The process ends before that: main has no subcommand `run-service`.     *)
UsageError ==
    /\ proc = "starting"
    /\ Answer(FALSE)
    /\ proc' = "none"
    /\ state' = "stopped"
    /\ UNCHANGED <<entry, marked, held, due, args, asked, leaving, files, wanted, renewed,
                   ops, fails>>

Phase(from, next) ==
    /\ proc = from
    /\ proc' = next
    /\ UNCHANGED <<args, leaving, command, ops, fails>>

Register ==
    /\ Phase("registering", "building")
    /\ state' = "running"
    /\ UNCHANGED <<entry, marked, held, due, asked, files>>

(* Mutant of Build: the channel is made once the roost is up.              *)
BuildThenListen ==
    /\ \E ok \in BOOLEAN :
          /\ ok => granted
          /\ Phase("building", IF ok THEN "publishing" ELSE "closing")
    /\ asked' = FALSE
    /\ UNCHANGED <<scm, files>>

(* Keys, config, endpoint and the look for sshd; any of them may fail.     *)
Build ==
    /\ \E ok \in BOOLEAN :
          /\ ok => granted
          /\ Phase("building", IF ok THEN "publishing" ELSE "closing")
    /\ UNCHANGED <<scm, asked, files>>

(* Mutant of Publish: the address of the endpoint, which is no ID.         *)
PublishAddress ==
    /\ Phase("publishing", "serving")
    /\ idfile' = "address"
    /\ UNCHANGED <<scm, asked, exe, rules, granted>>

(* An error of the write is logged and no more.                            *)
Publish ==
    /\ Phase("publishing", "serving")
    /\ idfile' \in {"id", "empty", idfile}
    /\ UNCHANGED <<scm, asked, exe, rules, granted>>

Recv ==
    /\ asked
    /\ Phase("serving", "closing")
    /\ UNCHANGED <<scm, asked, files>>

(* Exit code 0, also after an error: no failure action.                    *)
ReportStopped ==
    /\ proc = "closing"
    /\ proc' = "none"
    /\ leaving' = TRUE
    /\ state' = "stopped"
    /\ UNCHANGED <<entry, marked, held, due, args, asked, files, command, ops, fails>>

Leave ==
    /\ leaving
    /\ leaving' = FALSE
    /\ UNCHANGED <<scm, proc, args, asked, files, command, ops, fails>>

(* The process is killed.                                                  *)
Crash ==
    /\ proc # "none"
    /\ fails < MaxFails
    /\ fails' = fails + 1
    /\ Answer(FALSE)
    /\ due' = (due \/ proc # "starting")
    /\ proc' = "none"
    /\ state' = "stopped"
    /\ UNCHANGED <<entry, marked, held, args, asked, leaving, files, wanted, renewed, ops>>

Next ==
    \/ Install \/ StageBinary \/ AddFirewallRules \/ AddFirewallRulesFails
    \/ CreateOrConfigure \/ ApplyServicePermissions \/ StartService
    \/ Uninstall \/ OpenService \/ Delete \/ StopRemoved \/ Poll \/ RemoveFirewallRules
    \/ RemoveStagedBinary
    \/ Restart \/ Query \/ Halt \/ WaitTimesOut \/ WaitOver
    \/ Interrupt
    \/ RunService \/ UsageError \/ Register \/ Build \/ Publish \/ Recv \/ ReportStopped
    \/ Leave \/ Crash
    \/ Purge \/ Due \/ Viewer \/ Reboot

Spec == Init /\ [][Next]_vars

(* The process runs; nobody has to run a command.                          *)
Fairness ==
    WF_vars(RunService \/ UsageError \/ Register \/ Build \/ Publish \/ Recv \/ ReportStopped)

FairSpec == Spec /\ Fairness

(***************************************************************************)
(* Properties.                                                             *)
(***************************************************************************)

(* "Pigeons service installed.": whatever races the install, the SCM has   *)
(* the new arguments and will start with them, the binary, the access and  *)
(* all rules are there, no rule that is replaced piles up, and a process   *)
(* that the install started runs with its arguments (windows.rs:138-166).  *)
InstallHolds ==
    outcome = "installed" =>
        /\ entry = wanted /\ ~marked /\ exe /\ granted
        /\ rules[1] = 1 /\ rules[2] = 1 /\ rules[3] > 0
        /\ fresh /\ proc # "none" => args = wanted

(* An uninstall that reports success has waited long enough: no process,   *)
(* no binary and no entry that could start again is left, although the     *)
(* timeout of its poll is no error (windows.rs:168-183, 543-559).          *)
UninstallCleans ==
    outcome = "uninstalled" => ~Locked /\ ~exe /\ (entry = Absent \/ marked)

(* A restart that reports success started a process: the old one does not  *)
(* go on, however slow its stop and whoever else starts the service        *)
(* (windows.rs:185-227).                                                   *)
RestartRenews == outcome = "restarted" => renewed

(* A stop is heeded, even one that comes while the roost is being built    *)
(* (windows.rs:621-635, 690).                                              *)
StopHeeded == asked /\ proc # "none" ~> proc = "none"
=============================================================================
