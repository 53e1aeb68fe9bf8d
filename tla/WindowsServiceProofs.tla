------------------------ MODULE WindowsServiceProofs ------------------------
(***************************************************************************)
(* Proofs about WindowsService, for any arguments, any number of commands  *)
(* and any number of failures, crashes and reboots, wherever they come.    *)
(***************************************************************************)
EXTENDS WindowsService, TLAPS

-----------------------------------------------------------------------------
(* What the SCM says of the service is true of its process.                *)
StateIsTrue ==
    /\ state = "stopped" <=> proc = "none"
    /\ state = "starting" <=> proc \in {"starting", "registering"}

(* A command is at one of its own steps, and reports nothing before its    *)
(* last.                                                                   *)
StepsOf(name) ==
    CASE name = "none"      -> {"none"}
      [] name = "install"   -> {"stage", "firewall", "configure", "prepare", "start", "launched"}
      [] name = "uninstall" -> {"open", "delete", "stop", "poll", "unrule", "unstage"}
      [] name = "restart"   -> {"open", "query", "halt", "wait", "start", "launched"}

OneCommand ==
    /\ step \in StepsOf(cmd)
    /\ cmd # "none" => outcome = "none"

(* StartService waits for a process that was started for it.               *)
Awaited ==
    step = "launched" => proc = "starting" /\ state = "starting" /\ args = entry /\ renewed

(* What an install has done when it comes to a step: the binary, the       *)
(* rules, the entry, the access.  Nobody undoes it meanwhile, as it holds  *)
(* the service open and only a command removes the rest.                   *)
RulesThere == rules[1] = 1 /\ rules[2] = 1 /\ rules[3] > 0

Configured == entry = wanted /\ wanted \in Params /\ ~marked

InstallDone ==
    cmd = "install" =>
        /\ wanted \in Params
        /\ step # "stage" => exe
        /\ step \in {"configure", "prepare", "start", "launched"} => RulesThere
        /\ step \in {"prepare", "start", "launched"} => Configured
        /\ step \in {"start", "launched"} => granted

AfterInstall ==
    outcome = "installed" =>
        /\ Configured /\ RulesThere /\ exe /\ granted
        /\ fresh /\ proc # "none" => args = wanted

(* An uninstall past its deletion has an entry that goes, or is gone.      *)
Doomed == entry = Absent \/ marked

UninstallDone ==
    cmd = "uninstall" /\ step \in {"stop", "poll", "unrule", "unstage"} => Doomed

AfterUninstall ==
    outcome = "uninstalled" => Doomed /\ ~exe /\ proc = "none" /\ ~leaving

(* A restart at its start has seen the old process end: if there is one    *)
(* now, it is another's.                                                   *)
RestartDone ==
    /\ cmd = "restart" /\ step = "start" => renewed \/ state = "stopped"
    /\ outcome = "restarted" => renewed

(* Each install adds one rule of each name, at most.                       *)
Pending == IF cmd = "install" /\ step \in {"stage", "firewall"} THEN 1 ELSE 0

RulesCounted == \A r \in 1..3 : rules[r] + Pending <= ops

Safe ==
    /\ StateIsTrue
    /\ OneCommand
    /\ Awaited
    /\ InstallDone
    /\ AfterInstall
    /\ UninstallDone
    /\ AfterUninstall
    /\ RestartDone
    /\ RulesCounted

IInv == TypeOK /\ Safe

-----------------------------------------------------------------------------
(* Types.                                                                  *)

(* A step that leaves a part of the state alone leaves its type alone.     *)
LEMMA Untouched ==
    ASSUME TypeOK
    PROVE  /\ UNCHANGED scm => ScmOK'
           /\ UNCHANGED process => ProcessOK'
           /\ UNCHANGED files => FilesOK'
           /\ UNCHANGED command => CommandOK'
<1>1. UNCHANGED scm => ScmOK'
  BY DEF TypeOK, ScmOK, scm
<1>2. UNCHANGED process => ProcessOK'
  BY DEF TypeOK, ProcessOK, process
<1>3. UNCHANGED files => FilesOK'
  BY DEF TypeOK, FilesOK, files
<1>4. UNCHANGED command => CommandOK'
  BY DEF TypeOK, CommandOK, command
<1>. QED  BY <1>1, <1>2, <1>3, <1>4

LEMMA CommandType ==
    ASSUME TypeOK, NEW name \in {"install", "uninstall", "restart"},
           NEW first \in {"stage", "open"}, Command(name, first),
           wanted' \in Params \cup {Absent}
    PROVE  TypeOK'
<1>1. CommandOK'
  BY DEF TypeOK, CommandOK, Command
<1>2. ops' \in 0..MaxOps
  BY WindowsOK DEF TypeOK, Command
<1>. QED  BY <1>1, <1>2, Untouched DEF TypeOK, Command

LEMMA LaunchType ==
    ASSUME TypeOK, Launch, UNCHANGED leaving
    PROVE  ProcessOK' /\ state' \in {"stopped", "starting", "running"} /\ renewed' \in BOOLEAN
BY DEF TypeOK, ScmOK, ProcessOK, Live, Launch

LEMMA AnswerType ==
    ASSUME TypeOK, NEW ok \in BOOLEAN, Answer(ok), UNCHANGED <<wanted, renewed>>
    PROVE  CommandOK'
BY DEF TypeOK, CommandOK, Answer, Reported

LEMMA ReplacedType ==
    ASSUME TypeOK, RulesCounted, step = "firewall", cmd = "install", NEW k \in 0..3
    PROVE  Replaced(k) \in [1..3 -> 0..MaxOps]
BY WindowsOK DEF TypeOK, FilesOK, RulesCounted, Pending, Replaced

(* The administrator's commands begin, or end between two calls.           *)
LEMMA CommandsTypes ==
    ASSUME TypeOK, OneCommand, RulesCounted,
           Install \/ Uninstall \/ Restart \/ Interrupt
    PROVE  TypeOK'
<1>1. CASE Install
  BY <1>1, CommandType DEF Install
<1>2. CASE Uninstall
  BY <1>2, CommandType DEF Uninstall, TypeOK, CommandOK
<1>3. CASE Restart
  BY <1>3, CommandType DEF Restart, TypeOK, CommandOK
<1>4. CASE Interrupt
  BY <1>4, Untouched, WindowsOK DEF TypeOK, CommandOK, Interrupt
<1>. QED  BY <1>1, <1>2, <1>3, <1>4

(* install_blocking.                                                       *)
LEMMA InstallTypes ==
    ASSUME TypeOK, OneCommand, RulesCounted,
           StageBinary \/ AddFirewallRules \/ AddFirewallRulesFails
               \/ CreateOrConfigure \/ ApplyServicePermissions \/ StartService
    PROVE  TypeOK'
<1>1. CASE StageBinary
  <2>1. FilesOK'
    BY <1>1 DEF TypeOK, FilesOK, StageBinary
  <2>2. CASE Locked
    <3>1. CommandOK'
      BY <1>1, <2>2 DEF TypeOK, CommandOK, StageBinary, Errs, Returns
    <3>. QED  BY <1>1, <2>1, <2>2, <3>1, Untouched DEF TypeOK, StageBinary, Errs, Returns
  <2>3. CASE ~Locked
    <3>1. CommandOK'
      BY <1>1, <2>3 DEF TypeOK, CommandOK, StageBinary, Go
    <3>. QED  BY <1>1, <2>1, <2>3, <3>1, Untouched DEF TypeOK, StageBinary, Go
  <2>. QED  BY <2>2, <2>3
<1>2. CASE AddFirewallRules
  BY <1>2, Untouched, ReplacedType DEF OneCommand, StepsOf, TypeOK, CommandOK,
     FilesOK, AddFirewallRules, Go
<1>3. CASE AddFirewallRulesFails
  BY <1>3, Untouched, ReplacedType, WindowsOK DEF OneCommand, StepsOf, TypeOK,
     CommandOK, FilesOK, AddFirewallRulesFails
<1>4. CASE CreateOrConfigure
  BY <1>4, Untouched DEF TypeOK, ScmOK, CommandOK, CreateOrConfigure, Go, Errs,
     Returns
<1>5. CASE ApplyServicePermissions
  BY <1>5, Untouched DEF TypeOK, FilesOK, CommandOK, ApplyServicePermissions, Go
<1>6. CASE StartService
  <2>0. UNCHANGED <<entry, marked, held, due, leaving, files>>
    BY <1>6 DEF StartService
  <2>1. CASE state # "stopped"
    <3>1. Returns(Reported) /\ fresh' = FALSE /\ UNCHANGED <<state, proc, args, asked, renewed>>
      BY <1>6, <2>1 DEF StartService, Launchable
    <3>2. CommandOK'
      BY <3>1 DEF TypeOK, CommandOK, Returns, Reported
    <3>. QED  BY <2>0, <3>1, <3>2, Untouched DEF TypeOK, scm, process, Returns
  <2>2. CASE Launchable
    <3>1. Launch /\ step' = "launched" /\ UNCHANGED <<cmd, wanted, outcome, fresh, ops, fails>>
      BY <1>6, <2>2 DEF StartService, Launchable
    <3>2. ScmOK' /\ ProcessOK'
      BY <2>0, <3>1, LaunchType DEF TypeOK, ScmOK
    <3>3. CommandOK'
      BY <2>0, <3>1, LaunchType DEF TypeOK, CommandOK
    <3>. QED  BY <2>0, <3>1, <3>2, <3>3, Untouched DEF TypeOK
  <2>3. CASE state = "stopped" /\ ~Launchable
    <3>1. Errs /\ UNCHANGED <<state, proc, args, asked, renewed>>
      BY <1>6, <2>3 DEF StartService
    <3>2. CommandOK'
      BY <3>1 DEF TypeOK, CommandOK, Errs, Returns
    <3>. QED  BY <2>0, <3>1, <3>2, Untouched DEF TypeOK, scm, process, Errs, Returns
  <2>. QED  BY <2>1, <2>2, <2>3
<1>. QED  BY <1>1, <1>2, <1>3, <1>4, <1>5, <1>6

(* uninstall_blocking.                                                     *)
LEMMA UninstallTypes ==
    ASSUME TypeOK, OneCommand, RulesCounted,
           OpenService \/ Delete \/ StopRemoved \/ Poll \/ RemoveFirewallRules
               \/ RemoveStagedBinary
    PROVE  TypeOK'
<1>1. CASE OpenService
  BY <1>1, Untouched DEF TypeOK, CommandOK, OpenService, Go, Errs, Returns
<1>2. CASE Delete
  BY <1>2, Untouched DEF TypeOK, ScmOK, CommandOK, Delete, Go, Errs, Returns
<1>3. CASE StopRemoved
  BY <1>3, Untouched DEF TypeOK, ProcessOK, CommandOK, StopRemoved, Stop, Go, Errs,
     Returns
<1>4. CASE Poll
  BY <1>4, Untouched DEF TypeOK, CommandOK, Poll, Go
<1>5. CASE RemoveFirewallRules
  <2>1. rules' \in [1..3 -> 0..MaxOps]
    BY <1>5, WindowsOK DEF TypeOK, FilesOK, RemoveFirewallRules
  <2>. QED  BY <1>5, <2>1, Untouched DEF TypeOK, FilesOK, CommandOK, RemoveFirewallRules, Go
<1>6. CASE RemoveStagedBinary
  BY <1>6, Untouched DEF TypeOK, FilesOK, CommandOK, RemoveStagedBinary, Locked, Errs,
     Returns
<1>. QED  BY <1>1, <1>2, <1>3, <1>4, <1>5, <1>6

(* restart_blocking.                                                       *)
LEMMA RestartTypes ==
    ASSUME TypeOK, OneCommand, RulesCounted,
           Query \/ Halt \/ WaitTimesOut \/ WaitOver
    PROVE  TypeOK'
<1>1. CASE Query
  BY <1>1, Untouched DEF TypeOK, CommandOK, Query, Go
<1>2. CASE Halt
  BY <1>2, Untouched DEF TypeOK, ProcessOK, CommandOK, Halt, Stop, Go, Errs, Returns
<1>3. CASE WaitTimesOut
  BY <1>3, Untouched DEF TypeOK, CommandOK, WaitTimesOut, Errs, Returns
<1>4. CASE WaitOver
  BY <1>4, Untouched DEF TypeOK, CommandOK, WaitOver, Go
<1>. QED  BY <1>1, <1>2, <1>3, <1>4

(* The service's process.                                                  *)
LEMMA ProcessTypes ==
    ASSUME TypeOK, OneCommand, RulesCounted,
           RunService \/ UsageError \/ Register \/ Build \/ Publish \/ Recv
               \/ ReportStopped \/ Leave \/ Crash
    PROVE  TypeOK'
<1>1. CASE RunService
  BY <1>1, Untouched, AnswerType DEF TypeOK, ProcessOK, Live, RunService
<1>2. CASE UsageError
  BY <1>2, Untouched, AnswerType DEF TypeOK, ScmOK, ProcessOK, UsageError
<1>3. CASE Register
  BY <1>3, Untouched DEF TypeOK, ScmOK, ProcessOK, Live, Register, Phase
<1>4. CASE Build
  BY <1>4, Untouched DEF TypeOK, ProcessOK, Live, Build, Phase
<1>5. CASE Publish
  BY <1>5, Untouched DEF TypeOK, FilesOK, ProcessOK, Live, Publish, Phase
<1>6. CASE Recv
  BY <1>6, Untouched DEF TypeOK, ProcessOK, Live, Recv, Phase
<1>7. CASE ReportStopped
  BY <1>7, Untouched DEF TypeOK, ScmOK, ProcessOK, ReportStopped
<1>8. CASE Leave
  BY <1>8, Untouched DEF TypeOK, ProcessOK, Leave
<1>9. CASE Crash
  <2>1. fails' \in 0..MaxFails
    BY <1>9, WindowsOK DEF TypeOK, Crash
  <2>2. CommandOK'
    BY <1>9, AnswerType DEF Crash
  <2>. QED  BY <1>9, <2>1, <2>2, Untouched DEF TypeOK, ScmOK, ProcessOK, Crash
<1>. QED  BY <1>1, <1>2, <1>3, <1>4, <1>5, <1>6, <1>7, <1>8, <1>9

(* The SCM, those who look at the service, and the machine.                *)
LEMMA ManagerTypes ==
    ASSUME TypeOK, OneCommand, RulesCounted,
           Purge \/ Due \/ Viewer \/ Reboot
    PROVE  TypeOK'
<1>1. CASE Purge
  BY <1>1, Untouched DEF TypeOK, ScmOK, Purge, Opened
<1>2. CASE Due
  <2>1. CASE Launchable
    <3>1. ScmOK' /\ ProcessOK'
      BY <1>2, <2>1, LaunchType DEF TypeOK, ScmOK, Due
    <3>2. CommandOK'
      BY <1>2, <2>1, LaunchType DEF TypeOK, CommandOK, Due
    <3>. QED  BY <1>2, <3>1, <3>2, Untouched DEF TypeOK, Due
  <2>2. CASE ~Launchable
    <3>1. ScmOK' /\ ProcessOK'
      BY <1>2, <2>2 DEF TypeOK, ScmOK, ProcessOK, Due
    <3>2. CommandOK'
      BY <1>2, <2>2 DEF TypeOK, CommandOK, Due
    <3>. QED  BY <1>2, <3>1, <3>2, Untouched DEF TypeOK, Due
  <2>. QED  BY <2>1, <2>2
<1>3. CASE Viewer
  BY <1>3, Untouched DEF TypeOK, ScmOK, Viewer
<1>4. CASE Reboot
  <2>1. fails' \in 0..MaxFails
    BY <1>4, WindowsOK DEF TypeOK, Reboot
  <2>2. ScmOK' /\ ProcessOK'
    BY <1>4 DEF TypeOK, ScmOK, ProcessOK, Reboot
  <2>3. CommandOK'
    BY <1>4 DEF TypeOK, CommandOK, Reboot
  <2>. QED  BY <1>4, <2>1, <2>2, <2>3, Untouched DEF TypeOK, Reboot
<1>. QED  BY <1>1, <1>2, <1>3, <1>4

-----------------------------------------------------------------------------
(* Safe is inductive.                                                      *)

LEMMA InitHolds == Init => IInv
<1>1. Init => TypeOK
  <2>1. Init => ops \in 0..MaxOps /\ fails \in 0..MaxFails
    BY WindowsOK DEF Init
  <2>2. Init => rules \in [1..3 -> 0..MaxOps]
    BY WindowsOK DEF Init
  <2>. QED  BY <2>1, <2>2 DEF Init, TypeOK, ScmOK, ProcessOK, FilesOK, CommandOK
<1>2. Init => Safe
  BY DEF Init, Safe, StateIsTrue, OneCommand, StepsOf, Awaited, InstallDone, AfterInstall,
     UninstallDone, AfterUninstall, RestartDone, RulesCounted, Pending
<1>. QED  BY <1>1, <1>2 DEF IInv

LEMMA CommandsKeep ==
    ASSUME IInv,
           Install \/ Uninstall \/ Restart \/ Interrupt
    PROVE  Safe'
<1>. USE DEF IInv, TypeOK, ScmOK, ProcessOK, FilesOK, CommandOK, Live, scm, process,
        files, command, Safe, StateIsTrue, OneCommand, StepsOf, Awaited, InstallDone,
        RulesThere, Configured, AfterInstall, Doomed, UninstallDone, AfterUninstall,
        RestartDone, RulesCounted, Pending
<1>1. CASE Install
  BY <1>1 DEF Install, Command
<1>2. CASE Uninstall
  BY <1>2 DEF Uninstall, Command
<1>3. CASE Restart
  BY <1>3 DEF Restart, Command
<1>4. CASE Interrupt
  BY <1>4 DEF Interrupt
<1>. QED  BY <1>1, <1>2, <1>3, <1>4

LEMMA InstallKeeps ==
    ASSUME IInv,
           StageBinary \/ AddFirewallRules \/ AddFirewallRulesFails
               \/ CreateOrConfigure \/ ApplyServicePermissions \/ StartService
    PROVE  Safe'
<1>. USE DEF IInv, TypeOK, ScmOK, ProcessOK, FilesOK, CommandOK, Live, scm, process,
        files, command, Safe, StateIsTrue, OneCommand, StepsOf, Awaited, InstallDone,
        RulesThere, Configured, AfterInstall, Doomed, UninstallDone, AfterUninstall,
        RestartDone, RulesCounted, Pending
<1>1. CASE StageBinary
  BY <1>1 DEF StageBinary, Go, Errs, Returns
<1>2. CASE AddFirewallRules
  BY <1>2 DEF AddFirewallRules, Replaced, Go
<1>3. CASE AddFirewallRulesFails
  BY <1>3 DEF AddFirewallRulesFails, Replaced
<1>4. CASE CreateOrConfigure
  BY <1>4 DEF CreateOrConfigure, Go, Errs, Returns
<1>5. CASE ApplyServicePermissions
  BY <1>5 DEF ApplyServicePermissions, Go
<1>6. CASE StartService
  BY <1>6 DEF StartService, Launch, Launchable, Reported, Errs, Returns
<1>. QED  BY <1>1, <1>2, <1>3, <1>4, <1>5, <1>6

LEMMA UninstallKeeps ==
    ASSUME IInv,
           OpenService \/ Delete \/ StopRemoved \/ Poll \/ RemoveFirewallRules
               \/ RemoveStagedBinary
    PROVE  Safe'
<1>. USE DEF IInv, TypeOK, ScmOK, ProcessOK, FilesOK, CommandOK, Live, scm, process,
        files, command, Safe, StateIsTrue, OneCommand, StepsOf, Awaited, InstallDone,
        RulesThere, Configured, AfterInstall, Doomed, UninstallDone, AfterUninstall,
        RestartDone, RulesCounted, Pending
<1>1. CASE OpenService
  BY <1>1 DEF OpenService, Go, Errs, Returns
<1>2. CASE Delete
  BY <1>2 DEF Delete, Go, Errs, Returns
<1>3. CASE StopRemoved
  BY <1>3 DEF StopRemoved, Stop, Go, Errs, Returns
<1>4. CASE Poll
  BY <1>4 DEF Poll, Go
<1>5. CASE RemoveFirewallRules
  BY <1>5 DEF RemoveFirewallRules, Go
<1>6. CASE RemoveStagedBinary
  BY <1>6 DEF RemoveStagedBinary, Locked, Errs, Returns
<1>. QED  BY <1>1, <1>2, <1>3, <1>4, <1>5, <1>6

LEMMA RestartKeeps ==
    ASSUME IInv,
           Query \/ Halt \/ WaitTimesOut \/ WaitOver
    PROVE  Safe'
<1>. USE DEF IInv, TypeOK, ScmOK, ProcessOK, FilesOK, CommandOK, Live, scm, process,
        files, command, Safe, StateIsTrue, OneCommand, StepsOf, Awaited, InstallDone,
        RulesThere, Configured, AfterInstall, Doomed, UninstallDone, AfterUninstall,
        RestartDone, RulesCounted, Pending
<1>1. CASE Query
  BY <1>1 DEF Query, Go
<1>2. CASE Halt
  BY <1>2 DEF Halt, Stop, Go, Errs, Returns
<1>3. CASE WaitTimesOut
  BY <1>3 DEF WaitTimesOut, Errs, Returns
<1>4. CASE WaitOver
  BY <1>4 DEF WaitOver, Go
<1>. QED  BY <1>1, <1>2, <1>3, <1>4

LEMMA ProcessKeeps ==
    ASSUME IInv,
           RunService \/ UsageError \/ Register \/ Build \/ Publish \/ Recv
               \/ ReportStopped \/ Leave \/ Crash
    PROVE  Safe'
<1>. USE DEF IInv, TypeOK, ScmOK, ProcessOK, FilesOK, CommandOK, Live, scm, process,
        files, command, Safe, StateIsTrue, OneCommand, StepsOf, Awaited, InstallDone,
        RulesThere, Configured, AfterInstall, Doomed, UninstallDone, AfterUninstall,
        RestartDone, RulesCounted, Pending
<1>1. CASE RunService
  BY <1>1 DEF RunService, Answer, Reported
<1>2. CASE UsageError
  BY <1>2 DEF UsageError, Answer, Reported
<1>3. CASE Register
  BY <1>3 DEF Register, Phase
<1>4. CASE Build
  BY <1>4 DEF Build, Phase
<1>5. CASE Publish
  BY <1>5 DEF Publish, Phase
<1>6. CASE Recv
  BY <1>6 DEF Recv, Phase
<1>7. CASE ReportStopped
  BY <1>7 DEF ReportStopped
<1>8. CASE Leave
  BY <1>8 DEF Leave
<1>9. CASE Crash
  BY <1>9 DEF Crash, Answer, Reported
<1>. QED  BY <1>1, <1>2, <1>3, <1>4, <1>5, <1>6, <1>7, <1>8, <1>9

LEMMA ManagerKeeps ==
    ASSUME IInv,
           Purge \/ Due \/ Viewer \/ Reboot
    PROVE  Safe'
<1>. USE DEF IInv, TypeOK, ScmOK, ProcessOK, FilesOK, CommandOK, Live, scm, process,
        files, command, Safe, StateIsTrue, OneCommand, StepsOf, Awaited, InstallDone,
        RulesThere, Configured, AfterInstall, Doomed, UninstallDone, AfterUninstall,
        RestartDone, RulesCounted, Pending
<1>1. CASE Purge
  BY <1>1 DEF Purge, Opened
<1>2. CASE Due
  BY <1>2 DEF Due, Launchable, Launch
<1>3. CASE Viewer
  BY <1>3 DEF Viewer
<1>4. CASE Reboot
  BY <1>4 DEF Reboot
<1>. QED  BY <1>1, <1>2, <1>3, <1>4

LEMMA Inductive == Spec => []IInv
<1>1. IInv /\ [Next]_vars => IInv'
  <2>. SUFFICES ASSUME IInv, [Next]_vars
                PROVE  IInv'
    OBVIOUS
  <2>1. CASE Next
    <3>1. TypeOK'
      BY <2>1, CommandsTypes, InstallTypes, UninstallTypes, RestartTypes, ProcessTypes,
         ManagerTypes DEF Next, IInv, Safe
    <3>2. Safe'
      BY <2>1, CommandsKeep, InstallKeeps, UninstallKeeps, RestartKeeps, ProcessKeeps,
         ManagerKeeps DEF Next
    <3>. QED  BY <3>1, <3>2 DEF IInv
  <2>2. CASE UNCHANGED vars
    <3>1. TypeOK'
      BY <2>2, Untouched DEF vars, IInv, TypeOK
    <3>2. Safe'
      BY <2>2 DEF vars, scm, process, files, command, IInv, Safe, StateIsTrue, OneCommand,
         Awaited, InstallDone, RulesThere, Configured, AfterInstall, Doomed, UninstallDone,
         AfterUninstall, RestartDone, RulesCounted, Pending
    <3>. QED  BY <3>1, <3>2 DEF IInv
  <2>. QED  BY <2>1, <2>2
<1>. QED  BY <1>1, InitHolds, PTL DEF Spec

-----------------------------------------------------------------------------
(* What the commands report is so.                                         *)

(* Every variable keeps its type; no firewall rule is there more often     *)
(* than there were installs.                                               *)
THEOREM TypeCorrect == Spec => []TypeOK
<1>1. IInv => TypeOK
  BY DEF IInv
<1>. QED  BY <1>1, Inductive, PTL

(* What an install reports is there, and stays until the next command: the *)
(* entry with its arguments, the binary, the access, the rules, and no     *)
(* process of its own with other arguments (windows.rs:138-166).           *)
THEOREM InstallIsThere == Spec => []InstallHolds
<1>1. IInv => InstallHolds
  BY DEF IInv, Safe, AfterInstall, Configured, RulesThere, InstallHolds
<1>. QED  BY <1>1, Inductive, PTL

(* After an uninstall that reported success no process is left, and none   *)
(* can start, however short its poll was (windows.rs:168-183, 543-559).    *)
THEOREM UninstallIsClean == Spec => []UninstallCleans
<1>1. IInv => UninstallCleans
  BY DEF IInv, Safe, AfterUninstall, Doomed, UninstallCleans, Locked
<1>. QED  BY <1>1, Inductive, PTL

(* A restart that reported success did not leave the old process running   *)
(* (windows.rs:185-227).                                                   *)
THEOREM RestartIsNew == Spec => []RestartRenews
<1>1. IInv => RestartRenews
  BY DEF IInv, Safe, RestartDone, RestartRenews
<1>. QED  BY <1>1, Inductive, PTL
=============================================================================
