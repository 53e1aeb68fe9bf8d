----------------------------- MODULE Telemetry -----------------------------
(***************************************************************************)
(* The telemetry choice: asked once, stored in the user's config, carried  *)
(* over to the machine-wide one when the service is installed, and read by *)
(* every process that builds an endpoint (src/src/config.rs,               *)
(* src/src/main.rs:138-251, 410-428, src/src/tunnel.rs:284-310).           *)
(*                                                                         *)
(* The actors are commands one user runs, an elevated `service install`,   *)
(* the service, and whoever edits the files by hand.                       *)
(***************************************************************************)
EXTENDS Naturals

CONSTANTS Cmds,       \* commands of the user's, each run once
          Sudo,       \* TRUE: the elevated install finds the user in SUDO_USER
          Edits,      \* what may be edited by hand: pairs of a layer and a content
          MaxEdits,   \* bound on the edits
          MaxStarts   \* bound on the installs, and on the restarts of the service

Service == "service"

ASSUME TelemetryOK ==
    /\ Service \notin Cmds
    /\ Sudo \in BOOLEAN
    /\ MaxEdits \in Nat
    /\ MaxStarts \in Nat

(* The config files: the user's, root's own, and the machine-wide one.     *)
Layers == {"user", "root", "system"}

(* A file without the key (an empty one too) is "unset"; one that cannot   *)
(* be read or parsed is "bad".                                             *)
Contents == {"absent", "unset", "on", "off", "bad"}

ASSUME EditsOK == Edits \subseteq Layers \X Contents

VARIABLES
    file,      \* the three config files
    pc,        \* how far each command is
    answer,    \* what the user typed into a command
    own,       \* what a process read in the config of its user
    sends,     \* the processes that have a telemetry client
    service,   \* the service's process: off, starting, loading, running
    inst,      \* how far the elevated install is
    choice,    \* the choice it carries over
    said,      \* what its report said, as long as nothing changed since
    told,      \* the service was started after that report
    recorded,  \* an answer was stored, and the file not edited since
    overlap,   \* two commands ever asked or stored at once
    yes,       \* somebody chose to send
    edits, starts

vars == <<file, pc, answer, own, sends, service, inst, choice, said, told, recorded, overlap, yes,
          edits, starts>>

Processes == Cmds \cup {Service}

FilesOK == file \in [Layers -> Contents]

CmdsOK ==
    /\ pc \in [Cmds -> {"idle", "asking", "open", "write", "build", "load", "running", "done"}]
    /\ answer \in [Cmds -> {"none", "on", "off"}]
    /\ own \in [Processes -> {"none", "on", "off", "error"}]
    /\ sends \subseteq Processes

InstallOK ==
    /\ service \in {"off", "starting", "loading", "running"}
    /\ inst \in {"idle", "choose", "open", "write", "chmod", "report", "failed"}
    /\ choice \in {"none", "on", "off"}
    /\ said \in {"none", "on", "off"}
    /\ told \in BOOLEAN
    /\ starts \in 0..MaxStarts

HistoryOK ==
    /\ recorded \in BOOLEAN
    /\ overlap \in BOOLEAN
    /\ yes \in BOOLEAN
    /\ edits \in 0..MaxEdits

TypeOK ==
    /\ FilesOK
    /\ CmdsOK
    /\ InstallOK
    /\ HistoryOK

Init ==
    /\ file = [l \in Layers |-> "absent"]
    /\ pc = [c \in Cmds |-> "idle"]
    /\ answer = [c \in Cmds |-> "none"]
    /\ own = [p \in Processes |-> "none"]
    /\ sends = {}
    /\ service = "off"
    /\ inst = "idle"
    /\ choice = "none"
    /\ said = "none"
    /\ told = FALSE
    /\ recorded = FALSE
    /\ overlap = FALSE
    /\ yes = FALSE
    /\ edits = 0
    /\ starts = 0

(***************************************************************************)
(* Reading: None is "none", an error is "error".                           *)
(***************************************************************************)
LoadFrom(content) ==
    CASE content \in {"on", "off"}       -> content
      [] content \in {"absent", "unset"} -> "none"
      [] content = "bad"                 -> "error"

(* Mutant of Load: the machine-wide config first.                          *)
LoadSystemFirst(p) ==
    LET all == LoadFrom(file["system"])
    IN  IF "error" \in {own[p], all} THEN "error"
        ELSE IF all = "none" THEN own[p] ELSE all

(* Config::load, of a process that has read its user's config and reads    *)
(* the machine-wide one now.                                               *)
Load(p) ==
    LET all == LoadFrom(file["system"])
    IN  IF "error" \in {own[p], all} THEN "error"
        ELSE IF own[p] = "none" THEN all ELSE own[p]

(* Mutant of Enabled: sends unless told not to.                            *)
EnabledByDefault(p) == Load(p) # "off"

(* load_or_default and iroh_services_api_secret, of a build that has a     *)
(* valid secret: an error counts as the default, which is not to send.     *)
Enabled(p) == Load(p) = "on"

(***************************************************************************)
(* A command of the user's.                                                *)
(***************************************************************************)
Goto(c, l) == pc' = [pc EXCEPT ![c] = l]

Asking(c) == pc[c] \in {"asking", "open", "write"}

InstallStill == UNCHANGED <<service, inst, choice, said, told, starts>>

(* Mutant of Ask: a no is taken for no answer.                             *)
AskUnlessYes(c) ==
    /\ pc[c] = "idle"
    /\ LoadFrom(file["user"]) \in {"none", "off"}
    /\ Goto(c, "asking")
    /\ overlap' = (overlap \/ \E d \in Cmds : Asking(d))
    /\ UNCHANGED <<file, answer, own, sends, recorded, yes, edits>>
    /\ InstallStill

(* A setup command at a terminal, and no setting of the user's own.        *)
Ask(c) ==
    /\ pc[c] = "idle"
    /\ LoadFrom(file["user"]) = "none"
    /\ Goto(c, "asking")
    /\ overlap' = (overlap \/ \E d \in Cmds : Asking(d))
    /\ UNCHANGED <<file, answer, own, sends, recorded, yes, edits>>
    /\ InstallStill

(* Any other command (fly --stdio, no terminal, ...), or a setting that is *)
(* there or cannot be read.                                                *)
DontAsk(c) ==
    /\ pc[c] = "idle"
    /\ Goto(c, "build")
    /\ UNCHANGED <<file, answer, own, sends, recorded, overlap, yes, edits>>
    /\ InstallStill

(* read_yes_no: an empty line is a no, other text is asked again, and the  *)
(* end of input or an error leaves everything as it is.                    *)
Answer(c) ==
    /\ pc[c] = "asking"
    /\ \E a \in {"on", "off", "none"} :
           /\ answer' = [answer EXCEPT ![c] = a]
           /\ yes' = (yes \/ a = "on")
           /\ Goto(c, IF a = "none" THEN "build" ELSE "open")
    /\ UNCHANGED <<file, own, sends, recorded, overlap, edits>>
    /\ InstallStill

(* Config::store: opened with truncate, then written.  An error of either  *)
(* is reported, and the command goes on.                                   *)
StoreOpen(c) ==
    /\ pc[c] = "open"
    /\ file' = [file EXCEPT !["user"] = "unset"]
    /\ Goto(c, "write")
    /\ UNCHANGED <<answer, own, sends, recorded, overlap, yes, edits>>
    /\ InstallStill

StoreWrite(c) ==
    /\ pc[c] = "write"
    /\ file' = [file EXCEPT !["user"] = answer[c]]
    /\ recorded' = TRUE
    /\ Goto(c, "build")
    /\ UNCHANGED <<answer, own, sends, overlap, yes, edits>>
    /\ InstallStill

StoreErr(c) ==
    /\ pc[c] \in {"open", "write"}
    /\ Goto(c, "build")
    /\ UNCHANGED <<file, answer, own, sends, recorded, overlap, yes, edits>>
    /\ InstallStill

(* roost and fly load the config to build a tunnel: two files, one after   *)
(* the other.                                                              *)
LoadUser(c) ==
    /\ pc[c] = "build"
    /\ Goto(c, "load")
    /\ own' = [own EXCEPT ![c] = LoadFrom(file["user"])]
    /\ UNCHANGED <<file, answer, sends, recorded, overlap, yes, edits>>
    /\ InstallStill

(* What was read decides whether the tunnel has a client, which is counted *)
(* from here on, for as long as the command runs.                          *)
Build(c) ==
    /\ pc[c] = "load"
    /\ Goto(c, "running")
    /\ sends' = IF Enabled(c) THEN sends \cup {c} ELSE sends
    /\ UNCHANGED <<file, answer, own, recorded, overlap, yes, edits>>
    /\ InstallStill

(* The command ends, or is killed wherever it is.                          *)
End(c) ==
    /\ pc[c] \notin {"idle", "done"}
    /\ Goto(c, "done")
    /\ own' = [own EXCEPT ![c] = "none"]
    /\ sends' = sends \ {c}
    /\ UNCHANGED <<file, answer, recorded, overlap, yes, edits>>
    /\ InstallStill

(***************************************************************************)
(* `service install`, elevated: the service is installed and started, and  *)
(* then the choice is published.                                           *)
(***************************************************************************)
CmdsStill == UNCHANGED <<pc, answer, recorded, overlap, yes, edits>>

Install ==
    /\ inst \in {"idle", "failed"}
    /\ starts < MaxStarts
    /\ starts' = starts + 1
    /\ service' = "starting"
    /\ sends' = sends \ {Service}
    /\ own' = [own EXCEPT ![Service] = "none"]
    /\ inst' = "choose"
    /\ said' = "none"
    /\ told' = FALSE
    /\ UNCHANGED <<file, choice>>
    /\ CmdsStill

(* Mutant of Choose: no test of what was loaded.                           *)
ChooseRaw ==
    /\ inst = "choose"
    /\ choice' = LoadFrom(file[IF Sudo THEN "user" ELSE "root"])
    /\ inst' = "open"
    /\ UNCHANGED <<file, own, sends, service, said, told, starts>>
    /\ CmdsStill

(* installing_user_telemetry_choice: an error is no choice.                *)
Choose ==
    /\ inst = "choose"
    /\ LET had == LoadFrom(file[IF Sudo THEN "user" ELSE "root"])
       IN  IF had \in {"on", "off"}
           THEN choice' = had /\ inst' = "open"
           ELSE choice' = "none" /\ inst' = "report"
    /\ UNCHANGED <<file, own, sends, service, said, told, starts>>
    /\ CmdsStill

(* store_world_readable: opened with truncate, written, made readable.     *)
PublishOpen ==
    /\ inst = "open"
    /\ file' = [file EXCEPT !["system"] = "unset"]
    /\ inst' = "write"
    /\ UNCHANGED <<own, sends, service, choice, said, told, starts>>
    /\ CmdsStill

PublishWrite ==
    /\ inst = "write"
    /\ file' = [file EXCEPT !["system"] = choice]
    /\ inst' = "chmod"
    /\ UNCHANGED <<own, sends, service, choice, said, told, starts>>
    /\ CmdsStill

PublishChmod ==
    /\ inst = "chmod"
    /\ inst' = "report"
    /\ UNCHANGED <<file, own, sends, service, choice, said, told, starts>>
    /\ CmdsStill

(* Mutant of Report: says what was chosen, which may be nothing.           *)
ReportChoice ==
    /\ inst = "report"
    /\ said' = IF choice = "on" THEN "on" ELSE "off"
    /\ inst' = "idle"
    /\ UNCHANGED <<file, own, sends, service, choice, told, starts>>
    /\ CmdsStill

(* The machine-wide config is read back and reported.                      *)
Report ==
    /\ inst = "report"
    /\ said' = IF LoadFrom(file["system"]) = "on" THEN "on" ELSE "off"
    /\ inst' = "idle"
    /\ UNCHANGED <<file, own, sends, service, choice, told, starts>>
    /\ CmdsStill

(* An error of the open, the write or the permissions is reported as off.  *)
ReportErr ==
    /\ inst \in {"open", "write", "chmod"}
    /\ said' = "off"
    /\ inst' = "failed"
    /\ UNCHANGED <<file, own, sends, service, choice, told, starts>>
    /\ CmdsStill

(***************************************************************************)
(* The service, run by root, and the files' editors.                       *)
(***************************************************************************)
ServiceLoad ==
    /\ service = "starting"
    /\ service' = "loading"
    /\ own' = [own EXCEPT ![Service] = LoadFrom(file["root"])]
    /\ UNCHANGED <<file, sends, inst, choice, said, told, starts>>
    /\ CmdsStill

ServiceBuild ==
    /\ service = "loading"
    /\ service' = "running"
    /\ sends' = IF Enabled(Service) THEN sends \cup {Service} ELSE sends
    /\ UNCHANGED <<file, own, inst, choice, said, told, starts>>
    /\ CmdsStill

(* `service restart`, a failure and its restart, a reboot.                 *)
ServiceRestart ==
    /\ service # "off"
    /\ starts < MaxStarts
    /\ starts' = starts + 1
    /\ service' = "starting"
    /\ own' = [own EXCEPT ![Service] = "none"]
    /\ sends' = sends \ {Service}
    /\ told' = (said # "none" /\ inst # "failed")
    /\ UNCHANGED <<file, inst, choice, said>>
    /\ CmdsStill

(* `service uninstall`: the service is stopped, and /etc/pigeons removed   *)
(* with the config in it; Windows leaves the config where it is.           *)
Uninstall ==
    /\ inst \in {"idle", "failed"}
    /\ service' = "off"
    /\ own' = [own EXCEPT ![Service] = "none"]
    /\ sends' = sends \ {Service}
    /\ file' \in {file, [file EXCEPT !["system"] = "absent"]}
    /\ said' = "none"
    /\ told' = FALSE
    /\ UNCHANGED <<inst, choice, starts>>
    /\ CmdsStill

Edit ==
    /\ edits < MaxEdits
    /\ edits' = edits + 1
    /\ \E e \in Edits :
           /\ file' = [file EXCEPT ![e[1]] = e[2]]
           /\ recorded' = (recorded /\ e[1] # "user")
           /\ yes' = (yes \/ e[2] = "on")
           /\ said' = IF e[1] = "user" THEN said ELSE "none"
           /\ told' = (told /\ e[1] = "user")
    /\ UNCHANGED <<pc, answer, own, sends, service, inst, choice, overlap, starts>>

Next ==
    \/ \E c \in Cmds :
           \/ Ask(c) \/ DontAsk(c) \/ Answer(c) \/ StoreOpen(c) \/ StoreWrite(c)
           \/ StoreErr(c) \/ LoadUser(c) \/ Build(c) \/ End(c)
    \/ Install \/ Choose \/ PublishOpen \/ PublishWrite \/ PublishChmod
    \/ Report \/ ReportErr
    \/ ServiceLoad \/ ServiceBuild \/ ServiceRestart \/ Uninstall
    \/ Edit

Spec == Init /\ [][Next]_vars

(***************************************************************************)
(* Properties.                                                             *)
(***************************************************************************)

(* "Nothing is sent unless it is `true`" (README.md:127): a process        *)
(* sends only if somebody answered yes or wrote so in a config, whatever   *)
(* was stored half, failed, or was carried over (config.rs:23-66, 141-173, *)
(* tunnel.rs:284-287).                                                     *)
Consent == sends # {} => yes

(* A command that read a no in its user's own config never sends, whatever *)
(* the machine's says and becomes (config.rs:23-33).                       *)
NoMeansNo ==
    \A c \in Cmds : own[c] = "off" => c \notin sends

(* "The question is asked once" (README.md:117-120): not again after an    *)
(* answer was stored, yes or no, unless the file was edited since, or two  *)
(* commands asked at once (main.rs:191-231).                               *)
AskedOnce ==
    [][\A c \in Cmds :
           pc[c] = "idle" /\ pc'[c] = "asking" => ~recorded \/ overlap]_vars

(* A service that was started after an install published and reported does *)
(* what the report said, unless root has a setting of its own, which goes  *)
(* first (config.rs:20-33, 134-160, main.rs:227-251).                      *)
ReportPredicts ==
    service = "running" /\ told /\ LoadFrom(file["root"]) = "none" =>
        (Service \in sends <=> said = "on")

(* "Anonymous metrics: off for the service." (main.rs:248): the service    *)
(* that is running when the report is made does not send.                  *)
ReportedOffIsOff ==
    service = "running" /\ said = "off" /\ inst # "failed" => Service \notin sends
=============================================================================
