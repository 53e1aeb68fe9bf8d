---------------------------- MODULE MCTelemetry ----------------------------
(***************************************************************************)
(* The edits of Telemetry's runs.  The user's commands are interchangeable.*)
(***************************************************************************)
EXTENDS Telemetry, TLC

Symmetry == Permutations(Cmds)

(* By the user, by the administrator of the machine, and as root.          *)
UserEdits   == {"user"} \X {"absent", "on", "off", "bad"}
SystemEdits == {"system"} \X {"on", "off", "bad"}
RootEdits   == {"root"} \X {"on", "off", "unset"}
AllButRoot  == UserEdits \cup SystemEdits
AllEdits    == AllButRoot \cup RootEdits
=============================================================================
