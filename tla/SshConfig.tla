----------------------------- MODULE SshConfig -----------------------------
(***************************************************************************)
(* Routes in ~/.ssh/config: `pigeons add`, `pigeons list` and `pigeons     *)
(* remove` (src/src/ssh.rs:100-302).                                       *)
(*                                                                         *)
(* A file is a sequence of lines, of the few kinds the code or ssh tells   *)
(* apart.  Each invocation of the program reads the file, works out the    *)
(* new text, writes it to a temporary file whose name is always the same,  *)
(* and renames that.  It may stop after any of these, and others may run   *)
(* at the same time.                                                       *)
(***************************************************************************)
EXTENDS Naturals, Sequences, SequencesExt

CONSTANTS Runs,       \* invocations of add or remove, each used once
          Names,      \* host names
          Ids,        \* endpoint IDs
          Files       \* what ~/.ssh/config may be at first

(* Lines.  A Host line has a set of names it matches; the text after Host  *)
(* is the name n itself iff that set is {n}.  Match is any line that       *)
(* begins a section for ssh and not for the code: Match, or Host in        *)
(* another spelling.  The ProxyCommands are told apart by what they run    *)
(* and by whether the code sees "pigeons" in them.                         *)
Host(names)  == [is |-> "host", of |-> names]
Match(names) == [is |-> "match", of |-> names]
Fly(id)      == [is |-> "fly", of |-> {id}]   \* pigeons fly --stdio id
Wrapped      == [is |-> "wrapped", of |-> {}] \* runs pigeons in another way
Mention      == [is |-> "mention", of |-> {}] \* has "pigeons" in it, runs none
Proxy        == [is |-> "proxy", of |-> {}]   \* any other ProxyCommand
Option       == [is |-> "option", of |-> {}]  \* any other line with text
Blank        == [is |-> "blank", of |-> {}]

Lines == {Host(ns) : ns \in (SUBSET Names) \ {{}}} \cup {Match(ns) : ns \in SUBSET Names}
             \cup {Fly(id) : id \in Ids} \cup {Wrapped, Mention, Proxy, Option, Blank}

Runners == {"fly", "wrapped"}                      \* what invokes pigeons
Proxies == Runners \cup {"mention", "proxy"}       \* what is a ProxyCommand to ssh

(* A file: whether it exists, its lines, whether the last one ends in a    *)
(* newline, and whether any ends in CRLF.                                  *)
Texts           == [here : BOOLEAN, lines : Seq(Lines), nl : BOOLEAN, crlf : BOOLEAN]
File(lines, nl) == [here |-> TRUE, lines |-> lines, nl |-> nl, crlf |-> FALSE]
NoFile          == [here |-> FALSE, lines |-> <<>>, nl |-> TRUE, crlf |-> FALSE]

Commands == [op : {"add"}, name : Names, id : Ids] \cup [op : {"remove"}, name : Names]

ASSUME RoutesOK ==
    /\ Names # {}
    /\ \A f \in Files :
           /\ f \in Texts
           /\ ~f.here => f = NoFile
           /\ f.lines = <<>> => f.nl /\ ~f.crlf
           /\ ~f.nl => Last(f.lines) # Blank

VARIABLES
    config,   \* ~/.ssh/config
    tmp,      \* ~/.ssh/.config.pigeons.tmp
    pc,       \* how far each invocation is
    cmd,      \* what it was asked to do
    text,     \* the lines it is about to write
    fd,       \* the name of the file it has open: tmp, config, or gone
    overlap   \* two invocations ever ran at once

vars == <<config, tmp, pc, cmd, text, fd, overlap>>

TypeOK ==
    /\ {config, tmp} \subseteq Texts
    /\ pc \in [Runs -> {"idle", "read", "open", "write", "rename", "ok", "failed"}]
    /\ cmd \in [Runs -> Commands]
    /\ text \in [Runs -> Seq(Lines)]
    /\ fd \in [Runs -> {"none", "tmp", "config", "gone"}]
    /\ overlap \in BOOLEAN

Init ==
    /\ config \in Files
    /\ tmp = NoFile
    /\ pc = [p \in Runs |-> "idle"]
    /\ cmd = [p \in Runs |-> CHOOSE c \in Commands : TRUE]
    /\ text = [p \in Runs |-> <<>>]
    /\ fd = [p \in Runs |-> "none"]
    /\ overlap = FALSE

(***************************************************************************)
(* remove_host_block: one pass over the lines.                             *)
(***************************************************************************)
Scan0 == [out |-> <<>>, skipping |-> FALSE, found |-> FALSE, ours |-> FALSE,
          bail |-> FALSE]

(* What the code takes for ours: a ProxyCommand with "pigeons" in it.      *)
Ours == {"fly", "wrapped", "mention"}

(* Mutant of ScanLine: what follows the block goes with it.                *)
ScanLineSkipsOn(acc, line, name) ==
    IF acc.bail THEN acc
    ELSE IF line = Host({name})
         THEN [acc EXCEPT !.skipping = TRUE, !.found = TRUE, !.ours = FALSE]
    ELSE IF line.is = "host" /\ acc.found /\ ~acc.ours
         THEN [acc EXCEPT !.bail = TRUE]
    ELSE IF acc.skipping
         THEN [acc EXCEPT !.ours = @ \/ line.is \in Ours]
    ELSE [acc EXCEPT !.out = Append(@, line)]

(* The loop's body.  `ours` is has_pigeons_proxy, and starts again at      *)
(* every Host line with this name.                                         *)
ScanLine(acc, line, name) ==
    IF acc.bail THEN acc
    ELSE IF line = Host({name})
         THEN [acc EXCEPT !.skipping = TRUE, !.found = TRUE, !.ours = FALSE]
    ELSE IF line.is = "host" /\ acc.found /\ ~acc.ours
         THEN [acc EXCEPT !.bail = TRUE]
    ELSE IF acc.skipping /\ line.is # "host"
         THEN [acc EXCEPT !.ours = @ \/ line.is \in Ours]
    ELSE [acc EXCEPT !.skipping = FALSE, !.out = Append(@, line)]

(* Mutant of Tidy: blank lines pile up.                                    *)
TidyNothing(lines) == lines

(* "while result.ends_with("\n\n") { result.pop(); }"                      *)
Tidy(lines) ==
    LET texts == {i \in 1..Len(lines) : lines[i] # Blank}
        last  == IF texts = {} THEN IF lines = <<>> THEN 0 ELSE 1
                 ELSE CHOOSE i \in texts : \A j \in texts : j <= i
    IN  SubSeq(lines, 1, last)

(* The loop: its state after each number of lines.                         *)
Scans(lines, name) ==
    LET acc[i \in 0..Len(lines)] ==
            IF i = 0 THEN Scan0 ELSE ScanLine(acc[i - 1], lines[i], name)
    IN  acc

(* The lines left without the blocks of this name, or an error: a block    *)
(* of this name has no ProxyCommand with "pigeons".                        *)
RemoveHostBlock(lines, name) ==
    LET end == Scans(lines, name)[Len(lines)]
    IN  [err |-> end.bail \/ (end.found /\ ~end.ours), lines |-> Tidy(end.out)]

(* Mutant of Added: the new block is appended whatever is there.           *)
AddedBelow(lines, name, id) ==
    LET above == Tidy(lines)
        gap   == IF above = <<>> THEN <<>> ELSE <<Blank>>
    IN  [err |-> RemoveHostBlock(lines, name).err,
         lines |-> above \o gap \o <<Host({name}), Fly(id), Option>>]

(* add_tunnel_host's new content.  The two lines that turn host key checks *)
(* off are one Option.                                                     *)
Added(lines, name, id) ==
    LET cleaned == RemoveHostBlock(lines, name)
        gap     == IF cleaned.lines = <<>> THEN <<>> ELSE <<Blank>>
    IN  [err |-> cleaned.err,
         lines |-> cleaned.lines \o gap \o <<Host({name}), Fly(id), Option>>]

(* Mutant of Removed: a name that is not there is removed.                 *)
RemovedAnything(file, name) ==
    LET cleaned == RemoveHostBlock(file.lines, name)
    IN  [err |-> ~file.here \/ cleaned.err, lines |-> cleaned.lines]

(* remove_tunnel_host's: an error too if the text would be the same.  It   *)
(* is not if a line ended in CRLF: all that are kept end in a newline.     *)
Removed(file, name) ==
    LET cleaned == RemoveHostBlock(file.lines, name)
    IN  [err |-> \/ ~file.here
                 \/ cleaned.err
                 \/ (cleaned.lines = file.lines /\ file.nl /\ ~file.crlf),
         lines |-> cleaned.lines]

Edited(file, c) ==
    IF c.op = "add" THEN Added(file.lines, c.name, c.id) ELSE Removed(file, c.name)

(***************************************************************************)
(* list_tunnel_hosts: another pass, of its own.                            *)
(***************************************************************************)
List0 == [host |-> {}, to |-> {}, entries |-> <<>>]

Flush(acc) ==
    IF acc.host = {} \/ acc.to = {} THEN acc.entries
    ELSE Append(acc.entries, [host |-> acc.host, to |-> acc.to])

(* Mutant of ListLine: the endpoint of the block before is kept.           *)
ListLineKeeps(acc, line) ==
    IF line.is = "host" THEN [acc EXCEPT !.host = line.of, !.entries = Flush(acc)]
    ELSE IF line.is = "fly" THEN [acc EXCEPT !.to = line.of]
    ELSE acc

ListLine(acc, line) ==
    IF line.is = "host"
    THEN [host |-> line.of, to |-> {}, entries |-> Flush(acc)]
    ELSE IF line.is = "fly" THEN [acc EXCEPT !.to = line.of]
    ELSE acc

Lists(lines) ==
    LET acc[i \in 0..Len(lines)] ==
            IF i = 0 THEN List0 ELSE ListLine(acc[i - 1], lines[i])
    IN  acc

(* A Host line is shown as it is written, a block without an endpoint not. *)
ListTunnelHosts(lines) == ToSet(Flush(Lists(lines)[Len(lines)]))

(***************************************************************************)
(* One invocation.                                                         *)
(***************************************************************************)
Goto(p, l) == pc' = [pc EXCEPT ![p] = l]

Done(p, outcome) ==
    /\ Goto(p, outcome)
    /\ text' = [text EXCEPT ![p] = <<>>]

Running(p) == pc[p] \notin {"idle", "ok", "failed"}

Start(p) ==
    /\ pc[p] = "idle"
    /\ overlap' = (overlap \/ \E q \in Runs : Running(q))
    /\ \E c \in Commands : cmd' = [cmd EXCEPT ![p] = c]
    /\ Goto(p, "read")
    /\ UNCHANGED <<config, tmp, text, fd>>

(* Mutant of Read: an outcome of its own for an edit that was refused.     *)
ReadBails(p) ==
    /\ pc[p] = "read"
    /\ LET new == Edited(config, cmd[p])
       IN  IF new.err
           THEN Done(p, "bailed")
           ELSE Goto(p, "open") /\ text' = [text EXCEPT ![p] = new.lines]
    /\ UNCHANGED <<config, tmp, cmd, fd, overlap>>

(* exists, read_to_string, and all of the computation.                     *)
Read(p) ==
    /\ pc[p] = "read"
    /\ LET new == Edited(config, cmd[p])
       IN  IF new.err
           THEN Done(p, "failed")
           ELSE Goto(p, "open") /\ text' = [text EXCEPT ![p] = new.lines]
    /\ UNCHANGED <<config, tmp, cmd, fd, overlap>>

(* Mutant of Open: the config file is written in place.                    *)
OpenInPlace(p) ==
    /\ pc[p] = "open"
    /\ config' = File(<<>>, TRUE)
    /\ fd' = [fd EXCEPT ![p] = "config"]
    /\ Goto(p, "write")
    /\ UNCHANGED <<tmp, cmd, text, overlap>>

(* fs::write creates the temporary file, or empties the one there is ...   *)
Open(p) ==
    /\ pc[p] = "open"
    /\ tmp' = File(<<>>, TRUE)
    /\ fd' = [fd EXCEPT ![p] = "tmp"]
    /\ Goto(p, "write")
    /\ UNCHANGED <<config, cmd, text, overlap>>

(* ... and writes from its beginning, over what another run wrote there.   *)
Overlay(new, file) ==
    IF file.lines = <<>>
    THEN File(new, TRUE)
    ELSE File(new \o SubSeq(file.lines, Len(new) + 1, Len(file.lines)), TRUE)

Write(p) ==
    /\ pc[p] = "write"
    /\ tmp' = IF fd[p] = "tmp" THEN Overlay(text[p], tmp) ELSE tmp
    /\ config' = IF fd[p] = "config" THEN Overlay(text[p], config) ELSE config
    /\ fd' = [fd EXCEPT ![p] = "none"]
    /\ Goto(p, "rename")
    /\ UNCHANGED <<cmd, text, overlap>>

(* What is renamed is whatever now has the name.  Runs that hold it open   *)
(* go on writing to it.                                                    *)
Rename(p) ==
    /\ pc[p] = "rename"
    /\ tmp.here
    /\ config' = tmp
    /\ tmp' = NoFile
    /\ fd' = [q \in Runs |-> IF fd[q] = "config" THEN "gone"
                             ELSE IF fd[q] = "tmp" THEN "config" ELSE fd[q]]
    /\ Done(p, "ok")
    /\ UNCHANGED <<cmd, overlap>>

RenameErr(p) ==
    /\ pc[p] = "rename"
    /\ ~tmp.here
    /\ Done(p, "failed")
    /\ UNCHANGED <<config, tmp, cmd, fd, overlap>>

(* Mutant of Stop: a run that fails removes the temporary file.            *)
StopCleansUp(p) ==
    /\ Running(p)
    /\ Done(p, "failed")
    /\ fd' = [fd EXCEPT ![p] = "none"]
    /\ tmp' = NoFile
    /\ UNCHANGED <<config, cmd, overlap>>

(* An I/O error, or a kill, between any two steps.                         *)
Stop(p) ==
    /\ Running(p)
    /\ Done(p, "failed")
    /\ fd' = [fd EXCEPT ![p] = "none"]
    /\ UNCHANGED <<config, tmp, cmd, overlap>>

Next ==
    \E p \in Runs :
        Start(p) \/ Read(p) \/ Open(p) \/ Write(p) \/ Rename(p) \/ RenameErr(p) \/ Stop(p)

Spec == Init /\ [][Next]_vars

(***************************************************************************)
(* What ssh makes of the file, and whose lines are whose: definitions the  *)
(* properties compare the code's passes with.                              *)
(***************************************************************************)

(* The last line of some kinds, up to line i.                              *)
Latest(lines, kinds, i) ==
    LET tops == {j \in 1..i : lines[j].is \in kinds}
    IN  IF tops = {} THEN 0 ELSE CHOOSE j \in tops : \A k \in tops : k <= j

(* The section a line is in, by the line it begins with; 0 above them all. *)
Section(lines, i) == Latest(lines, {"host", "match"}, i)

(* Line i is in a section of just this name.                               *)
Under(lines, i, name) ==
    Section(lines, i) # 0 /\ lines[Section(lines, i)] = Host({name})

(* The section of line i has a line of some kinds.                         *)
Has(lines, i, kinds) ==
    \E j \in DOMAIN lines :
        Section(lines, j) = Section(lines, i) /\ lines[j].is \in kinds

(* Line i belongs to a route of this name that pigeons made: a section of  *)
(* the name, with a ProxyCommand that invokes pigeons.                     *)
OfRoute(lines, i, name) == Under(lines, i, name) /\ Has(lines, i, Runners)

(* The lines at some places, in order, after each number of lines.         *)
Selects(lines, places) ==
    LET sel[i \in 0..Len(lines)] ==
            IF i = 0 THEN <<>>
            ELSE IF i \in places THEN Append(sel[i - 1], lines[i]) ELSE sel[i - 1]
    IN  sel

Select(lines, places) == Selects(lines, places)[Len(lines)]

(* Everything else with text in it, in order.                              *)
Foreign(lines, name) ==
    Select(lines, {i \in DOMAIN lines : lines[i] # Blank /\ ~OfRoute(lines, i, name)})

(* The code's block of this name runs on after ssh's section: into another *)
(* of the name, or into one that begins with a line it does not know.      *)
RunsOn(lines, name) ==
    \E i, j \in DOMAIN lines :
        /\ i < j /\ lines[i] = Host({name})
        /\ lines[j] = Host({name}) \/ lines[j].is = "match"
        /\ \A k \in (i + 1)..(j - 1) : lines[k].is # "host"

(* A section of this name mentions pigeons, and runs none.                 *)
OnlyMentions(lines, name) ==
    \E i \in DOMAIN lines :
        Under(lines, i, name) /\ lines[i].is = "mention" /\ ~Has(lines, i, Runners)

(* The ProxyCommand ssh uses for a name: the first one that applies.       *)
Routing(lines, name) ==
    {i \in DOMAIN lines :
        /\ lines[i].is \in Proxies
        /\ Section(lines, i) # 0 => name \in lines[Section(lines, i)].of}

Route(lines, name) ==
    LET is == Routing(lines, name)
    IN  IF is = {} THEN Option
        ELSE lines[CHOOSE i \in is : \A j \in is : i <= j]

(* No ProxyCommand applies to the name but in sections of just this name.  *)
Unclaimed(lines, name) == \A i \in Routing(lines, name) : Under(lines, i, name)

(* If any applies, one in such a section is the first.                     *)
OwnFirst(lines, name) ==
    \A i \in Routing(lines, name) :
        Under(lines, i, name) \/ \E j \in Routing(lines, name) : j < i /\ Under(lines, j, name)

(* No two Host lines are the same, no section has two ProxyCommands, and   *)
(* no route is in a section that the code does not know.                   *)
Plain(lines) ==
    \A i, j \in DOMAIN lines :
        /\ i # j =>
               /\ lines[i].is = "host" => lines[i] # lines[j]
               /\ {lines[i].is, lines[j].is} \subseteq Proxies =>
                      Section(lines, i) # Section(lines, j)
        /\ lines[i].is = "fly" /\ Section(lines, i) # 0 =>
               lines[Section(lines, i)].is = "host"

(***************************************************************************)
(* Properties.                                                             *)
(***************************************************************************)

(* Run p has replaced the file.                                            *)
Replaces(p) == pc[p] = "rename" /\ pc'[p] = "ok"

(* The file changes only by the rename of a finished text, the text of the *)
(* run that renames: no reader and no later run finds it empty or half     *)
(* written (atomic_write, ssh.rs:292-302).                                 *)
Atomic == \E p \in Runs : Replaces(p) /\ config' = File(text[p], TRUE)

AtomicWrite == [][config' # config => Atomic]_vars

(* It holds as long as no two runs overlap, wherever one stops.            *)
AtomicChange == [][config' # config /\ ~overlap => Atomic]_vars

(* An add or a remove touches no line but those of the routes of its name: *)
(* the user's own sections, of this name or another, stay as they are,     *)
(* with two exceptions, in which the code takes them for part of a route:  *)
(* a block of the name that runs on into the next section                  *)
(* (ssh.rs:254-273), and a section of the name whose ProxyCommand only     *)
(* mentions pigeons (ssh.rs:269).                                          *)
OnlyOursGo ==
    [][\A p \in Runs :
           LET name == cmd[p].name
           IN  Replaces(p) /\ ~overlap
                   /\ ~RunsOn(config.lines, name) /\ ~OnlyMentions(config.lines, name) =>
                   Foreign(config'.lines, name) = Foreign(config.lines, name)]_vars

(* After an add that succeeded, ssh uses the new route for the name: no    *)
(* block of the name that stays above it takes the name first              *)
(* (ssh.rs:134-138).                                                       *)
AddTakesEffect ==
    [][\A p \in Runs :
           Replaces(p) /\ ~overlap /\ cmd[p].op = "add"
               /\ Unclaimed(config.lines, cmd[p].name) =>
               Route(config'.lines, cmd[p].name) = Fly(cmd[p].id)]_vars

(* A Host line has the name, alone or with others, and its block is none   *)
(* of ours.                                                                *)
Taken(lines, name) ==
    \E i \in DOMAIN lines :
        lines[i].is = "host" /\ name \in lines[i].of /\ ~OfRoute(lines, i, name)

(* "A name already taken by a host that isn't ours is an error"            *)
(* (ssh.rs:135-137, 243-244): neither an add nor a remove succeeds.        *)
TakenIsAnError ==
    [][\A p \in Runs : Replaces(p) /\ ~overlap => ~Taken(config.lines, cmd[p].name)]_vars

(* A remove that succeeded removed a block of the name: there was one, and *)
(* there is none now.  Only of a file whose lines all end in a newline,    *)
(* none in CRLF, and that has no blank lines at its end: the text of any   *)
(* other differs from the cleaned one, and the remove succeeds, whether or *)
(* not a block was removed (ssh.rs:172-178, 284-287).                      *)
RemoveFindsOne ==
    [][\A p \in Runs :
           /\ Replaces(p) /\ ~overlap /\ cmd[p].op = "remove"
           /\ config = File(Tidy(config.lines), TRUE)
           => /\ Host({cmd[p].name}) \in ToSet(config.lines)
              /\ Host({cmd[p].name}) \notin ToSet(config'.lines)]_vars

(* Runs that overlap take the temporary file from each other, but one      *)
(* fails for that only if another has succeeded (atomic_write,             *)
(* ssh.rs:292-302).                                                        *)
OneOfThemSucceeds ==
    \A p \in Runs :
        pc[p] = "rename" /\ ~tmp.here => \E q \in Runs \ {p} : pc[q] = "ok"

(* `pigeons list` shows a name with an endpoint exactly if ssh goes there  *)
(* for the name.  Left out are names to which a ProxyCommand of another    *)
(* section applies first, and files that are not Plain: the list looks at  *)
(* no section but a route's own, and takes the last route of a block where *)
(* ssh takes the first ProxyCommand (ssh.rs:181-239).                      *)
ListTellsTheTruth ==
    Plain(config.lines) =>
        \A n \in Names, id \in Ids :
            OwnFirst(config.lines, n) =>
                ([host |-> {n}, to |-> {id}] \in ListTunnelHosts(config.lines)
                     <=> Route(config.lines, n) = Fly(id))

(* A remove undoes an add: what is left are the lines as they were, without *)
(* the blank ones at the end (ssh.rs:118-179, 284-287).                    *)
RemoveUndoesAdd ==
    \A n \in Names, id \in Ids :
        Host({n}) \notin ToSet(config.lines) =>
            LET added   == Added(config.lines, n, id)
                removed == Removed(File(added.lines, TRUE), n)
            IN  ~added.err /\ ~removed.err /\ removed.lines = Tidy(config.lines)
=============================================================================
