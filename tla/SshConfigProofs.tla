-------------------------- MODULE SshConfigProofs --------------------------
(***************************************************************************)
(* Proofs about SshConfig, for any files, any number of invocations that   *)
(* overlap or not, and any stops.                                          *)
(***************************************************************************)
EXTENDS SshPasses

(* A text written over a file's beginning is lines again.                  *)
LEMMA OverlayType ==
    ASSUME NEW new \in Seq(Lines),
           NEW file \in Texts
    PROVE  Overlay(new, file) \in Texts
<1>. USE DEF Texts
<1>. DEFINE rest == SubSeq(file.lines, Len(new) + 1, Len(file.lines))
<1>1. rest \in Seq(Lines)
  <2>1. file.lines \in Seq(Lines)
    OBVIOUS
  <2>2. Len(new) + 1 \in Int /\ Len(file.lines) \in Int
    BY <2>1
  <2>3. \A i \in (Len(new) + 1)..Len(file.lines) : file.lines[i] \in Lines
    BY <2>1
  <2>. QED  BY <2>2, <2>3, SubSeqProperties
<1>. HIDE DEF rest
<1>2. new \o rest \in Seq(Lines)
  BY <1>1, ConcatProperties
<1>. QED  BY <1>2 DEF Overlay, File, rest

(* The variables have their types: whatever a file's lines, what the       *)
(* passes make of them is lines, and so are texts written over each other  *)
(* (ssh.rs:118-302).                                                       *)
THEOREM TypeCorrect == Spec => []TypeOK
<1>0. <<>> \in Seq(Lines) /\ File(<<>>, TRUE) \in Texts /\ NoFile \in Texts
  BY DEF Texts, File, NoFile
<1>1. Init => TypeOK
  <2>. SUFFICES ASSUME Init
                PROVE  TypeOK
    OBVIOUS
  <2>1. config \in Texts
    BY RoutesOK DEF Init
  <2>2. cmd \in [Runs -> Commands]
    <3>1. PICK n \in Names : TRUE
      BY RoutesOK
    <3>2. [op |-> "remove", name |-> n] \in Commands
      BY DEF Commands
    <3>3. (CHOOSE c \in Commands : TRUE) \in Commands
      BY <3>2
    <3>. QED  BY <3>3 DEF Init
  <2>3. text \in [Runs -> Seq(Lines)]
    BY <1>0 DEF Init
  <2>. QED  BY <1>0, <2>1, <2>2, <2>3 DEF Init, TypeOK
<1>2. TypeOK /\ [Next]_vars => TypeOK'
  <2>. SUFFICES ASSUME TypeOK, [Next]_vars
                PROVE  TypeOK'
    OBVIOUS
  <2>. USE DEF TypeOK, Goto, Done
  <2>1. ASSUME NEW p \in Runs, Start(p)
        PROVE  TypeOK'
    BY <2>1 DEF Start
  <2>2. ASSUME NEW p \in Runs, Read(p)
        PROVE  TypeOK'
    <3>1. Edited(config, cmd[p]).lines \in Seq(Lines)
      BY EditedIs DEF Texts
    <3>2. text' \in [Runs -> Seq(Lines)]
      <4>1. \/ text' = [text EXCEPT ![p] = <<>>]
            \/ text' = [text EXCEPT ![p] = Edited(config, cmd[p]).lines]
        BY <2>2 DEF Read
      <4>. QED  BY <1>0, <3>1, <4>1
    <3>3. pc' \in [Runs -> {"idle", "read", "open", "write", "rename", "ok", "failed"}]
      <4>1. pc' = [pc EXCEPT ![p] = "failed"] \/ pc' = [pc EXCEPT ![p] = "open"]
        BY <2>2 DEF Read
      <4>. QED  BY <4>1
    <3>. QED  BY <2>2, <3>2, <3>3 DEF Read
  <2>3. ASSUME NEW p \in Runs, Open(p)
        PROVE  TypeOK'
    BY <1>0, <2>3 DEF Open
  <2>4. ASSUME NEW p \in Runs, Write(p)
        PROVE  TypeOK'
    <3>1. Overlay(text[p], tmp) \in Texts /\ Overlay(text[p], config) \in Texts
      BY OverlayType
    <3>. QED  BY <2>4, <3>1 DEF Write
  <2>5. ASSUME NEW p \in Runs, Rename(p)
        PROVE  TypeOK'
    BY <1>0, <2>5 DEF Rename
  <2>6. ASSUME NEW p \in Runs, RenameErr(p)
        PROVE  TypeOK'
    BY <1>0, <2>6 DEF RenameErr
  <2>7. ASSUME NEW p \in Runs, Stop(p)
        PROVE  TypeOK'
    BY <1>0, <2>7 DEF Stop
  <2>8. CASE UNCHANGED vars
    BY <2>8 DEF vars
  <2>. QED  BY <2>1, <2>2, <2>3, <2>4, <2>5, <2>6, <2>7, <2>8 DEF Next
<1>. QED  BY <1>1, <1>2, PTL DEF Spec

(* As much of the types as the files' names and the steps need.            *)
Shape ==
    /\ pc \in [Runs -> {"idle", "read", "open", "write", "rename", "ok", "failed"}]
    /\ text = [p \in Runs |-> text[p]]
    /\ fd \in [Runs -> {"none", "tmp", "config", "gone"}]
    /\ cmd = [p \in Runs |-> cmd[p]]
    /\ overlap \in BOOLEAN

(* A run holds a file open only to write it.                               *)
OpenToWrite == \A p \in Runs : fd[p] # "none" => pc[p] = "write"

(* As long as runs do not overlap, the temporary file is the text of the   *)
(* one that runs, as far as it has written it.                             *)
OneWriter ==
    ~overlap =>
        /\ \A p, q \in Runs : Running(p) /\ Running(q) => p = q
        /\ \A p \in Runs :
               /\ fd[p] \in {"none", "tmp"}
               /\ pc[p] = "write" => fd[p] = "tmp" /\ tmp = File(<<>>, TRUE)
               /\ pc[p] = "rename" => tmp = File(text[p], TRUE)

(* Runs that overlap: the temporary file is missing under one that made it *)
(* only if another has taken it, and so is through.                        *)
TakenByAnother ==
    \A p \in Runs :
        pc[p] \in {"write", "rename"} /\ ~tmp.here =>
            \E q \in Runs \ {p} : pc[q] = "ok"

(* As long as runs do not overlap, what a run is about to write is its     *)
(* edit of the file as it still is, and the edit was no error.             *)
UpToDate ==
    ~overlap =>
        \A p \in Runs :
            pc[p] \in {"open", "write", "rename"} =>
                /\ ~Edited(config, cmd[p]).err
                /\ text[p] = Edited(config, cmd[p]).lines

IInv == OpenToWrite /\ OneWriter /\ TakenByAnother /\ UpToDate

LEMMA InitHolds == Init => IInv
<1>. SUFFICES ASSUME Init
              PROVE  IInv
  OBVIOUS
<1>1. OpenToWrite /\ OneWriter /\ TakenByAnother /\ UpToDate
  BY DEF Init, OpenToWrite, OneWriter, TakenByAnother, UpToDate, Running
<1>. QED  BY <1>1 DEF IInv

(* A run that goes on, or is through, without the temporary file, and that *)
(* is not about to write or rename it, leaves one writer at most.          *)
LEMMA OneWriterStays ==
    ASSUME OneWriter, NEW p \in Runs, UNCHANGED <<tmp, overlap>>,
           \A q \in Runs \ {p} : pc'[q] = pc[q] /\ fd'[q] = fd[q] /\ text'[q] = text[q],
           Running(p), pc'[p] \notin {"write", "rename"}, fd'[p] \in {fd[p], "none"}
    PROVE  OneWriter'
<1>. SUFFICES ASSUME ~overlap
              PROVE  OneWriter'
  BY DEF OneWriter
<1>1. \A q \in Runs : q # p => ~Running(q)
  BY DEF OneWriter
<1>2. \A q \in Runs : q # p => ~Running(q)'
  BY <1>1 DEF Running
<1>3. \A q, r \in Runs : Running(q)' /\ Running(r)' => q = r
  BY <1>2
<1>4. ASSUME NEW q \in Runs
      PROVE  /\ fd'[q] \in {"none", "tmp"}
             /\ pc'[q] \notin {"write", "rename"}
  <2>1. fd[q] \in {"none", "tmp"}
    BY DEF OneWriter
  <2>2. CASE q = p
    BY <2>1, <2>2
  <2>3. CASE q # p
    BY <1>2, <2>1, <2>3 DEF Running
  <2>. QED  BY <2>2, <2>3
<1>. QED  BY <1>3, <1>4 DEF OneWriter

LEMMA StepKeeps ==
    ASSUME TypeOK, IInv, NEW p \in Runs,
           Start(p) \/ Read(p) \/ Open(p) \/ Write(p) \/ Rename(p) \/ RenameErr(p) \/ Stop(p)
    PROVE  IInv'
<1>0. Shape
  BY DEF TypeOK, Shape
<1>. USE <1>0 DEF IInv, Shape, Goto, Done
<1>1. CASE Start(p)
  <2>1. UpToDate'
    BY <1>1 DEF Start, UpToDate, OneWriter, Running
  <2>2. OpenToWrite'
    BY <1>1 DEF Start, OpenToWrite
  <2>3. OneWriter'
    BY <1>1 DEF Start, OneWriter, OpenToWrite, Running
  <2>4. TakenByAnother'
    BY <1>1 DEF Start, TakenByAnother
  <2>. QED  BY <2>1, <2>2, <2>3, <2>4
<1>2. CASE Read(p)
  <2>1. UpToDate'
    BY <1>2 DEF Read, UpToDate, OneWriter, Running
  <2>2. OpenToWrite'
    BY <1>2 DEF Read, OpenToWrite
  <2>3. OneWriter'
    <3>1. /\ UNCHANGED <<tmp, overlap>> /\ Running(p)
          /\ pc'[p] \in {"failed", "open"} /\ fd' = fd
      BY <1>2 DEF Read, Running
    <3>2. \A q \in Runs \ {p} : pc'[q] = pc[q] /\ text'[q] = text[q]
      BY <1>2 DEF Read
    <3>. QED  BY <3>1, <3>2, OneWriterStays
  <2>4. TakenByAnother'
    BY <1>2 DEF Read, TakenByAnother
  <2>. QED  BY <2>1, <2>2, <2>3, <2>4
<1>3. CASE Open(p)
  <2>1. UpToDate'
    BY <1>3 DEF Open, UpToDate, OneWriter, Running
  <2>2. OpenToWrite'
    BY <1>3 DEF Open, OpenToWrite
  <2>3. OneWriter'
    BY <1>3 DEF Open, OneWriter, OpenToWrite, Running, File, Overlay
  <2>4. TakenByAnother'
    BY <1>3 DEF Open, TakenByAnother, File, Overlay
  <2>. QED  BY <2>1, <2>2, <2>3, <2>4
<1>4. CASE Write(p)
  <2>1. UpToDate'
    BY <1>4 DEF Write, UpToDate, OneWriter, Running
  <2>2. OpenToWrite'
    BY <1>4 DEF Write, OpenToWrite
  <2>3. OneWriter'
    <3>. SUFFICES ASSUME ~overlap
                  PROVE  OneWriter'
      BY <1>4 DEF Write, OneWriter
    <3>1. fd[p] = "tmp" /\ tmp.lines = <<>>
      BY <1>4 DEF Write, OneWriter, File
    <3>2. tmp' = File(text[p], TRUE)
      BY <1>4, <3>1 DEF Write, Overlay
    <3>3. \A q \in Runs : q # p => ~Running(q)
      BY <1>4 DEF Write, OneWriter, Running
    <3>. QED  BY <1>4, <3>2, <3>3 DEF Write, OneWriter, Running
  <2>4. TakenByAnother'
    BY <1>4 DEF Write, TakenByAnother, File, Overlay
  <2>. QED  BY <2>1, <2>2, <2>3, <2>4
<1>5. CASE Rename(p)
  <2>1. UpToDate'
    BY <1>5 DEF Rename, UpToDate, OneWriter, Running
  <2>2. OpenToWrite'
    BY <1>5 DEF Rename, OpenToWrite
  <2>3. OneWriter'
    <3>. SUFFICES ASSUME ~overlap
                  PROVE  OneWriter'
      BY <1>5 DEF Rename, OneWriter
    <3>0. Running(p)
      BY <1>5 DEF Rename, Running
    <3>1. \A q \in Runs : q # p => ~Running(q)
      BY <3>0 DEF OneWriter
    <3>2. \A q \in Runs : fd'[q] = "none"
      <4>1. \A q \in Runs : pc[q] # "write"
        BY <1>5, <3>1 DEF Rename, Running
      <4>2. \A q \in Runs : fd[q] = "none"
        BY <4>1 DEF OpenToWrite
      <4>. QED  BY <1>5, <4>2 DEF Rename
    <3>3. \A q \in Runs : pc'[q] \in {"idle", "ok", "failed"}
      BY <1>5, <3>1 DEF Rename, Running
    <3>. QED  BY <3>2, <3>3 DEF OneWriter, Running
  <2>4. TakenByAnother'
    BY <1>5 DEF Rename, TakenByAnother, NoFile
  <2>. QED  BY <2>1, <2>2, <2>3, <2>4
<1>6. CASE RenameErr(p)
  <2>1. UpToDate'
    BY <1>6 DEF RenameErr, UpToDate, OneWriter, Running
  <2>2. OpenToWrite'
    BY <1>6 DEF RenameErr, OpenToWrite
  <2>3. OneWriter'
    <3>1. /\ UNCHANGED <<tmp, overlap>> /\ Running(p)
          /\ pc'[p] = "failed" /\ fd' = fd
      BY <1>6 DEF RenameErr, Running
    <3>2. \A q \in Runs \ {p} : pc'[q] = pc[q] /\ text'[q] = text[q]
      BY <1>6 DEF RenameErr
    <3>. QED  BY <3>1, <3>2, OneWriterStays
  <2>4. TakenByAnother'
    BY <1>6 DEF RenameErr, TakenByAnother
  <2>. QED  BY <2>1, <2>2, <2>3, <2>4
<1>7. CASE Stop(p)
  <2>1. UpToDate'
    BY <1>7 DEF Stop, UpToDate, OneWriter, Running
  <2>2. OpenToWrite'
    BY <1>7 DEF Stop, OpenToWrite
  <2>3. OneWriter'
    <3>1. /\ UNCHANGED <<tmp, overlap>> /\ Running(p)
          /\ pc'[p] = "failed" /\ fd'[p] = "none"
      BY <1>7 DEF Stop
    <3>2. \A q \in Runs \ {p} : pc'[q] = pc[q] /\ text'[q] = text[q] /\ fd'[q] = fd[q]
      BY <1>7 DEF Stop
    <3>. QED  BY <3>1, <3>2, OneWriterStays
  <2>4. TakenByAnother'
    BY <1>7 DEF Stop, TakenByAnother, Running
  <2>. QED  BY <2>1, <2>2, <2>3, <2>4
<1>. QED  BY <1>1, <1>2, <1>3, <1>4, <1>5, <1>6, <1>7

LEMMA Inductive == Spec => [](TypeOK /\ IInv)
<1>1. TypeOK /\ IInv /\ [Next]_vars => IInv'
  <2>. SUFFICES ASSUME TypeOK, IInv, [Next]_vars
                PROVE  IInv'
    OBVIOUS
  <2>1. CASE Next
    BY <2>1, StepKeeps DEF Next
  <2>2. CASE UNCHANGED vars
    BY <2>2 DEF vars, IInv, OpenToWrite, OneWriter, TakenByAnother, UpToDate, Running
  <2>. QED  BY <2>1, <2>2
<1>. QED  BY <1>1, InitHolds, TypeCorrect, PTL DEF Spec

(* As long as no two runs overlap, the config is replaced only as a whole, *)
(* by the text of the run that replaces it, wherever runs have stopped     *)
(* before (ssh.rs:292-302).                                                *)
THEOREM ReplacedAsAWhole == Spec => AtomicChange
<1>1. TypeOK /\ IInv /\ [Next]_vars => (config' # config /\ ~overlap => Atomic)
  <2>. SUFFICES ASSUME TypeOK, IInv, [Next]_vars, config' # config, ~overlap
                PROVE  Atomic
    OBVIOUS
  <2>1. PICK p \in Runs : Write(p) \/ Rename(p)
    BY DEF Next, vars, Start, Read, Open, RenameErr, Stop
  <2>2. ~Write(p)
    BY DEF Write, IInv, OneWriter
  <2>3. pc[p] = "rename" /\ pc'[p] = "ok" /\ config' = tmp
    BY <2>1, <2>2 DEF Rename, Done, Goto, IInv, TypeOK
  <2>4. tmp = File(text[p], TRUE)
    BY <2>3 DEF IInv, OneWriter
  <2>. QED  BY <2>3, <2>4 DEF Atomic, Replaces
<1>. QED  BY <1>1, Inductive, PTL DEF Spec, AtomicChange

(* Of any number of runs that overlap, one whose temporary file was taken  *)
(* away lost it to one that succeeded (ssh.rs:292-302).                    *)
THEOREM OneGetsThrough == Spec => []OneOfThemSucceeds
<1>1. IInv => OneOfThemSucceeds
  BY DEF IInv, TakenByAnother, OneOfThemSucceeds
<1>. QED  BY <1>1, Inductive, PTL

(* A run that replaces the file while no other runs: what is there then is *)
(* its edit of what was there before, and the edit was no error.           *)
LEMMA ReplacedByTheEdit ==
    ASSUME TypeOK, IInv, [Next]_vars, NEW p \in Runs, Replaces(p), ~overlap
    PROVE  /\ config.lines \in Seq(Lines) /\ cmd[p] \in Commands
           /\ ~Edited(config, cmd[p]).err
           /\ config'.lines = Edited(config, cmd[p]).lines
<1>1. pc[p] = "rename" /\ pc'[p] = "ok"
  BY DEF Replaces
<1>2. PICK q \in Runs : \/ Start(q) \/ Read(q) \/ Open(q) \/ Write(q) \/ Rename(q)
                        \/ RenameErr(q) \/ Stop(q)
  BY <1>1 DEF Next, vars
<1>3. Rename(q) /\ q = p
  BY <1>1, <1>2 DEF TypeOK, Start, Read, Open, Write, Rename, RenameErr, Stop, Goto, Done
<1>4. config' = tmp
  BY <1>3 DEF Rename
<1>5. tmp = File(text[p], TRUE)
  BY <1>1 DEF IInv, OneWriter
<1>6. ~Edited(config, cmd[p]).err /\ text[p] = Edited(config, cmd[p]).lines
  BY <1>1 DEF IInv, UpToDate
<1>. QED  BY <1>4, <1>5, <1>6 DEF TypeOK, Texts, File

(* Whatever the file and the name, an add or a remove that succeeds leaves *)
(* every line with text as it was but those of the name's own routes: of   *)
(* sections of the name whose ProxyCommand invokes pigeons, as ssh reads   *)
(* the file.  It is not so if a block of the name runs on into another     *)
(* section, or only mentions pigeons (remove_host_block, ssh.rs:241-290).  *)
THEOREM ForeignLinesStay == Spec => OnlyOursGo
<1>1. TypeOK /\ IInv /\ [Next]_vars =>
          (\A p \in Runs :
              LET name == cmd[p].name
              IN  Replaces(p) /\ ~overlap
                      /\ ~RunsOn(config.lines, name) /\ ~OnlyMentions(config.lines, name) =>
                      Foreign(config'.lines, name) = Foreign(config.lines, name))
  BY ReplacedByTheEdit, EditKeepsForeign
<1>. QED  BY <1>1, Inductive, PTL DEF Spec, OnlyOursGo

(* Whatever the file, an add that succeeds makes ssh use the new route for *)
(* the name, unless a ProxyCommand took the name before, one above all     *)
(* Host lines or in a block for more names (ssh.rs:134-158).               *)
THEOREM NewRouteIsUsed == Spec => AddTakesEffect
<1>1. TypeOK /\ IInv /\ [Next]_vars =>
          (\A p \in Runs :
              Replaces(p) /\ ~overlap /\ cmd[p].op = "add"
                  /\ Unclaimed(config.lines, cmd[p].name) =>
                  Route(config'.lines, cmd[p].name) = Fly(cmd[p].id))
  BY ReplacedByTheEdit, AddRoutes
<1>. QED  BY <1>1, Inductive, PTL DEF Spec, AddTakesEffect

(* A remove that succeeds on a file whose lines all end in a newline, none *)
(* in CRLF, and that has no blank lines at its end, found a block of the   *)
(* name, and left none (ssh.rs:160-179, 251-276).                          *)
THEOREM RemovedWasThere == Spec => RemoveFindsOne
<1>1. TypeOK /\ IInv /\ [Next]_vars =>
          (\A p \in Runs :
              /\ Replaces(p) /\ ~overlap /\ cmd[p].op = "remove"
              /\ config = File(Tidy(config.lines), TRUE)
              => /\ Host({cmd[p].name}) \in ToSet(config.lines)
                 /\ Host({cmd[p].name}) \notin ToSet(config'.lines))
  <2>. SUFFICES ASSUME TypeOK, IInv, [Next]_vars, NEW p \in Runs, Replaces(p), ~overlap,
                       cmd[p].op = "remove", config = File(Tidy(config.lines), TRUE)
                PROVE  /\ Host({cmd[p].name}) \in ToSet(config.lines)
                       /\ Host({cmd[p].name}) \notin ToSet(config'.lines)
    OBVIOUS
  <2>1. /\ config.lines \in Seq(Lines) /\ cmd[p] \in Commands
        /\ ~Edited(config, cmd[p]).err
        /\ config'.lines = Edited(config, cmd[p]).lines
    BY ReplacedByTheEdit
  <2>. QED  BY <2>1, RemoveFinds
<1>. QED  BY <1>1, Inductive, PTL DEF Spec, RemoveFindsOne

(* At any time, adding a name the file does not have and removing it again *)
(* gives back its lines, without the blank ones at the end                 *)
(* (ssh.rs:118-179).                                                       *)
THEOREM AddThenRemove == Spec => []RemoveUndoesAdd
<1>1. TypeOK => RemoveUndoesAdd
  BY AddUndone DEF TypeOK, Texts, RemoveUndoesAdd
<1>. QED  BY <1>1, TypeCorrect, PTL

(* At any time, `pigeons list` shows a name with an endpoint exactly if    *)
(* ssh goes to that endpoint for the name, of a plain file and a name that *)
(* no ProxyCommand of another section takes first (ssh.rs:181-239).        *)
THEOREM ListIsTrue == Spec => []ListTellsTheTruth
<1>1. TypeOK => ListTellsTheTruth
  BY ListTells DEF TypeOK, Texts, ListTellsTheTruth
<1>. QED  BY <1>1, TypeCorrect, PTL
=============================================================================
