-------------------------- MODULE TelemetryProofs --------------------------
(***************************************************************************)
(* Proofs about Telemetry, for any commands, any edits of the three files  *)
(* and any number of installs and restarts.                                *)
(***************************************************************************)
EXTENDS Telemetry, TLAPS

Asked == {"on", "off"}

(* What is about to be stored or published is an answer.                   *)
AnswersThere ==
    /\ \A c \in Cmds : pc[c] \in {"open", "write"} => answer[c] \in Asked
    /\ inst \in {"open", "write"} => choice \in Asked

(* Wherever an "on" is, or a client, somebody said so.                     *)
YesComesFirst ==
    /\ \A l \in Layers : file[l] = "on" => yes
    /\ \A c \in Cmds : answer[c] = "on" => yes
    /\ \A p \in Processes : own[p] = "on" => yes
    /\ choice = "on" => yes
    /\ sends # {} => yes

(* As long as commands do not overlap, the one that asks does so for want  *)
(* of an answer, and an answer that was stored is there.                   *)
AskedForWant ==
    ~overlap =>
        /\ \A c, d \in Cmds : Asking(c) /\ Asking(d) => c = d
        /\ \A c \in Cmds : Asking(c) => ~recorded
        /\ recorded => file["user"] \in Asked

(* A report that still stands is of a publish that is over, and says what  *)
(* the machine-wide config does.                                           *)
ReportStands ==
    said # "none" =>
        /\ inst \in {"idle", "failed"}
        /\ inst = "idle" => (said = "on" <=> file["system"] = "on")

(* A process that is not up has no client, and one whose user said no      *)
(* never has.                                                              *)
NoneBeforeBuild ==
    /\ service # "running" => Service \notin sends
    /\ \A c \in Cmds : c \in sends => pc[c] = "running" /\ own[c] # "off"

(* A service that was started after a report finds nothing of root's own   *)
(* where there is nothing, and then does what the report says.             *)
ToldHolds ==
    told =>
        /\ said # "none" /\ inst = "idle"
        /\ service \in {"loading", "running"} /\ LoadFrom(file["root"]) = "none" =>
               own[Service] = "none"
        /\ ReportPredicts

IInv ==
    /\ TypeOK
    /\ AnswersThere
    /\ YesComesFirst
    /\ AskedForWant
    /\ ReportStands
    /\ NoneBeforeBuild
    /\ ToldHolds

-----------------------------------------------------------------------------
(* What a load returns.                                                    *)

LEMMA Loads ==
    ASSUME NEW content \in Contents
    PROVE  /\ LoadFrom(content) \in {"none", "on", "off", "error"}
           /\ LoadFrom(content) \in Asked <=> content \in Asked
           /\ LoadFrom(content) \in Asked => LoadFrom(content) = content
    BY DEF LoadFrom, Contents, Asked

LEMMA ProcessesAre ==
    /\ Service \in Processes
    /\ \A c \in Cmds : c \in Processes /\ c # Service
    BY TelemetryOK DEF Processes

(* Nothing is enabled that was not read from the user's config, or is in   *)
(* the machine's.                                                          *)
LEMMA EnabledSaysSo ==
    ASSUME FilesOK, NEW p \in Processes, Enabled(p)
    PROVE  own[p] = "on" \/ file["system"] = "on"
<1>. file["system"] \in Contents
  BY DEF FilesOK, Layers
<1>. QED  BY Loads DEF Enabled, Load, Asked

(* A process whose user says no does not send.                             *)
LEMMA OffIsOff ==
    ASSUME NEW p \in Processes, own[p] = "off"
    PROVE  ~Enabled(p)
    BY DEF Enabled, Load

(* One whose user says nothing does what the machine's says.               *)
LEMMA NothingOfItsOwn ==
    ASSUME FilesOK, NEW p \in Processes, own[p] = "none"
    PROVE  Enabled(p) <=> file["system"] = "on"
<1>. file["system"] \in Contents
  BY DEF FilesOK, Layers
<1>. QED  BY Loads DEF Enabled, Load, Asked

-----------------------------------------------------------------------------
(* The invariant holds initially, and every step keeps it.                 *)

LEMMA InitHolds == Init => IInv
<1>. SUFFICES ASSUME Init
              PROVE  IInv
  OBVIOUS
<1>1. TypeOK
  <2>1. FilesOK
    BY DEF Init, FilesOK, Contents
  <2>2. CmdsOK
    BY DEF Init, CmdsOK
  <2>3. InstallOK
    <3>. 0 \in 0..MaxStarts
      BY TelemetryOK
    <3>. QED  BY DEF Init, InstallOK
  <2>4. HistoryOK
    <3>. 0 \in 0..MaxEdits
      BY TelemetryOK
    <3>. QED  BY DEF Init, HistoryOK
  <2>. QED  BY <2>1, <2>2, <2>3, <2>4 DEF TypeOK
<1>2. AnswersThere /\ YesComesFirst
  BY DEF Init, AnswersThere, YesComesFirst, Layers
<1>3. AskedForWant /\ ReportStands /\ NoneBeforeBuild /\ ToldHolds
  BY DEF Init, AskedForWant, ReportStands, NoneBeforeBuild, Asking, ToldHolds
<1>. QED  BY <1>1, <1>2, <1>3 DEF IInv

(* A command of the user's, wherever it is.                                *)
LEMMA CommandsKeep ==
    ASSUME IInv, NEW c \in Cmds,
           Ask(c) \/ DontAsk(c) \/ Answer(c) \/ StoreOpen(c) \/ StoreWrite(c)
             \/ StoreErr(c) \/ LoadUser(c) \/ Build(c) \/ End(c)
    PROVE  IInv'
<1>. USE DEF Goto, InstallStill
<1>. Service \in Processes /\ c \in Processes /\ c # Service
  BY ProcessesAre
<1>. file["user"] \in Contents
  BY DEF IInv, TypeOK, FilesOK, Layers
<1>1. CASE Ask(c)
  <2>1. TypeOK'
    BY <1>1 DEF Ask, IInv, TypeOK, FilesOK, CmdsOK, InstallOK, HistoryOK
  <2>2. AnswersThere'
    BY <1>1 DEF Ask, IInv, TypeOK, CmdsOK, InstallOK, AnswersThere, Asked
  <2>3. YesComesFirst'
    BY <1>1 DEF Ask, IInv, TypeOK, FilesOK, CmdsOK, YesComesFirst
  <2>4. AskedForWant'
    <3>. SUFFICES ASSUME ~overlap'
                  PROVE  AskedForWant'
      BY DEF AskedForWant
    <3>1. UNCHANGED <<file, recorded>> /\ pc' = [pc EXCEPT ![c] = "asking"]
      BY <1>1 DEF Ask
    <3>2. ~overlap /\ \A d \in Cmds : ~Asking(d)
      BY <1>1 DEF Ask, IInv, TypeOK, HistoryOK
    <3>3. \A d \in Cmds : Asking(d)' => d = c
      BY <3>1, <3>2 DEF IInv, TypeOK, CmdsOK, Asking
    <3>4. recorded => file["user"] \in Asked
      BY <3>2 DEF IInv, AskedForWant
    <3>5. ~recorded
      BY <1>1, <3>4 DEF Ask, LoadFrom, Asked
    <3>. QED  BY <3>1, <3>3, <3>5 DEF AskedForWant
  <2>5. ReportStands'
    BY <1>1 DEF Ask, IInv, TypeOK, FilesOK, InstallOK, ReportStands
  <2>6. NoneBeforeBuild'
    BY <1>1 DEF Ask, IInv, TypeOK, CmdsOK, NoneBeforeBuild
  <2>7. ToldHolds'
    BY <1>1 DEF Ask, IInv, TypeOK, FilesOK, CmdsOK, InstallOK, ToldHolds, ReportPredicts
  <2>. QED  BY <2>1, <2>2, <2>3, <2>4, <2>5, <2>6, <2>7 DEF IInv
<1>2. CASE DontAsk(c)
  <2>1. TypeOK'
    BY <1>2 DEF DontAsk, IInv, TypeOK, FilesOK, CmdsOK, InstallOK, HistoryOK
  <2>2. AnswersThere'
    BY <1>2 DEF DontAsk, IInv, TypeOK, CmdsOK, InstallOK, AnswersThere
  <2>3. YesComesFirst'
    BY <1>2 DEF DontAsk, IInv, TypeOK, FilesOK, CmdsOK, YesComesFirst
  <2>4. AskedForWant'
    BY <1>2 DEF DontAsk, IInv, TypeOK, FilesOK, CmdsOK, HistoryOK, AskedForWant, Asking
  <2>5. ReportStands'
    BY <1>2 DEF DontAsk, IInv, TypeOK, FilesOK, InstallOK, ReportStands
  <2>6. NoneBeforeBuild'
    BY <1>2 DEF DontAsk, IInv, TypeOK, CmdsOK, NoneBeforeBuild
  <2>7. ToldHolds'
    BY <1>2 DEF DontAsk, IInv, TypeOK, FilesOK, CmdsOK, InstallOK, ToldHolds, ReportPredicts
  <2>. QED  BY <2>1, <2>2, <2>3, <2>4, <2>5, <2>6, <2>7 DEF IInv
<1>3. CASE Answer(c)
  <2>1. TypeOK'
    BY <1>3 DEF Answer, IInv, TypeOK, FilesOK, CmdsOK, InstallOK, HistoryOK
  <2>2. AnswersThere'
    BY <1>3 DEF Answer, IInv, TypeOK, CmdsOK, InstallOK, AnswersThere, Asked
  <2>3. YesComesFirst'
    BY <1>3 DEF Answer, IInv, TypeOK, FilesOK, CmdsOK, YesComesFirst
  <2>4. AskedForWant'
    BY <1>3 DEF Answer, IInv, TypeOK, FilesOK, CmdsOK, HistoryOK, AskedForWant, Asking
  <2>5. ReportStands'
    BY <1>3 DEF Answer, IInv, TypeOK, FilesOK, InstallOK, ReportStands
  <2>6. NoneBeforeBuild'
    BY <1>3 DEF Answer, IInv, TypeOK, CmdsOK, NoneBeforeBuild
  <2>7. ToldHolds'
    BY <1>3 DEF Answer, IInv, TypeOK, FilesOK, CmdsOK, InstallOK, ToldHolds, ReportPredicts
  <2>. QED  BY <2>1, <2>2, <2>3, <2>4, <2>5, <2>6, <2>7 DEF IInv
<1>4. CASE StoreOpen(c)
  <2>1. TypeOK'
    BY <1>4 DEF StoreOpen, IInv, TypeOK, FilesOK, CmdsOK, InstallOK, HistoryOK, Layers, Contents
  <2>2. AnswersThere'
    BY <1>4 DEF StoreOpen, IInv, TypeOK, CmdsOK, InstallOK, AnswersThere
  <2>3. YesComesFirst'
    BY <1>4 DEF StoreOpen, IInv, TypeOK, FilesOK, CmdsOK, YesComesFirst, Layers
  <2>4. AskedForWant'
    BY <1>4 DEF StoreOpen, IInv, TypeOK, FilesOK, CmdsOK, HistoryOK, AskedForWant, Asking, Layers
  <2>5. ReportStands'
    BY <1>4 DEF StoreOpen, IInv, TypeOK, FilesOK, InstallOK, ReportStands, Layers
  <2>6. NoneBeforeBuild'
    BY <1>4 DEF StoreOpen, IInv, TypeOK, CmdsOK, NoneBeforeBuild
  <2>7. ToldHolds'
    BY <1>4 DEF StoreOpen, IInv, TypeOK, FilesOK, CmdsOK, InstallOK, ToldHolds, ReportPredicts
  <2>. QED  BY <2>1, <2>2, <2>3, <2>4, <2>5, <2>6, <2>7 DEF IInv
<1>5. CASE StoreWrite(c)
  <2>1. TypeOK'
    BY <1>5 DEF StoreWrite, IInv, TypeOK, FilesOK, CmdsOK, InstallOK, HistoryOK, AnswersThere, Layers, Contents, Asked
  <2>2. AnswersThere'
    BY <1>5 DEF StoreWrite, IInv, TypeOK, CmdsOK, InstallOK, AnswersThere
  <2>3. YesComesFirst'
    BY <1>5 DEF StoreWrite, IInv, TypeOK, FilesOK, CmdsOK, YesComesFirst, Layers
  <2>4. AskedForWant'
    BY <1>5 DEF StoreWrite, IInv, TypeOK, FilesOK, CmdsOK, HistoryOK, AskedForWant, Asking, AnswersThere, Layers, Asked
  <2>5. ReportStands'
    BY <1>5 DEF StoreWrite, IInv, TypeOK, FilesOK, InstallOK, ReportStands, Layers
  <2>6. NoneBeforeBuild'
    BY <1>5 DEF StoreWrite, IInv, TypeOK, CmdsOK, NoneBeforeBuild
  <2>7. ToldHolds'
    BY <1>5 DEF StoreWrite, IInv, TypeOK, FilesOK, CmdsOK, InstallOK, ToldHolds, ReportPredicts
  <2>. QED  BY <2>1, <2>2, <2>3, <2>4, <2>5, <2>6, <2>7 DEF IInv
<1>6. CASE StoreErr(c)
  <2>1. TypeOK'
    BY <1>6 DEF StoreErr, IInv, TypeOK, FilesOK, CmdsOK, InstallOK, HistoryOK
  <2>2. AnswersThere'
    BY <1>6 DEF StoreErr, IInv, TypeOK, CmdsOK, InstallOK, AnswersThere
  <2>3. YesComesFirst'
    BY <1>6 DEF StoreErr, IInv, TypeOK, FilesOK, CmdsOK, YesComesFirst
  <2>4. AskedForWant'
    BY <1>6 DEF StoreErr, IInv, TypeOK, FilesOK, CmdsOK, HistoryOK, AskedForWant, Asking
  <2>5. ReportStands'
    BY <1>6 DEF StoreErr, IInv, TypeOK, FilesOK, InstallOK, ReportStands
  <2>6. NoneBeforeBuild'
    BY <1>6 DEF StoreErr, IInv, TypeOK, CmdsOK, NoneBeforeBuild
  <2>7. ToldHolds'
    BY <1>6 DEF StoreErr, IInv, TypeOK, FilesOK, CmdsOK, InstallOK, ToldHolds, ReportPredicts
  <2>. QED  BY <2>1, <2>2, <2>3, <2>4, <2>5, <2>6, <2>7 DEF IInv
<1>7. CASE Build(c)
  <2>1. TypeOK'
    <3>1. FilesOK'
      BY <1>7 DEF Build, IInv, TypeOK, FilesOK
    <3>2. CmdsOK'
      BY <1>7 DEF Build, IInv, TypeOK, CmdsOK
    <3>3. InstallOK'
      BY <1>7, TelemetryOK DEF Build, IInv, TypeOK, InstallOK
    <3>4. HistoryOK'
      BY <1>7 DEF Build, IInv, TypeOK, HistoryOK
    <3>. QED  BY <3>1, <3>2, <3>3, <3>4 DEF TypeOK
  <2>2. AnswersThere'
    BY <1>7 DEF Build, IInv, TypeOK, CmdsOK, InstallOK, AnswersThere
  <2>3. YesComesFirst'
    <3>1. UNCHANGED <<file, answer, own, choice, yes>>
      BY <1>7 DEF Build
    <3>2. sends' # {} => yes
      <4>1. CASE Enabled(c)
        BY <4>1, EnabledSaysSo DEF IInv, TypeOK, YesComesFirst, Layers
      <4>2. CASE ~Enabled(c)
        BY <1>7, <4>2 DEF Build, IInv, YesComesFirst
      <4>. QED  BY <4>1, <4>2
    <3>. QED  BY <3>1, <3>2 DEF IInv, YesComesFirst
  <2>4. AskedForWant'
    BY <1>7 DEF Build, IInv, TypeOK, FilesOK, CmdsOK, HistoryOK, AskedForWant, Asking
  <2>5. ReportStands'
    BY <1>7 DEF Build, IInv, TypeOK, FilesOK, InstallOK, ReportStands
  <2>6. NoneBeforeBuild'
    <3>1. service' = service /\ (Service \in sends' <=> Service \in sends)
      BY <1>7 DEF Build
    <3>2. pc' = [pc EXCEPT ![c] = "running"] /\ own' = own
      BY <1>7 DEF Build
    <3>3. c \in sends' => own[c] # "off"
      BY <1>7, OffIsOff DEF Build, IInv, NoneBeforeBuild
    <3>4. \A d \in Cmds : d \in sends' => d = c \/ d \in sends
      BY <1>7 DEF Build
    <3>. QED  BY <3>1, <3>2, <3>3, <3>4 DEF IInv, TypeOK, CmdsOK, NoneBeforeBuild
  <2>7. ToldHolds'
    <3>1. UNCHANGED <<file, service, inst, said, told>>
      BY <1>7 DEF Build
    <3>2. own'[Service] = own[Service]
      BY <1>7 DEF Build, IInv, TypeOK, CmdsOK
    <3>3. Service \in sends' <=> Service \in sends
      BY <1>7 DEF Build
    <3>. QED  BY <3>1, <3>2, <3>3 DEF IInv, ToldHolds, ReportPredicts
  <2>. QED  BY <2>1, <2>2, <2>3, <2>4, <2>5, <2>6, <2>7 DEF IInv
<1>8. CASE End(c)
  <2>1. TypeOK'
    BY <1>8 DEF End, IInv, TypeOK, FilesOK, CmdsOK, InstallOK, HistoryOK
  <2>2. AnswersThere'
    BY <1>8 DEF End, IInv, TypeOK, CmdsOK, InstallOK, AnswersThere
  <2>3. YesComesFirst'
    BY <1>8 DEF End, IInv, TypeOK, FilesOK, CmdsOK, YesComesFirst
  <2>4. AskedForWant'
    BY <1>8 DEF End, IInv, TypeOK, FilesOK, CmdsOK, HistoryOK, AskedForWant, Asking
  <2>5. ReportStands'
    BY <1>8 DEF End, IInv, TypeOK, FilesOK, InstallOK, ReportStands
  <2>6. NoneBeforeBuild'
    BY <1>8 DEF End, IInv, TypeOK, CmdsOK, NoneBeforeBuild
  <2>7. ToldHolds'
    <3>1. UNCHANGED <<file, service, inst, said, told>>
      BY <1>8 DEF End
    <3>2. own'[Service] = own[Service]
      BY <1>8 DEF End, IInv, TypeOK, CmdsOK
    <3>3. Service \in sends' <=> Service \in sends
      BY <1>8 DEF End
    <3>. QED  BY <3>1, <3>2, <3>3 DEF IInv, ToldHolds, ReportPredicts
  <2>. QED  BY <2>1, <2>2, <2>3, <2>4, <2>5, <2>6, <2>7 DEF IInv
<1>9. CASE LoadUser(c)
  <2>1. TypeOK'
    <3>1. FilesOK'
      BY <1>9 DEF LoadUser, IInv, TypeOK, FilesOK
    <3>2. CmdsOK'
      BY <1>9, Loads DEF LoadUser, IInv, TypeOK, CmdsOK
    <3>3. InstallOK'
      BY <1>9, TelemetryOK DEF LoadUser, IInv, TypeOK, InstallOK
    <3>4. HistoryOK'
      BY <1>9 DEF LoadUser, IInv, TypeOK, HistoryOK
    <3>. QED  BY <3>1, <3>2, <3>3, <3>4 DEF TypeOK
  <2>2. AnswersThere'
    BY <1>9 DEF LoadUser, IInv, TypeOK, CmdsOK, InstallOK, AnswersThere
  <2>3. YesComesFirst'
    <3>1. UNCHANGED <<file, answer, sends, choice, yes>>
      BY <1>9 DEF LoadUser
    <3>2. own' = [own EXCEPT ![c] = LoadFrom(file["user"])]
      BY <1>9 DEF LoadUser
    <3>3. LoadFrom(file["user"]) = "on" => yes
      BY Loads DEF IInv, YesComesFirst, Asked, Layers
    <3>4. \A q \in Processes : own'[q] = "on" => yes
      BY <3>2, <3>3 DEF IInv, TypeOK, CmdsOK, YesComesFirst
    <3>. QED  BY <3>1, <3>4 DEF IInv, YesComesFirst
  <2>4. AskedForWant'
    BY <1>9 DEF LoadUser, IInv, TypeOK, FilesOK, CmdsOK, HistoryOK, AskedForWant, Asking
  <2>5. ReportStands'
    BY <1>9 DEF LoadUser, IInv, TypeOK, FilesOK, InstallOK, ReportStands
  <2>6. NoneBeforeBuild'
    BY <1>9 DEF LoadUser, IInv, TypeOK, CmdsOK, NoneBeforeBuild
  <2>7. ToldHolds'
    <3>1. UNCHANGED <<file, service, inst, said, told>>
      BY <1>9 DEF LoadUser
    <3>2. own'[Service] = own[Service]
      BY <1>9 DEF LoadUser, IInv, TypeOK, CmdsOK
    <3>3. Service \in sends' <=> Service \in sends
      BY <1>9 DEF LoadUser
    <3>. QED  BY <3>1, <3>2, <3>3 DEF IInv, ToldHolds, ReportPredicts
  <2>. QED  BY <2>1, <2>2, <2>3, <2>4, <2>5, <2>6, <2>7 DEF IInv
<1>. QED  BY <1>1, <1>2, <1>3, <1>4, <1>5, <1>6, <1>7, <1>8, <1>9

(* The elevated install.                                                   *)
LEMMA InstallKeeps ==
    ASSUME IInv,
           Install \/ Choose \/ PublishOpen \/ PublishWrite \/ PublishChmod
             \/ Report \/ ReportErr
    PROVE  IInv'
<1>. USE DEF CmdsStill
<1>. Service \in Processes /\ Service \notin Cmds
  BY ProcessesAre
<1>1. CASE Install
  <2>1. TypeOK'
    <3>1. FilesOK'
      BY <1>1 DEF Install, IInv, TypeOK, FilesOK
    <3>2. CmdsOK'
      BY <1>1 DEF Install, IInv, TypeOK, CmdsOK
    <3>3. InstallOK'
      <4>1. starts' \in 0..MaxStarts
        BY <1>1, TelemetryOK DEF Install, IInv, TypeOK, InstallOK
      <4>. QED  BY <1>1, <4>1 DEF Install, IInv, TypeOK, InstallOK
    <3>4. HistoryOK'
      BY <1>1 DEF Install, IInv, TypeOK, HistoryOK
    <3>. QED  BY <3>1, <3>2, <3>3, <3>4 DEF TypeOK
  <2>2. AnswersThere'
    BY <1>1 DEF Install, IInv, TypeOK, CmdsOK, InstallOK, AnswersThere
  <2>3. YesComesFirst'
    BY <1>1 DEF Install, IInv, TypeOK, FilesOK, CmdsOK, YesComesFirst
  <2>4. AskedForWant'
    BY <1>1 DEF Install, IInv, TypeOK, FilesOK, CmdsOK, HistoryOK, AskedForWant, Asking
  <2>5. ReportStands'
    BY <1>1 DEF Install, IInv, TypeOK, FilesOK, InstallOK, ReportStands
  <2>6. NoneBeforeBuild'
    BY <1>1 DEF Install, IInv, TypeOK, CmdsOK, NoneBeforeBuild
  <2>7. ToldHolds'
    BY <1>1 DEF Install, IInv, TypeOK, FilesOK, CmdsOK, InstallOK, ToldHolds, ReportPredicts
  <2>. QED  BY <2>1, <2>2, <2>3, <2>4, <2>5, <2>6, <2>7 DEF IInv
<1>2. CASE Choose
  <2>1. TypeOK'
    BY <1>2 DEF Choose, IInv, TypeOK, FilesOK, CmdsOK, InstallOK, HistoryOK
  <2>2. AnswersThere'
    BY <1>2 DEF Choose, IInv, TypeOK, CmdsOK, InstallOK, AnswersThere, Asked
  <2>3. YesComesFirst'
    BY <1>2 DEF Choose, IInv, TypeOK, FilesOK, CmdsOK, YesComesFirst, Layers, LoadFrom, Contents
  <2>4. AskedForWant'
    BY <1>2 DEF Choose, IInv, TypeOK, FilesOK, CmdsOK, HistoryOK, AskedForWant, Asking
  <2>5. ReportStands'
    BY <1>2 DEF Choose, IInv, TypeOK, FilesOK, InstallOK, ReportStands
  <2>6. NoneBeforeBuild'
    BY <1>2 DEF Choose, IInv, TypeOK, CmdsOK, NoneBeforeBuild
  <2>7. ToldHolds'
    BY <1>2 DEF Choose, IInv, TypeOK, FilesOK, CmdsOK, InstallOK, ToldHolds, ReportPredicts
  <2>. QED  BY <2>1, <2>2, <2>3, <2>4, <2>5, <2>6, <2>7 DEF IInv
<1>3. CASE PublishOpen
  <2>1. TypeOK'
    BY <1>3 DEF PublishOpen, IInv, TypeOK, FilesOK, CmdsOK, InstallOK, HistoryOK, Layers, Contents
  <2>2. AnswersThere'
    BY <1>3 DEF PublishOpen, IInv, TypeOK, CmdsOK, InstallOK, AnswersThere
  <2>3. YesComesFirst'
    BY <1>3 DEF PublishOpen, IInv, TypeOK, FilesOK, CmdsOK, YesComesFirst, Layers
  <2>4. AskedForWant'
    BY <1>3 DEF PublishOpen, IInv, TypeOK, FilesOK, CmdsOK, HistoryOK, AskedForWant, Asking, Layers
  <2>5. ReportStands'
    BY <1>3 DEF PublishOpen, IInv, TypeOK, FilesOK, InstallOK, ReportStands
  <2>6. NoneBeforeBuild'
    BY <1>3 DEF PublishOpen, IInv, TypeOK, CmdsOK, NoneBeforeBuild
  <2>7. ToldHolds'
    BY <1>3 DEF PublishOpen, IInv, TypeOK, FilesOK, CmdsOK, InstallOK, ToldHolds, ReportPredicts
  <2>. QED  BY <2>1, <2>2, <2>3, <2>4, <2>5, <2>6, <2>7 DEF IInv
<1>4. CASE PublishWrite
  <2>1. TypeOK'
    BY <1>4 DEF PublishWrite, IInv, TypeOK, FilesOK, CmdsOK, InstallOK, HistoryOK, AnswersThere, Layers, Contents, Asked
  <2>2. AnswersThere'
    BY <1>4 DEF PublishWrite, IInv, TypeOK, CmdsOK, InstallOK, AnswersThere
  <2>3. YesComesFirst'
    BY <1>4 DEF PublishWrite, IInv, TypeOK, FilesOK, CmdsOK, YesComesFirst, Layers
  <2>4. AskedForWant'
    BY <1>4 DEF PublishWrite, IInv, TypeOK, FilesOK, CmdsOK, HistoryOK, AskedForWant, Asking, Layers
  <2>5. ReportStands'
    BY <1>4 DEF PublishWrite, IInv, TypeOK, FilesOK, InstallOK, ReportStands
  <2>6. NoneBeforeBuild'
    BY <1>4 DEF PublishWrite, IInv, TypeOK, CmdsOK, NoneBeforeBuild
  <2>7. ToldHolds'
    BY <1>4 DEF PublishWrite, IInv, TypeOK, FilesOK, CmdsOK, InstallOK, ToldHolds, ReportPredicts
  <2>. QED  BY <2>1, <2>2, <2>3, <2>4, <2>5, <2>6, <2>7 DEF IInv
<1>5. CASE PublishChmod
  <2>1. TypeOK'
    BY <1>5 DEF PublishChmod, IInv, TypeOK, FilesOK, CmdsOK, InstallOK, HistoryOK
  <2>2. AnswersThere'
    BY <1>5 DEF PublishChmod, IInv, TypeOK, CmdsOK, InstallOK, AnswersThere
  <2>3. YesComesFirst'
    BY <1>5 DEF PublishChmod, IInv, TypeOK, FilesOK, CmdsOK, YesComesFirst
  <2>4. AskedForWant'
    BY <1>5 DEF PublishChmod, IInv, TypeOK, FilesOK, CmdsOK, HistoryOK, AskedForWant, Asking
  <2>5. ReportStands'
    BY <1>5 DEF PublishChmod, IInv, TypeOK, FilesOK, InstallOK, ReportStands
  <2>6. NoneBeforeBuild'
    BY <1>5 DEF PublishChmod, IInv, TypeOK, CmdsOK, NoneBeforeBuild
  <2>7. ToldHolds'
    BY <1>5 DEF PublishChmod, IInv, TypeOK, FilesOK, CmdsOK, InstallOK, ToldHolds, ReportPredicts
  <2>. QED  BY <2>1, <2>2, <2>3, <2>4, <2>5, <2>6, <2>7 DEF IInv
<1>6. CASE Report
  <2>1. TypeOK'
    BY <1>6 DEF Report, IInv, TypeOK, FilesOK, CmdsOK, InstallOK, HistoryOK
  <2>2. AnswersThere'
    BY <1>6 DEF Report, IInv, TypeOK, CmdsOK, InstallOK, AnswersThere
  <2>3. YesComesFirst'
    BY <1>6 DEF Report, IInv, TypeOK, FilesOK, CmdsOK, YesComesFirst
  <2>4. AskedForWant'
    BY <1>6 DEF Report, IInv, TypeOK, FilesOK, CmdsOK, HistoryOK, AskedForWant, Asking
  <2>5. ReportStands'
    BY <1>6, Loads DEF Report, IInv, TypeOK, FilesOK, InstallOK, ReportStands, Layers, Asked
  <2>6. NoneBeforeBuild'
    BY <1>6 DEF Report, IInv, TypeOK, CmdsOK, NoneBeforeBuild
  <2>7. ToldHolds'
    BY <1>6 DEF Report, IInv, TypeOK, FilesOK, CmdsOK, InstallOK, ToldHolds, ReportPredicts
  <2>. QED  BY <2>1, <2>2, <2>3, <2>4, <2>5, <2>6, <2>7 DEF IInv
<1>7. CASE ReportErr
  <2>1. TypeOK'
    BY <1>7 DEF ReportErr, IInv, TypeOK, FilesOK, CmdsOK, InstallOK, HistoryOK
  <2>2. AnswersThere'
    BY <1>7 DEF ReportErr, IInv, TypeOK, CmdsOK, InstallOK, AnswersThere
  <2>3. YesComesFirst'
    BY <1>7 DEF ReportErr, IInv, TypeOK, FilesOK, CmdsOK, YesComesFirst
  <2>4. AskedForWant'
    BY <1>7 DEF ReportErr, IInv, TypeOK, FilesOK, CmdsOK, HistoryOK, AskedForWant, Asking
  <2>5. ReportStands'
    BY <1>7 DEF ReportErr, IInv, TypeOK, FilesOK, InstallOK, ReportStands
  <2>6. NoneBeforeBuild'
    BY <1>7 DEF ReportErr, IInv, TypeOK, CmdsOK, NoneBeforeBuild
  <2>7. ToldHolds'
    BY <1>7 DEF ReportErr, IInv, TypeOK, FilesOK, CmdsOK, InstallOK, ToldHolds, ReportPredicts
  <2>. QED  BY <2>1, <2>2, <2>3, <2>4, <2>5, <2>6, <2>7 DEF IInv
<1>. QED  BY <1>1, <1>2, <1>3, <1>4, <1>5, <1>6, <1>7

(* The service, its removal and the edits.                                 *)
LEMMA ServiceKeeps ==
    ASSUME IInv, ServiceLoad \/ ServiceBuild \/ ServiceRestart \/ Uninstall \/ Edit
    PROVE  IInv'
<1>. USE DEF CmdsStill
<1>. Service \in Processes /\ Service \notin Cmds
  BY ProcessesAre
<1>. file["root"] \in Contents
  BY DEF IInv, TypeOK, FilesOK, Layers
<1>1. CASE ServiceBuild
  <2>1. TypeOK'
    <3>1. FilesOK'
      BY <1>1 DEF ServiceBuild, IInv, TypeOK, FilesOK
    <3>2. CmdsOK'
      BY <1>1 DEF ServiceBuild, IInv, TypeOK, CmdsOK
    <3>3. InstallOK'
      BY <1>1, TelemetryOK DEF ServiceBuild, IInv, TypeOK, InstallOK
    <3>4. HistoryOK'
      BY <1>1 DEF ServiceBuild, IInv, TypeOK, HistoryOK
    <3>. QED  BY <3>1, <3>2, <3>3, <3>4 DEF TypeOK
  <2>2. AnswersThere'
    BY <1>1 DEF ServiceBuild, IInv, TypeOK, CmdsOK, InstallOK, AnswersThere
  <2>3. YesComesFirst'
    <3>1. UNCHANGED <<file, answer, own, choice, yes>>
      BY <1>1 DEF ServiceBuild
    <3>2. sends' # {} => yes
      <4>1. CASE Enabled(Service)
        BY <4>1, EnabledSaysSo DEF IInv, TypeOK, YesComesFirst, Layers
      <4>2. CASE ~Enabled(Service)
        BY <1>1, <4>2 DEF ServiceBuild, IInv, YesComesFirst
      <4>. QED  BY <4>1, <4>2
    <3>. QED  BY <3>1, <3>2 DEF IInv, YesComesFirst
  <2>4. AskedForWant'
    BY <1>1 DEF ServiceBuild, IInv, TypeOK, FilesOK, CmdsOK, HistoryOK, AskedForWant, Asking
  <2>5. ReportStands'
    BY <1>1 DEF ServiceBuild, IInv, TypeOK, FilesOK, InstallOK, ReportStands
  <2>6. NoneBeforeBuild'
    <3>1. service' = "running" /\ UNCHANGED <<pc, own>>
      BY <1>1 DEF ServiceBuild
    <3>2. \A d \in Cmds : d \in sends' => d \in sends
      BY <1>1 DEF ServiceBuild
    <3>. QED  BY <3>1, <3>2 DEF IInv, NoneBeforeBuild
  <2>7. ToldHolds'
    <3>. SUFFICES ASSUME told
                  PROVE  ToldHolds'
      BY <1>1 DEF ServiceBuild, ToldHolds
    <3>1. /\ UNCHANGED <<file, own, inst, said, told>>
          /\ service = "loading"
          /\ said # "none" /\ inst = "idle"
      BY <1>1 DEF ServiceBuild, IInv, ToldHolds
    <3>2. ASSUME LoadFrom(file["root"]) = "none"
          PROVE  own[Service] = "none" /\ (Service \in sends' <=> said = "on")
      <4>1. own[Service] = "none"
        BY <3>1, <3>2 DEF IInv, ToldHolds
      <4>2. Enabled(Service) <=> said = "on"
        BY <3>1, <4>1, NothingOfItsOwn DEF IInv, TypeOK, ReportStands
      <4>3. Service \notin sends
        BY <3>1 DEF IInv, NoneBeforeBuild
      <4>. QED  BY <1>1, <4>1, <4>2, <4>3 DEF ServiceBuild
    <3>. QED  BY <3>1, <3>2 DEF ToldHolds, ReportPredicts
  <2>. QED  BY <2>1, <2>2, <2>3, <2>4, <2>5, <2>6, <2>7 DEF IInv
<1>2. CASE ServiceRestart
  <2>1. TypeOK'
    <3>1. FilesOK'
      BY <1>2 DEF ServiceRestart, IInv, TypeOK, FilesOK
    <3>2. CmdsOK'
      BY <1>2 DEF ServiceRestart, IInv, TypeOK, CmdsOK
    <3>3. InstallOK'
      BY <1>2, TelemetryOK DEF ServiceRestart, IInv, TypeOK, InstallOK
    <3>4. HistoryOK'
      BY <1>2 DEF ServiceRestart, IInv, TypeOK, HistoryOK
    <3>. QED  BY <3>1, <3>2, <3>3, <3>4 DEF TypeOK
  <2>2. AnswersThere'
    BY <1>2 DEF ServiceRestart, IInv, TypeOK, CmdsOK, InstallOK, AnswersThere
  <2>3. YesComesFirst'
    BY <1>2 DEF ServiceRestart, IInv, TypeOK, FilesOK, CmdsOK, YesComesFirst
  <2>4. AskedForWant'
    BY <1>2 DEF ServiceRestart, IInv, TypeOK, FilesOK, CmdsOK, HistoryOK, AskedForWant, Asking
  <2>5. ReportStands'
    BY <1>2 DEF ServiceRestart, IInv, TypeOK, FilesOK, InstallOK, ReportStands
  <2>6. NoneBeforeBuild'
    BY <1>2 DEF ServiceRestart, IInv, TypeOK, CmdsOK, NoneBeforeBuild
  <2>7. ToldHolds'
    <3>1. /\ service' = "starting" /\ UNCHANGED <<said, inst>>
          /\ told' => said # "none" /\ inst # "failed"
      BY <1>2 DEF ServiceRestart
    <3>2. told' => inst = "idle"
      BY <3>1 DEF IInv, ReportStands
    <3>. QED  BY <3>1, <3>2 DEF ToldHolds, ReportPredicts
  <2>. QED  BY <2>1, <2>2, <2>3, <2>4, <2>5, <2>6, <2>7 DEF IInv
<1>3. CASE Uninstall
  <2>1. TypeOK'
    BY <1>3 DEF Uninstall, IInv, TypeOK, FilesOK, CmdsOK, InstallOK, HistoryOK, Layers, Contents
  <2>2. AnswersThere'
    BY <1>3 DEF Uninstall, IInv, TypeOK, CmdsOK, InstallOK, AnswersThere
  <2>3. YesComesFirst'
    BY <1>3 DEF Uninstall, IInv, TypeOK, FilesOK, CmdsOK, YesComesFirst, Layers
  <2>4. AskedForWant'
    BY <1>3 DEF Uninstall, IInv, TypeOK, FilesOK, CmdsOK, HistoryOK, AskedForWant, Asking, Layers
  <2>5. ReportStands'
    BY <1>3 DEF Uninstall, IInv, TypeOK, FilesOK, InstallOK, ReportStands
  <2>6. NoneBeforeBuild'
    BY <1>3 DEF Uninstall, IInv, TypeOK, CmdsOK, NoneBeforeBuild
  <2>7. ToldHolds'
    BY <1>3 DEF Uninstall, IInv, TypeOK, FilesOK, CmdsOK, InstallOK, ToldHolds, ReportPredicts
  <2>. QED  BY <2>1, <2>2, <2>3, <2>4, <2>5, <2>6, <2>7 DEF IInv
<1>4. CASE Edit
  <2>0. PICK l \in Layers, content \in Contents :
            /\ file' = [file EXCEPT ![l] = content]
            /\ recorded' = (recorded /\ l # "user")
            /\ yes' = (yes \/ content = "on")
            /\ said' = IF l = "user" THEN said ELSE "none"
    BY <1>4, EditsOK DEF Edit
  <2>00. UNCHANGED <<pc, answer, own, sends, service, inst, choice, overlap, starts>>
    BY <1>4 DEF Edit
  <2>1. TypeOK'
    BY <1>4, TelemetryOK, EditsOK DEF Edit, IInv, TypeOK, FilesOK, CmdsOK, InstallOK, HistoryOK, Layers, Contents
  <2>2. AnswersThere'
    BY <2>00 DEF IInv, AnswersThere
  <2>3. YesComesFirst'
    <3>1. \A k \in Layers : file'[k] = "on" => yes'
      BY <2>0 DEF IInv, TypeOK, FilesOK, YesComesFirst
    <3>2. yes => yes'
      BY <2>0
    <3>3. UNCHANGED <<answer, own, choice, sends>>
      BY <2>00
    <3>. QED  BY <3>1, <3>2, <3>3 DEF IInv, YesComesFirst
  <2>4. AskedForWant'
    <3>1. /\ recorded' => recorded
          /\ recorded' => file'["user"] = file["user"]
      BY <2>0 DEF IInv, TypeOK, HistoryOK, FilesOK, Layers
    <3>. QED  BY <2>00, <3>1 DEF IInv, AskedForWant, Asking
  <2>5. ReportStands'
    <3>1. said' # "none" => said' = said /\ file'["system"] = file["system"]
      BY <2>0 DEF IInv, TypeOK, FilesOK, Layers
    <3>. QED  BY <2>00, <3>1 DEF IInv, ReportStands
  <2>6. NoneBeforeBuild'
    BY <1>4 DEF Edit, IInv, TypeOK, CmdsOK, NoneBeforeBuild
  <2>7. ToldHolds'
    <3>. SUFFICES ASSUME told'
                  PROVE  ToldHolds'
      BY DEF ToldHolds
    <3>1. told /\ said' = said /\ file'["root"] = file["root"]
      BY <1>4 DEF Edit, IInv, TypeOK, FilesOK, InstallOK, Layers
    <3>2. UNCHANGED <<own, sends, service, inst>>
      BY <2>00
    <3>. QED  BY <3>1, <3>2 DEF IInv, ToldHolds, ReportPredicts
  <2>. QED  BY <2>1, <2>2, <2>3, <2>4, <2>5, <2>6, <2>7 DEF IInv
<1>5. CASE ServiceLoad
  <2>1. TypeOK'
    <3>1. FilesOK'
      BY <1>5 DEF ServiceLoad, IInv, TypeOK, FilesOK
    <3>2. CmdsOK'
      BY <1>5, Loads DEF ServiceLoad, IInv, TypeOK, CmdsOK
    <3>3. InstallOK'
      BY <1>5, TelemetryOK DEF ServiceLoad, IInv, TypeOK, InstallOK
    <3>4. HistoryOK'
      BY <1>5 DEF ServiceLoad, IInv, TypeOK, HistoryOK
    <3>. QED  BY <3>1, <3>2, <3>3, <3>4 DEF TypeOK
  <2>2. AnswersThere'
    BY <1>5 DEF ServiceLoad, IInv, TypeOK, CmdsOK, InstallOK, AnswersThere
  <2>3. YesComesFirst'
    <3>1. UNCHANGED <<file, answer, sends, choice, yes>>
      BY <1>5 DEF ServiceLoad
    <3>2. own' = [own EXCEPT ![Service] = LoadFrom(file["root"])]
      BY <1>5 DEF ServiceLoad
    <3>3. LoadFrom(file["root"]) = "on" => yes
      BY Loads DEF IInv, YesComesFirst, Asked, Layers
    <3>4. \A q \in Processes : own'[q] = "on" => yes
      BY <3>2, <3>3 DEF IInv, TypeOK, CmdsOK, YesComesFirst
    <3>. QED  BY <3>1, <3>4 DEF IInv, YesComesFirst
  <2>4. AskedForWant'
    BY <1>5 DEF ServiceLoad, IInv, TypeOK, FilesOK, CmdsOK, HistoryOK, AskedForWant, Asking
  <2>5. ReportStands'
    BY <1>5 DEF ServiceLoad, IInv, TypeOK, FilesOK, InstallOK, ReportStands
  <2>6. NoneBeforeBuild'
    BY <1>5 DEF ServiceLoad, IInv, TypeOK, CmdsOK, NoneBeforeBuild
  <2>7. ToldHolds'
    <3>1. /\ service' = "loading"
          /\ UNCHANGED <<file, inst, said, told>>
          /\ own'[Service] = LoadFrom(file["root"])
      BY <1>5 DEF ServiceLoad, IInv, TypeOK, CmdsOK
    <3>. QED  BY <3>1 DEF IInv, ToldHolds, ReportPredicts
  <2>. QED  BY <2>1, <2>2, <2>3, <2>4, <2>5, <2>6, <2>7 DEF IInv
<1>. QED  BY <1>1, <1>2, <1>3, <1>4, <1>5

LEMMA Inductive == Spec => []IInv
<1>1. IInv /\ [Next]_vars => IInv'
  <2>. SUFFICES ASSUME IInv, [Next]_vars
                PROVE  IInv'
    OBVIOUS
  <2>1. CASE Next
    BY <2>1, CommandsKeep, InstallKeeps, ServiceKeeps DEF Next
  <2>2. CASE UNCHANGED vars
    BY <2>2 DEF vars, IInv, TypeOK, FilesOK, CmdsOK, InstallOK, HistoryOK,
       AnswersThere, YesComesFirst, AskedForWant, Asking, ReportStands,
       NoneBeforeBuild, ToldHolds, ReportPredicts
  <2>. QED  BY <2>1, <2>2
<1>. QED  BY <1>1, InitHolds, PTL DEF Spec

-----------------------------------------------------------------------------
(* What the program promises.                                              *)

(* Every variable keeps its type: nothing but an answer is ever stored or  *)
(* published.                                                              *)
THEOREM TypeCorrect == Spec => []TypeOK
<1>1. IInv => TypeOK
  BY DEF IInv
<1>. QED  BY <1>1, Inductive, PTL

(* Nothing is sent by any process before somebody said yes, whatever is    *)
(* cut off, fails or is edited in whatever file (tunnel.rs:284-287).       *)
THEOREM NothingWithoutConsent == Spec => []Consent
<1>1. IInv => Consent
  BY DEF IInv, YesComesFirst, Consent
<1>. QED  BY <1>1, Inductive, PTL

(* A command that read a no in its user's own config does not send,        *)
(* whatever the machine's says and becomes (config.rs:23-33).              *)
THEOREM NoStands == Spec => []NoMeansNo
<1>1. IInv => NoMeansNo
  BY DEF IInv, NoneBeforeBuild, NoMeansNo
<1>. QED  BY <1>1, Inductive, PTL

(* The question is not asked again after an answer was stored and no edit  *)
(* touched it, by any number of commands that do not overlap               *)
(* (main.rs:191-231).                                                      *)
THEOREM QuestionAskedOnce == Spec => AskedOnce
<1>1. IInv /\ [Next]_vars =>
          \A c \in Cmds : pc[c] = "idle" /\ pc'[c] = "asking" => ~recorded \/ overlap
  <2>. SUFFICES ASSUME IInv, [Next]_vars, NEW c \in Cmds,
                       pc[c] = "idle", pc'[c] = "asking", recorded
                PROVE  overlap
    OBVIOUS
  <2>. USE DEF IInv, TypeOK, CmdsOK, HistoryOK, Goto
  <2>1. CASE UNCHANGED pc
    BY <2>1
  <2>2. CASE \E d \in Cmds : Ask(d)
    BY <2>2 DEF Ask, AskedForWant, Asked, LoadFrom
  <2>3. CASE \E d \in Cmds : DontAsk(d) \/ Answer(d) \/ StoreOpen(d) \/ StoreWrite(d)
                                \/ StoreErr(d) \/ LoadUser(d) \/ Build(d) \/ End(d)
    BY <2>3 DEF DontAsk, Answer, StoreOpen, StoreWrite, StoreErr, LoadUser, Build, End
  <2>. QED
    BY <2>1, <2>2, <2>3
       DEF Next, vars, CmdsStill, Install, Choose, PublishOpen, PublishWrite, PublishChmod,
           Report, ReportErr, ServiceLoad, ServiceBuild, ServiceRestart, Uninstall, Edit
<1>. QED  BY <1>1, Inductive, PTL DEF Spec, AskedOnce

(* A service that was started while a report stood does as it said, if     *)
(* root has no setting of its own: what was published is what any later    *)
(* start reads, wherever it is stopped (config.rs:134-160).                *)
THEOREM ReportHolds == Spec => []ReportPredicts
<1>1. IInv => ReportPredicts
  BY DEF IInv, ToldHolds, ReportPredicts
<1>. QED  BY <1>1, Inductive, PTL
=============================================================================
