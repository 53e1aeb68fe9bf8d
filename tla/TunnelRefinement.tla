--------------------------- MODULE TunnelRefinement ---------------------------
(***************************************************************************)
(* Proof that each lane of the tunnel implements a Conduit, for any number *)
(* of sessions, any sizes, any amount of data and any faults.              *)
(***************************************************************************)
EXTENDS TunnelProofs

(***************************************************************************)
(* How far a relay is.                                                     *)
(***************************************************************************)

(* A relay never starts a session over, and the roost's joins only one     *)
(* that the fly's is still asking for.                                     *)
Joins(s) ==
    /\ \A r \in Relays : ph'[s][r] = "idle" => ph[s][r] = "idle"
    /\ ph[s]["roost"] = "idle" /\ ph'[s]["roost"] # "idle" => ph[s]["fly"] = "connecting"

LEMMA GotoJoins ==
    ASSUME TypeOK, NEW s \in Sessions, NEW t \in Sessions, NEW r \in Relays,
           NEW phase, phase # "idle", ~(r = "roost" /\ ph[t][r] = "idle"),
           Goto(t, r, phase) \/ Drop(t, r, phase)
    PROVE  Joins(s)
<1>1. ph' = [ph EXCEPT ![t][r] = phase]
  BY DEF Goto, Drop
<1>2. ph \in [Sessions -> [Relays -> Phases]]
  BY DEF TypeOK
<1>3. ASSUME NEW q \in Relays
      PROVE  ph'[s][q] = IF s = t /\ q = r THEN phase ELSE ph[s][q]
  BY <1>1, <1>2
<1>. QED  BY <1>3 DEF Joins, Relays

LEMMA StepJoins ==
    ASSUME TypeOK, NEW s \in Sessions, [Next]_vars
    PROVE  Joins(s)
<1>. "fly" \in Relays /\ "roost" \in Relays
  BY DEF Relays
<1>1. ASSUME NEW t \in Sessions, Fly(t)
      PROVE  Joins(s)
  <2>1. CASE Connect(t)
    BY <2>1 DEF Connect, TypeOK, Relays, Joins
  <2>2. CASE PreparePigeon(t) \/ OpenBi(t)
    BY <2>2, GotoJoins DEF PreparePigeon, OpenBi
  <2>3. CASE ConnectErr(t) \/ OpenBiErr(t)
    BY <2>3, GotoJoins DEF ConnectErr, OpenBiErr
  <2>. QED  BY <1>1, <2>1, <2>2, <2>3 DEF Fly
<1>2. ASSUME NEW t \in Sessions, Roost(t)
      PROVE  Joins(s)
  <2>1. CASE AcceptBi(t) \/ DialSshd(t)
    BY <2>1, GotoJoins DEF AcceptBi, DialSshd
  <2>2. CASE AcceptBiErr(t) \/ DialSshdErr(t)
    BY <2>2, GotoJoins DEF AcceptBiErr, DialSshdErr
  <2>. QED  BY <1>2, <2>1, <2>2 DEF Roost
<1>3. ASSUME NEW t \in Sessions, Copy(t)
      PROVE  Joins(s)
  <2>1. CASE ph' = ph
    BY <2>1 DEF Joins
  <2>2. CASE \E r \in Relays, d \in Lanes : CopyReturn(t, r, d)
    BY <2>2, GotoJoins DEF CopyReturn
  <2>. QED  BY <1>3, <2>1, <2>2 DEF Copy, CopyRead, CopyWrite
<1>4. ASSUME NEW r \in Relays, Kill(r)
      PROVE  Joins(s)
  BY <1>4 DEF Kill, TypeOK, Relays, Active, Joins
<1>5. CASE ph' = ph
  BY <1>5 DEF Joins
<1>6. CASE Processes
  BY <1>4, <1>5, <1>6 DEF Processes, CloseAfter, MainReturns, Crash, RestartRoost
<1>7. ASSUME NEW t \in Sessions, Network(t) \/ Programs(t)
      PROVE  Joins(s)
  BY <1>5, <1>7 DEF Network, Transmit, FinArrives, ConnLost, LinkDown,
     Programs, AppWrite, AppRead, AppShut, AppClose
<1>. QED  BY <1>1, <1>2, <1>3, <1>5, <1>6, <1>7 DEF Next, vars

(***************************************************************************)
(* Where bytes come out.                                                   *)
(***************************************************************************)

(* Nothing is on its way out of a lane whose second relay never joined.    *)
NotJoined ==
    \A s \in Sessions, d \in Lanes :
        ph[s][Exit(d)] = "idle" => pipe[s][d]["dst"] = <<>>

(* Steps inside the tunnel: programs read nothing, and only a relay that   *)
(* bridges brings bytes out.                                               *)
Inside ==
    /\ wrote' = wrote
    /\ \A s \in Sessions, d \in Lanes :
           /\ pipe'[s][d]["got"] = pipe[s][d]["got"]
           /\ ph[s][Exit(d)] # "bridging" => pipe'[s][d]["dst"] = pipe[s][d]["dst"]

LEMMA MoveInside ==
    ASSUME TypeOK, NEW t \in Sessions, NEW e \in Lanes,
           NEW from, NEW to, <<from, to>> \in Hops, to # "got",
           to = "dst" => ph[t][Exit(e)] = "bridging",
           NEW k \in 0..Len(pipe[t][e][from]), Move(t, e, from, to, k),
           wrote' = wrote
    PROVE  Inside
<1>1. from \in Places /\ to \in Places /\ from # to
  BY HopPlaces
<1>2. from # "got" /\ from # "dst"
  BY DEF Hops
<1>3. /\ Hop(pipe[t][e], pipe'[t][e], from, to, k)
      /\ \A s \in Sessions, d \in Lanes :
             <<s, d>> # <<t, e>> => pipe'[s][d] = pipe[s][d]
  BY <1>1, MoveEffect
<1>4. ASSUME NEW s \in Sessions, NEW d \in Lanes
      PROVE  /\ pipe'[s][d]["got"] = pipe[s][d]["got"]
             /\ ph[s][Exit(d)] # "bridging" => pipe'[s][d]["dst"] = pipe[s][d]["dst"]
  <2>1. CASE <<s, d>> = <<t, e>>
    BY <1>2, <1>3, <2>1 DEF Hop, Places
  <2>2. CASE <<s, d>> # <<t, e>>
    BY <1>3, <2>2
  <2>. QED  BY <2>1, <2>2
<1>. QED  BY <1>4 DEF Inside

LEMMA StepInside ==
    ASSUME TypeOK, [Next]_vars,
           \A s \in Sessions, d \in Lanes : ~AppWrite(s, d) /\ ~AppRead(s, d)
    PROVE  Inside
<1>1. CASE UNCHANGED <<wrote, pipe>>
  BY <1>1 DEF Inside
<1>2. ASSUME NEW t \in Sessions, Copy(t)
      PROVE  Inside
  <2>1. PICK r \in Relays, d \in Lanes :
            CopyRead(t, r, d) \/ CopyWrite(t, r, d) \/ CopyReturn(t, r, d)
    BY <1>2 DEF Copy
  <2>2. CASE CopyRead(t, r, d)
    <3>1. PICK k \in 0..Len(pipe[t][d][In(r, d)]) :
              Move(t, d, In(r, d), Buf(r, d), k)
      BY <2>2, ReadBound
    <3>2. Buf(r, d) # "got" /\ Buf(r, d) # "dst"
      BY DEF Buf
    <3>. QED  BY <2>2, <3>1, <3>2, CopyHops, MoveInside DEF CopyRead
  <2>3. CASE CopyWrite(t, r, d)
    <3>1. PICK k \in 0..Len(pipe[t][d][Buf(r, d)]) :
              Move(t, d, Buf(r, d), Out(r, d), k)
      BY <2>3, WriteBound
    <3>2. Out(r, d) # "got" /\ (Out(r, d) = "dst" => r = Exit(d))
      BY DEF Out, Exit, Entry, Other, Relays, Lanes
    <3>. QED  BY <2>3, <3>1, <3>2, CopyHops, MoveInside DEF CopyWrite
  <2>4. CASE CopyReturn(t, r, d)
    BY <1>1, <2>4 DEF CopyReturn, Drop
  <2>. QED  BY <2>1, <2>2, <2>3, <2>4
<1>3. ASSUME NEW t \in Sessions, NEW d \in Lanes, Transmit(t, d)
      PROVE  Inside
  <2>1. PICK k \in 0..Len(pipe[t][d]["net"]) : Move(t, d, "net", "rcv", k)
    BY <1>3, LenProperties DEF Transmit, Held, TypeOK, Places
  <2>. QED  BY <1>3, <2>1, MoveInside DEF Transmit, Hops
<1>4. ASSUME NEW t \in Sessions, Network(t)
      PROVE  Inside
  <2>1. CASE \E d \in Lanes : FinArrives(t, d)
    BY <1>1, <2>1 DEF FinArrives
  <2>. QED  BY <1>1, <1>3, <1>4, <2>1, OnlyMoves DEF Network
<1>5. ASSUME NEW t \in Sessions, Programs(t)
      PROVE  Inside
  BY <1>1, <1>5 DEF Programs, AppShut, AppClose
<1>6. CASE Processes
  BY <1>1, <1>6 DEF Processes, CloseAfter, MainReturns, Crash, RestartRoost
<1>. QED  BY <1>1, <1>2, <1>4, <1>5, <1>6, OnlyMoves DEF Next, vars

(* What the programs do to the lane they write into, or read from.         *)
LEMMA WriteEffect ==
    ASSUME TypeOK, NEW t \in Sessions, NEW e \in Lanes, AppWrite(t, e)
    PROVE  /\ \A s \in Sessions, d \in Lanes :
                  /\ pipe'[s][d]["got"] = pipe[s][d]["got"]
                  /\ pipe'[s][d]["dst"] = pipe[s][d]["dst"]
           /\ UNCHANGED <<ph, deaf>>
<1>. DEFINE l == Append(pipe[t][e]["src"], Len(wrote[t][e]) + 1)
<1>1. pipe' = [pipe EXCEPT ![t][e]["src"] = l]
  BY DEF AppWrite
<1>. HIDE DEF l
<1>2. pipe \in [Sessions -> [Lanes -> [Places -> Seq(Nat)]]]
  BY DEF TypeOK
<1>3. ASSUME NEW s \in Sessions, NEW d \in Lanes, NEW p \in Places, p # "src"
      PROVE  pipe'[s][d][p] = pipe[s][d][p]
  BY <1>1, <1>2, <1>3
<1>. QED  BY <1>3 DEF AppWrite, Places

LEMMA ReadEffect ==
    ASSUME TypeOK, NEW t \in Sessions, NEW e \in Lanes, AppRead(t, e)
    PROVE  /\ UNCHANGED <<ph, deaf, wrote>>
           /\ pipe[t][e]["dst"] # <<>> /\ pipe'[t][e]["dst"] = <<>>
           /\ Len(Got(t, e)') > Len(Got(t, e))
           /\ \A s \in Sessions, d \in Lanes :
                  <<s, d>> # <<t, e>> => pipe'[s][d] = pipe[s][d]
<1>. DEFINE b == pipe[t][e]["dst"]
            g == pipe[t][e]["got"]
<1>1. b \in Seq(Nat) /\ g \in Seq(Nat)
  BY DEF TypeOK, Places
<1>2. Len(b) \in Nat /\ Len(g) \in Nat
  BY <1>1, LenProperties
<1>3. /\ Hop(pipe[t][e], pipe'[t][e], "dst", "got", Len(b))
      /\ \A s \in Sessions, d \in Lanes :
             <<s, d>> # <<t, e>> => pipe'[s][d] = pipe[s][d]
  <2>1. Len(pipe[t][e]["dst"]) \in 0..Len(pipe[t][e]["dst"])
    BY <1>2
  <2>2. Move(t, e, "dst", "got", Len(pipe[t][e]["dst"]))
    BY DEF AppRead, Held
  <2>3. "dst" \in Places /\ "got" \in Places /\ "dst" # "got"
    BY DEF Places
  <2>. QED  BY <2>1, <2>2, <2>3, MoveEffect
<1>4. SubSeq(b, Len(b) + 1, Len(b)) = <<>>
  BY <1>1, <1>2, SubSeqEmpty
<1>5. SubSeq(b, 1, Len(b)) = b
  BY <1>1, SubSeqFull
<1>6. Len(g \o b) = Len(g) + Len(b)
  BY <1>1, ConcatProperties
<1>7. b # <<>>
  BY DEF AppRead, Held
<1>8. Len(b) > 0
  BY <1>1, <1>2, <1>7, EmptySeq
<1>9. pipe'[t][e]["dst"] = <<>> /\ pipe'[t][e]["got"] = g \o b
  BY <1>3, <1>4, <1>5 DEF Hop
<1>. HIDE DEF b, g
<1>10. Len(g \o b) > Len(g)
  BY <1>2, <1>6, <1>8
<1>. QED  BY <1>3, <1>7, <1>9, <1>10 DEF AppRead, Got, b, g

LEMMA NothingOutYet == Spec => []NotJoined
<1>1. Init => NotJoined
  BY LaneEnds DEF Init, NotJoined, Places
<1>2. TypeOK /\ NotJoined /\ [Next]_vars => NotJoined'
  <2>. SUFFICES ASSUME TypeOK, NotJoined, [Next]_vars,
                       NEW s \in Sessions, NEW d \in Lanes, ph'[s][Exit(d)] = "idle"
                PROVE  pipe'[s][d]["dst"] = <<>>
    BY DEF NotJoined
  <2>1. ph[s][Exit(d)] = "idle" /\ pipe[s][d]["dst"] = <<>>
    BY StepJoins, LaneEnds DEF Joins, NotJoined
  <2>2. CASE \E t \in Sessions, e \in Lanes : AppWrite(t, e)
    BY <2>1, <2>2, WriteEffect
  <2>3. CASE \E t \in Sessions, e \in Lanes : AppRead(t, e)
    BY <2>1, <2>3, ReadEffect
  <2>4. CASE \A t \in Sessions, e \in Lanes : ~AppWrite(t, e) /\ ~AppRead(t, e)
    BY <2>1, <2>4, StepInside DEF Inside
  <2>. QED  BY <2>2, <2>3, <2>4
<1>. QED  BY <1>1, <1>2, TypeCorrect, PTL DEF Spec

(***************************************************************************)
(* The refinement.                                                         *)
(***************************************************************************)

(* What the mapping needs of a state.                                      *)
Mapped == TypeOK /\ Orderly /\ NoHoles /\ NotJoined

LEMMA AlwaysMapped == Spec => []Mapped
BY TypeCorrect, ViewsAgree, NothingMissing, NothingOutYet, PTL DEF Mapped

(* The end of a lane is for ever: neither relay takes the session up       *)
(* again, and nothing more comes out into the socket.                      *)
LEMMA EndStays ==
    ASSUME Mapped, [Next]_vars, NEW s \in Sessions, NEW d \in Lanes, Ended(s, d)
    PROVE  Ended(s, d)'
<1>. USE DEF Mapped
<1>1. Settled(s) /\ Joins(s)
  BY StepSettled, StepJoins
<1>2. CASE deaf[s][d]
  BY <1>1, <1>2 DEF Settled, Ended
<1>3. CASE ph[s][Exit(d)] \in Over /\ pipe[s][d]["dst"] = <<>>
  <2>1. ph'[s][Exit(d)] \in Over
    BY <1>1, <1>3, LaneEnds DEF Settled
  <2>2. CASE \E t \in Sessions, e \in Lanes : AppWrite(t, e)
    BY <1>3, <2>1, <2>2, WriteEffect DEF Ended
  <2>3. CASE \E t \in Sessions, e \in Lanes : AppRead(t, e)
    BY <1>3, <2>1, <2>3, ReadEffect DEF Ended
  <2>4. CASE \A t \in Sessions, e \in Lanes : ~AppWrite(t, e) /\ ~AppRead(t, e)
    <3>. ph[s][Exit(d)] # "bridging"
      BY <1>3 DEF Over
    <3>. QED  BY <1>3, <2>1, <2>4, StepInside DEF Inside, Ended
  <2>. QED  BY <2>2, <2>3, <2>4
<1>4. CASE ph[s][Exit(d)] = "idle" /\ ph[s][Entry(d)] \in Over
  <2>1. ph'[s][Entry(d)] \in Over
    BY <1>1, <1>4, LaneEnds DEF Settled
  <2>2. Exit(d) = "roost" /\ Entry(d) = "fly"
    BY <1>4 DEF Orderly, Exit, Entry, Other, Lanes, Over
  <2>3. ph'[s][Exit(d)] = "idle"
    BY <1>1, <1>4, <2>2 DEF Joins, Over
  <2>. QED  BY <2>1, <2>3 DEF Ended
<1>. QED  BY <1>2, <1>3, <1>4 DEF Ended

(* Bytes are read only from a lane that has not ended.                     *)
LEMMA ReadBeforeEnd ==
    ASSUME Mapped, NEW s \in Sessions, NEW d \in Lanes, AppRead(s, d)
    PROVE  ~Ended(s, d)
BY DEF Mapped, NotJoined, AppRead, Held, Ended

LEMMA InitMaps == Init => conduit!Init
<1>. SUFFICES ASSUME Init
              PROVE  conduit!Init
  OBVIOUS
<1>1. \A c \in Ends : wrote[c[1]][c[2]] = <<>> /\ Got(c[1], c[2]) = <<>>
  BY DEF Init, Ends, Got, Places
<1>2. \A c \in Ends : Ended(c[1], c[2]) = FALSE
  BY LaneEnds DEF Init, Ends, Ended, Over
<1>. QED  BY <1>1, <1>2 DEF conduit!Init

(* A program's write is a Write of the lane's conduit.                     *)
LEMMA WriteMaps ==
    ASSUME Mapped, NEW s \in Sessions, NEW d \in Lanes, AppWrite(s, d)
    PROVE  conduit!Write(<<s, d>>)
<1>. DEFINE n == Len(wrote[s][d]) + 1
            c == <<s, d>>
            sent == [e \in Ends |-> wrote[e[1]][e[2]]]
<1>1. n \in UNION {1..MaxBytes[e[1]][e[2]] : e \in Ends}
  <2>1. n \in 1..MaxBytes[s][d]
    <3>1. MaxBytes[s][d] \in Nat
      BY ConstantsOK
    <3>2. wrote[s][d] \in Seq(Nat)
      BY DEF Mapped, TypeOK
    <3>3. Len(wrote[s][d]) \in Nat
      BY <3>2, LenProperties
    <3>. QED  BY <3>1, <3>3 DEF AppWrite
  <2>2. c \in Ends /\ c[1] = s /\ c[2] = d
    BY DEF Ends
  <2>. QED  BY <2>1, <2>2
<1>2. wrote' = [wrote EXCEPT ![s][d] = Append(@, n)]
  BY DEF AppWrite
<1>3. sent' = [sent EXCEPT ![c] = Append(@, n)]
  <2>. HIDE DEF n
  <2>1. \A e \in Ends : wrote'[e[1]][e[2]] =
            IF e = c THEN Append(wrote[s][d], n) ELSE wrote[e[1]][e[2]]
    BY <1>2 DEF Mapped, TypeOK, Ends
  <2>2. c \in Ends /\ c[1] = s /\ c[2] = d
    BY DEF Ends
  <2>. HIDE DEF c
  <2>. QED  BY <2>1, <2>2
<1>4. \A e \in Ends :
          Got(e[1], e[2])' = Got(e[1], e[2]) /\ Ended(e[1], e[2])' = Ended(e[1], e[2])
  BY WriteEffect DEF Mapped, Ends, Got, Ended
<1>. QED  BY <1>1, <1>3, <1>4 DEF conduit!Write

(* A program's read is a Deliver, which may show the end of the lane.      *)
LEMMA ReadMaps ==
    ASSUME Mapped, Mapped', NEW s \in Sessions, NEW d \in Lanes, AppRead(s, d)
    PROVE  conduit!Deliver(<<s, d>>)
<1>. DEFINE c == <<s, d>>
            k == Len(Got(s, d)')
<1>1. c \in Ends /\ c[1] = s /\ c[2] = d
  BY DEF Ends
<1>2. k \in (Len(Got(s, d)) + 1)..Len(wrote[s][d]) /\ Got(s, d)' = SubSeq(wrote[s][d], 1, k)
  <2>. "got" \in Places
    BY DEF Places
  <2>0. /\ pipe[s][d]["got"] \in Seq(Nat) /\ pipe'[s][d]["got"] \in Seq(Nat)
        /\ wrote[s][d] \in Seq(Nat)
    BY DEF Mapped, TypeOK
  <2>1. Got(s, d) \in Seq(Nat) /\ Got(s, d)' \in Seq(Nat) /\ wrote[s][d] \in Seq(Nat)
    BY <2>0 DEF Got
  <2>2. k > Len(Got(s, d)) /\ wrote' = wrote
    BY ReadEffect DEF Mapped
  <2>3. k <= Len(wrote[s][d]) /\ Got(s, d)' = SubSeq(wrote[s][d], 1, k)
    BY <2>2 DEF Mapped, NoHoles
  <2>. HIDE DEF k
  <2>4. k \in Nat /\ Len(Got(s, d)) \in Nat /\ Len(wrote[s][d]) \in Nat
    BY <2>1, LenProperties DEF k
  <2>. QED  BY <2>2, <2>3, <2>4
<1>3. \A e \in Ends : e # c =>
          Got(e[1], e[2])' = Got(e[1], e[2]) /\ Ended(e[1], e[2])' = Ended(e[1], e[2])
  BY ReadEffect DEF Mapped, Ends, Got, Ended
<1>4. \A e \in Ends : wrote'[e[1]][e[2]] = wrote[e[1]][e[2]]
  BY ReadEffect DEF Mapped
<1>5. Ended(s, d) = FALSE
  BY ReadBeforeEnd DEF Ended
<1>. HIDE DEF c, k
<1>6. ~[e \in Ends |-> Ended(e[1], e[2])][c]
  BY <1>1, <1>5
<1>7. \E n \in (Len([e \in Ends |-> Got(e[1], e[2])][c]) + 1)
                    ..Len([e \in Ends |-> wrote[e[1]][e[2]]][c]) :
          [e \in Ends |-> Got(e[1], e[2])]' =
              [[e \in Ends |-> Got(e[1], e[2])] EXCEPT
                  ![c] = SubSeq([e \in Ends |-> wrote[e[1]][e[2]]][c], 1, n)]
  BY <1>1, <1>2, <1>3
<1>8. \/ UNCHANGED [e \in Ends |-> Ended(e[1], e[2])]
      \/ [e \in Ends |-> Ended(e[1], e[2])]' =
             [[e \in Ends |-> Ended(e[1], e[2])] EXCEPT ![c] = TRUE]
  <2>1. CASE Ended(s, d)'
    <3>1. \A e \in Ends : Ended(e[1], e[2])' = IF e = c THEN TRUE ELSE Ended(e[1], e[2])
      BY <1>1, <1>3, <2>1 DEF Ended
    <3>. QED  BY <3>1
  <2>2. CASE ~Ended(s, d)'
    <3>1. Ended(s, d)' = Ended(s, d)
      BY <1>5, <2>2 DEF Ended
    <3>2. \A e \in Ends : Ended(e[1], e[2])' = Ended(e[1], e[2])
      BY <1>1, <1>3, <3>1
    <3>. QED  BY <3>2
  <2>. QED  BY <2>1, <2>2
<1>9. [e \in Ends |-> wrote[e[1]][e[2]]]' = [e \in Ends |-> wrote[e[1]][e[2]]]
  BY <1>4
<1>. QED  BY <1>6, <1>7, <1>8, <1>9 DEF conduit!Deliver, c

(* Any other step is an End, of no conduit, of some, or of all.            *)
LEMMA RestMaps ==
    ASSUME Mapped, Mapped', [Next]_vars,
           \A s \in Sessions, d \in Lanes : ~AppWrite(s, d) /\ ~AppRead(s, d)
    PROVE  conduit!End
<1>1. \A c \in Ends : /\ wrote'[c[1]][c[2]] = wrote[c[1]][c[2]]
                      /\ Got(c[1], c[2])' = Got(c[1], c[2])
  BY StepInside DEF Mapped, Inside, Ends, Got
<1>2. \A c \in Ends : Ended(c[1], c[2])' \in BOOLEAN
  BY DEF Mapped, TypeOK, Ended, Ends
<1>3. \A c \in Ends : Ended(c[1], c[2]) => Ended(c[1], c[2])'
  BY EndStays DEF Ends
<1>. QED  BY <1>1, <1>2, <1>3 DEF conduit!End

(* What comes out of a lane is what went in, in order, up to some point,   *)
(* and after the end of the lane nothing: whatever the relays, the network *)
(* and the programs do, every lane of every session is a conduit           *)
(* (tunnel.rs:235-282, protocol.rs:25-64).                                 *)
THEOREM LanesAreConduits == Spec => ConduitSafety
<1>1. Mapped /\ Mapped' /\ [Next]_vars => [conduit!Next]_(conduit!vars)
  <2>. SUFFICES ASSUME Mapped, Mapped', [Next]_vars
                PROVE  conduit!Next
    OBVIOUS
  <2>1. CASE \E s \in Sessions, d \in Lanes : AppWrite(s, d)
    BY <2>1, WriteMaps DEF conduit!Next, Ends
  <2>2. CASE \E s \in Sessions, d \in Lanes : AppRead(s, d)
    BY <2>2, ReadMaps DEF conduit!Next, Ends
  <2>3. CASE \A s \in Sessions, d \in Lanes : ~AppWrite(s, d) /\ ~AppRead(s, d)
    BY <2>3, RestMaps DEF conduit!Next
  <2>. QED  BY <2>1, <2>2, <2>3
<1>. QED  BY <1>1, InitMaps, AlwaysMapped, PTL DEF Spec, ConduitSafety, conduit!Spec
=============================================================================
