---------------------------- MODULE TunnelProofs ----------------------------
(***************************************************************************)
(* Proofs about Tunnel, for any number of sessions, any buffer and socket  *)
(* sizes, any amount of data and any faults.                               *)
(***************************************************************************)
EXTENDS Tunnel, TLAPS, SequenceTheorems

(***************************************************************************)
(* Type correctness.                                                       *)
(***************************************************************************)
LEMMA GotoType ==
    ASSUME TypeOK, NEW s \in Sessions, NEW r \in Relays,
           NEW phase \in Phases, Goto(s, r, phase)
    PROVE  TypeOK'
BY DEF TypeOK, Goto

LEMMA DropType ==
    ASSUME TypeOK, NEW s \in Sessions, NEW r \in Relays,
           NEW outcome \in Phases, Drop(s, r, outcome)
    PROVE  TypeOK'
<1>1. Outbound(r) \in Lanes
  BY DEF Outbound, Lanes, Relays
<1>2. ph' \in [Sessions -> [Relays -> Phases]]
  BY DEF TypeOK, Drop
<1>3. conn' \in [Sessions -> [Relays -> Views]]
  BY DEF TypeOK, Drop, Views
<1>4. fin' \in [Sessions -> [Lanes -> {"no", "sent", "seen"}]]
  BY <1>1 DEF TypeOK, Drop
<1>. QED  BY <1>2, <1>3, <1>4 DEF TypeOK, Drop

(* k bytes hop from one place of a lane to another.                        *)
Hop(l, m, from, to, k) ==
    /\ m[from] = SubSeq(l[from], k + 1, Len(l[from]))
    /\ m[to] = l[to] \o SubSeq(l[from], 1, k)
    /\ \A p \in Places \ {from, to} : m[p] = l[p]

(* A move changes two places of one lane and no other.                     *)
LEMMA MoveEffect ==
    ASSUME TypeOK, NEW s \in Sessions, NEW d \in Lanes,
           NEW from \in Places, NEW to \in Places, from # to,
           NEW k \in 0..Len(pipe[s][d][from]), Move(s, d, from, to, k)
    PROVE  /\ pipe' \in [Sessions -> [Lanes -> [Places -> Seq(Nat)]]]
           /\ Hop(pipe[s][d], pipe'[s][d], from, to, k)
           /\ \A t \in Sessions, e \in Lanes :
                  <<t, e>> # <<s, d>> => pipe'[t][e] = pipe[t][e]
<1>. DEFINE b == pipe[s][d][from]
            left == SubSeq(b, k + 1, Len(b))
            right == pipe[s][d][to] \o SubSeq(b, 1, k)
<1>1. /\ pipe \in [Sessions -> [Lanes -> [Places -> Seq(Nat)]]]
      /\ b \in Seq(Nat)
      /\ pipe[s][d][to] \in Seq(Nat)
  BY DEF TypeOK
<1>2. left \in Seq(Nat)
  BY <1>1, LenProperties, SubSeqProperties, Z3T(30)
<1>3. SubSeq(b, 1, k) \in Seq(Nat)
  BY <1>1, LenProperties, SubSeqProperties, Z3T(30)
<1>4. right \in Seq(Nat)
  BY <1>1, <1>3, ConcatProperties
<1>5. pipe' = [pipe EXCEPT ![s][d][from] = left, ![s][d][to] = right]
  BY <1>1 DEF Move
<1>. HIDE DEF left, right
<1>6. pipe' \in [Sessions -> [Lanes -> [Places -> Seq(Nat)]]]
  <2>. DEFINE once == [pipe EXCEPT ![s][d][from] = left]
  <2>1. once \in [Sessions -> [Lanes -> [Places -> Seq(Nat)]]]
    BY <1>1, <1>2
  <2>2. pipe' = [once EXCEPT ![s][d][to] = right]
    BY <1>5
  <2>. HIDE DEF once
  <2>. QED  BY <1>4, <2>1, <2>2
<1>7. /\ pipe'[s][d][from] = left /\ pipe'[s][d][to] = right
      /\ \A p \in Places \ {from, to} : pipe'[s][d][p] = pipe[s][d][p]
  BY <1>1, <1>5
<1>8. \A t \in Sessions, e \in Lanes : <<t, e>> # <<s, d>> => pipe'[t][e] = pipe[t][e]
  BY <1>1, <1>5
<1>. QED  BY <1>6, <1>7, <1>8 DEF left, right, Hop

LEMMA MoveType ==
    ASSUME TypeOK, NEW s \in Sessions, NEW d \in Lanes,
           NEW from \in Places, NEW to \in Places, from # to,
           NEW k \in 0..Len(pipe[s][d][from]), Move(s, d, from, to, k),
           UNCHANGED <<proc, ph, conn, link, fin, eof, deaf, wrote>>
    PROVE  TypeOK'
BY MoveEffect DEF TypeOK

(* The places a copy moves bytes between.                                  *)
LEMMA CopyPlaces ==
    \A r \in Relays, d \in Lanes :
        /\ {In(r, d), Buf(r, d), Out(r, d)} \subseteq Places
        /\ In(r, d) # Buf(r, d)
        /\ Buf(r, d) # Out(r, d)
BY DEF Relays, Lanes, Places, In, Buf, Out, Entry

LEMMA LaneEnds ==
    /\ \A d \in Lanes : Entry(d) \in Relays /\ Exit(d) \in Relays
    /\ \A d \in Lanes : Back(d) \in Lanes
    /\ \A r \in Relays : Outbound(r) \in Lanes /\ Other(r) \in Relays
BY DEF Relays, Lanes, Entry, Exit, Back, Outbound, Other

LEMMA InitType == Init => TypeOK
<1>. <<>> \in Seq(Nat)
  OBVIOUS
<1>. QED  BY DEF Init, TypeOK, Phases, Views

LEMMA FlyType ==
    ASSUME TypeOK, NEW s \in Sessions, Fly(s)
    PROVE  TypeOK'
<1>. "fly" \in Relays
  BY DEF Relays
<1>1. CASE PreparePigeon(s)
  BY <1>1, GotoType DEF PreparePigeon, Phases, Active
<1>2. CASE Connect(s)
  BY <1>2 DEF TypeOK, Connect, Phases, Active, Views
<1>3. CASE ConnectErr(s)
  BY <1>3, DropType DEF ConnectErr, Phases, Over
<1>4. CASE OpenBi(s)
  BY <1>4, GotoType DEF OpenBi, Phases, Active
<1>5. CASE OpenBiErr(s)
  BY <1>5, DropType DEF OpenBiErr, Phases, Over
<1>. QED  BY <1>1, <1>2, <1>3, <1>4, <1>5 DEF Fly

LEMMA RoostType ==
    ASSUME TypeOK, NEW s \in Sessions, Roost(s)
    PROVE  TypeOK'
<1>. "roost" \in Relays
  BY DEF Relays
<1>1. CASE AcceptBi(s)
  BY <1>1, GotoType DEF AcceptBi, Phases, Active
<1>2. CASE AcceptBiErr(s)
  BY <1>2, DropType DEF AcceptBiErr, Phases, Over
<1>3. CASE DialSshd(s)
  BY <1>3, GotoType DEF DialSshd, Phases, Active
<1>4. CASE DialSshdErr(s)
  BY <1>4, DropType DEF DialSshdErr, Phases, Over
<1>. QED  BY <1>1, <1>2, <1>3, <1>4 DEF Roost

LEMMA ReadBound ==
    ASSUME TypeOK, NEW s \in Sessions, NEW r \in Relays, NEW d \in Lanes,
           CopyRead(s, r, d)
    PROVE  \E k \in 0..Len(pipe[s][d][In(r, d)]) :
               Move(s, d, In(r, d), Buf(r, d), k)
<1>1. PICK k \in 1..Least(ChunkSize, Len(Held(s, d, In(r, d)))) :
          Move(s, d, In(r, d), Buf(r, d), k)
  BY DEF CopyRead
<1>2. k \in 0..Len(pipe[s][d][In(r, d)])
  BY CopyPlaces, ConstantsOK, LenProperties DEF TypeOK, Least, Held
<1>. QED  BY <1>1, <1>2

LEMMA WriteBound ==
    ASSUME TypeOK, NEW s \in Sessions, NEW r \in Relays, NEW d \in Lanes,
           CopyWrite(s, r, d)
    PROVE  \E k \in 0..Len(pipe[s][d][Buf(r, d)]) :
               Move(s, d, Buf(r, d), Out(r, d), k)
<1>1. PICK k \in 1..Least(Len(Held(s, d, Buf(r, d))), Room(s, r, d)) :
          Move(s, d, Buf(r, d), Out(r, d), k)
  BY DEF CopyWrite
<1>2. Room(s, r, d) \in Nat
  <2>1. \A p \in {"net", "rcv", "dst"} : Len(Held(s, d, p)) \in Nat
    BY LenProperties DEF TypeOK, Held, Places
  <2>. QED  BY <2>1, ConstantsOK DEF Room
<1>3. k \in 0..Len(pipe[s][d][Buf(r, d)])
  BY <1>2, CopyPlaces, LenProperties DEF TypeOK, Least, Held
<1>. QED  BY <1>1, <1>3

LEMMA CopyType ==
    ASSUME TypeOK, NEW s \in Sessions, Copy(s)
    PROVE  TypeOK'
<1>1. PICK r \in Relays, d \in Lanes :
          CopyRead(s, r, d) \/ CopyWrite(s, r, d) \/ CopyReturn(s, r, d)
  BY DEF Copy
<1>2. CASE CopyRead(s, r, d)
  BY <1>2, ReadBound, CopyPlaces, MoveType DEF CopyRead
<1>3. CASE CopyWrite(s, r, d)
  BY <1>3, WriteBound, CopyPlaces, MoveType DEF CopyWrite
<1>4. CASE CopyReturn(s, r, d)
  BY <1>4, DropType DEF CopyReturn, Phases, Over
<1>. QED  BY <1>1, <1>2, <1>3, <1>4

LEMMA NetworkType ==
    ASSUME TypeOK, NEW s \in Sessions, Network(s)
    PROVE  TypeOK'
<1>1. CASE \E d \in Lanes : Transmit(s, d)
  <2>1. PICK d \in Lanes : Transmit(s, d)
    BY <1>1
  <2>2. PICK k \in 1..Len(pipe[s][d]["net"]) : Move(s, d, "net", "rcv", k)
    BY <2>1 DEF Transmit, Held
  <2>3. k \in 0..Len(pipe[s][d]["net"])
    BY LenProperties DEF TypeOK, Places
  <2>. QED  BY <2>1, <2>2, <2>3, MoveType DEF Transmit, Places
<1>2. CASE \E d \in Lanes : FinArrives(s, d)
  BY <1>2 DEF TypeOK, FinArrives
<1>3. CASE \E r \in Relays : ConnLost(s, r)
  BY <1>3 DEF TypeOK, ConnLost, Views
<1>4. CASE LinkDown(s)
  BY <1>4 DEF TypeOK, LinkDown
<1>. QED  BY <1>1, <1>2, <1>3, <1>4 DEF Network

LEMMA ProgramsType ==
    ASSUME TypeOK, NEW s \in Sessions, Programs(s)
    PROVE  TypeOK'
<1>1. CASE \E d \in Lanes : AppWrite(s, d)
  <2>1. PICK d \in Lanes : AppWrite(s, d)
    BY <1>1
  <2>2. /\ wrote[s][d] \in Seq(Nat)
        /\ pipe[s][d]["src"] \in Seq(Nat)
    BY DEF TypeOK, Places
  <2>3. Len(wrote[s][d]) + 1 \in Nat
    BY <2>2, LenProperties
  <2>4. /\ Append(wrote[s][d], Len(wrote[s][d]) + 1) \in Seq(Nat)
        /\ Append(pipe[s][d]["src"], Len(wrote[s][d]) + 1) \in Seq(Nat)
    BY <2>2, <2>3, AppendProperties
  <2>. QED  BY <2>1, <2>4 DEF TypeOK, AppWrite, Places
<1>2. CASE \E d \in Lanes : AppRead(s, d)
  <2>1. PICK d \in Lanes : AppRead(s, d)
    BY <1>2
  <2>2. Len(pipe[s][d]["dst"]) \in 0..Len(pipe[s][d]["dst"])
    BY LenProperties DEF TypeOK, Places
  <2>. QED  BY <2>1, <2>2, MoveType DEF AppRead, Places, Held
<1>3. CASE \E r \in Relays : AppShut(s, r)
  BY <1>3, LaneEnds DEF TypeOK, AppShut
<1>4. CASE \E r \in Relays : AppClose(s, r)
  BY <1>4, LaneEnds DEF TypeOK, AppClose
<1>. QED  BY <1>1, <1>2, <1>3, <1>4 DEF Programs

LEMMA ProcessesType ==
    ASSUME TypeOK, Processes
    PROVE  TypeOK'
<1>1. \A r \in Relays :
          Kill(r) => ph' \in [Sessions -> [Relays -> Phases]]
  BY DEF TypeOK, Kill, Phases, Over
<1>2. CASE \E r \in Relays : CloseAfter(r)
  BY <1>2 DEF TypeOK, CloseAfter, Views
<1>3. CASE \E r \in Relays : MainReturns(r)
  BY <1>1, <1>3 DEF TypeOK, MainReturns
<1>4. CASE \E r \in Relays : Crash(r)
  BY <1>1, <1>4 DEF TypeOK, Crash, Views
<1>5. CASE RestartRoost
  BY <1>5 DEF TypeOK, RestartRoost
<1>. QED  BY <1>2, <1>3, <1>4, <1>5 DEF Processes

(* The tunnel's state stays in its type.                                   *)
THEOREM TypeCorrect == Spec => []TypeOK
<1>1. TypeOK /\ [Next]_vars => TypeOK'
  <2>. SUFFICES ASSUME TypeOK, [Next]_vars
                PROVE  TypeOK'
    OBVIOUS
  <2>1. CASE Next
    BY <2>1, FlyType, RoostType, CopyType, NetworkType, ProgramsType,
       ProcessesType DEF Next
  <2>2. CASE UNCHANGED vars
    BY <2>2 DEF TypeOK, vars
  <2>. QED  BY <2>1, <2>2
<1>. QED  BY <1>1, InitType, PTL DEF Spec

(***************************************************************************)
(* Conservation: a byte moves from one place to the next, and what it      *)
(* passes on the way is nothing.                                           *)
(***************************************************************************)
LEMMA Associates ==
    ASSUME NEW s \in Seq(Nat), NEW t \in Seq(Nat), NEW u \in Seq(Nat)
    PROVE  (s \o t) \o u = s \o (t \o u)
BY SMTT(30)

(* Names for sequences and concatenation, left unexpanded where there are  *)
(* many of them: the provers then know what the two lemmas say and no more.*)
ByteSeq == Seq(Nat)
Cat(s, t) == s \o t

LEMMA Regroup ==
    \A s, t, u \in ByteSeq : Cat(s, Cat(t, u)) = Cat(Cat(s, t), u)
BY Associates DEF ByteSeq, Cat

LEMMA Closed ==
    \A s, t \in ByteSeq : Cat(s, t) \in ByteSeq
BY ConcatProperties DEF ByteSeq, Cat

LEMMA Reassociate ==
    \A a, x, y, t \in ByteSeq : Cat(Cat(a, x), Cat(y, t)) = Cat(a, Cat(Cat(x, y), t))
<1>. TAKE a, x, y, t \in ByteSeq
<1>1. Cat(y, t) \in ByteSeq
  BY Closed
<1>2. Cat(a, Cat(x, Cat(y, t))) = Cat(Cat(a, x), Cat(y, t))
  BY <1>1, Regroup
<1>3. Cat(x, Cat(y, t)) = Cat(Cat(x, y), t)
  BY Regroup
<1>. QED  BY <1>2, <1>3

LEMMA Split ==
    ASSUME NEW b \in Seq(Nat), NEW k \in 0..Len(b)
    PROVE  SubSeq(b, 1, k) \o SubSeq(b, k + 1, Len(b)) = b
<1>1. /\ 1 \in 1..Len(b) + 1
      /\ k \in (1 - 1)..Len(b)
      /\ Len(b) \in k..Len(b)
  BY LenProperties
<1>2. SubSeq(b, 1, k) \o SubSeq(b, k + 1, Len(b)) = SubSeq(b, 1, Len(b))
  BY <1>1, ConcatAdjacentSubSeq, Zenon
<1>. QED  BY <1>2, SubSeqFull

LEMMA Shift ==
    ASSUME NEW a \in Seq(Nat), NEW b \in Seq(Nat), NEW t \in Seq(Nat),
           NEW k \in 0..Len(b)
    PROVE  (a \o SubSeq(b, 1, k)) \o (SubSeq(b, k + 1, Len(b)) \o t)
               = a \o (b \o t)
<1>1. SubSeq(b, 1, k) \in Seq(Nat) /\ SubSeq(b, k + 1, Len(b)) \in Seq(Nat)
  BY LenProperties, SubSeqProperties, Z3T(30)
<1>2. PICK x \in Seq(Nat), y \in Seq(Nat) : x = SubSeq(b, 1, k) /\ y = SubSeq(b, k + 1, Len(b))
  BY <1>1, Zenon
<1>3. x \o y = b
  BY <1>2, Split, Zenon
<1>4. a \in ByteSeq /\ x \in ByteSeq /\ y \in ByteSeq /\ t \in ByteSeq
  BY DEF ByteSeq
<1>5. Cat(Cat(a, x), Cat(y, t)) = Cat(a, Cat(Cat(x, y), t))
  BY <1>4, Reassociate
<1>. QED  BY <1>2, <1>3, <1>5, Zenon DEF Cat

Hops == {<<"src", "ebuf">>, <<"ebuf", "net">>, <<"net", "rcv">>,
         <<"rcv", "xbuf">>, <<"xbuf", "dst">>, <<"dst", "got">>}

LEMMA HopConserves ==
    ASSUME NEW l \in [Places -> Seq(Nat)], NEW m \in [Places -> Seq(Nat)],
           NEW from \in Places, NEW to \in Places, <<from, to>> \in Hops,
           NEW k \in 0..Len(l[from]), Hop(l, m, from, to, k)
    PROVE  Contents(m) = Contents(l)
<1>. USE DEF Hop
<1>. DEFINE T0 == <<>>
            T1 == l["src"]
            T2 == l["ebuf"] \o T1
            T3 == l["net"] \o T2
            T4 == l["rcv"] \o T3
            T5 == l["xbuf"] \o T4
<1>1. l \in [Places -> Seq(Nat)] /\ \A p \in Places : l[p] \in Seq(Nat)
  OBVIOUS
<1>2. /\ T0 \in Seq(Nat) /\ T1 \in Seq(Nat) /\ T2 \in Seq(Nat)
      /\ T3 \in Seq(Nat) /\ T4 \in Seq(Nat) /\ T5 \in Seq(Nat)
  BY <1>1, ConcatProperties DEF Places
<1>. HIDE DEF T0, T2, T3, T4, T5
<1>3. \A T \in Seq(Nat) :
          m[to] \o (m[from] \o T) = l[to] \o (l[from] \o T)
  <2>. TAKE T \in Seq(Nat)
  <2>1. PICK a \in Seq(Nat), b \in Seq(Nat) : a = l[to] /\ b = l[from]
    BY <1>1, Zenon
  <2>2. k \in 0..Len(b)
    BY <2>1
  <2>3. (a \o SubSeq(b, 1, k)) \o (SubSeq(b, k + 1, Len(b)) \o T) = a \o (b \o T)
    BY <2>2, Shift, Zenon
  <2>. QED  BY <2>1, <2>3
<1>4. CASE from = "dst" /\ to = "got"
  <2>1. m["got"] \o (m["dst"] \o T5) = l["got"] \o (l["dst"] \o T5)
    BY <1>2, <1>3, <1>4
  <2>. QED  BY <1>4, <2>1 DEF Contents, T5, T4, T3, T2, Places
<1>5. CASE from = "xbuf" /\ to = "dst"
  <2>1. m["dst"] \o (m["xbuf"] \o T4) = l["dst"] \o (l["xbuf"] \o T4)
    BY <1>2, <1>3, <1>5
  <2>. QED  BY <1>5, <2>1 DEF Contents, T4, T3, T2, Places
<1>6. CASE from = "rcv" /\ to = "xbuf"
  <2>1. m["xbuf"] \o (m["rcv"] \o T3) = l["xbuf"] \o (l["rcv"] \o T3)
    BY <1>2, <1>3, <1>6
  <2>. QED  BY <1>6, <2>1 DEF Contents, T3, T2, Places
<1>7. CASE from = "net" /\ to = "rcv"
  <2>1. m["rcv"] \o (m["net"] \o T2) = l["rcv"] \o (l["net"] \o T2)
    BY <1>2, <1>3, <1>7
  <2>. QED  BY <1>7, <2>1 DEF Contents, T2, Places
<1>8. CASE from = "ebuf" /\ to = "net"
  <2>1. m["net"] \o (m["ebuf"] \o T1) = l["net"] \o (l["ebuf"] \o T1)
    BY <1>2, <1>3, <1>8
  <2>. QED  BY <1>8, <2>1 DEF Contents, Places
<1>9. CASE from = "src" /\ to = "ebuf"
  <2>1. m["ebuf"] \o (m["src"] \o T0) = l["ebuf"] \o (l["src"] \o T0)
    BY <1>2, <1>3, <1>9
  <2>2. m["src"] \o T0 = m["src"] /\ l["src"] \o T0 = l["src"]
    BY <1>1, ConcatEmptySeq DEF Places, T0
  <2>. QED  BY <1>9, <2>1, <2>2 DEF Contents, Places
<1>. QED  BY <1>4, <1>5, <1>6, <1>7, <1>8, <1>9 DEF Hops

LEMMA CopyHops ==
    \A r \in Relays, d \in Lanes :
        <<In(r, d), Buf(r, d)>> \in Hops /\ <<Buf(r, d), Out(r, d)>> \in Hops
BY DEF Relays, Lanes, In, Buf, Out, Entry, Hops

LEMMA HopPlaces ==
    \A from, to : <<from, to>> \in Hops =>
        from \in Places /\ to \in Places /\ from # to
BY DEF Hops, Places

LEMMA MoveConserves ==
    ASSUME TypeOK, Conservation, NEW s \in Sessions, NEW d \in Lanes,
           NEW from, NEW to, <<from, to>> \in Hops,
           NEW k \in 0..Len(pipe[s][d][from]), Move(s, d, from, to, k),
           wrote' = wrote
    PROVE  Conservation'
<1>1. from \in Places /\ to \in Places /\ from # to
  BY HopPlaces
<1>2. /\ pipe' \in [Sessions -> [Lanes -> [Places -> Seq(Nat)]]]
      /\ Hop(pipe[s][d], pipe'[s][d], from, to, k)
      /\ \A t \in Sessions, e \in Lanes :
             <<t, e>> # <<s, d>> => pipe'[t][e] = pipe[t][e]
  BY <1>1, MoveEffect
<1>3. /\ pipe[s][d] \in [Places -> Seq(Nat)]
      /\ pipe'[s][d] \in [Places -> Seq(Nat)]
  BY <1>2 DEF TypeOK
<1>4. Contents(pipe'[s][d]) = Contents(pipe[s][d])
  BY <1>1, <1>2, <1>3, HopConserves
<1>5. ASSUME NEW t \in Sessions, NEW e \in Lanes
      PROVE  wrote'[t][e] = Contents(pipe'[t][e])
  <2>1. CASE <<t, e>> = <<s, d>>
    BY <1>4, <2>1 DEF Conservation
  <2>2. CASE <<t, e>> # <<s, d>>
    BY <1>2, <2>2 DEF Conservation
  <2>. QED  BY <2>1, <2>2
<1>. QED  BY <1>5 DEF Conservation

LEMMA AppendConserves ==
    ASSUME NEW l \in [Places -> Seq(Nat)], NEW m \in [Places -> Seq(Nat)],
           NEW w \in Seq(Nat),
           m["src"] = l["src"] \o w,
           \A p \in Places \ {"src"} : m[p] = l[p]
    PROVE  Contents(m) = Contents(l) \o w
<1>. DEFINE a == l["got"]
            b == l["dst"]
            c == l["xbuf"]
            d == l["rcv"]
            e == l["net"]
            f == l["ebuf"]
            g == l["src"]
            T2 == Cat(f, g)
            T3 == Cat(e, T2)
            T4 == Cat(d, T3)
            T5 == Cat(c, T4)
            T6 == Cat(b, T5)
<1>1. /\ a \in ByteSeq /\ b \in ByteSeq /\ c \in ByteSeq /\ d \in ByteSeq
      /\ e \in ByteSeq /\ f \in ByteSeq /\ g \in ByteSeq /\ w \in ByteSeq
  BY DEF Places, ByteSeq
<1>2. Contents(m) = a \o (b \o (c \o (d \o (e \o (f \o (g \o w))))))
  BY DEF Contents, Places
<1>3. Contents(l) = a \o (b \o (c \o (d \o (e \o (f \o g)))))
  BY DEF Contents
<1>. HIDE DEF a, b, c, d, e, f, g
<1>4. /\ T2 \in ByteSeq /\ T3 \in ByteSeq /\ T4 \in ByteSeq
      /\ T5 \in ByteSeq /\ T6 \in ByteSeq
  BY <1>1, Closed, Zenon
<1>5. Cat(f, Cat(g, w)) = Cat(T2, w)
  BY <1>1, Regroup
<1>. HIDE DEF T2
<1>6. Cat(e, Cat(T2, w)) = Cat(T3, w)
  BY <1>1, <1>4, Regroup
<1>. HIDE DEF T3
<1>7. Cat(d, Cat(T3, w)) = Cat(T4, w)
  BY <1>1, <1>4, Regroup
<1>. HIDE DEF T4
<1>8. Cat(c, Cat(T4, w)) = Cat(T5, w)
  BY <1>1, <1>4, Regroup
<1>. HIDE DEF T5
<1>9. Cat(b, Cat(T5, w)) = Cat(T6, w)
  BY <1>1, <1>4, Regroup
<1>. HIDE DEF T6
<1>10. Cat(a, Cat(T6, w)) = Cat(Cat(a, T6), w)
  BY <1>1, <1>4, Regroup
<1>11. Cat(a, Cat(b, Cat(c, Cat(d, Cat(e, Cat(f, Cat(g, w)))))))
           = Cat(Cat(a, Cat(b, Cat(c, Cat(d, Cat(e, Cat(f, g)))))), w)
  BY <1>5, <1>6, <1>7, <1>8, <1>9, <1>10 DEF T2, T3, T4, T5, T6
<1>. QED  BY <1>2, <1>3, <1>11, Zenon DEF Cat

LEMMA WriteConserves ==
    ASSUME TypeOK, Conservation, NEW s \in Sessions, NEW d \in Lanes,
           AppWrite(s, d)
    PROVE  Conservation'
<1>. DEFINE b == Len(wrote[s][d]) + 1
            l == pipe[s][d]
            m == pipe'[s][d]
<1>1. /\ l \in [Places -> Seq(Nat)]
      /\ l["src"] \in Seq(Nat)
      /\ wrote[s][d] \in Seq(Nat)
      /\ b \in Nat
  BY LenProperties DEF TypeOK, Places
<1>. HIDE DEF b
<1>2. /\ Append(wrote[s][d], b) = wrote[s][d] \o <<b>>
      /\ Append(l["src"], b) = l["src"] \o <<b>>
      /\ Append(l["src"], b) \in Seq(Nat)
      /\ <<b>> \in Seq(Nat)
  <2>. HIDE DEF l
  <2>1. \A x \in Seq(Nat) : Append(x, b) = x \o <<b>>
    BY <1>1, AppendIsConcat
  <2>2. \A x \in Seq(Nat) : Append(x, b) \in Seq(Nat)
    BY <1>1, AppendProperties
  <2>3. <<b>> \in Seq(Nat)
    BY <1>1
  <2>. QED  BY <1>1, <2>1, <2>2, <2>3, Zenon
<1>3. /\ pipe' = [pipe EXCEPT ![s][d]["src"] = Append(l["src"], b)]
      /\ wrote' = [wrote EXCEPT ![s][d] = Append(wrote[s][d], b)]
  BY DEF AppWrite, b, TypeOK
<1>4. /\ m["src"] = l["src"] \o <<b>>
      /\ \A p \in Places \ {"src"} : m[p] = l[p]
      /\ m \in [Places -> Seq(Nat)]
      /\ \A t \in Sessions, e \in Lanes :
             <<t, e>> # <<s, d>> => pipe'[t][e] = pipe[t][e]
  BY <1>1, <1>2, <1>3 DEF TypeOK, Places
<1>5. /\ wrote'[s][d] = wrote[s][d] \o <<b>>
      /\ \A t \in Sessions, e \in Lanes :
             <<t, e>> # <<s, d>> => wrote'[t][e] = wrote[t][e]
  BY <1>1, <1>2, <1>3 DEF TypeOK
<1>6. Contents(m) = Contents(l) \o <<b>>
  <2>. HIDE DEF l, m
  <2>. QED  BY <1>1, <1>2, <1>4, AppendConserves
<1>7. ASSUME NEW t \in Sessions, NEW e \in Lanes
      PROVE  wrote'[t][e] = Contents(pipe'[t][e])
  <2>1. CASE <<t, e>> = <<s, d>>
    BY <1>5, <1>6, <2>1 DEF Conservation
  <2>2. CASE <<t, e>> # <<s, d>>
    <3>1. pipe'[t][e] = pipe[t][e] /\ wrote'[t][e] = wrote[t][e]
      BY <1>4, <1>5, <2>2
    <3>. QED  BY <3>1 DEF Conservation
  <2>. QED  BY <2>1, <2>2
<1>. QED  BY <1>7 DEF Conservation

(* Every other step leaves the bytes where they are.                       *)
LEMMA OnlyMoves ==
    ASSUME TypeOK, NEW s \in Sessions,
           Fly(s) \/ Roost(s) \/ (\E r \in Relays : ConnLost(s, r))
               \/ LinkDown(s) \/ Processes
    PROVE  UNCHANGED <<wrote, pipe>>
BY DEF Fly, PreparePigeon, Connect, ConnectErr, OpenBi, OpenBiErr,
       Roost, AcceptBi, AcceptBiErr, DialSshd, DialSshdErr, Goto, Drop,
       ConnLost, LinkDown, Processes, CloseAfter, MainReturns, Crash,
       RestartRoost

LEMMA CopyConserves ==
    ASSUME TypeOK, Conservation, NEW s \in Sessions, Copy(s)
    PROVE  Conservation'
<1>1. PICK r \in Relays, d \in Lanes :
          CopyRead(s, r, d) \/ CopyWrite(s, r, d) \/ CopyReturn(s, r, d)
  BY DEF Copy
<1>2. CASE CopyRead(s, r, d)
  <2>1. PICK k \in 0..Len(pipe[s][d][In(r, d)]) :
            Move(s, d, In(r, d), Buf(r, d), k)
    BY <1>2, ReadBound
  <2>. QED  BY <1>2, <2>1, CopyHops, MoveConserves DEF CopyRead
<1>3. CASE CopyWrite(s, r, d)
  <2>1. PICK k \in 0..Len(pipe[s][d][Buf(r, d)]) :
            Move(s, d, Buf(r, d), Out(r, d), k)
    BY <1>3, WriteBound
  <2>. QED  BY <1>3, <2>1, CopyHops, MoveConserves DEF CopyWrite
<1>4. CASE CopyReturn(s, r, d)
  BY <1>4 DEF Conservation, CopyReturn, Drop
<1>. QED  BY <1>1, <1>2, <1>3, <1>4

LEMMA TransmitConserves ==
    ASSUME TypeOK, Conservation, NEW s \in Sessions, NEW d \in Lanes,
           Transmit(s, d)
    PROVE  Conservation'
<1>1. PICK k \in 0..Len(pipe[s][d]["net"]) : Move(s, d, "net", "rcv", k)
  BY LenProperties DEF Transmit, Held, TypeOK, Places
<1>. QED  BY <1>1, MoveConserves DEF Transmit, Hops

LEMMA ReadConserves ==
    ASSUME TypeOK, Conservation, NEW s \in Sessions, NEW d \in Lanes,
           AppRead(s, d)
    PROVE  Conservation'
<1>1. Len(pipe[s][d]["dst"]) \in 0..Len(pipe[s][d]["dst"])
  BY LenProperties DEF TypeOK, Places
<1>. QED  BY <1>1, MoveConserves DEF AppRead, Held, Hops

(* No byte is lost, repeated or overtaken inside a lane.                   *)
THEOREM BytesConserved == Spec => []Conservation
<1>1. Init => Conservation
  <2>. SUFFICES ASSUME Init
                PROVE  Conservation
    OBVIOUS
  <2>1. <<>> \o <<>> = <<>>
    BY ConcatEmptySeq
  <2>2. ASSUME NEW s \in Sessions, NEW d \in Lanes
        PROVE  wrote[s][d] = Contents(pipe[s][d])
    BY <2>1 DEF Init, Contents, Places
  <2>. QED  BY <2>2 DEF Conservation
<1>2. TypeOK /\ Conservation /\ [Next]_vars => Conservation'
  <2>. SUFFICES ASSUME TypeOK, Conservation, [Next]_vars
                PROVE  Conservation'
    OBVIOUS
  <2>1. CASE UNCHANGED <<wrote, pipe>>
    BY <2>1 DEF Conservation
  <2>2. ASSUME NEW s \in Sessions, Network(s)
        PROVE  Conservation'
    <3>1. CASE \E d \in Lanes : Transmit(s, d)
      BY <3>1, TransmitConserves
    <3>2. CASE \E d \in Lanes : FinArrives(s, d)
      BY <2>1, <3>2 DEF FinArrives
    <3>. QED  BY <2>1, <2>2, <3>1, <3>2, OnlyMoves DEF Network
  <2>3. ASSUME NEW s \in Sessions, Programs(s)
        PROVE  Conservation'
    <3>1. CASE \E d \in Lanes : AppWrite(s, d)
      BY <3>1, WriteConserves
    <3>2. CASE \E d \in Lanes : AppRead(s, d)
      BY <3>2, ReadConserves
    <3>3. CASE \E r \in Relays : AppShut(s, r) \/ AppClose(s, r)
      BY <2>1, <3>3 DEF AppShut, AppClose
    <3>. QED  BY <2>3, <3>1, <3>2, <3>3 DEF Programs
  <2>4. CASE Processes
    BY <2>1, <2>4 DEF Processes, CloseAfter, MainReturns, Crash, RestartRoost
  <2>5. CASE UNCHANGED vars
    BY <2>1, <2>5 DEF vars
  <2>. QED
    BY <2>1, <2>2, <2>3, <2>4, <2>5, OnlyMoves, CopyConserves DEF Next
<1>. QED  BY <1>1, <1>2, TypeCorrect, PTL DEF Spec

(* What a program has read is the first part of what its peer wrote.       *)
THEOREM NothingMissing == Spec => []NoHoles
<1>1. TypeOK /\ Conservation => NoHoles
  <2>. SUFFICES ASSUME TypeOK, Conservation, NEW s \in Sessions, NEW d \in Lanes
                PROVE  /\ Len(Got(s, d)) <= Len(wrote[s][d])
                       /\ Got(s, d) = SubSeq(wrote[s][d], 1, Len(Got(s, d)))
    BY DEF NoHoles
  <2>. DEFINE g == Got(s, d)
              l == pipe[s][d]
              rest == l["dst"] \o (l["xbuf"] \o (l["rcv"]
                          \o (l["net"] \o (l["ebuf"] \o l["src"]))))
  <2>1. /\ g \in Seq(Nat)
        /\ l["dst"] \in Seq(Nat) /\ l["xbuf"] \in Seq(Nat)
        /\ l["rcv"] \in Seq(Nat) /\ l["net"] \in Seq(Nat)
        /\ l["ebuf"] \in Seq(Nat) /\ l["src"] \in Seq(Nat)
    BY DEF TypeOK, Got, Places
  <2>2. rest \in Seq(Nat)
    BY <2>1, ConcatProperties
  <2>3. wrote[s][d] = g \o rest
    BY DEF Conservation, Contents, Got
  <2>. HIDE DEF g, rest
  <2>4. Len(g) \in Nat /\ Len(g) <= Len(g \o rest)
    BY <2>1, <2>2, ConcatProperties, LenProperties
  <2>5. SubSeq(g \o rest, 1, Len(g)) = g
    <3>1. CASE Len(g) = 0
      BY <2>1, <3>1, SubSeqEmpty, EmptySeq
    <3>2. CASE Len(g) # 0
      <4>1. 1 \in 1..Len(g) /\ Len(g) \in 1..Len(g)
        BY <2>4, <3>2
      <4>2. SubSeq(g \o rest, 1, Len(g)) = SubSeq(g, 1, Len(g))
        BY <2>1, <2>2, <4>1, SubSeqOfConcat1
      <4>. QED  BY <2>1, <4>2, SubSeqFull
    <3>. QED  BY <3>1, <3>2
  <2>. QED  BY <2>3, <2>4, <2>5 DEF g
<1>. QED  BY <1>1, TypeCorrect, BytesConserved, PTL

(***************************************************************************)
(* Why a session ends.  EndHasCause is not inductive: a copy returns on    *)
(* what it sees of the connection, and Orderly says where that came from.  *)
(***************************************************************************)
LEMMA FlyOrderly ==
    ASSUME TypeOK, Orderly, NEW s \in Sessions, Fly(s)
    PROVE  Orderly'
<1>. USE DEF Orderly, TypeOK, Relays, Other, Outbound
<1>1. CASE PreparePigeon(s)
  BY <1>1 DEF PreparePigeon, Goto
<1>2. CASE Connect(s)
  BY <1>2 DEF Connect
<1>3. CASE ConnectErr(s)
  BY <1>3 DEF ConnectErr, Drop
<1>4. CASE OpenBi(s)
  BY <1>4 DEF OpenBi, Goto
<1>5. CASE OpenBiErr(s)
  BY <1>5 DEF OpenBiErr, Drop
<1>. QED  BY <1>1, <1>2, <1>3, <1>4, <1>5 DEF Fly

LEMMA RoostOrderly ==
    ASSUME TypeOK, Orderly, NEW s \in Sessions, Roost(s)
    PROVE  Orderly'
<1>. USE DEF Orderly, TypeOK, Relays, Other, Outbound
<1>1. CASE AcceptBi(s)
  BY <1>1 DEF AcceptBi, Goto
<1>2. CASE AcceptBiErr(s)
  BY <1>2 DEF AcceptBiErr, Drop
<1>3. CASE DialSshd(s)
  BY <1>3 DEF DialSshd, Goto
<1>4. CASE DialSshdErr(s)
  BY <1>4 DEF DialSshdErr, Drop
<1>. QED  BY <1>1, <1>2, <1>3, <1>4 DEF Roost

LEMMA CopyOrderly ==
    ASSUME TypeOK, Orderly, NEW s \in Sessions, Copy(s)
    PROVE  Orderly'
<1>1. PICK r \in Relays, d \in Lanes :
          CopyRead(s, r, d) \/ CopyWrite(s, r, d) \/ CopyReturn(s, r, d)
  BY DEF Copy
<1>2. CASE CopyRead(s, r, d) \/ CopyWrite(s, r, d)
  BY <1>2 DEF Orderly, CopyRead, CopyWrite
<1>3. CASE CopyReturn(s, r, d)
  BY <1>3 DEF Orderly, TypeOK, Relays, Other, Outbound, CopyReturn, Drop
<1>. QED  BY <1>1, <1>2, <1>3

LEMMA NetworkOrderly ==
    ASSUME TypeOK, Orderly, NEW s \in Sessions, Network(s)
    PROVE  Orderly'
<1>1. CASE \E d \in Lanes : Transmit(s, d)
  BY <1>1 DEF Orderly, Transmit
<1>2. CASE \E d \in Lanes : FinArrives(s, d)
  BY <1>2 DEF Orderly, TypeOK, Relays, Lanes, Other, Outbound, FinArrives
<1>3. CASE \E r \in Relays : ConnLost(s, r)
  BY <1>3 DEF Orderly, TypeOK, Relays, Views, Other, Outbound, ConnLost
<1>4. CASE LinkDown(s)
  BY <1>4 DEF Orderly, TypeOK, LinkDown
<1>. QED  BY <1>1, <1>2, <1>3, <1>4 DEF Network

LEMMA ProcessesOrderly ==
    ASSUME TypeOK, Orderly, Processes
    PROVE  Orderly'
<1>. USE DEF Orderly, TypeOK, Relays, Other, Outbound, Active
<1>1. CASE \E r \in Relays : CloseAfter(r)
  BY <1>1 DEF CloseAfter
<1>2. CASE \E r \in Relays : MainReturns(r)
  BY <1>2 DEF MainReturns, Kill
<1>3. CASE \E r \in Relays : Crash(r)
  BY <1>3 DEF Crash, Kill
<1>4. CASE RestartRoost
  BY <1>4 DEF RestartRoost
<1>. QED  BY <1>1, <1>2, <1>3, <1>4 DEF Processes

(* The two relays' views of a connection stay consistent.                  *)
THEOREM ViewsAgree == Spec => []Orderly
<1>1. Init => Orderly
  <2>. SUFFICES ASSUME Init, NEW s \in Sessions
                PROVE  Orderly!(s)
    BY DEF Orderly
  <2>1. \A r \in Relays : ph[s][r] = "idle" /\ conn[s][r] = "none"
    BY DEF Init
  <2>2. \A r \in Relays : fin[s][Outbound(r)] = "no"
    BY LaneEnds DEF Init
  <2>. QED  BY <2>1, <2>2 DEF Relays
<1>2. TypeOK /\ Orderly /\ [Next]_vars => Orderly'
  <2>. SUFFICES ASSUME TypeOK, Orderly, [Next]_vars
                PROVE  Orderly'
    OBVIOUS
  <2>1. ASSUME NEW s \in Sessions, Programs(s)
        PROVE  Orderly'
    BY <2>1 DEF Orderly, Programs, AppWrite, AppRead, AppShut, AppClose
  <2>2. CASE UNCHANGED vars
    BY <2>2 DEF Orderly, vars
  <2>. QED
    BY <2>1, <2>2, FlyOrderly, RoostOrderly, CopyOrderly, NetworkOrderly,
       ProcessesOrderly DEF Next
<1>. QED  BY <1>1, <1>2, TypeCorrect, PTL DEF Spec

(* What never changes back.                                                *)
Settled(s) ==
    /\ \A d \in Lanes : (eof[s][d] => eof'[s][d]) /\ (deaf[s][d] => deaf'[s][d])
    /\ ~link[s] => ~link'[s]
    /\ \A r \in Relays :
           /\ ph[s][r] \in Over => ph'[s][r] = ph[s][r]
           /\ conn[s][r] \in {"shutdown", "gone"} => conn'[s][r] = conn[s][r]

LEMMA GotoSettled ==
    ASSUME TypeOK, NEW s \in Sessions, NEW t \in Sessions, NEW r \in Relays,
           NEW phase, ph[t][r] \notin Over, Goto(t, r, phase)
    PROVE  Settled(s)
BY DEF TypeOK, Settled, Goto

LEMMA DropSettled ==
    ASSUME TypeOK, NEW s \in Sessions, NEW t \in Sessions, NEW r \in Relays,
           NEW outcome, ph[t][r] \notin Over, Drop(t, r, outcome)
    PROVE  Settled(s)
BY DEF TypeOK, Settled, Drop

LEMMA TasksSettled ==
    ASSUME TypeOK, Orderly, NEW s \in Sessions, NEW t \in Sessions,
           Fly(t) \/ Roost(t) \/ Copy(t)
    PROVE  Settled(s)
<1>. "fly" \in Relays /\ "roost" \in Relays
  BY DEF Relays
<1>1. CASE PreparePigeon(t) \/ OpenBi(t)
  BY <1>1, GotoSettled DEF PreparePigeon, OpenBi, Over
<1>2. CASE AcceptBi(t) \/ DialSshd(t)
  BY <1>2, GotoSettled DEF AcceptBi, DialSshd, Over
<1>3. CASE ConnectErr(t) \/ OpenBiErr(t)
  BY <1>3, DropSettled DEF ConnectErr, OpenBiErr, Over
<1>4. CASE AcceptBiErr(t) \/ DialSshdErr(t)
  BY <1>4, DropSettled DEF AcceptBiErr, DialSshdErr, Over
<1>5. CASE Connect(t)
  BY <1>5 DEF Connect, TypeOK, Orderly, Settled, Relays, Over
<1>6. CASE Copy(t)
  <2>1. PICK r \in Relays, d \in Lanes :
            CopyRead(t, r, d) \/ CopyWrite(t, r, d) \/ CopyReturn(t, r, d)
    BY <1>6 DEF Copy
  <2>2. CASE CopyRead(t, r, d) \/ CopyWrite(t, r, d)
    BY <2>2 DEF CopyRead, CopyWrite, Settled
  <2>3. CASE CopyReturn(t, r, d)
    BY <2>3, DropSettled DEF CopyReturn, Over
  <2>. QED  BY <2>1, <2>2, <2>3
<1>. QED  BY <1>1, <1>2, <1>3, <1>4, <1>5, <1>6 DEF Fly, Roost

LEMMA OthersSettled ==
    ASSUME TypeOK, NEW s \in Sessions, NEW t \in Sessions,
           Network(t) \/ Programs(t) \/ Processes
    PROVE  Settled(s)
<1>1. CASE Network(t)
  <2>1. CASE \E d \in Lanes : Transmit(t, d) \/ FinArrives(t, d)
    BY <2>1 DEF Transmit, FinArrives, Settled
  <2>2. CASE \E r \in Relays : ConnLost(t, r)
    BY <2>2 DEF ConnLost, TypeOK, Settled
  <2>3. CASE LinkDown(t)
    BY <2>3 DEF LinkDown, TypeOK, Settled
  <2>. QED  BY <1>1, <2>1, <2>2, <2>3 DEF Network
<1>2. CASE Programs(t)
  <2>1. CASE \E d \in Lanes : AppWrite(t, d) \/ AppRead(t, d)
    BY <2>1 DEF AppWrite, AppRead, Settled
  <2>2. CASE \E r \in Relays : AppShut(t, r)
    BY <2>2, LaneEnds DEF AppShut, TypeOK, Settled
  <2>3. CASE \E r \in Relays : AppClose(t, r)
    BY <2>3, LaneEnds DEF AppClose, TypeOK, Settled
  <2>. QED  BY <1>2, <2>1, <2>2, <2>3 DEF Programs
<1>3. CASE Processes
  <2>1. ASSUME NEW r \in Relays, Kill(r)
        PROVE  \A q \in Relays : ph[s][q] \in Over => ph'[s][q] = ph[s][q]
    BY <2>1 DEF Kill, TypeOK, Active, Over
  <2>2. CASE \E r \in Relays : CloseAfter(r)
    BY <2>2 DEF CloseAfter, TypeOK, Settled
  <2>3. CASE \E r \in Relays : MainReturns(r)
    BY <2>1, <2>3 DEF MainReturns, Settled
  <2>4. CASE \E r \in Relays : Crash(r)
    BY <2>1, <2>4 DEF Crash, TypeOK, Settled
  <2>5. CASE RestartRoost
    BY <2>5 DEF RestartRoost, Settled
  <2>. QED  BY <1>3, <2>2, <2>3, <2>4, <2>5 DEF Processes
<1>. QED  BY <1>1, <1>2, <1>3

LEMMA StepSettled ==
    ASSUME TypeOK, Orderly, NEW s \in Sessions, [Next]_vars
    PROVE  Settled(s)
<1>1. CASE UNCHANGED vars
  BY <1>1 DEF vars, Settled
<1>. QED  BY <1>1, TasksSettled, OthersSettled DEF Next

LEMMA CauseStays ==
    ASSUME TypeOK, Orderly, NEW s \in Sessions, Cause(s), [Next]_vars
    PROVE  Cause(s)'
<1>1. Settled(s)
  BY StepSettled
<1>2. CASE (\E d \in Lanes : eof[s][d] \/ deaf[s][d]) \/ ~link[s]
  BY <1>1, <1>2 DEF Settled, Cause
<1>3. CASE \E r \in Relays : \/ ph[s][r] \in {"failed", "killed"}
                            \/ conn[s][r] \in {"shutdown", "gone"}
  BY <1>1, <1>3 DEF Settled, Cause, Over
<1>. QED  BY <1>2, <1>3 DEF Cause

(* A relay that finds its connection no longer open can name the cause.    *)
LEMMA LostHasCause ==
    ASSUME TypeOK, Orderly, EndHasCause, NEW s \in Sessions, NEW r \in Relays,
           ph[s][r] = "bridging", conn[s][r] # "open"
    PROVE  Cause(s)
<1>. DEFINE q == Other(r)
<1>0. q \in Relays
  BY LaneEnds
<1>1. conn[s][r] # "none"
  BY DEF Orderly, Relays
<1>2. conn[s][r] # "closed"
  BY DEF Orderly
<1>3. CASE conn[s][r] \in {"shutdown", "gone"}
  BY <1>3 DEF Cause
<1>4. CASE conn[s][r] = "lost"
  <2>1. ~link[s] \/ conn[s][q] \in {"closed", "shutdown", "gone"}
    BY <1>4 DEF Orderly
  <2>2. conn[s][q] = "closed" => ph[s][q] \in {"ended", "failed"}
    BY <1>0 DEF Orderly
  <2>. HIDE DEF q
  <2>. QED  BY <1>0, <2>1, <2>2 DEF EndHasCause, Cause
<1>. QED  BY <1>1, <1>2, <1>3, <1>4 DEF TypeOK, Views

LEMMA ReturnHasCause ==
    ASSUME TypeOK, Orderly, EndHasCause, NEW s \in Sessions,
           NEW r \in Relays, NEW d \in Lanes, CopyReturn(s, r, d)
    PROVE  Cause(s)
<1>1. CASE conn[s][r] # "open"
  BY <1>1, LostHasCause DEF CopyReturn
<1>2. CASE eof[s][d] \/ deaf[s][d]
  BY <1>2 DEF Cause
<1>3. CASE r = Exit(d) /\ fin[s][d] = "seen"
  <2>1. ph[s][Entry(d)] \in {"ended", "failed"}
    BY <1>3 DEF Orderly, Relays, Lanes, Entry, Outbound
  <2>. QED  BY <2>1, LaneEnds DEF EndHasCause, Cause
<1>4. CASE conn[s][r] = "shutdown"
  BY <1>4 DEF Cause
<1>. QED
  BY <1>1, <1>2, <1>3, <1>4
     DEF CopyReturn, ReadOver, WriteOver, SocketReset, Exit, Entry, Other,
         Relays, Lanes

LEMMA GotoPhase ==
    ASSUME TypeOK, NEW s \in Sessions, NEW r \in Relays,
           NEW t \in Sessions, NEW q \in Relays, NEW phase, Goto(t, q, phase),
           ph'[s][r] # ph[s][r]
    PROVE  s = t /\ r = q /\ ph'[s][r] = phase
BY DEF TypeOK, Goto

LEMMA DropPhase ==
    ASSUME TypeOK, NEW s \in Sessions, NEW r \in Relays,
           NEW t \in Sessions, NEW q \in Relays, NEW outcome,
           Drop(t, q, outcome), ph'[s][r] # ph[s][r]
    PROVE  s = t /\ r = q /\ ph'[s][r] = outcome
BY DEF TypeOK, Drop

(* No bridge ends of its own accord.                                       *)
THEOREM EndsForACause == Spec => []EndHasCause
<1>1. Init => EndHasCause
  BY DEF Init, EndHasCause
<1>2. TypeOK /\ Orderly /\ EndHasCause /\ [Next]_vars => EndHasCause'
  <2>. SUFFICES ASSUME TypeOK, Orderly, EndHasCause, [Next]_vars,
                       NEW s \in Sessions, NEW r \in Relays,
                       ph'[s][r] = "ended"
                PROVE  Cause(s)'
    BY DEF EndHasCause
  <2>1. CASE ph[s][r] = "ended"
    BY <2>1, CauseStays DEF EndHasCause
  <2>2. CASE ph[s][r] # "ended"
    <3>1. PICK q \in Relays, d \in Lanes : CopyReturn(s, q, d)
      <4>1. ASSUME NEW t \in Sessions, Fly(t)
            PROVE  FALSE
        <5>1. CASE PreparePigeon(t) \/ OpenBi(t)
          BY <2>2, <5>1, GotoPhase DEF PreparePigeon, OpenBi, Relays
        <5>2. CASE ConnectErr(t) \/ OpenBiErr(t)
          BY <2>2, <5>2, DropPhase DEF ConnectErr, OpenBiErr, Relays
        <5>3. CASE Connect(t)
          BY <2>2, <5>3 DEF Connect, TypeOK
        <5>. QED  BY <4>1, <5>1, <5>2, <5>3 DEF Fly
      <4>2. ASSUME NEW t \in Sessions, Roost(t)
            PROVE  FALSE
        <5>1. CASE AcceptBi(t) \/ DialSshd(t)
          BY <2>2, <5>1, GotoPhase DEF AcceptBi, DialSshd, Relays
        <5>2. CASE AcceptBiErr(t) \/ DialSshdErr(t)
          BY <2>2, <5>2, DropPhase DEF AcceptBiErr, DialSshdErr, Relays
        <5>. QED  BY <4>2, <5>1, <5>2 DEF Roost
      <4>3. ASSUME NEW t \in Sessions, Copy(t)
            PROVE  \E q \in Relays, d \in Lanes : CopyReturn(s, q, d)
        <5>1. PICK q \in Relays, d \in Lanes :
                  CopyRead(t, q, d) \/ CopyWrite(t, q, d) \/ CopyReturn(t, q, d)
          BY <4>3 DEF Copy
        <5>2. ~CopyRead(t, q, d) /\ ~CopyWrite(t, q, d)
          BY <2>2 DEF CopyRead, CopyWrite
        <5>3. t = s
          BY <2>2, <5>1, <5>2, DropPhase DEF CopyReturn
        <5>. QED  BY <5>1, <5>2, <5>3
      <4>4. ASSUME NEW t \in Sessions, Network(t) \/ Programs(t)
            PROVE  ph' = ph
        BY <4>4 DEF Network, Transmit, FinArrives, ConnLost, LinkDown,
               Programs, AppWrite, AppRead, AppShut, AppClose
      <4>5. ~Processes
        BY <2>2 DEF Processes, CloseAfter, MainReturns, Crash, RestartRoost,
               Kill, TypeOK
      <4>6. ~(UNCHANGED vars)
        BY <2>2 DEF vars
      <4>. QED  BY <2>2, <4>1, <4>2, <4>3, <4>4, <4>5, <4>6 DEF Next
    <3>. QED  BY <3>1, ReturnHasCause, CauseStays
  <2>. QED  BY <2>1, <2>2
<1>. QED  BY <1>1, <1>2, TypeCorrect, ViewsAgree, PTL DEF Spec
=============================================================================
