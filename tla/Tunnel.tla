------------------------------- MODULE Tunnel -------------------------------
(***************************************************************************)
(* The data path of pigeons: `pigeons fly` on the client's machine,        *)
(* `pigeons roost` on the server's, and the QUIC connection between them   *)
(* (src/src/tunnel.rs, src/src/protocol.rs).                               *)
(*                                                                         *)
(* A session is one SSH connection.  Its bytes cross two relays in each    *)
(* direction (a lane):                                                     *)
(*                                                                         *)
(*   lane "up":    ssh  -> fly   -> QUIC -> roost -> sshd                  *)
(*   lane "down":  sshd -> roost -> QUIC -> fly   -> ssh                   *)
(*                                                                         *)
(* and on the way sit in seven places in turn:                             *)
(*                                                                         *)
(*   src   the local socket (or stdin) between the writing program and     *)
(*         the first relay                                                 *)
(*   ebuf  the `buf` of the first relay's copy_flush                       *)
(*   net   in flight on the QUIC stream                                    *)
(*   rcv   received by the second relay's endpoint, not yet read           *)
(*   xbuf  the `buf` of the second relay's copy_flush                      *)
(*   dst   the local socket (or stdout) towards the reading program        *)
(*   got   read by that program                                            *)
(*                                                                         *)
(* What is lost when a relay ends is never erased: it stays in a place     *)
(* nothing can leave any more, so that every byte is accounted for.        *)
(***************************************************************************)
EXTENDS Naturals, Sequences

CONSTANTS Sessions,   \* SSH connections, each used once
          Stdio,      \* TRUE: `fly --stdio` (one session per process); FALSE: `fly`
          ChunkSize,  \* most bytes one read returns: copy_flush's 8 KiB buffer
          Cap,        \* bytes a socket or a QUIC stream holds before writes block
          MaxBytes,   \* bound on the bytes a program writes, per session and lane
          Faults      \* what may go wrong: links, crashes, restarts

Relays == {"fly", "roost"}
Lanes  == {"up", "down"}

ASSUME ConstantsOK ==
    /\ Stdio \in BOOLEAN
    /\ Stdio => \A s, t \in Sessions : s = t
    /\ ChunkSize \in Nat \ {0}
    /\ Cap \in Nat \ {0}
    /\ MaxBytes \in [Sessions -> [Lanes -> Nat]]
    /\ Faults \subseteq {"link", "crash", "restart"}

Places == {"src", "ebuf", "net", "rcv", "xbuf", "dst", "got"}

Other(r) == IF r = "fly" THEN "roost" ELSE "fly"
Back(d)  == IF d = "up" THEN "down" ELSE "up"

(* The lane whose local end relay r reads, and the relays of a lane.       *)
Outbound(r) == IF r = "fly" THEN "up" ELSE "down"
Entry(d)    == IF d = "up" THEN "fly" ELSE "roost"
Exit(d)     == Other(Entry(d))

VARIABLES
    proc,   \* the two processes: up, closing (Tunnel::close), down
    ph,     \* where a session's task is, in each relay
    conn,   \* each relay's own view of the session's QUIC connection
    link,   \* the network still carries the session's packets
    fin,    \* end of stream: not sent, sent, seen by the second relay
    eof,    \* the writing program has shut the lane down
    deaf,   \* the reading program has closed its socket
    wrote,  \* everything the writing program ever wrote into the lane
    pipe    \* what is in each place of the lane

vars == <<proc, ph, conn, link, fin, eof, deaf, wrote, pipe>>

Active == {"connecting", "opening", "accepting", "dialing", "bridging"}
Over   == {"ended", "failed", "killed"}
Phases == {"idle"} \cup Active \cup Over
Views  == {"none", "open", "closed", "shutdown", "gone", "lost"}

TypeOK ==
    /\ proc \in [Relays -> {"up", "closing", "down"}]
    /\ ph \in [Sessions -> [Relays -> Phases]]
    /\ conn \in [Sessions -> [Relays -> Views]]
    /\ link \in [Sessions -> BOOLEAN]
    /\ fin \in [Sessions -> [Lanes -> {"no", "sent", "seen"}]]
    /\ eof \in [Sessions -> [Lanes -> BOOLEAN]]
    /\ deaf \in [Sessions -> [Lanes -> BOOLEAN]]
    /\ wrote \in [Sessions -> [Lanes -> Seq(Nat)]]
    /\ pipe \in [Sessions -> [Lanes -> [Places -> Seq(Nat)]]]

Init ==
    /\ proc = [r \in Relays |-> "up"]
    /\ ph = [s \in Sessions |-> [r \in Relays |-> "idle"]]
    /\ conn = [s \in Sessions |-> [r \in Relays |-> "none"]]
    /\ link = [s \in Sessions |-> TRUE]
    /\ fin = [s \in Sessions |-> [d \in Lanes |-> "no"]]
    /\ eof = [s \in Sessions |-> [d \in Lanes |-> FALSE]]
    /\ deaf = [s \in Sessions |-> [d \in Lanes |-> FALSE]]
    /\ wrote = [s \in Sessions |-> [d \in Lanes |-> <<>>]]
    /\ pipe = [s \in Sessions |-> [d \in Lanes |-> [p \in Places |-> <<>>]]]

(***************************************************************************)
(* Helpers.                                                                *)
(***************************************************************************)
Least(m, n) == IF m <= n THEN m ELSE n

Got(s, d) == pipe[s][d]["got"]

(* The first k bytes of one place go to the end of another.                *)
Move(s, d, from, to, k) ==
    pipe' = [pipe EXCEPT ![s][d][from] = SubSeq(@, k + 1, Len(@)),
                         ![s][d][to] = @ \o SubSeq(pipe[s][d][from], 1, k)]

(* Relay r holds its local socket open.  A `fly --stdio` process holds     *)
(* stdin and stdout for as long as it lives.                               *)
LocalOpen(s, r) ==
    IF r = "fly" /\ Stdio
    THEN ph[s][r] # "idle" /\ proc[r] # "down"
    ELSE ph[s][r] \in (IF r = "fly" THEN Active ELSE {"bridging"})

(* Mutant of Drop: the task ends with a clone of the streams and of the    *)
(* connection kept elsewhere.                                              *)
DropLeaks(s, r, outcome) ==
    /\ ph' = [ph EXCEPT ![s][r] = outcome]
    /\ UNCHANGED <<proc, conn, link, fin, eof, deaf, wrote, pipe>>

(* The session's task in relay r returns and drops what it owns: both copy *)
(* buffers, the local socket, the send stream (quinn finishes it) and the  *)
(* last handle on the connection (quinn closes it).  Neither the finish    *)
(* nor the close waits for bytes in flight.                                *)
Drop(s, r, outcome) ==
    /\ ph' = [ph EXCEPT ![s][r] = outcome]
    /\ conn' = [conn EXCEPT ![s][r] = IF @ = "open" THEN "closed" ELSE @]
    /\ fin' = [fin EXCEPT ![s][Outbound(r)] =
                   IF conn[s][r] = "open" THEN "sent" ELSE @]
    /\ UNCHANGED <<proc, link, eof, deaf, wrote, pipe>>

Goto(s, r, phase) ==
    /\ ph' = [ph EXCEPT ![s][r] = phase]
    /\ UNCHANGED <<proc, conn, link, fin, eof, deaf, wrote, pipe>>

(***************************************************************************)
(* fly: prepare_pigeon spawns a task per accepted local connection;        *)
(* bridge_connection (or fly_stdio) connects and opens one stream.         *)
(***************************************************************************)
PreparePigeon(s) ==
    /\ ph[s]["fly"] = "idle"
    /\ proc["fly"] = "up"
    /\ Goto(s, "fly", "connecting")

(* The handshake completes: the roost's router spawns the handler.         *)
Connect(s) ==
    /\ ph[s]["fly"] = "connecting"
    /\ proc["fly"] = "up"
    /\ proc["roost"] = "up"
    /\ link[s]
    /\ ph' = [ph EXCEPT ![s] = [r \in Relays |->
                  IF r = "fly" THEN "opening" ELSE "accepting"]]
    /\ conn' = [conn EXCEPT ![s] = [r \in Relays |-> "open"]]
    /\ UNCHANGED <<proc, link, fin, eof, deaf, wrote, pipe>>

ConnectErr(s) ==
    /\ ph[s]["fly"] = "connecting"
    /\ Drop(s, "fly", "failed")

OpenBi(s) ==
    /\ ph[s]["fly"] = "opening"
    /\ conn[s]["fly"] = "open"
    /\ Goto(s, "fly", "bridging")

OpenBiErr(s) ==
    /\ ph[s]["fly"] = "opening"
    /\ conn[s]["fly"] # "open"
    /\ Drop(s, "fly", "failed")

(***************************************************************************)
(* roost: PigeonsProtocol::accept.  open_bi puts nothing on the wire, so   *)
(* accept_bi returns only once a byte or the end of the stream arrives.    *)
(***************************************************************************)
StreamSeen(s) == pipe[s]["up"]["rcv"] # <<>> \/ fin[s]["up"] = "seen"

AcceptBi(s) ==
    /\ ph[s]["roost"] = "accepting"
    /\ StreamSeen(s)
    /\ Goto(s, "roost", "dialing")

AcceptBiErr(s) ==
    /\ ph[s]["roost"] = "accepting"
    /\ ~StreamSeen(s)
    /\ conn[s]["roost"] # "open"
    /\ Drop(s, "roost", "failed")

DialSshd(s) ==
    /\ ph[s]["roost"] = "dialing"
    /\ Goto(s, "roost", "bridging")

DialSshdErr(s) ==
    /\ ph[s]["roost"] = "dialing"
    /\ Drop(s, "roost", "failed")

(***************************************************************************)
(* copy_flush, which both relays run once per lane: read a chunk into buf, *)
(* write_all it, flush, and again.                                         *)
(***************************************************************************)
In(r, d)  == IF r = Entry(d) THEN "src" ELSE "rcv"
Buf(r, d) == IF r = Entry(d) THEN "ebuf" ELSE "xbuf"
Out(r, d) == IF r = Entry(d) THEN "net" ELSE "dst"

Held(s, d, p) == pipe[s][d][p]

(* Mutant of CopyRead: read_exact, which waits for a full buffer.          *)
CopyReadExact(s, r, d) ==
    /\ ph[s][r] = "bridging"
    /\ Held(s, d, Buf(r, d)) = <<>>
    /\ Len(Held(s, d, In(r, d))) >= ChunkSize
    /\ Move(s, d, In(r, d), Buf(r, d), ChunkSize)
    /\ UNCHANGED <<proc, ph, conn, link, fin, eof, deaf, wrote>>

CopyRead(s, r, d) ==
    /\ ph[s][r] = "bridging"
    /\ Held(s, d, Buf(r, d)) = <<>>
    /\ \E k \in 1..Least(ChunkSize, Len(Held(s, d, In(r, d)))) :
           Move(s, d, In(r, d), Buf(r, d), k)
    /\ UNCHANGED <<proc, ph, conn, link, fin, eof, deaf, wrote>>

(* Bytes the writer takes before it blocks.  QUIC flow control counts what *)
(* the receiver has not read yet.                                          *)
Room(s, r, d) ==
    LET used == IF r = Entry(d)
                THEN Len(Held(s, d, "net")) + Len(Held(s, d, "rcv"))
                ELSE Len(Held(s, d, "dst"))
    IN  IF used <= Cap THEN Cap - used ELSE 0

WriteOver(s, r, d) ==
    IF r = Entry(d) THEN conn[s][r] # "open" ELSE deaf[s][d]

(* Mutant of CopyWrite: write for write_all, the rest of the buffer is     *)
(* overwritten by the next read.                                           *)
CopyWriteOnce(s, r, d) ==
    /\ ph[s][r] = "bridging"
    /\ ~WriteOver(s, r, d)
    /\ \E k \in 1..Least(Len(Held(s, d, Buf(r, d))), Room(s, r, d)) :
           pipe' = [pipe EXCEPT ![s][d][Buf(r, d)] = <<>>,
                                ![s][d][Out(r, d)] =
                                    @ \o SubSeq(Held(s, d, Buf(r, d)), 1, k)]
    /\ UNCHANGED <<proc, ph, conn, link, fin, eof, deaf, wrote>>

(* One poll of write_all: it may take part of the buffer only.             *)
CopyWrite(s, r, d) ==
    /\ ph[s][r] = "bridging"
    /\ ~WriteOver(s, r, d)
    /\ \E k \in 1..Least(Len(Held(s, d, Buf(r, d))), Room(s, r, d)) :
           Move(s, d, Buf(r, d), Out(r, d), k)
    /\ UNCHANGED <<proc, ph, conn, link, fin, eof, deaf, wrote>>

(* A program that closed its TCP socket with bytes unread resets it.       *)
SocketReset(s, r, d) ==
    /\ ~(Stdio /\ r = "fly")
    /\ eof[s][d] /\ deaf[s][Back(d)]
    /\ Held(s, Back(d), "dst") # <<>>

(* Mutants of ReadOver: an empty socket taken for a closed one; no test of *)
(* a read of 0 bytes, so that only an error ends the loop.                 *)
ReadOverWhenEmpty(s, r, d) ==
    \/ Held(s, d, In(r, d)) = <<>>
    \/ conn[s][r] # "open"

ReadOverOnError(s, r, d) ==
    IF r = Entry(d)
    THEN SocketReset(s, r, d)
    ELSE \/ conn[s][r] = "shutdown"
         \/ Held(s, d, "rcv") = <<>> /\ conn[s][r] # "open"

(* read returns 0 or an error.  Bytes received before the connection went  *)
(* away are still read first, unless this process closed its endpoint.     *)
ReadOver(s, r, d) ==
    IF r = Entry(d)
    THEN \/ eof[s][d] /\ Held(s, d, "src") = <<>>
         \/ SocketReset(s, r, d)
    ELSE \/ conn[s][r] = "shutdown"
         \/ /\ Held(s, d, "rcv") = <<>>
            /\ fin[s][d] = "seen" \/ conn[s][r] # "open"

(* Mutant of CopyReturn: the task closes the endpoint it borrowed, and not *)
(* its connection only.                                                    *)
CopyReturnClosesAll(s, r, d) ==
    /\ ph[s][r] = "bridging"
    /\ IF Held(s, d, Buf(r, d)) = <<>> THEN ReadOver(s, r, d)
                                       ELSE WriteOver(s, r, d)
    /\ ph' = [ph EXCEPT ![s][r] = "ended"]
    /\ conn' = [t \in Sessions |->
                   [conn[t] EXCEPT ![r] = IF @ = "open" THEN "closed" ELSE @]]
    /\ UNCHANGED <<proc, link, fin, eof, deaf, wrote, pipe>>

(* One of the relay's two copies returns, Ok or Err.  select! drops the    *)
(* other one wherever it was, and the session is over for this relay.      *)
CopyReturn(s, r, d) ==
    /\ ph[s][r] = "bridging"
    /\ IF Held(s, d, Buf(r, d)) = <<>> THEN ReadOver(s, r, d)
                                       ELSE WriteOver(s, r, d)
    /\ Drop(s, r, "ended")

(***************************************************************************)
(* The QUIC connection.                                                    *)
(***************************************************************************)
Transmit(s, d) ==
    /\ link[s]
    /\ conn[s][Exit(d)] = "open"
    /\ \E k \in 1..Len(Held(s, d, "net")) : Move(s, d, "net", "rcv", k)
    /\ UNCHANGED <<proc, ph, conn, link, fin, eof, deaf, wrote>>

FinArrives(s, d) ==
    /\ link[s]
    /\ conn[s][Exit(d)] = "open"
    /\ fin[s][d] = "sent"
    /\ Held(s, d, "net") = <<>>
    /\ fin' = [fin EXCEPT ![s][d] = "seen"]
    /\ UNCHANGED <<proc, ph, conn, link, eof, deaf, wrote, pipe>>

(* The peer's close arrives, or nothing does for the idle timeout: the     *)
(* peer is gone, its close was lost, or the network is down.               *)
ConnLost(s, r) ==
    /\ conn[s][r] = "open"
    /\ ~link[s] \/ conn[s][Other(r)] # "open"
    /\ conn' = [conn EXCEPT ![s][r] = "lost"]
    /\ UNCHANGED <<proc, ph, link, fin, eof, deaf, wrote, pipe>>

LinkDown(s) ==
    /\ "link" \in Faults
    /\ link[s]
    /\ ph[s]["fly"] \in Active
    /\ link' = [link EXCEPT ![s] = FALSE]
    /\ UNCHANGED <<proc, ph, conn, fin, eof, deaf, wrote, pipe>>

(***************************************************************************)
(* The programs at the two ends: ssh and sshd.  The n-th byte a program    *)
(* writes is represented by n, so that a loss, a repetition or a swap      *)
(* shows.                                                                  *)
(***************************************************************************)
AppWrite(s, d) ==
    /\ LocalOpen(s, Entry(d))
    /\ ~eof[s][d]
    /\ Len(wrote[s][d]) < MaxBytes[s][d]
    /\ Len(Held(s, d, "src")) < Cap
    /\ LET b == Len(wrote[s][d]) + 1
       IN  /\ wrote' = [wrote EXCEPT ![s][d] = Append(@, b)]
           /\ pipe' = [pipe EXCEPT ![s][d]["src"] = Append(@, b)]
    /\ UNCHANGED <<proc, ph, conn, link, fin, eof, deaf>>

AppRead(s, d) ==
    /\ ~deaf[s][d]
    /\ Held(s, d, "dst") # <<>>
    /\ Move(s, d, "dst", "got", Len(Held(s, d, "dst")))
    /\ UNCHANGED <<proc, ph, conn, link, fin, eof, deaf, wrote>>

(* The program at relay r's end shuts its sending side, or closes.         *)
AppShut(s, r) ==
    /\ LocalOpen(s, r)
    /\ ~eof[s][Outbound(r)]
    /\ eof' = [eof EXCEPT ![s][Outbound(r)] = TRUE]
    /\ UNCHANGED <<proc, ph, conn, link, fin, deaf, wrote, pipe>>

AppClose(s, r) ==
    /\ LocalOpen(s, r)
    /\ ~deaf[s][Back(Outbound(r))]
    /\ eof' = [eof EXCEPT ![s][Outbound(r)] = TRUE]
    /\ deaf' = [deaf EXCEPT ![s][Back(Outbound(r))] = TRUE]
    /\ UNCHANGED <<proc, ph, conn, link, fin, wrote, pipe>>

(***************************************************************************)
(* The two processes.                                                      *)
(***************************************************************************)
(* Mutant of Kill: a phase of its own for a task cut short.                *)
KillAborted(r) ==
    ph' = [s \in Sessions |->
              [ph[s] EXCEPT ![r] = IF @ \in Active THEN "aborted" ELSE @]]

Kill(r) ==
    ph' = [s \in Sessions |->
              [ph[s] EXCEPT ![r] = IF @ \in Active THEN "killed" ELSE @]]

(* A blocked read of stdin cannot be cancelled: the runtime waits for it   *)
(* when main returns.  A copy that was writing has none outstanding.       *)
StdinReleased(s) ==
    \/ ph[s]["fly"] # "ended"
    \/ eof[s]["up"]
    \/ Held(s, "up", "src") # <<>>
    \/ Held(s, "up", "ebuf") # <<>>

(* Mutant of CloseAfter: only a session that was bridged leads to it.      *)
CloseAfterBridge(r) ==
    /\ proc[r] = "up"
    /\ (r = "fly" /\ Stdio) => \A s \in Sessions : ph[s][r] = "ended"
    /\ proc' = [proc EXCEPT ![r] = "closing"]
    /\ conn' = [s \in Sessions |->
                   [conn[s] EXCEPT ![r] = IF @ = "open" THEN "shutdown" ELSE @]]
    /\ UNCHANGED <<ph, link, fin, eof, deaf, wrote, pipe>>

(* The future given to close_after returns (ctrl-c, or accept failed; for  *)
(* --stdio, the session is over): Tunnel::close closes the endpoint under  *)
(* every session.                                                          *)
CloseAfter(r) ==
    /\ proc[r] = "up"
    /\ (r = "fly" /\ Stdio) => \A s \in Sessions : ph[s][r] \in Over
    /\ proc' = [proc EXCEPT ![r] = "closing"]
    /\ conn' = [s \in Sessions |->
                   [conn[s] EXCEPT ![r] = IF @ = "open" THEN "shutdown" ELSE @]]
    /\ UNCHANGED <<ph, link, fin, eof, deaf, wrote, pipe>>

(* main returns: whatever task is left dies with the process.              *)
MainReturns(r) ==
    /\ proc[r] = "closing"
    /\ (r = "fly" /\ Stdio) => \A s \in Sessions : StdinReleased(s)
    /\ proc' = [proc EXCEPT ![r] = "down"]
    /\ Kill(r)
    /\ UNCHANGED <<conn, link, fin, eof, deaf, wrote, pipe>>

(* Any other signal, a panic (the release profile aborts), a power cut:    *)
(* no close is sent.                                                       *)
Crash(r) ==
    /\ "crash" \in Faults
    /\ proc[r] # "down"
    /\ proc' = [proc EXCEPT ![r] = "down"]
    /\ Kill(r)
    /\ conn' = [s \in Sessions |->
                   [conn[s] EXCEPT ![r] = IF @ = "open" THEN "gone" ELSE @]]
    /\ UNCHANGED <<link, fin, eof, deaf, wrote, pipe>>

(* The roost is started again, under the same endpoint ID.                 *)
RestartRoost ==
    /\ "restart" \in Faults
    /\ proc["roost"] = "down"
    /\ proc' = [proc EXCEPT !["roost"] = "up"]
    /\ UNCHANGED <<ph, conn, link, fin, eof, deaf, wrote, pipe>>

-----------------------------------------------------------------------------
Fly(s) ==
    \/ PreparePigeon(s)
    \/ Connect(s)
    \/ ConnectErr(s)
    \/ OpenBi(s)
    \/ OpenBiErr(s)

Roost(s) ==
    \/ AcceptBi(s)
    \/ AcceptBiErr(s)
    \/ DialSshd(s)
    \/ DialSshdErr(s)

Copy(s) ==
    \E r \in Relays, d \in Lanes :
        \/ CopyRead(s, r, d)
        \/ CopyWrite(s, r, d)
        \/ CopyReturn(s, r, d)

Network(s) ==
    \/ \E d \in Lanes : Transmit(s, d) \/ FinArrives(s, d)
    \/ \E r \in Relays : ConnLost(s, r)
    \/ LinkDown(s)

Programs(s) ==
    \/ \E d \in Lanes : AppWrite(s, d) \/ AppRead(s, d)
    \/ \E r \in Relays : AppShut(s, r) \/ AppClose(s, r)

Processes ==
    \/ \E r \in Relays : CloseAfter(r) \/ MainReturns(r) \/ Crash(r)
    \/ RestartRoost

Next ==
    \/ \E s \in Sessions :
           Fly(s) \/ Roost(s) \/ Copy(s) \/ Network(s) \/ Programs(s)
    \/ Processes

Spec == Init /\ [][Next]_vars

(***************************************************************************)
(* Fairness.  Tokio polls every ready future again, QUIC retransmits while *)
(* both ends hold the connection, and times out when they do not; a read   *)
(* of a program is assumed to come as long as it holds its socket.         *)
(* Nothing makes a user type, a program hang up, a link fail or a process  *)
(* die; only `fly --stdio` is certain to leave close_after, once its       *)
(* session is over.                                                        *)
(***************************************************************************)
Fairness ==
    /\ \A s \in Sessions :
           /\ WF_vars(Connect(s) \/ ConnectErr(s))
           /\ WF_vars(OpenBi(s) \/ OpenBiErr(s))
           /\ WF_vars(AcceptBi(s) \/ AcceptBiErr(s))
           /\ WF_vars(DialSshd(s) \/ DialSshdErr(s))
           /\ \A r \in Relays, d \in Lanes :
                  /\ WF_vars(CopyRead(s, r, d) \/ CopyReturn(s, r, d))
                  /\ WF_vars(CopyWrite(s, r, d))
           /\ \A d \in Lanes :
                  /\ WF_vars(Transmit(s, d))
                  /\ WF_vars(FinArrives(s, d))
                  /\ WF_vars(AppRead(s, d))
           /\ \A r \in Relays : WF_vars(ConnLost(s, r))
    /\ \A r \in Relays : WF_vars(MainReturns(r))
    /\ Stdio => WF_vars(CloseAfter("fly"))

FairSpec == Spec /\ Fairness

(***************************************************************************)
(* Safety.                                                                 *)
(***************************************************************************)

(* The bytes of a lane, from the reading program back to the writing one.  *)
Contents(lane) ==
    lane["got"] \o (lane["dst"] \o (lane["xbuf"] \o (lane["rcv"]
        \o (lane["net"] \o (lane["ebuf"] \o lane["src"])))))

(* Every byte a program wrote into a lane is in exactly one place of it,   *)
(* in the order written: copy_flush repeats, drops and swaps nothing,      *)
(* whatever its select! cuts short (tunnel.rs:266-282).                    *)
Conservation ==
    \A s \in Sessions, d \in Lanes : wrote[s][d] = Contents(pipe[s][d])

(* What a program has read is the first part of what the other program     *)
(* wrote: a session that dies early loses its tail, never its middle.      *)
NoHoles ==
    \A s \in Sessions, d \in Lanes :
        /\ Len(Got(s, d)) <= Len(wrote[s][d])
        /\ Got(s, d) = SubSeq(wrote[s][d], 1, Len(Got(s, d)))

(* What may end a session: one of its two programs hung up, the network    *)
(* went away, one relay could not do its part, or a process stopped.       *)
Cause(s) ==
    \/ \E d \in Lanes : eof[s][d] \/ deaf[s][d]
    \/ ~link[s]
    \/ \E r \in Relays : \/ ph[s][r] \in {"failed", "killed"}
                         \/ conn[s][r] \in {"shutdown", "gone"}

(* A bridge never ends of its own accord, nor because another session did: *)
(* a copy that returned did so for a cause in its own session              *)
(* (tunnel.rs:250-257, protocol.rs:41-50).                                 *)
EndHasCause ==
    \A s \in Sessions :
        (\E r \in Relays : ph[s][r] = "ended") => Cause(s)

(* How the two relays' views of a connection hang together: it is there    *)
(* for both or for neither; a relay that sees it lost has a dead network   *)
(* or a peer that left; a close or an end of stream was sent by a task     *)
(* that is over (tunnel.rs:235-260, protocol.rs:25-64).                    *)
Orderly ==
    \A s \in Sessions :
        /\ conn[s]["fly"] = "none" <=> conn[s]["roost"] = "none"
        /\ ph[s]["fly"] \in {"idle", "connecting"} =>
               conn[s]["fly"] = "none" /\ ph[s]["roost"] = "idle"
        /\ ph[s]["roost"] # "idle" => conn[s]["roost"] # "none"
        /\ ph[s]["fly"] = "bridging" => conn[s]["fly"] # "none"
        /\ \A r \in Relays :
               /\ conn[s][r] = "closed" => ph[s][r] \in {"ended", "failed"}
               /\ conn[s][r] = "lost" =>
                      ~link[s] \/ conn[s][Other(r)] \in {"closed", "shutdown", "gone"}
               /\ fin[s][Outbound(r)] # "no" => ph[s][r] \in {"ended", "failed"}

(***************************************************************************)
(* Liveness.                                                               *)
(***************************************************************************)

(* When either program of a bridged session shuts its side, both relays    *)
(* give the session up: the select! that drops the other copy, and the     *)
(* close it sends, reach the far end (tunnel.rs:250-257).                  *)
HangUpSpreads ==
    \A s \in Sessions, r \in Relays :
        (ph[s][r] = "bridging" /\ eof[s][Outbound(r)])
            ~> (\A q \in Relays : ph[s][q] \in Over)

(* No relay is left holding a session its peer has given up, whether it    *)
(* was waiting for a stream, dialing sshd or copying, and whether the      *)
(* peer closed, failed or died (tunnel.rs:235-260, protocol.rs:25-64).     *)
Teardown ==
    \A s \in Sessions, r \in Relays :
        (ph[s][r] \in Over)
            ~> (ph[s][Other(r)] \in Over \/ ph[s][Other(r)] = "idle")

(* `fly --stdio` ends once its session is over and ssh has closed its      *)
(* input; without that close a blocked read of stdin may keep it forever   *)
(* (main.rs:310-343, tunnel.rs:160-203).                                   *)
StdioExits ==
    \A s \in Sessions :
        (Stdio /\ ph[s]["fly"] \in Over /\ eof[s]["up"])
            ~> (proc["fly"] = "down")

(***************************************************************************)
(* What a lane promises its two programs is a Conduit; this is how the     *)
(* tunnel's state maps to it.                                              *)
(***************************************************************************)

(* Nothing more will come out of the lane: its reader left, its second     *)
(* relay is through with it and the socket is drained, or no second relay  *)
(* ever joined.                                                            *)
Ended(s, d) ==
    \/ deaf[s][d]
    \/ ph[s][Exit(d)] \in Over /\ pipe[s][d]["dst"] = <<>>
    \/ ph[s][Exit(d)] = "idle" /\ ph[s][Entry(d)] \in Over

Ends == Sessions \X Lanes

conduit == INSTANCE Conduit WITH
    Conduits <- Ends,
    Bytes <- UNION {1..MaxBytes[c[1]][c[2]] : c \in Ends},
    sent <- [c \in Ends |-> wrote[c[1]][c[2]]],
    got  <- [c \in Ends |-> Got(c[1], c[2])],
    over <- [c \in Ends |-> Ended(c[1], c[2])]

(* Each lane implements a conduit: in order, no holes, nothing after the   *)
(* end (tunnel.rs:266-282).                                                *)
ConduitSafety == conduit!Spec

(* And every byte written comes out, unless the lane ends.                 *)
ConduitFlows == conduit!Flows
=============================================================================
