------------------------------ MODULE Conduit ------------------------------
(***************************************************************************)
(* What pigeons promises the two programs it joins, one conduit for each   *)
(* direction of each SSH connection: the bytes that come out are the bytes *)
(* that went in, in order, up to some point; where that point is, whoever  *)
(* hangs up or fails decides; after it nothing comes out.  Several         *)
(* conduits may move in one step: one relay's end is the end of both       *)
(* directions, and a process that dies ends all its sessions.              *)
(***************************************************************************)
EXTENDS Naturals, Sequences

CONSTANTS Conduits,
          Bytes

VARIABLES
    sent,   \* what the writer ever wrote
    got,    \* what the reader has read
    over    \* nothing more will be read

vars == <<sent, got, over>>

Init ==
    /\ sent = [c \in Conduits |-> <<>>]
    /\ got  = [c \in Conduits |-> <<>>]
    /\ over = [c \in Conduits |-> FALSE]

(* The writer may not know yet that the conduit is over.                   *)
Write(c) ==
    /\ \E b \in Bytes : sent' = [sent EXCEPT ![c] = Append(@, b)]
    /\ UNCHANGED <<got, over>>

(* The next bytes come out, and with the last of them the end may show.    *)
Deliver(c) ==
    /\ ~over[c]
    /\ \E k \in (Len(got[c]) + 1)..Len(sent[c]) :
           got' = [got EXCEPT ![c] = SubSeq(sent[c], 1, k)]
    /\ \/ UNCHANGED over
       \/ over' = [over EXCEPT ![c] = TRUE]
    /\ UNCHANGED sent

End ==
    /\ over' \in [Conduits -> BOOLEAN]
    /\ \A c \in Conduits : over[c] => over'[c]
    /\ UNCHANGED <<sent, got>>

Next == (\E c \in Conduits : Write(c) \/ Deliver(c)) \/ End

Spec == Init /\ [][Next]_vars

(* Bytes do not stay inside for ever: they come out, or the conduit ends.  *)
Flows ==
    \A c \in Conduits, n \in Bytes :
        Len(sent[c]) >= n ~> (Len(got[c]) >= n \/ over[c])

FlowSpec == Spec /\ Flows
=============================================================================
