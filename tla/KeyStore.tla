------------------------------ MODULE KeyStore ------------------------------
(***************************************************************************)
(* The roost's identity on disk: dot_ssh_secret_key, its write_secret_key  *)
(* and its decode_secret_key (src/src/ssh.rs:17-98).                       *)
(*                                                                         *)
(* A process that wants the key looks for the two files of the pair, loads *)
(* the secret one if both are there and makes a new pair otherwise.  Each  *)
(* look, and each of the open and the write of a file, is a step; between  *)
(* any two of them the process may stop (an error, a kill), and another    *)
(* process may be doing the same.                                          *)
(***************************************************************************)
EXTENDS Naturals

CONSTANTS Procs,   \* processes that start a roost in the same ssh_dir
          Keys     \* secret keys; a key also stands for its public half

(* A file that is not there, and one opened with truncate and not yet      *)
(* written: empty or cut short.                                            *)
Absent  == "absent"
Partial == "partial"

ASSUME KeysOK ==
    /\ Absent \notin Keys
    /\ Partial \notin Keys

VARIABLES
    pub,     \* pigeons_ed25519.pub
    priv,    \* pigeons_ed25519
    pc,      \* how far each process is
    key,     \* the key a process generated or loaded
    made,    \* keys ever generated
    served,  \* keys dot_ssh_secret_key ever returned
    overlap  \* two processes were ever in dot_ssh_secret_key at once

vars == <<pub, priv, pc, key, made, served, overlap>>

Contents == Keys \cup {Absent, Partial}

(* The pc's of a process that has decided to generate.                     *)
Generating == {"openPub", "writePub", "openPriv", "writePriv", "sync"}

TypeOK ==
    /\ pub \in Contents
    /\ priv \in Contents
    /\ pc \in [Procs -> {"off", "lookPub", "lookPriv", "load", "generate",
                         "serving"} \cup Generating]
    /\ key \in [Procs -> Keys \cup {Absent}]
    /\ made \subseteq Keys
    /\ served \subseteq Keys
    /\ overlap \in BOOLEAN

Init ==
    /\ pub = Absent
    /\ priv = Absent
    /\ pc = [p \in Procs |-> "off"]
    /\ key = [p \in Procs |-> Absent]
    /\ made = {}
    /\ served = {}
    /\ overlap = FALSE

Goto(p, l) == pc' = [pc EXCEPT ![p] = l]

Busy(p) == pc[p] \notin {"off", "serving"}

Start(p) ==
    /\ pc[p] = "off"
    /\ overlap' = (overlap \/ \E q \in Procs : Busy(q))
    /\ Goto(p, "lookPub")
    /\ UNCHANGED <<pub, priv, key, made, served>>

(* Mutant of LookPub: a new pair whatever is there.                        *)
LookPubNever(p) ==
    /\ pc[p] = "lookPub"
    /\ Goto(p, "generate")
    /\ UNCHANGED <<pub, priv, key, made, served, overlap>>

(* pub_key.exists() && priv_key.exists(), two looks with time in between.  *)
LookPub(p) ==
    /\ pc[p] = "lookPub"
    /\ Goto(p, IF pub = Absent THEN "generate" ELSE "lookPriv")
    /\ UNCHANGED <<pub, priv, key, made, served, overlap>>

LookPriv(p) ==
    /\ pc[p] = "lookPriv"
    /\ Goto(p, IF priv = Absent THEN "generate" ELSE "load")
    /\ UNCHANGED <<pub, priv, key, made, served, overlap>>

(* Mutant of Decodes: the bytes there are, copied into a zeroed buffer.    *)
DecodesAnything(file) == file # Absent

(* decode_secret_key: a file cut short is an error.                        *)
Decodes(file) == file \in Keys

(* The key is returned to the caller, which builds an endpoint with it.    *)
Return(p, k) ==
    /\ Goto(p, "serving")
    /\ key' = [key EXCEPT ![p] = k]
    /\ served' = served \cup {k}

Load(p) ==
    /\ pc[p] = "load"
    /\ Decodes(priv)
    /\ Return(p, priv)
    /\ UNCHANGED <<pub, priv, made, overlap>>

Generate(p) ==
    /\ pc[p] = "generate"
    /\ \E k \in Keys \ made :
           /\ key' = [key EXCEPT ![p] = k]
           /\ made' = made \cup {k}
    /\ Goto(p, "openPub")
    /\ UNCHANGED <<pub, priv, served, overlap>>

OpenPub(p) ==
    /\ pc[p] = "openPub"
    /\ pub' = Partial
    /\ Goto(p, "writePub")
    /\ UNCHANGED <<priv, key, made, served, overlap>>

WritePub(p) ==
    /\ pc[p] = "writePub"
    /\ pub' = key[p]
    /\ Goto(p, "openPriv")
    /\ UNCHANGED <<priv, key, made, served, overlap>>

OpenPriv(p) ==
    /\ pc[p] = "openPriv"
    /\ priv' = Partial
    /\ Goto(p, "writePriv")
    /\ UNCHANGED <<pub, key, made, served, overlap>>

(* Mutant of WritePriv: returns once the write is queued, as dropping the  *)
(* file without sync_all would.                                            *)
WritePrivUnsynced(p) ==
    /\ pc[p] = "writePriv"
    /\ Return(p, key[p])
    /\ \/ priv' = key[p]
       \/ UNCHANGED priv
    /\ UNCHANGED <<pub, made, overlap>>

(* write_all hands the bytes to the blocking pool, sync_all waits for them.*)
WritePriv(p) ==
    /\ pc[p] = "writePriv"
    /\ priv' = key[p]
    /\ Goto(p, "sync")
    /\ UNCHANGED <<pub, key, made, served, overlap>>

Sync(p) ==
    /\ pc[p] = "sync"
    /\ Return(p, key[p])
    /\ UNCHANGED <<pub, priv, made, overlap>>

(* An error of any step (the key file is reported as bad, a write fails),  *)
(* a kill, or the end of the roost: what is on disk stays.                 *)
Stop(p) ==
    /\ pc[p] # "off"
    /\ Goto(p, "off")
    /\ UNCHANGED <<pub, priv, key, made, served, overlap>>

Next ==
    \E p \in Procs :
        \/ Start(p) \/ LookPub(p) \/ LookPriv(p) \/ Load(p) \/ Generate(p)
        \/ OpenPub(p) \/ WritePub(p) \/ OpenPriv(p) \/ WritePriv(p) \/ Sync(p)
        \/ Stop(p)

Spec == Init /\ [][Next]_vars

(***************************************************************************)
(* Properties.                                                             *)
(***************************************************************************)

(* "Keys are persisted by default, so the endpoint ID stays the same       *)
(* across restarts" (README.md:67-68): no two starts in one ssh_dir come   *)
(* up under different keys, wherever the ones before were stopped          *)
(* (ssh.rs:17-43).                                                         *)
SameIdentity == \A j, k \in served : j = k

(* It holds as long as no two starts overlap.                              *)
IdentityPersists == ~overlap => SameIdentity

(* And then a key in use is safe on disk: the next start will find it, and *)
(* with its own public half next to it (ssh.rs:33-42, 50-82).              *)
ServedIsStored ==
    ~overlap =>
        \A p \in Procs :
            pc[p] = "serving" => priv = key[p] /\ pub = key[p]

(* Once both files are there and nobody is making a pair, it stays that    *)
(* way: however many processes start, none decides to make one, and        *)
(* neither file is written again (ssh.rs:26-33).                           *)
Settled ==
    /\ pub # Absent /\ priv # Absent
    /\ \A p \in Procs : pc[p] \notin Generating \cup {"generate"}

PairIsFinal == [][Settled => Settled' /\ UNCHANGED <<pub, priv>>]_vars

(* No process comes up under a key that was never generated, such as the   *)
(* bytes of a file cut short (ssh.rs:84-98).                               *)
OnlyRealKeys == served \subseteq made
=============================================================================
