--------------------------- MODULE KeyStoreProofs ---------------------------
(***************************************************************************)
(* What KeyStore's runs check for a few processes and keys, for any        *)
(* number of them.                                                         *)
(***************************************************************************)
EXTENDS KeyStore, TLAPS

-----------------------------------------------------------------------------
(* Whatever the starts do at the same time.                                *)

(* Only keys that were generated are held, stored and returned.            *)
KeysAreReal ==
    /\ \A p \in Procs : pc[p] \in Generating => key[p] \in made
    /\ priv \in made \cup {Absent, Partial}
    /\ served \subseteq made

Typed == TypeOK /\ KeysAreReal

LEMMA TypedInvariant == Spec => []Typed
<1>1. Init => Typed
  BY DEF Init, Typed, TypeOK, Contents, KeysAreReal, Generating
<1>2. Typed /\ [Next]_vars => Typed'
  <2> SUFFICES ASSUME Typed, [Next]_vars
               PROVE  Typed'
    OBVIOUS
  <2> USE KeysOK DEF Typed, TypeOK, KeysAreReal, Contents, Goto, Generating
  <2>1. ASSUME NEW p \in Procs, Start(p) PROVE Typed'
    BY <2>1 DEF Start
  <2>2. ASSUME NEW p \in Procs, LookPub(p) PROVE Typed'
    BY <2>2 DEF LookPub
  <2>3. ASSUME NEW p \in Procs, LookPriv(p) PROVE Typed'
    BY <2>3 DEF LookPriv
  <2>4. ASSUME NEW p \in Procs, Load(p) PROVE Typed'
    BY <2>4 DEF Load, Return, Decodes
  <2>5. ASSUME NEW p \in Procs, Generate(p) PROVE Typed'
    BY <2>5 DEF Generate
  <2>6. ASSUME NEW p \in Procs, OpenPub(p) PROVE Typed'
    BY <2>6 DEF OpenPub
  <2>7. ASSUME NEW p \in Procs, WritePub(p) PROVE Typed'
    BY <2>7 DEF WritePub
  <2>8. ASSUME NEW p \in Procs, OpenPriv(p) PROVE Typed'
    BY <2>8 DEF OpenPriv
  <2>9. ASSUME NEW p \in Procs, WritePriv(p) PROVE Typed'
    BY <2>9 DEF WritePriv
  <2>10. ASSUME NEW p \in Procs, Sync(p) PROVE Typed'
    BY <2>10 DEF Sync, Return
  <2>11. ASSUME NEW p \in Procs, Stop(p) PROVE Typed'
    BY <2>11 DEF Stop
  <2>12. CASE UNCHANGED vars
    BY <2>12 DEF vars
  <2> QED
    BY <2>1, <2>2, <2>3, <2>4, <2>5, <2>6, <2>7,
       <2>8, <2>9, <2>10, <2>11, <2>12 DEF Next
<1> QED
  BY <1>1, <1>2, PTL DEF Spec

(* Every variable keeps its type, whatever step is taken and wherever a    *)
(* process stops (ssh.rs:17-98).                                           *)
THEOREM TypeCorrect == Spec => []TypeOK
<1>1. Typed => TypeOK
  BY DEF Typed
<1> QED
  BY <1>1, TypedInvariant, PTL

(* No process comes up under a key that was never generated: a file cut    *)
(* short is refused (ssh.rs:84-98).                                        *)
THEOREM KeysServedAreReal == Spec => []OnlyRealKeys
<1>1. Typed => OnlyRealKeys
  BY DEF Typed, KeysAreReal, OnlyRealKeys
<1> QED
  BY <1>1, TypedInvariant, PTL

(* Once both files are there and nobody is making a pair, neither file is  *)
(* written again, by any number of starts at once (ssh.rs:26-33).          *)
THEOREM PairStays == Spec => PairIsFinal
<1>1. TypeOK /\ [Next]_vars => [Settled => Settled' /\ UNCHANGED <<pub, priv>>]_vars
  <2> SUFFICES ASSUME TypeOK, [Next]_vars, Settled
               PROVE  Settled' /\ UNCHANGED <<pub, priv>>
    OBVIOUS
  <2> USE DEF TypeOK, Settled, Goto, Generating
  <2>1. ASSUME NEW p \in Procs, Start(p) PROVE Settled' /\ UNCHANGED <<pub, priv>>
    BY <2>1 DEF Start
  <2>2. ASSUME NEW p \in Procs, LookPub(p) PROVE Settled' /\ UNCHANGED <<pub, priv>>
    BY <2>2 DEF LookPub
  <2>3. ASSUME NEW p \in Procs, LookPriv(p) PROVE Settled' /\ UNCHANGED <<pub, priv>>
    BY <2>3 DEF LookPriv
  <2>4. ASSUME NEW p \in Procs, Load(p) PROVE Settled' /\ UNCHANGED <<pub, priv>>
    BY <2>4 DEF Load, Return, Decodes
  <2>5. ASSUME NEW p \in Procs, Generate(p) PROVE Settled' /\ UNCHANGED <<pub, priv>>
    BY <2>5 DEF Generate
  <2>6. ASSUME NEW p \in Procs, OpenPub(p) PROVE Settled' /\ UNCHANGED <<pub, priv>>
    BY <2>6 DEF OpenPub
  <2>7. ASSUME NEW p \in Procs, WritePub(p) PROVE Settled' /\ UNCHANGED <<pub, priv>>
    BY <2>7 DEF WritePub
  <2>8. ASSUME NEW p \in Procs, OpenPriv(p) PROVE Settled' /\ UNCHANGED <<pub, priv>>
    BY <2>8 DEF OpenPriv
  <2>9. ASSUME NEW p \in Procs, WritePriv(p) PROVE Settled' /\ UNCHANGED <<pub, priv>>
    BY <2>9 DEF WritePriv
  <2>10. ASSUME NEW p \in Procs, Sync(p) PROVE Settled' /\ UNCHANGED <<pub, priv>>
    BY <2>10 DEF Sync, Return
  <2>11. ASSUME NEW p \in Procs, Stop(p) PROVE Settled' /\ UNCHANGED <<pub, priv>>
    BY <2>11 DEF Stop
  <2>12. CASE UNCHANGED vars
    BY <2>12 DEF vars
  <2> QED
    BY <2>1, <2>2, <2>3, <2>4, <2>5, <2>6, <2>7,
       <2>8, <2>9, <2>10, <2>11, <2>12 DEF Next
<1> QED
  BY <1>1, TypeCorrect, PTL DEF Spec, PairIsFinal

-----------------------------------------------------------------------------
(* As long as no starts overlap.                                           *)

(* At most one process is at work.                                         *)
Alone ==
    \A p, q \in Procs : Busy(p) /\ Busy(q) => p = q

(* A pair is made public half first, from one key, and only if there is no *)
(* secret half.                                                            *)
PairInOrder ==
    /\ pub = Absent => priv = Absent
    /\ priv \in Keys => pub = priv
    /\ \A p \in Procs :
           /\ pc[p] \in {"generate", "openPub", "writePub", "openPriv"} =>
                  priv = Absent
           /\ pc[p] \in {"openPriv", "writePriv"} => pub = key[p]
           /\ pc[p] = "writePriv" => priv = Partial
           /\ pc[p] = "sync" => priv = key[p]
           /\ pc[p] = "serving" => key[p] = priv /\ priv \in Keys

ServedIsPriv == \A k \in served : k = priv

IInv == Typed /\ (~overlap => Alone /\ PairInOrder /\ ServedIsPriv)

LEMMA OneAtATime ==
    ASSUME TypeOK, Alone, ~overlap', [Next]_vars
    PROVE  Alone'
<1> USE DEF TypeOK, Alone, Busy, Goto
<1>1. ASSUME NEW p \in Procs, Start(p) PROVE Alone'
  BY <1>1 DEF Start
<1>2. ASSUME NEW p \in Procs, LookPub(p) PROVE Alone'
  BY <1>2 DEF LookPub
<1>3. ASSUME NEW p \in Procs, LookPriv(p) PROVE Alone'
  BY <1>3 DEF LookPriv
<1>4. ASSUME NEW p \in Procs, Load(p) PROVE Alone'
  BY <1>4 DEF Load, Return, Decodes
<1>5. ASSUME NEW p \in Procs, Generate(p) PROVE Alone'
  BY <1>5 DEF Generate
<1>6. ASSUME NEW p \in Procs, OpenPub(p) PROVE Alone'
  BY <1>6 DEF OpenPub
<1>7. ASSUME NEW p \in Procs, WritePub(p) PROVE Alone'
  BY <1>7 DEF WritePub
<1>8. ASSUME NEW p \in Procs, OpenPriv(p) PROVE Alone'
  BY <1>8 DEF OpenPriv
<1>9. ASSUME NEW p \in Procs, WritePriv(p) PROVE Alone'
  BY <1>9 DEF WritePriv
<1>10. ASSUME NEW p \in Procs, Sync(p) PROVE Alone'
  BY <1>10 DEF Sync, Return
<1>11. ASSUME NEW p \in Procs, Stop(p) PROVE Alone'
  BY <1>11 DEF Stop
<1>12. CASE UNCHANGED vars
  BY <1>12 DEF vars
<1> QED
  BY <1>1, <1>2, <1>3, <1>4, <1>5, <1>6, <1>7,
       <1>8, <1>9, <1>10, <1>11, <1>12 DEF Next

LEMMA StoredInOrder ==
    ASSUME Typed, Alone, PairInOrder, ServedIsPriv, [Next]_vars
    PROVE  (PairInOrder /\ ServedIsPriv)'
<1> USE KeysOK DEF Typed, TypeOK, KeysAreReal, Alone, PairInOrder, ServedIsPriv,
        Contents, Busy, Goto, Generating
<1>1. ASSUME NEW p \in Procs, Start(p) PROVE (PairInOrder /\ ServedIsPriv)'
  BY <1>1 DEF Start
<1>2. ASSUME NEW p \in Procs, LookPub(p) PROVE (PairInOrder /\ ServedIsPriv)'
  BY <1>2 DEF LookPub
<1>3. ASSUME NEW p \in Procs, LookPriv(p) PROVE (PairInOrder /\ ServedIsPriv)'
  BY <1>3 DEF LookPriv
<1>4. ASSUME NEW p \in Procs, Load(p) PROVE (PairInOrder /\ ServedIsPriv)'
  BY <1>4 DEF Load, Return, Decodes
<1>5. ASSUME NEW p \in Procs, Generate(p) PROVE (PairInOrder /\ ServedIsPriv)'
  BY <1>5 DEF Generate
<1>6. ASSUME NEW p \in Procs, OpenPub(p) PROVE (PairInOrder /\ ServedIsPriv)'
  BY <1>6 DEF OpenPub
<1>7. ASSUME NEW p \in Procs, WritePub(p) PROVE (PairInOrder /\ ServedIsPriv)'
  BY <1>7 DEF WritePub
<1>8. ASSUME NEW p \in Procs, OpenPriv(p) PROVE (PairInOrder /\ ServedIsPriv)'
  BY <1>8 DEF OpenPriv
<1>9. ASSUME NEW p \in Procs, WritePriv(p) PROVE (PairInOrder /\ ServedIsPriv)'
  BY <1>9 DEF WritePriv
<1>10. ASSUME NEW p \in Procs, Sync(p) PROVE (PairInOrder /\ ServedIsPriv)'
  BY <1>10 DEF Sync, Return
<1>11. ASSUME NEW p \in Procs, Stop(p) PROVE (PairInOrder /\ ServedIsPriv)'
  BY <1>11 DEF Stop
<1>12. CASE UNCHANGED vars
  BY <1>12 DEF vars
<1> QED
  BY <1>1, <1>2, <1>3, <1>4, <1>5, <1>6, <1>7,
       <1>8, <1>9, <1>10, <1>11, <1>12 DEF Next

LEMMA OverlapStays ==
    ASSUME overlap, [Next]_vars
    PROVE  overlap'
BY DEF Next, vars, Start, LookPub, LookPriv, Load, Generate, OpenPub, WritePub,
   OpenPriv, WritePriv, Sync, Stop

LEMMA InOrderInvariant == Spec => []IInv
<1>1. Init => IInv
  BY KeysOK DEF Init, IInv, Typed, TypeOK, KeysAreReal, Alone, PairInOrder, ServedIsPriv,
     Contents, Busy, Generating
<1>2. IInv /\ Typed' /\ [Next]_vars => IInv'
  BY OneAtATime, StoredInOrder, OverlapStays DEF IInv, Typed
<1> QED
  BY <1>1, <1>2, TypedInvariant, PTL DEF Spec

(* As long as no starts overlap, no two of them come up under different    *)
(* keys, wherever the ones before were stopped (ssh.rs:17-43).             *)
THEOREM OneIdentity == Spec => []IdentityPersists
<1>1. IInv => IdentityPersists
  BY DEF IInv, ServedIsPriv, IdentityPersists, SameIdentity
<1> QED
  BY <1>1, InOrderInvariant, PTL

(* And a key in use is on disk, both halves of it (ssh.rs:33-42, 50-82).   *)
THEOREM KeyInUseIsStored == Spec => []ServedIsStored
<1>1. IInv => ServedIsStored
  BY DEF IInv, PairInOrder, ServedIsStored
<1> QED
  BY <1>1, InOrderInvariant, PTL
=============================================================================
