----------------------------- MODULE MCKeyStore -----------------------------
(***************************************************************************)
(* Processes and keys are interchangeable.                                 *)
(***************************************************************************)
EXTENDS KeyStore, TLC

Symmetry == Permutations(Procs) \cup Permutations(Keys)
=============================================================================
