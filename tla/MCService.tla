----------------------------- MODULE MCService -----------------------------
(***************************************************************************)
(* Service, checked with two sets of arguments.                            *)
(***************************************************************************)
EXTENDS Service
=============================================================================
