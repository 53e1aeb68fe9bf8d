-------------------------- MODULE MCWindowsService --------------------------
(***************************************************************************)
(* WindowsService, checked with two sets of arguments.                     *)
(***************************************************************************)
EXTENDS WindowsService
=============================================================================
