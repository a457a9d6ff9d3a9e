-------------------------- MODULE MCPrelaunchBarrier --------------------------
(***************************************************************************)
(* Small instances of PrelaunchBarrier for TLC: two saves to visit, and    *)
(* two operations that the UI and the lifecycle start at any moment.       *)
(***************************************************************************)
EXTENDS PrelaunchBarrier
===============================================================================
