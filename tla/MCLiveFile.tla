------------------------------ MODULE MCLiveFile ------------------------------
(***************************************************************************)
(* LiveFile on the scaled format with two kinds of saves that have no      *)
(* unlock in common: what a reader finds tells whose bytes it has.         *)
(***************************************************************************)
EXTENDS LiveFile

MCProgress == {{1}, {2, 3}}
===============================================================================
