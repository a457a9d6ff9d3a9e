------------------------------ MODULE MCTransfer ------------------------------
(***************************************************************************)
(* Transfer with two transfers, so that Steam may still handle a request of *)
(* the first while the second runs, saves of two blocks, the least that can *)
(* be half there, and a PC that uploads once.                              *)
(***************************************************************************)
EXTENDS Transfer
===============================================================================
