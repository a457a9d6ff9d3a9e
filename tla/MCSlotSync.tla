------------------------------ MODULE MCSlotSync ------------------------------
(***************************************************************************)
(* Small instances of SlotSync for TLC.  One slot shows every race between *)
(* the engine, the game and a PC; what the failure of a later slot does to *)
(* it is a Fail between the last step of the slot and SaveState.           *)
(***************************************************************************)
EXTENDS SlotSync
===============================================================================
