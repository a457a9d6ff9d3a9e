------------------------------- MODULE MCSignIn -------------------------------
(***************************************************************************)
(* SignIn with three sign-ins: one that runs, one that is refused next to  *)
(* it, and one whose flag or channel the undo of the second may find.      *)
(***************************************************************************)
EXTENDS SignIn
===============================================================================
