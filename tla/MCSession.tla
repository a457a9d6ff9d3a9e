------------------------------- MODULE MCSession -------------------------------
(***************************************************************************)
(* Session with two accounts and two lifecycle tasks: one task may be      *)
(* connecting while another is queued behind it and the lane binds a       *)
(* different account.  No behaviour is bounded, only the tasks pending.    *)
(***************************************************************************)
EXTENDS Session
===============================================================================
