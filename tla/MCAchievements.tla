---------------------------- MODULE MCAchievements ----------------------------
(***************************************************************************)
(* Achievements with two saves and three achievements, two of them in one  *)
(* stat group: a store of the group is then more than the store of a bit.  *)
(* The values are in the configurations; the second one states what the    *)
(* panel says after a refused request.                                     *)
(***************************************************************************)
EXTENDS Achievements
===============================================================================
