----------------------------- MODULE MCBackupStore -----------------------------
(***************************************************************************)
(* BackupStore with small limits: two backups kept per source instead of   *)
(* twelve, and four made, so that the backups of one source outgrow it     *)
(* both in a row of pulls and in a row of restores.  The versions of a     *)
(* save are interchangeable.                                               *)
(***************************************************************************)
EXTENDS BackupStore, TLC

Symmetry == Permutations(Versions)
===============================================================================
