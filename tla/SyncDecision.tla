----------------------------- MODULE SyncDecision -----------------------------
(***************************************************************************)
(* sync_engine::decide, the three-way comparison of the last common        *)
(* version BASE, the iPhone save and the Steam save.  A version is a       *)
(* positive integer; Absent is "no BASE" or "no file".  Steam may also     *)
(* hold the raw-LZ4 form native iOS writes: the negation of its version.   *)
(***************************************************************************)
EXTENDS Integers

Absent == 0

\* canonicalize_save: the version a stored form decodes to
Canonical(form) == IF form < 0 THEN -form ELSE form

NeedsRepair(form) == form < 0

Verdicts == {"unchanged", "upload_local", "download_remote", "converged",
             "conflict", "first_sync"}

\* MUTANT: a phone that moved on is overruled by Steam
MSteamWins(base, phone, steam) ==
  IF base = Absent
    THEN IF phone = steam THEN "converged" ELSE "first_sync"
    ELSE CASE phone = base /\ steam = base -> "unchanged"
           [] steam = base                 -> "upload_local"
           [] OTHER -> IF phone = steam THEN "converged" ELSE "download_remote"

\* MUTANT: a Steam copy that moved on is overruled by the phone
MPhoneWins(base, phone, steam) ==
  IF base = Absent
    THEN IF phone = steam THEN "converged" ELSE "first_sync"
    ELSE CASE phone = base /\ steam = base -> "unchanged"
           [] phone = base                 -> "download_remote"
           [] OTHER -> IF phone = steam THEN "converged" ELSE "upload_local"

Decide(base, phone, steam) ==
  IF base = Absent
    THEN IF phone = steam THEN "converged" ELSE "first_sync"
    ELSE CASE phone = base /\ steam = base -> "unchanged"
           [] phone # base /\ steam = base -> "upload_local"
           [] phone = base /\ steam # base -> "download_remote"
           [] OTHER -> IF phone = steam THEN "converged" ELSE "conflict"
===============================================================================
