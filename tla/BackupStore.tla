----------------------------- MODULE BackupStore ------------------------------
(***************************************************************************)
(* The backups of one slot and what is built on them: BackupManager, with  *)
(* its retention, the pull that backs up, replaces and rolls back, and the *)
(* restore of a queued backup at the next launch.                          *)
(*                                                                         *)
(* A step is one change of the disk, because the app may be killed between *)
(* two of them.  A save is a version.  A backup is a manifest, which       *)
(* carries the time stamp that retention sorts by, and a data file of the  *)
(* same id.  Retention works source by source; the callers below use three *)
(* of the sources, every other one behaves as "local_conflict".  The game  *)
(* does not write while a call is running: that race is in SlotSync.       *)
(***************************************************************************)
EXTENDS Integers, FiniteSets

CONSTANTS
  Versions,    \* what a save file may hold
  NoVersion,
  Retain,      \* RETAIN_PER_SLOT_AND_SOURCE
  MaxBackups,  \* bound: backups ever started
  MaxTime,     \* bound: the time stamps of a backup
  MaxFailures  \* bound: failures of the disk and kills of the app

ASSUME VersionsAssumption == NoVersion \notin Versions
ASSUME RetainAssumption == Retain \in Nat \ {0}
ASSUME BoundsAssumption ==
  /\ MaxBackups \in Nat /\ MaxTime \in Nat /\ MaxTime >= 2
  /\ MaxFailures \in Nat

VARIABLES
  live,      \* the version in the live save file
  records,   \* the manifests in the slot's directory
  files,     \* the ids whose data file exists
  lastId,    \* ids given out
  now,       \* the wall clock at the last backup
  queued,    \* pending_local_restore: the manifest chosen, or NoRecord
  phase,     \* how far the launch is
  caller,    \* who is using the manager
  pc,        \* its next step
  draft,     \* the backup being made
  victims,   \* what apply_retention has still to remove
  victim,    \* the one whose data is already removed
  target,    \* the backup to put back
  incoming,  \* the version a pull writes
  made,      \* history: every manifest ever written
  steady,    \* history: the clock has never been set back
  before,    \* history: the live save when the pull began
  failures

disk  == <<live, records, files, queued, made>>
work  == <<draft, victims, victim>>
goal  == <<target, incoming, before>>
call  == <<caller, pc, work, goal>>
count == <<lastId, now, steady>>
vars  == <<disk, call, count, phase, failures>>

Sources  == {"local_conflict", "local_before_pull", "local_before_restore"}
Records  == [id : 1..MaxBackups, source : Sources,
             at : 0..MaxTime, what : Versions]
NoRecord == [id |-> 0, source |-> "none", at |-> 0, what |-> NoVersion]

Init ==
  /\ live \in Versions
  /\ records = {} /\ files = {} /\ made = {}
  /\ lastId = 0 /\ now = 2 /\ steady = TRUE
  /\ queued = NoRecord
  /\ phase = "restoring"
  /\ caller = "none" /\ pc = "idle"
  /\ draft = NoRecord /\ victims = {} /\ victim = NoRecord
  /\ target = NoRecord /\ incoming = NoVersion /\ before = NoVersion
  /\ failures = 0

\* What one operation of the disk does to the count of failures
Works == UNCHANGED failures
Trips == failures < MaxFailures /\ failures' = failures + 1

\* The caller returns, with or without an error; a restore returns to the
\* launch, which then starts the prelaunch synchronisation.
Return ==
  /\ caller' = "none" /\ pc' = "idle"
  /\ draft' = NoRecord /\ victims' = {} /\ victim' = NoRecord
  /\ target' = NoRecord /\ incoming' = NoVersion /\ before' = NoVersion
  /\ phase' = IF caller = "restore" THEN "prelaunch" ELSE phase

\* verify: a listed backup whose data file is there
Verified(r) == r \in records /\ r.id \in files

\* A call of backup_file begins: the next id, for this source
Drafted(source) ==
  [id |-> lastId + 1, source |-> source, at |-> 0, what |-> live]

-------------------------------------------------------------------------------
(* The world around the manager                                            *)

GameWrites ==
  /\ phase = "playing" /\ caller = "none"
  /\ live' \in Versions \ {live}
  /\ UNCHANGED <<records, files, queued, made, call, count, phase, failures>>

\* The app ends while nothing is using the manager, and is launched again
Relaunch ==
  /\ phase # "restoring" /\ caller = "none"
  /\ phase' = "restoring"
  /\ UNCHANGED <<disk, call, count, failures>>

\* The app is killed between two changes of the disk, and launched again
Kill ==
  /\ caller # "none"
  /\ Trips
  /\ caller' = "none" /\ pc' = "idle"
  /\ draft' = NoRecord /\ victims' = {} /\ victim' = NoRecord
  /\ target' = NoRecord /\ incoming' = NoVersion /\ before' = NoVersion
  /\ phase' = "restoring"
  /\ UNCHANGED <<disk, count>>

CloseBarrier ==
  /\ phase = "prelaunch" /\ caller = "none"
  /\ phase' = "playing"
  /\ UNCHANGED <<disk, call, count, failures>>

-------------------------------------------------------------------------------
(* Who calls the manager                                                   *)

\* A backup that no replacement follows: a conflict, a first sync, an upload
StartNote ==
  /\ phase # "restoring" /\ caller = "none"
  /\ caller' = "note" /\ pc' = "data"
  /\ draft' = Drafted("local_conflict")
  /\ UNCHANGED <<disk, victims, victim, goal, count, phase, failures>>

\* pull_one, with a version of Steam's that is not the phone's
StartPull ==
  /\ phase = "prelaunch" /\ caller = "none"
  /\ incoming' \in Versions \ {live}
  /\ caller' = "pull" /\ pc' = "data"
  /\ draft' = Drafted("local_before_pull")
  /\ before' = live
  /\ UNCHANGED <<disk, victims, victim, target, count, phase, failures>>

\* restore_backup: the choice is verified and stored for the next launch
QueueRestore(r) ==
  /\ phase = "playing" /\ caller = "none"
  /\ Verified(r)
  /\ queued' = r
  /\ UNCHANGED <<live, records, files, made, call, count, phase, failures>>

\* apply_pending_restore finds nothing queued, or what is queued is gone
SkipRestore ==
  /\ phase = "restoring" /\ caller = "none"
  /\ ~Verified(queued)
  /\ phase' = "prelaunch"
  /\ UNCHANGED <<disk, call, count, failures>>

\* MUTANT: restore_local without its backup of the live save
MStartRestore ==
  /\ phase = "restoring" /\ caller = "none"
  /\ Verified(queued)
  /\ caller' = "restore" /\ pc' = "replace"
  /\ target' = queued
  /\ UNCHANGED <<disk, draft, victims, victim, incoming, before, count,
                 phase, failures>>

\* ... or hands it to restore_local, which first backs up the live save
StartRestore ==
  /\ phase = "restoring" /\ caller = "none"
  /\ Verified(queued)
  /\ caller' = "restore" /\ pc' = "data"
  /\ target' = queued
  /\ draft' = Drafted("local_before_restore")
  /\ UNCHANGED <<disk, victims, victim, incoming, before, count, phase,
                 failures>>

-------------------------------------------------------------------------------
(* backup_file and backup_bytes                                            *)

WriteData ==
  /\ pc = "data" /\ lastId < MaxBackups
  /\ lastId' = lastId + 1
  /\ \/ Works /\ files' = files \cup {draft.id}
        /\ pc' = "manifest"
        /\ UNCHANGED <<caller, work, goal, phase>>
     \/ Trips /\ Return /\ UNCHANGED files
  /\ UNCHANGED <<live, records, queued, made, now, steady>>

\* MUTANTS: the list sorted the other way round; one kept too few
MSkipsNewest(V, source, rs) ==
  LET matching == {r \in rs : r.source = source} IN
  /\ V \subseteq matching
  /\ Cardinality(V) = IF Cardinality(matching) > Retain
                      THEN Cardinality(matching) - Retain ELSE 0
  /\ \A v \in V, k \in matching \ V : v.at >= k.at
MSkipsOneMore(V, source, rs) ==
  LET matching == {r \in rs : r.source = source} IN
  /\ V \subseteq matching
  /\ Cardinality(V) = IF Cardinality(matching) >= Retain
                      THEN Cardinality(matching) - Retain + 1 ELSE 0
  /\ \A v \in V, k \in matching \ V : v.at <= k.at

\* apply_retention's list: all but the Retain newest of the source; the
\* order among equal time stamps is the directory's
Skipped(V, source, rs) ==
  LET matching == {r \in rs : r.source = source}
      kept     == matching \ V IN
  /\ V \subseteq matching
  /\ Cardinality(kept) <= Retain
  /\ V # {} => Cardinality(kept) = Retain
  /\ \A v \in V, k \in kept : v.at <= k.at

Stamped   == [draft EXCEPT !.at = now']
Listed(r) == records' = records \cup {r} /\ made' = made \cup {r}

\* The manifest, stamped with the time, and the list made right after it;
\* the manifest or the list may fail.  The device's clock may have been set
\* back since the last backup, once.
WriteManifest ==
  /\ pc = "manifest"
  /\ \/ now' = now + 1
     \/ steady /\ now' \in 1..now
  /\ now' <= MaxTime
  /\ steady' = (steady /\ now' > now)
  /\ \/ /\ Works /\ Listed(Stamped)
        /\ draft' = Stamped
        /\ \E V \in SUBSET records' :
             Skipped(V, draft.source, records') /\ victims' = V
        /\ pc' = "retain"
        /\ UNCHANGED <<caller, victim, goal, phase>>
     \/ Trips /\ Return /\ UNCHANGED <<records, made>>
     \/ Trips /\ Return /\ Listed(Stamped)
  /\ UNCHANGED <<live, files, queued, lastId>>

\* Removal: the data, then the manifest, newest first, failures ignored
RemoveData ==
  /\ pc = "retain"
  /\ \E v \in victims :
       /\ \A u \in victims : u.at <= v.at
       /\ victim' = v /\ victims' = victims \ {v}
       /\ \/ Works /\ files' = files \ {v.id}
          \/ Trips /\ UNCHANGED files
  /\ pc' = "removed"
  /\ UNCHANGED <<live, records, queued, made, caller, draft, goal, count,
                 phase>>

RemoveManifest ==
  /\ pc = "removed"
  /\ \/ Works /\ records' = records \ {victim}
     \/ Trips /\ UNCHANGED records
  /\ victim' = NoRecord
  /\ pc' = "retain"
  /\ UNCHANGED <<live, files, queued, made, caller, draft, victims, goal,
                 count, phase>>

\* The backup is made; the caller goes on with what it wanted it for
BackupDone ==
  /\ pc = "retain" /\ victims = {}
  /\ IF caller = "note" THEN Return
     ELSE /\ pc' = "replace"
          /\ target' = IF caller = "pull" THEN draft ELSE target
          /\ UNCHANGED <<caller, work, incoming, before, phase>>
  /\ UNCHANGED <<disk, count, failures>>

-------------------------------------------------------------------------------
(* The replacement of the live save                                        *)

\* MUTANT: the bytes of a pull, whoever calls
MWanted == incoming

\* What the caller writes over the live save
Wanted == IF caller = "pull" THEN incoming ELSE target.what

\* replace_from_file has to read the data file, a pull has its bytes at hand
Readable == caller = "pull" \/ target.id \in files

\* MUTANT: no rollback
MGiveUp == Return

\* A replacement that failed: pull_one rolls back, restore_local returns
GiveUp ==
  IF caller = "pull"
  THEN pc' = "undo" /\ UNCHANGED <<caller, work, goal, phase>>
  ELSE Return

Replace ==
  /\ pc = "replace" /\ Readable
  /\ live' = Wanted
  /\ pc' = "verify"
  /\ UNCHANGED <<records, files, queued, made, caller, work, goal, count,
                 phase, failures>>

\* The write fails before its rename, or in the fsync that follows it
ReplaceFails ==
  /\ pc = "replace" /\ Readable
  /\ Trips
  /\ live' \in {live, Wanted}
  /\ GiveUp
  /\ UNCHANGED <<records, files, queued, made, count>>

\* Retention has removed the data file since it was verified
SourceGone ==
  /\ pc = "replace" /\ ~Readable
  /\ Return
  /\ UNCHANGED <<disk, count, failures>>

\* The replaced save cannot be read back, or is not what was written
VerifyFails ==
  /\ pc = "verify"
  /\ Trips
  /\ GiveUp
  /\ UNCHANGED <<disk, count>>

\* restore_local of the pull's own backup, after the pull went wrong
RollBack ==
  /\ pc = "undo" /\ Verified(target)
  /\ caller' = "undo" /\ pc' = "data"
  /\ draft' = Drafted("local_before_restore")
  /\ UNCHANGED <<disk, victims, victim, goal, count, phase, failures>>

\* ... whose backup is not in the list or does not verify
NoRollBack ==
  /\ pc = "undo" /\ ~Verified(target)
  /\ Return
  /\ UNCHANGED <<disk, count, failures>>

\* The save is verified: a pull or a rollback is over, a restore still has
\* to clear its queue entry
VerifyPasses ==
  /\ pc = "verify"
  /\ IF caller = "restore"
     THEN pc' = "clear" /\ UNCHANGED <<caller, work, goal, phase>>
     ELSE Return
  /\ UNCHANGED <<disk, count, failures>>

\* store.save of the state without pending_local_restore
ClearQueue ==
  /\ pc = "clear"
  /\ \/ Works /\ queued' = NoRecord
     \/ Trips /\ UNCHANGED queued
  /\ Return
  /\ UNCHANGED <<live, records, files, made, count>>

-------------------------------------------------------------------------------
Next ==
  \/ GameWrites \/ Relaunch \/ Kill \/ CloseBarrier
  \/ StartNote \/ StartPull \/ SkipRestore \/ StartRestore
  \/ \E r \in records : QueueRestore(r)
  \/ WriteData \/ WriteManifest \/ RemoveData \/ RemoveManifest \/ BackupDone
  \/ Replace \/ SourceGone \/ ReplaceFails
  \/ VerifyFails \/ RollBack \/ NoRollBack \/ VerifyPasses \/ ClearQueue

Spec == Init /\ [][Next]_vars
-------------------------------------------------------------------------------
(* Properties                                                              *)

Callers == {"none", "note", "pull", "undo", "restore"}
Steps   == {"idle", "data", "manifest", "retain", "removed", "replace",
            "verify", "undo", "clear"}

\* The type of every variable
TypeOK ==
  /\ live \in Versions
  /\ records \subseteq Records /\ made \subseteq Records
  /\ files \subseteq 1..MaxBackups
  /\ lastId \in 0..MaxBackups /\ now \in 0..MaxTime /\ steady \in BOOLEAN
  /\ queued \in Records \cup {NoRecord}
  /\ phase \in {"restoring", "prelaunch", "playing"}
  /\ caller \in Callers /\ pc \in Steps
  /\ draft \in [id : 0..(MaxBackups + 1), source : Sources \cup {"none"},
                at : 0..MaxTime, what : Versions \cup {NoVersion}]
  /\ victims \subseteq Records
  /\ victim \in Records \cup {NoRecord}
  /\ target \in Records \cup {NoRecord}
  /\ {incoming, before} \subseteq Versions \cup {NoVersion}
  /\ failures \in 0..MaxFailures

Newer(r, rs) == {q \in rs : q.source = r.source /\ q.id > r.id}

\* While the clock runs forward, the Retain last backups of every source are
\* listed and whole, whatever was killed or failed half way through a
\* removal: a backup loses its place only to Retain later ones.
NewestAreKept ==
  steady => \A r \in made : Verified(r) \/ Cardinality(Newer(r, made)) >= Retain

\* "At least 12 backups per slot and source are retained", even when the
\* clock was set back; two backups of one source with the same millisecond
\* are left out.
Untied == \A r, q \in made : r.source = q.source /\ r.at = q.at => r = q
EnoughAreRetained ==
  Untied => \A s \in Sources :
    LET all  == {r \in made : r.source = s}
        here == {r \in all : Verified(r)} IN
    Cardinality(here) >= IF Cardinality(all) < Retain THEN Cardinality(all)
                         ELSE Retain

\* No pull, restore or rollback overwrites a save that is in no backup
NothingOverwrittenIsLost ==
  [][steady /\ live' # live /\ caller # "none"
       => \E r \in records : Verified(r) /\ r.what = live]_vars

\* pull_one returns an error: at the backup, or after its rollback.  A pull
\* that does so leaves the save from before it, unless the app dies or the
\* rollback is what fails.
PullFails ==
  /\ caller' = "none" /\ phase' = phase
  /\ \/ caller = "pull" /\ (failures' # failures \/ pc # "verify")
     \/ caller = "undo" /\ failures' = failures
FailedPullIsUndone == [][steady /\ PullFails => live' = before]_vars

\* A restore that finds its backup whole puts it in place, if nothing fails
\* (IsaacCloudUI.m: "The backup will be verified now, then restored before
\* game initialization on your next launch.")
QueuedIsRestored ==
  [][caller = "restore" /\ caller' = "none" /\ failures' = 0
       => queued' = NoRecord]_vars
===============================================================================
