------------------------------- MODULE SlotSync -------------------------------
(***************************************************************************)
(* One device, its Steam account and the saves of its slots: run_sync,     *)
(* force_slot, push_one, push_new and pull_one of the engine, step by      *)
(* step, with everything that happens around them: the game writes the     *)
(* live save, another PC writes the Steam copy, requests fail or lose      *)
(* their answer, Steam handles a commit late or leaves the SHA-1 out of an *)
(* answer, and the app is killed and launched again.                       *)
(*                                                                         *)
(* A step is what runs between two awaits of the code, or one file         *)
(* operation where the game may write in between.  Saves are versions (see *)
(* SyncDecision); a backup keeps the stored form.  Retention is in         *)
(* BackupStore, the barrier's threads are in PrelaunchBarrier.             *)
(***************************************************************************)
EXTENDS SyncDecision

CONSTANTS
  Slots,        \* the save slots, ordered as run_sync visits them
  MaxVersion,   \* bound: the last version the game or a PC creates
  MaxFaults,    \* bound: failures of the network or of the disk
  MaxLaunches,  \* bound: times the app is killed and launched again
  Hashless,     \* TRUE if Steam may leave the SHA-1 out of an answer
  Racing        \* who writes whatever the engine is doing: "game", "pc", or
                \* "steam" with a commit it handles late

ASSUME SlotsAssumption == Slots \subseteq Nat \ {0}
ASSUME BoundsAssumption ==
  /\ MaxVersion \in Nat /\ MaxVersion >= 2
  /\ MaxFaults \in Nat /\ MaxLaunches \in Nat
ASSUME RacingAssumption ==
  /\ Hashless \in BOOLEAN
  /\ Racing \subseteq {"game", "pc", "steam"}

VARIABLES
  phone,     \* slot -> version of the live save file
  steam,     \* slot -> form of the file on Steam, or Absent
  late,      \* slot -> versions Steam may commit though nobody waits for it
  newest,    \* the last version created
  base,      \* slot -> base_sha256 in sync-state.json, or Absent
  queue,     \* slot -> pending_remote_pulls in sync-state.json, or Absent
  queueBare, \* the slots of queue whose expected_steam_sha1 is None
  backups,   \* slot -> forms kept in the backup directory
  allowed,   \* replacement_allowed
  snap,      \* slot -> the constructor's preflight_saves, NoSlots once taken
  kind,      \* the operation in the lane
  pc,        \* its next step
  cur,       \* the slot it is at
  todo,      \* the slots run_sync has still to visit
  seen,      \* slot -> the LocalSave identity it compares
  listed,    \* slot -> the Steam changelist it works from
  bare,      \* the slots that changelist has without a SHA-1
  bytes,     \* the Steam bytes it downloaded for cur
  kept,      \* the local bytes it backed up or staged for cur
  memBase,   \* its SyncState in memory: files
  memQueue,  \* its SyncState in memory: pending_remote_pulls
  memBare,   \* the slots of memQueue whose expected_steam_sha1 is None
  asked,     \* the choices run_sync has collected
  choices,   \* status.pending_choices
  onPhone,   \* history: slot -> versions the live save has had
  onSteam,   \* history: slot -> versions Steam has had
  stopped,   \* history: an error or a kill has cut an operation short
  faults, launches

saves   == <<phone, steam, newest, onPhone, onSteam>>
world   == <<saves, late>>
stored  == <<base, queue, queueBare>>
disk    == <<stored, backups>>
listing == <<listed, bare>>
mem     == <<memBase, memQueue, memBare>>
work    == <<cur, todo, seen, listing, bytes, kept, mem, asked>>
ghost   == <<stopped, faults, launches>>
vars    == <<world, disk, allowed, snap, kind, pc, work, choices, ghost>>

Versions == 1..MaxVersion
Forms    == Versions \cup {-v : v \in Versions}
Syncs    == {"prelaunch", "foreground", "manual", "resolution"}
Forces   == {"force_local", "force_remote", "resolve_local", "resolve_remote"}
Steps    == {"idle", "list", "slots", "decide", "pull", "replace", "verify",
             "push", "assert", "commit", "confirm", "force_list",
             "force_download", "save"}
NoSlots  == [s \in Slots |-> Absent]

UsesLocal(k) == k \in {"force_local", "resolve_local"}

\* A fresh installation of the library: the game's saves exist, Steam has
\* any of nothing, the same save, another one, or a raw-LZ4 form of either.
Init ==
  /\ phone = [s \in Slots |-> 1]
  /\ steam \in [Slots -> {Absent, 1, 2, -1, -2}]
  /\ late = [s \in Slots |-> {}]
  /\ newest = IF \E s \in Slots : Canonical(steam[s]) = 2 THEN 2 ELSE 1
  /\ base = NoSlots /\ queue = NoSlots /\ queueBare = {}
  /\ backups = [s \in Slots |-> {}]
  /\ allowed = TRUE
  /\ snap = phone
  /\ kind = "none" /\ pc = "idle" /\ cur = 0 /\ todo = {}
  /\ seen = NoSlots /\ listed = NoSlots /\ bare = {}
  /\ bytes = Absent /\ kept = Absent
  /\ memBase = NoSlots /\ memQueue = NoSlots /\ memBare = {}
  /\ asked = {} /\ choices = {}
  /\ onPhone = [s \in Slots |-> {1}]
  /\ onSteam = [s \in Slots |-> {Canonical(steam[s])} \ {Absent}]
  /\ stopped = FALSE /\ faults = 0 /\ launches = 0

\* The operation ends; whatever it held in memory is dropped
EndOperation ==
  /\ kind' = "none" /\ pc' = "idle" /\ cur' = 0 /\ todo' = {}
  /\ seen' = NoSlots /\ listed' = NoSlots /\ bare' = {}
  /\ bytes' = Absent /\ kept' = Absent
  /\ memBase' = NoSlots /\ memQueue' = NoSlots /\ memBare' = {} /\ asked' = {}

\* An error ends it: what it had not saved is lost
StopOperation == EndOperation /\ stopped' = TRUE

\* run_sync goes on to its next slot
SlotDone ==
  /\ pc' = "slots" /\ todo' = todo \ {cur} /\ cur' = 0
  /\ bytes' = Absent /\ kept' = Absent
  /\ UNCHANGED <<kind, seen, listing>>

BackUp(s, forms) == backups' = [backups EXCEPT ![s] = @ \cup forms]

\* The queued pull of cur is removed from the state in memory
Unqueue ==
  /\ memQueue' = [memQueue EXCEPT ![cur] = Absent]
  /\ memBare' = memBare \ {cur}

\* Slots whose SHA-1 may be missing from one answer of Steam (sha_file)
Answers == IF Hashless THEN SUBSET Slots ELSE {{}}

-------------------------------------------------------------------------------
(* The environment                                                         *)

\* The game saves progress to the live file.  Unless it races, it does so
\* neither before the barrier is closed nor during an operation.
GameWrites(s) ==
  /\ "game" \in Racing \/ (kind = "none" /\ ~allowed)
  /\ newest < MaxVersion
  /\ newest' = newest + 1
  /\ phone' = [phone EXCEPT ![s] = newest + 1]
  /\ onPhone' = [onPhone EXCEPT ![s] = @ \cup {newest + 1}]
  /\ UNCHANGED <<steam, onSteam, late, disk, allowed, snap, kind, pc,
                 work, choices, ghost>>

\* Isaac on a PC publishes progress to Steam
PcWrites(s) ==
  /\ "pc" \in Racing \/ kind = "none"
  /\ newest < MaxVersion
  /\ newest' = newest + 1
  /\ steam' = [steam EXCEPT ![s] = newest + 1]
  /\ onSteam' = [onSteam EXCEPT ![s] = @ \cup {newest + 1}]
  /\ UNCHANGED <<phone, onPhone, late, disk, allowed, snap, kind, pc,
                 work, choices, ghost>>

\* A commit that nobody waits for any longer may still be handled
GivenUp ==
  \/ late' = late
  \/ pc = "commit" /\ late' = [late EXCEPT ![cur] = @ \cup {kept}]

\* Steam handles such a commit, after the operation that sent it
LateCommit(s) ==
  /\ "steam" \in Racing \/ kind = "none"
  /\ \E v \in late[s] :
       /\ late' = [late EXCEPT ![s] = @ \ {v}]
       /\ steam' = [steam EXCEPT ![s] = v]
       /\ onSteam' = [onSteam EXCEPT ![s] = @ \cup {v}]
  /\ UNCHANGED <<phone, newest, onPhone, disk, allowed, snap, kind, pc, work,
                 choices, ghost>>

\* The app is killed at any moment and launched again: the constructor
\* captures the saves and the preflight thread opens the barrier.
Relaunch ==
  /\ launches < MaxLaunches
  /\ launches' = launches + 1
  /\ allowed' = TRUE
  /\ snap' = phone
  /\ choices' = {}
  /\ stopped' = (stopped \/ kind # "none")
  /\ GivenUp
  /\ EndOperation
  /\ UNCHANGED <<saves, disk, faults>>

\* The preflight thread withdraws the permission.  It takes the guard first
\* when the prelaunch operation had the lane, and only then.
CloseBarrier ==
  /\ allowed
  /\ pc \in {"replace", "verify"} => kind # "prelaunch"
  /\ allowed' = FALSE
  /\ UNCHANGED <<world, disk, snap, kind, pc, work, choices, ghost>>

\* A request, a transfer or a file operation fails: the error ends the
\* operation, and with it every BASE and queue change not saved yet.
Fail ==
  /\ pc \notin {"idle", "replace", "verify"}
  /\ faults < MaxFaults
  /\ faults' = faults + 1
  /\ GivenUp
  /\ StopOperation
  /\ UNCHANGED <<saves, disk, allowed, snap, choices, launches>>

-------------------------------------------------------------------------------
(* run_sync                                                                *)

\* automatic_sync; the prelaunch one belongs to the barrier.  run_sync starts
\* by forgetting the choices it showed before.
BeginSync(k) ==
  /\ kind = "none"
  /\ k \in {"prelaunch", "foreground", "manual"}
  /\ k = "prelaunch" => allowed
  /\ kind' = k /\ pc' = "list"
  /\ choices' = {}
  /\ UNCHANGED <<world, disk, allowed, snap, work, ghost>>

\* A manual sync looks at every local save, any other only at those that
\* Steam has too.
Candidates == IF kind = "manual" THEN Slots
                                 ELSE {s \in Slots : steam[s] # Absent}

\* The changelist arrives; the local saves are then read, or taken from the
\* constructor's snapshot, and the stored state is loaded.
ListSaves ==
  /\ pc = "list"
  /\ Candidates # {}
  /\ kind = "prelaunch" => snap # NoSlots
  /\ snap' = (IF kind = "prelaunch" THEN NoSlots ELSE snap)
  /\ seen' = (IF kind = "prelaunch" THEN snap ELSE phone)
  /\ listed' = steam /\ bare' \in Answers
  /\ todo' = Candidates
  /\ memBase' = base /\ memQueue' = queue /\ memBare' = queueBare
  /\ pc' = "slots"
  /\ UNCHANGED <<world, disk, allowed, kind, cur, bytes, kept, asked, choices,
                 ghost>>

\* "early preflight save snapshot unavailable", or no matching save
NothingToCompare ==
  /\ pc = "list"
  /\ Candidates = {} \/ (kind = "prelaunch" /\ snap = NoSlots)
  /\ snap' = (IF kind = "prelaunch" THEN NoSlots ELSE snap)
  /\ EndOperation
  /\ UNCHANGED <<world, disk, allowed, choices, ghost>>

IsNext(s) == s \in todo /\ \A t \in todo : s <= t

\* A save Steam does not have is backed up and shown to the user
AskMissing(s) ==
  /\ pc = "slots" /\ IsNext(s) /\ listed[s] = Absent
  /\ BackUp(s, {phone[s]})
  /\ asked' = asked \cup {s}
  /\ todo' = todo \ {s}
  /\ UNCHANGED <<world, stored, allowed, snap, kind, pc, cur,
                 seen, listing, bytes, kept, mem, choices, ghost>>

\* The download is checked against the SHA-1 Steam reports with it, and only
\* without one against that of the changelist: it may be newer than listed.
Download(s) ==
  /\ pc = "slots" /\ IsNext(s) /\ listed[s] # Absent
  /\ cur' = s
  /\ bytes' = steam[s]
  /\ pc' = "decide"
  /\ UNCHANGED <<world, disk, allowed, snap, kind, todo, seen,
                 listing, kept, mem, asked, choices, ghost>>

\* Steam reports no SHA-1 with the download, and the one of the changelist is
\* that of an older version
DownloadMismatch ==
  /\ Hashless
  /\ \E s \in Slots \ bare :
       /\ \/ pc = "slots" /\ IsNext(s)
          \/ pc = "force_download" /\ s = cur
       /\ listed[s] \notin {Absent, steam[s]}
  /\ StopOperation
  /\ UNCHANGED <<world, disk, allowed, snap, choices, faults, launches>>

\* MUTANT: the queue entry is honoured without its version pin
MPinIgnored == memQueue[cur] # Absent

\* The SHA-1 of the queued pull of cur is the listed one.  Both are optional,
\* and two missing ones are equal, whatever the versions are.
PinHolds ==
  /\ memQueue[cur] # Absent
  /\ \/ cur \in memBare \cap bare
     \/ cur \notin memBare \cup bare /\ memQueue[cur] = listed[cur]

HoldQueuedPull ==
  /\ pc = "decide" /\ PinHolds /\ ~allowed
  /\ asked' = asked \cup {cur}
  /\ SlotDone
  /\ UNCHANGED <<world, disk, allowed, snap, mem, choices, ghost>>

ApplyQueuedPull ==
  /\ pc = "decide" /\ PinHolds /\ allowed
  /\ pc' = "pull"
  /\ UNCHANGED <<world, disk, allowed, snap, kind, work, choices,
                 ghost>>

\* Any other slot is compared; a queue entry that no longer matches is dropped
Verdict(v) ==
  /\ pc = "decide" /\ ~PinHolds
  /\ v = Decide(memBase[cur], seen[cur], Canonical(bytes))
  /\ Unqueue

\* MUTANT: any synchronisation uploads, not only Sync Now
MUploadsAtOnce(v) ==
  \/ v = "upload_local"
  \/ v \in {"unchanged", "converged"} /\ NeedsRepair(bytes)

\* MUTANT: a converged slot is uploaded although Steam has it already
MUploadsConverged(v) ==
  /\ kind = "manual"
  /\ \/ v \in {"upload_local", "converged"}
     \/ v = "unchanged" /\ NeedsRepair(bytes)

\* Only a manual sync uploads: a local change, or the repair of a raw-LZ4 copy
Publishes(v) ==
  /\ kind = "manual"
  /\ \/ v = "upload_local"
     \/ v \in {"unchanged", "converged"} /\ NeedsRepair(bytes)

\* Nothing changed, or an upload that has to wait for Sync Now
LeaveAlone ==
  /\ \E v \in {"unchanged", "upload_local"} : Verdict(v) /\ ~Publishes(v)
  /\ SlotDone
  /\ UNCHANGED <<world, disk, allowed, snap, memBase, asked,
                 choices, ghost>>

\* MUTANT: BASE learns the raw-LZ4 form that was downloaded
MLearnRaw ==
  /\ Verdict("converged") /\ ~Publishes("converged")
  /\ memBase' = [memBase EXCEPT ![cur] = bytes]
  /\ SlotDone
  /\ UNCHANGED <<world, disk, allowed, snap, asked, choices, ghost>>

\* Both sides changed to the same save: it is the new BASE
Learn ==
  /\ Verdict("converged") /\ ~Publishes("converged")
  /\ memBase' = [memBase EXCEPT ![cur] = seen[cur]]
  /\ SlotDone
  /\ UNCHANGED <<world, disk, allowed, snap, asked, choices, ghost>>

Publish ==
  /\ \E v \in Verdicts : Verdict(v) /\ Publishes(v)
  /\ pc' = "push"
  /\ UNCHANGED <<world, disk, allowed, snap, kind, cur, todo, seen,
                 listing, bytes, kept, memBase, asked, choices, ghost>>

Adopt ==
  /\ Verdict("download_remote") /\ allowed
  /\ pc' = "pull"
  /\ UNCHANGED <<world, disk, allowed, snap, kind, cur, todo, seen,
                 listing, bytes, kept, memBase, asked, choices, ghost>>

\* MUTANT: a refused download is left without a choice
MDownloadUnasked ==
  /\ Verdict("download_remote") /\ ~allowed
  /\ SlotDone
  /\ UNCHANGED <<world, disk, allowed, snap, memBase, asked, choices, ghost>>

AskRestart ==
  /\ Verdict("download_remote") /\ ~allowed
  /\ asked' = asked \cup {cur}
  /\ SlotDone
  /\ UNCHANGED <<world, disk, allowed, snap, memBase, choices,
                 ghost>>

\* No winner is guessed: both versions are backed up and the user is asked
AskUser ==
  /\ \E v \in {"conflict", "first_sync"} : Verdict(v)
  /\ BackUp(cur, {phone[cur], bytes})
  /\ asked' = asked \cup {cur}
  /\ SlotDone
  /\ UNCHANGED <<world, stored, allowed, snap, memBase,
                 choices, ghost>>

\* Every slot visited: the state is saved and the status replaced
SaveState ==
  /\ pc = "slots" /\ todo = {}
  /\ base' = memBase /\ queue' = memQueue /\ queueBare' = memBare
  /\ choices' = asked
  /\ EndOperation
  /\ UNCHANGED <<world, backups, allowed, snap, ghost>>

SyncStep ==
  \/ ListSaves \/ NothingToCompare
  \/ \E s \in Slots : AskMissing(s) \/ Download(s)
  \/ DownloadMismatch
  \/ HoldQueuedPull \/ ApplyQueuedPull \/ LeaveAlone \/ Learn \/ Publish
  \/ Adopt \/ AskRestart \/ AskUser \/ SaveState

-------------------------------------------------------------------------------
(* pull_one                                                                *)

\* MUTANT: the live file is replaced without a backup
MBackUpForPull ==
  /\ pc = "pull" /\ allowed
  /\ backups' = backups
  /\ kept' = phone[cur]
  /\ pc' = "replace"
  /\ UNCHANGED <<world, stored, allowed, snap, kind, cur, todo,
                 seen, listing, bytes, mem, asked, choices, ghost>>

\* Under the guard, with the permission checked again, the live file is copied
BackUpForPull ==
  /\ pc = "pull" /\ allowed
  /\ BackUp(cur, {phone[cur]})
  /\ kept' = phone[cur]
  /\ pc' = "replace"
  /\ UNCHANGED <<world, stored, allowed, snap, kind, cur, todo,
                 seen, listing, bytes, mem, asked, choices, ghost>>

PullRefused ==
  /\ pc = "pull" /\ ~allowed
  /\ StopOperation
  /\ UNCHANGED <<world, disk, allowed, snap, choices, faults, launches>>

\* atomic::write_bytes: the canonical bytes take the place of the live file
Replace ==
  /\ pc = "replace"
  /\ phone' = [phone EXCEPT ![cur] = Canonical(bytes)]
  /\ onPhone' = [onPhone EXCEPT ![cur] = @ \cup {Canonical(bytes)}]
  /\ pc' = "verify"
  /\ UNCHANGED <<steam, late, newest, onSteam, disk, allowed, snap, kind,
                 work, choices, ghost>>

\* MUTANT: BASE is not moved after a pull
MVerifyKeepsBase ==
  /\ pc = "verify" /\ phone[cur] = Canonical(bytes)
  /\ Unqueue
  /\ SlotDone
  /\ UNCHANGED <<world, disk, allowed, snap, memBase, asked, choices, ghost>>

VerifyPull ==
  /\ pc = "verify" /\ phone[cur] = Canonical(bytes)
  /\ memBase' = [memBase EXCEPT ![cur] = phone[cur]]
  /\ Unqueue
  /\ SlotDone
  /\ UNCHANGED <<world, disk, allowed, snap, asked, choices, ghost>>

\* restore_local: what is in the file now is backed up, the old save returns
RollBack ==
  /\ BackUp(cur, {phone[cur]})
  /\ phone' = [phone EXCEPT ![cur] = kept]
  /\ StopOperation
  /\ UNCHANGED <<steam, late, newest, onPhone, onSteam, stored, allowed, snap,
                 choices, launches>>

WriteFails == pc = "replace" /\ faults < MaxFaults /\ faults' = faults + 1
              /\ RollBack

VerifyFails == pc = "verify" /\ phone[cur] # Canonical(bytes)
               /\ faults' = faults /\ RollBack

PullStep == BackUpForPull \/ PullRefused \/ Replace \/ VerifyPull
            \/ VerifyFails

-------------------------------------------------------------------------------
(* push_one and push_new                                                   *)

\* prepare_upload stages a stable copy of the file as it is now
PrepareUpload ==
  /\ pc = "push"
  /\ kept' = phone[cur]
  /\ pc' = "assert"
  /\ UNCHANGED <<world, disk, allowed, snap, kind, cur, todo, seen,
                 listing, bytes, mem, asked, choices, ghost>>

\* assert_remote_unchanged lists Steam again.  It compares the SHA-1s if both
\* listings have one, and otherwise downloads the copy and compares the bytes;
\* push_new has none and wants to find none.
StillThere(answer) ==
  IF listed[cur] = Absent \/ cur \notin bare \cup answer
    THEN steam[cur] = listed[cur]
    ELSE steam[cur] = bytes

\* push_one then backs up the bytes it is about to replace, push_new the local
\* file
AssertUnchanged ==
  /\ pc = "assert" /\ \E answer \in Answers : StillThere(answer)
  /\ BackUp(cur, {IF listed[cur] = Absent THEN phone[cur] ELSE bytes})
  /\ pc' = "commit"
  /\ UNCHANGED <<world, stored, allowed, snap, kind, work,
                 choices, ghost>>

SteamMoved ==
  /\ pc = "assert" /\ \E answer \in Answers : ~StillThere(answer)
  /\ StopOperation
  /\ UNCHANGED <<world, disk, allowed, snap, choices, faults, launches>>

\* Steam commits the upload; the answer may still be lost (Fail)
Commit ==
  /\ pc = "commit"
  /\ steam' = [steam EXCEPT ![cur] = kept]
  /\ onSteam' = [onSteam EXCEPT ![cur] = @ \cup {kept}]
  /\ pc' = "confirm"
  /\ UNCHANGED <<phone, late, newest, onPhone, disk, allowed, snap, kind,
                 work, choices, ghost>>

\* MUTANT: BASE takes the live save of now, not the one that was uploaded
MConfirm ==
  /\ pc = "confirm" /\ steam[cur] = kept
  /\ memBase' = [memBase EXCEPT ![cur] = phone[cur]]
  /\ IF kind \in Syncs
       THEN SlotDone
       ELSE pc' = "save" /\ UNCHANGED <<kind, cur, todo, seen, listing, bytes,
                                        kept>>
  /\ UNCHANGED <<world, disk, allowed, snap, memQueue, memBare, asked,
                 choices, ghost>>

\* The changelist shows the uploaded SHA-1, and the local file has not changed
\* since it was staged: BASE advances
Confirm ==
  /\ pc = "confirm" /\ steam[cur] = kept /\ phone[cur] = kept
  /\ memBase' = [memBase EXCEPT ![cur] = kept]
  /\ IF kind \in Syncs
       THEN SlotDone
       ELSE pc' = "save" /\ UNCHANGED <<kind, cur, todo, seen, listing, bytes,
                                        kept>>
  /\ UNCHANGED <<world, disk, allowed, snap, memQueue, memBare, asked,
                 choices, ghost>>

\* It shows another SHA-1, or none; or the local file has changed
NotConfirmed ==
  /\ pc = "confirm"
  /\ steam[cur] # kept \/ phone[cur] # kept \/ Hashless
  /\ StopOperation
  /\ UNCHANGED <<world, disk, allowed, snap, choices, faults, launches>>

PushStep == PrepareUpload \/ AssertUnchanged \/ SteamMoved \/ Commit
            \/ Confirm \/ NotConfirmed

-------------------------------------------------------------------------------
(* force_slot: Force Push, Force Pull and the answer to a choice           *)

BeginForce(k, s) ==
  /\ kind = "none"
  /\ k \in {"resolve_local", "resolve_remote"} => s \in choices
  /\ kind' = k /\ cur' = s /\ pc' = "force_list"
  /\ UNCHANGED <<world, disk, allowed, snap, todo, seen, listing,
                 bytes, kept, mem, asked, choices, ghost>>

\* Steam lists the save, or push_new can create it
ForceList ==
  /\ pc = "force_list"
  /\ steam[cur] # Absent \/ UsesLocal(kind)
  /\ seen' = phone /\ listed' = steam /\ bare' \in Answers
  /\ memBase' = base /\ memQueue' = queue /\ memBare' = queueBare
  /\ pc' = (IF steam[cur] = Absent THEN "push" ELSE "force_download")
  /\ UNCHANGED <<world, disk, allowed, snap, kind, cur, todo, bytes,
                 kept, asked, choices, ghost>>

\* "there is no remote version to pull"
NothingToPull ==
  /\ pc = "force_list" /\ steam[cur] = Absent /\ ~UsesLocal(kind)
  /\ EndOperation
  /\ UNCHANGED <<world, disk, allowed, snap, choices, ghost>>

\* Both versions are backed up; the local one is then pushed, or the listed
\* one is queued for the next launch
ForceDownload ==
  /\ pc = "force_download"
  /\ bytes' = steam[cur]
  /\ BackUp(cur, {phone[cur], steam[cur]})
  /\ IF UsesLocal(kind)
       THEN pc' = "push" /\ UNCHANGED <<memQueue, memBare>>
       ELSE /\ pc' = "save"
            /\ memQueue' = [memQueue EXCEPT ![cur] = listed[cur]]
            /\ memBare' = (memBare \ {cur}) \cup ({cur} \cap bare)
  /\ UNCHANGED <<world, stored, allowed, snap, kind, cur, todo,
                 seen, listing, kept, memBase, asked, choices, ghost>>

\* The state is saved; a choice resolved for the iPhone is followed by a
\* synchronisation, which uploads nothing
ForceSave ==
  /\ pc = "save"
  /\ base' = memBase /\ queue' = memQueue /\ queueBare' = memBare
  /\ IF kind = "resolve_local"
       THEN /\ kind' = "resolution" /\ pc' = "list" /\ choices' = {}
            /\ cur' = 0 /\ todo' = {} /\ asked' = {}
            /\ seen' = NoSlots /\ listed' = NoSlots /\ bare' = {}
            /\ bytes' = Absent /\ kept' = Absent
            /\ memBase' = NoSlots /\ memQueue' = NoSlots /\ memBare' = {}
       ELSE choices' = choices \ {cur} /\ EndOperation
  /\ UNCHANGED <<world, backups, allowed, snap, ghost>>

ForceStep == ForceList \/ NothingToPull \/ ForceDownload \/ ForceSave

-------------------------------------------------------------------------------

OperationStep == SyncStep \/ PullStep \/ PushStep \/ ForceStep

Next ==
  \/ \E s \in Slots : GameWrites(s) \/ PcWrites(s) \/ LateCommit(s)
  \/ Relaunch \/ CloseBarrier \/ Fail \/ WriteFails
  \/ \E k \in Syncs : BeginSync(k)
  \/ \E k \in Forces, s \in Slots : BeginForce(k, s)
  \/ OperationStep

Spec == Init /\ [][Next]_vars

\* Every request has a timeout, so an operation goes on until it ends; the
\* barrier has a deadline; and the user presses Sync Now again and again,
\* whatever the lifecycle does in between.
FairSpec ==
  /\ Spec
  /\ WF_vars(OperationStep) /\ WF_vars(CloseBarrier)
  /\ SF_vars(BeginSync("manual"))

-------------------------------------------------------------------------------
(* Properties                                                              *)

\* The variables keep their types.
TypeOK ==
  /\ phone \in [Slots -> Versions]
  /\ steam \in [Slots -> Forms \cup {Absent}]
  /\ late \in [Slots -> SUBSET Versions]
  /\ newest \in Versions
  /\ base \in [Slots -> Versions \cup {Absent}]
  /\ queue \in [Slots -> Forms \cup {Absent}] /\ queueBare \subseteq Slots
  /\ backups \in [Slots -> SUBSET Forms]
  /\ allowed \in BOOLEAN
  /\ snap \in [Slots -> Versions \cup {Absent}]
  /\ kind \in {"none"} \cup Syncs \cup Forces
  /\ pc \in Steps
  /\ cur \in Slots \cup {0} /\ todo \subseteq Slots
  /\ seen \in [Slots -> Versions \cup {Absent}]
  /\ listed \in [Slots -> Forms \cup {Absent}] /\ bare \subseteq Slots
  /\ bytes \in Forms \cup {Absent} /\ kept \in Versions \cup {Absent}
  /\ memBase \in [Slots -> Versions \cup {Absent}]
  /\ memQueue \in [Slots -> Forms \cup {Absent}] /\ memBare \subseteq Slots
  /\ asked \subseteq Slots /\ choices \subseteq Slots
  /\ onPhone \in [Slots -> SUBSET Versions]
  /\ onSteam \in [Slots -> SUBSET Versions]
  /\ stopped \in BOOLEAN /\ faults \in Nat /\ launches \in Nat

\* BASE is a version verified on both sides (sync_engine.rs): a stored BASE has
\* been the content of the live save and of the Steam copy of its slot,
\* through every race, failed request, lost answer and crash.
BaseSeenOnBothSides ==
  \A s \in Slots : base[s] # Absent => base[s] \in onPhone[s] \cap onSteam[s]

\* A step of the operation in the lane changes the file: not the game, a PC, or
\* a commit of an earlier operation
EngineWritesPhone(s) == phone'[s] # phone[s] /\ newest' = newest
EngineWritesSteam(s) == steam'[s] # steam[s] /\ newest' = newest /\ late' = late

\* Automatic launch and foreground checks never upload (README): Steam changes
\* only at the hand of a manual sync or of a choice for the iPhone save.
AutomaticNeverUploads ==
  [][\A s \in Slots :
       EngineWritesSteam(s) => (kind = "manual" \/ UsesLocal(kind))]_vars

\* What the engine overwrites is in the backups, on both sides and when it
\* rolls back; the only exception is a version that the game or a PC wrote
\* after the engine's last check of that file.  It holds while Steam handles no
\* late commit during an operation.
ReplacedIsBackedUp ==
  [][\A s \in Slots :
       /\ EngineWritesPhone(s) =>
            \/ phone[s] \in backups'[s]
            \/ pc = "replace" /\ phone[s] # kept
       /\ (EngineWritesSteam(s) /\ steam[s] # Absent) =>
            steam[s] \in backups[s] \/ steam[s] \notin {listed[s], bytes}]_vars

\* A manual sync never sends Steam a save it already has, so the retry of an
\* upload whose answer was lost finds both sides converged.  It holds while
\* Steam handles no late commit during an operation.
NoRedundantUpload ==
  [][(pc = "commit" /\ pc' = "confirm" /\ kind = "manual")
       => steam[cur] # kept]_vars

\* Without an order of the user for the slot, a pull only replaces a save that
\* Steam has had: progress made on the phone since is a conflict, and asked
\* about (the README's table).  It holds while the game does not write between
\* the moment its save is compared and the moment it is replaced.
PhoneProgressNotPulledOver ==
  [][\A s \in Slots :
       (EngineWritesPhone(s) /\ pc' = "verify" /\ memQueue[s] = Absent)
         => phone[s] \in onSteam[s]]_vars

\* A manual sync only replaces a Steam copy that the phone has had: a true
\* conflict is never overwritten automatically (the Sync Now dialog).  It
\* holds while no PC writes between the second changelist and the commit.
SteamProgressNotPushedOver ==
  [][\A s \in Slots :
       (EngineWritesSteam(s) /\ kind = "manual")
         => Canonical(steam[s]) \in onPhone[s]]_vars

\* The user is asked about a conflict only where each side has progress that
\* the other never had: BASE is the last version verified on both sides.  It
\* holds as long as operations run to their end: one that is refused or fails
\* in a later slot, or whose upload is not confirmed, leaves BASE behind.  (A
\* save compared by a stale identity is a different matter.)
ConflictIsReal ==
  (pc = "decide" /\ ~PinHolds /\ seen[cur] = phone[cur]
     /\ Decide(memBase[cur], seen[cur], Canonical(bytes)) = "conflict"
     /\ ~stopped)
    => seen[cur] \notin onSteam[cur] /\ Canonical(bytes) \notin onPhone[cur]

\* A queued pull whose SHA-1 is known writes the version the user selected
\* (the dialog of Force Pull calls the choice hash-pinned), whoever writes,
\* whatever fails and whatever was published in between.  The only exception is
\* a version that Steam received between the changelist and the download.
HashedPullIsPinned ==
  [][(pc = "replace" /\ pc' = "verify" /\ memQueue[cur] # Absent
        /\ cur \notin memBare)
       => \/ phone'[cur] = Canonical(memQueue[cur])
          \/ bytes # listed[cur]]_vars

\* Under fair scheduling every divergence between the two sides is resolved or
\* shown to the user, again and again.
EventuallySettled ==
  []<>(\A s \in Slots : Canonical(steam[s]) = phone[s] \/ s \in choices)
===============================================================================
