------------------------------- MODULE LiveFile -------------------------------
(***************************************************************************)
(* The live save file of a slot, between the game, which writes it in      *)
(* place whenever it likes, the library, which reads it meanwhile and may  *)
(* replace it, and a file system that may lose what was not flushed.  The  *)
(* preflight runs beside the game, so nothing here keeps the game from     *)
(* writing during a replacement; when the library may replace a save is    *)
(* the question of PrelaunchBarrier.                                       *)
(*                                                                         *)
(* A file is made of two pieces, what is before and what is after the      *)
(* place where a write or a read of it may be interrupted.  Game and       *)
(* library are one process: both end together.  An older generation of the *)
(* game left its save of the slot beside the active one.                   *)
(***************************************************************************)
EXTENDS SaveFormat, FiniteSets, TLC

CONSTANTS
  Nothing,    \* no piece, and no file
  Entries,    \* the achievement entries of a save
  Progress,   \* what the player may have unlocked: sets of achievements
  Cut,        \* where a file's second piece begins
  Attempts,   \* STABLE_READ_ATTEMPTS
  MaxWrites,  \* bound: files the game writes
  MaxReplaces \* bound: replacements

\* What the game and the library write, whole, and what a file may hold of it.
Forms   == {"canonical", "compressed", "rebirth"}
Written == [progress : Progress, form : Forms]
Content == [head : Written \cup {Nothing}, tail : Written \cup {Nothing}]

ASSUME BoundsAssumption ==
  /\ Attempts \in Nat \ {0} /\ {MaxWrites, MaxReplaces} \subseteq Nat
  /\ Progress # {} /\ \A p \in Progress : p \subseteq 1..MaxId

ASSUME NothingAssumption == Nothing \notin Written \cup Content

VARIABLES
  disk,      \* per path, the content a read sees
  lost,      \* per path, other contents a power loss may bring back
  writing,   \* the game is between the two pieces of a write
  op,        \* the library's operation
  result,    \* what an operation has returned in the last step
  promised,  \* per path, the save a replacement has reported as written
  writes,    \* the number of files the game has written
  replaces   \* the number of replacements

vars == <<disk, lost, writing, op, result, promised, writes, replaces>>

\* The two paths of a slot; "rep" is that of the active generation.
Paths == {"rep", "old"}

\* --------------------------------------------------------------------- files

Stream(p) == SaveWith(Entries, p)

Bytes(f) ==
  CASE f.form = "canonical"  -> Stream(f.progress)
    [] f.form = "compressed" -> CHOOSE b \in Files(Stream(f.progress)) :
                                  \A d \in Files(Stream(f.progress)) :
                                    Len(b) <= Len(d)
    [] f.form = "rebirth"    -> [Stream(f.progress) EXCEPT ![1] = Magic + 1]

File(f) == [head |-> f, tail |-> f]
Empty   == File(Nothing)
Exists(path) == disk[path] # Nothing

\* The bytes of a content, and the tables of what they decode to and of the
\* progress they stand for: none for a torn file, unless its bytes are another
\* way to write the same save.
Raw == Empty :> <<>> @@ [c \in Content \ {Empty} |->
  (IF c.head = Nothing THEN <<>> ELSE SubSeq(Bytes(c.head), 1, Cut))
  \o (IF c.tail = Nothing THEN <<>>
      ELSE SubSeq(Bytes(c.tail), Cut + 1, Len(Bytes(c.tail))))]

Canonical == Empty :> Invalid @@ [c \in Content \ {Empty} |->
                                    Canonicalize(Raw[c])]

ProgressOf == Empty :> {} @@ [c \in Content \ {Empty} |->
                {p \in Progress : Raw[c] \in Files(Stream(p))}]

\* ---------------------------------------------------------------- operations

Kinds == {"discover", "immediate", "unlocks", "upload", "replace"}

Idle == [kind |-> "none", at |-> "idle", repentance |-> FALSE, todo |-> {},
         path |-> Nothing, attempt |-> 0, round |-> 0,
         size |-> 0, moved |-> FALSE, read |-> Nothing,
         last |-> Nothing, lastSize |-> 0, staged |-> Nothing, same |-> TRUE,
         found |-> {}, new |-> Nothing, synced |-> FALSE,
         calm |-> FALSE, seen |-> {}]

NoResult == [kind |-> "none", ok |-> FALSE, found |-> {}]

\* Saves, of the player's progress or of what it was in an older generation.
Saves(progress, forms) ==
  {File(f) : f \in [progress : progress, form : forms]}
Older == {CHOOSE p \in Progress : TRUE}

Init ==
  /\ \E old \in {Nothing} \cup Saves(Older, {"compressed", "rebirth"}),
        rep \in {Nothing} \cup Saves(Progress, {"compressed", "canonical"}) :
       disk = [path \in Paths |-> IF path = "rep" THEN rep ELSE old]
  /\ lost = [path \in Paths |-> {}]
  /\ writing = FALSE
  /\ op = Idle /\ result = NoResult
  /\ promised = [path \in Paths |-> Nothing]
  /\ writes = 0 /\ replaces = 0

\* --------------------------------------------------------------- environment

\* The game writes a piece of the active save: a reader sees it from now on, and
\* two writes may share a time stamp.  That a power loss may undo it is left
\* out: it puts back what the game itself had left.
Put(content) ==
  /\ disk' = [disk EXCEPT !["rep"] = content]
  /\ \E stamp \in BOOLEAN :
       op' = IF op = Idle THEN Idle
             ELSE [op EXCEPT !.calm = FALSE,
                    !.seen = @ \cup ProgressOf[content],
                    !.moved = @ \/ (stamp /\ op.path = "rep")]
  /\ promised' = [promised EXCEPT !["rep"] = Nothing]
  /\ result' = NoResult

\* The game opens its save, over the old one or after truncating it, and writes
\* the first piece; then the second one.
GameWrites(p) ==
  /\ ~writing /\ writes < MaxWrites
  /\ \E tail \in IF Exists("rep") THEN {Nothing, disk["rep"].tail}
                                  ELSE {Nothing} :
       Put([head |-> [progress |-> p, form |-> "compressed"], tail |-> tail])
  /\ writing' = TRUE /\ writes' = writes + 1
  /\ UNCHANGED <<lost, replaces>>

GameCompletes ==
  /\ writing
  /\ Put(File(disk["rep"].head))
  /\ writing' = FALSE
  /\ UNCHANGED <<lost, writes, replaces>>

Ended == writing' = FALSE /\ op' = Idle /\ result' = NoResult

\* The process is killed; what it has written stays.
Kill ==
  /\ writing \/ op # Idle
  /\ Ended
  /\ UNCHANGED <<disk, lost, promised, writes, replaces>>

\* The device loses power: what was not flushed may be lost.
PowerLoss ==
  /\ \E path \in Paths : \E content \in lost[path] :
       disk' = [disk EXCEPT ![path] = content]
  /\ lost' = [path \in Paths |-> {}]
  /\ Ended
  /\ UNCHANGED <<promised, writes, replaces>>

\* The file system flushes on its own.
Flush(path) ==
  /\ lost[path] # {}
  /\ lost' = [lost EXCEPT ![path] = {}] /\ result' = NoResult
  /\ UNCHANGED <<disk, writing, op, promised, writes, replaces>>

\* ------------------------------------------------------------------- reading

Return(ok, found) ==
  /\ op' = Idle
  /\ result' = [kind |-> op.kind, ok |-> ok, found |-> found]

Continue(next) == op' = next /\ result' = NoResult

\* A step of an operation that reads: it changes nothing but the operation.
Reading ==
  UNCHANGED <<disk, lost, writing, promised, writes, replaces>>

Active == IF Exists("rep") THEN "rep" ELSE "old"

\* discover_saves_internal: which generation is active is decided from the names
\* first, in collect_repentance_slots.
BeginDiscover(kind) ==
  /\ op = Idle
  /\ Continue([Idle EXCEPT !.kind = kind, !.at = "walk", !.todo = Paths,
                 !.repentance = Exists("rep"), !.calm = ~writing])
  /\ Reading

\* MUTANT: every save file is a candidate.
MCandidate(path) == Exists(path)

Candidate(path) == Exists(path) /\ (op.repentance => path = "rep")

\* walk: the next directory entry is a save to read or one to pass over.
Walk(path) ==
  /\ op.at = "walk" /\ path \in op.todo
  /\ LET rest == [op EXCEPT !.todo = @ \ {path}]
     IN  Continue(IF Candidate(path)
                  THEN [rest EXCEPT !.at = "stat", !.path = path]
                  ELSE rest)
  /\ Reading

\* ensure_unique_slots, or for the achievements the saves are read once more.
Walked ==
  /\ op.at = "walk" /\ op.todo = {}
  /\ \/ /\ op.kind = "unlocks" /\ op.found # {}
        /\ Continue([op EXCEPT !.at = "again", !.found = {},
                       !.todo = {r.path : r \in op.found}])
     \/ op.kind = "unlocks" /\ op.found = {} /\ Return(FALSE, {})
     \/ /\ op.kind # "unlocks"
        /\ IF Cardinality(op.found) > 1 THEN Return(FALSE, {})
                                        ELSE Return(TRUE, op.found)
  /\ Reading

\* fs::metadata before the read.
Stat ==
  /\ op.at = "stat"
  /\ Continue([op EXCEPT !.at = "head", !.size = Len(Raw[disk[op.path]]),
                 !.same = @ /\ (op.round > 1 => ~op.moved), !.moved = FALSE,
                 !.seen = ProgressOf[disk[op.path]]])
  /\ Reading

ReadHead ==
  /\ op.at = "head"
  /\ Continue([op EXCEPT !.at = "tail",
                 !.read = [head |-> disk[op.path].head, tail |-> Nothing]])
  /\ Reading

ReadTail ==
  /\ op.at = "tail"
  /\ Continue([op EXCEPT !.at = "check", !.read.tail = disk[op.path].tail])
  /\ Reading

\* The file is done with; the operation goes on at another step.
Leave(step) == [op EXCEPT !.at = step, !.path = Nothing, !.attempt = 0,
                          !.read = Nothing, !.size = 0, !.moved = FALSE,
                          !.seen = {}]

Found(content) == op.found \cup {[path |-> op.path, save |-> content]}

\* canonical_identity_for_path_once has failed: it is tried again, the file is
\* passed over, or the discovery fails.
Unreadable ==
  CASE op.kind = "immediate"      -> Continue(Leave("walk"))
    [] op.kind # "immediate" /\ op.attempt + 1 < Attempts ->
         Continue([op EXCEPT !.at = "stat", !.attempt = @ + 1])
    [] OTHER                      -> Return(FALSE, {})

\* canonical_identity_for_path_once: the file did not change under the read, as
\* far as its size and time stamp tell, and is a save.
Identify ==
  /\ op.at = "check" /\ op.round = 0
  /\ IF /\ op.size = Len(Raw[disk[op.path]]) /\ op.size = Len(Raw[op.read])
        /\ ~op.moved /\ Canonical[op.read] # Invalid
     THEN Continue([Leave("walk") EXCEPT !.found = Found(op.read)])
     ELSE Unreadable
  /\ Reading

\* collect_local_unlocks reads the discovered files once more, without a look
\* at their time stamps.
ReadAgain(path) ==
  /\ op.at = "again" /\ path \in op.todo
  /\ Continue([op EXCEPT !.at = "head", !.path = path, !.todo = @ \ {path},
                 !.round = 1, !.seen = ProgressOf[disk[path]]])
  /\ Reading

Unlocks ==
  /\ op.at = "check" /\ op.round = 1 /\ op.kind = "unlocks"
  /\ CASE Canonical[op.read] = Invalid -> Return(FALSE, {})
       [] Canonical[op.read] # Invalid /\ op.todo # {} ->
            Continue([Leave("again") EXCEPT !.found = Found(op.read)])
       [] OTHER -> Return(TRUE, Found(op.read))
  /\ Reading

\* ------------------------------------------------------------------ uploading

\* prepare_upload, of the save that was discovered: wait_for_stable_snapshot
\* looks at it in rounds 1 to 3, copies it in round 4 and looks again in 5.
BeginUpload ==
  /\ op = Idle /\ Exists(Active)
  /\ Continue([Idle EXCEPT !.kind = "upload", !.at = "stat",
                 !.path = Active, !.round = 1])
  /\ Reading

\* identity_for_path notes the size when it opens the file.
Size == IF op.round = 4 THEN Len(Raw[op.read]) ELSE op.size

\* same_observation, of this round and the one it is compared with.
Same ==
  /\ op.same
  /\ op.round > 1 => Raw[op.read] = Raw[op.last] /\ Size = op.lastSize

NextRound == [op EXCEPT !.at = IF op.round = 3 THEN "head" ELSE "stat",
                        !.round = @ + 1, !.same = Same]

Observed ==
  /\ op.at = "check" /\ op.kind = "upload"
  /\ CASE op.round < 3 \/ (op.round = 3 /\ Same) ->
            Continue([NextRound EXCEPT !.last = op.read, !.lastSize = Size])
       [] op.round = 4 ->
            Continue([NextRound EXCEPT !.staged = op.read])
       [] op.round = 5 /\ Same /\ Canonical[op.staged] # Invalid ->
            Return(TRUE, Found(op.staged))
       [] OTHER -> Return(FALSE, {})
  /\ Reading

\* ------------------------------------------------------------------ replacing

\* locate_save_path_for_restore: the file of the backup's name, or else another
\* one of the slot, whatever is in it.
Destination(preferred) ==
  IF Exists(preferred) THEN {preferred} ELSE {p \in Paths : Exists(p)}

\* write_bytes, of a pulled save or a queued restore.
BeginReplace(preferred, new) ==
  /\ op = Idle /\ new.form # "rebirth"
  /\ replaces < MaxReplaces /\ replaces' = replaces + 1
  /\ \E path \in Destination(preferred) :
       /\ Continue([Idle EXCEPT !.kind = "replace", !.at = "sync",
                      !.path = path, !.new = new])
       /\ promised' = [promised EXCEPT ![path] = Nothing]
  /\ UNCHANGED <<disk, lost, writing, writes>>

\* MUTANT: the new file is renamed as it is.
MSync == Continue([op EXCEPT !.at = "rename"])

\* The temporary file is written and reaches the disk.
Sync == Continue([op EXCEPT !.at = "rename", !.synced = TRUE])

SyncTemporary ==
  /\ op.at = "sync"
  /\ Sync
  /\ Reading

\* The path names the new file; a power loss may undo that, or keep the name
\* and lose what was not written.  A write of the game that is under way goes on
\* in the file that has lost its name.
Rename ==
  /\ op.at = "rename"
  /\ disk' = [disk EXCEPT ![op.path] = File(op.new)]
  /\ lost' = [lost EXCEPT ![op.path] = @ \cup {disk[op.path]}
                \cup IF op.synced THEN {} ELSE {Empty}]
  /\ writing' = (writing /\ op.path # "rep")
  /\ Continue([op EXCEPT !.at = "directory"])
  /\ UNCHANGED <<promised, writes, replaces>>

\* fsync_directory: the rename is kept, though the game may have written over
\* the new file by now.
SyncDirectory ==
  /\ op.at = "directory"
  /\ lost' = [lost EXCEPT ![op.path] = IF op.synced THEN {} ELSE {Empty}]
  /\ promised' = [promised EXCEPT ![op.path] =
                    IF disk[op.path] = File(op.new) THEN File(op.new)
                                                    ELSE Nothing]
  /\ Return(TRUE, {})
  /\ UNCHANGED <<disk, writing, writes, replaces>>

\* A step fails: the caller is told, whatever has happened to the path.
ReplaceFails ==
  /\ op.kind = "replace"
  /\ Return(FALSE, {})
  /\ Reading

Next ==
  \/ \E p \in Progress : GameWrites(p)
  \/ GameCompletes \/ Kill \/ PowerLoss
  \/ \E path \in Paths : Flush(path)
  \/ \E kind \in {"discover", "immediate", "unlocks"} : BeginDiscover(kind)
  \/ \E path \in Paths : Walk(path) \/ ReadAgain(path)
  \/ BeginUpload \/ Walked \/ Stat \/ ReadHead \/ ReadTail
  \/ Identify \/ Unlocks \/ Observed
  \/ \E path \in Paths, f \in Written : BeginReplace(path, f)
  \/ SyncTemporary \/ Rename \/ SyncDirectory \/ ReplaceFails

Spec == Init /\ [][Next]_vars

-----------------------------------------------------------------------------

\* What an operation takes for a save, an identity, the unlocked achievements or
\* the bytes of an upload, is the whole of one save that was in that file while
\* it was read: never a torn file of the game, nor a mixture of two saves read
\* across a write that left size and time stamp as they were
\* (canonical_identity_for_path_once, wait_for_stable_snapshot).
ReadIsWhole ==
  [][\A r \in (op'.found \cup result'.found) \ op.found :
       \E p \in op.seen : /\ Canonical[r.save] = Stream(p)
                          /\ UnlockedIds(Canonical[r.save]) = p]_vars

\* While the game leaves the files alone, a discovery finds the active save and
\* no other: a save of an older generation beside it is neither taken for it nor
\* able to block it (discover_saves_internal).
ActiveSaveIsFound ==
  [][(/\ op.calm /\ result'.kind = op.kind
      /\ Exists(Active) /\ Canonical[disk[Active]] # Invalid)
       => result'.ok /\ {r.path : r \in result'.found} = {Active}]_vars

\* Only the game can leave a file that is no save: whatever a crash undoes of a
\* replacement, the path holds a file the game left or the whole new one; and a
\* replacement that was reported is not undone, unless the game has written over
\* it since (write_bytes).
PowerLossSafe ==
  \A path \in Paths :
    /\ Empty \notin {disk[path]} \cup lost[path]
    /\ promised[path] # Nothing =>
         {disk[path]} \cup lost[path] = {promised[path]}
===============================================================================
