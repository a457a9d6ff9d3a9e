---------------------------- MODULE LiveFileProofs ----------------------------
(***************************************************************************)
(* Proofs about LiveFile: what a power loss leaves of a replaced save, and *)
(* what a discovery finds.  The bytes of a file stay opaque: nothing here  *)
(* depends on SaveFormat.                                                  *)
(***************************************************************************)
EXTENDS LiveFile, FiniteSetTheorems, TLAPS

\* ------------------------------------------------------- a replacement's steps

Fields == {"kind", "at", "repentance", "todo", "path", "attempt", "round",
           "size", "moved", "read", "last", "lastSize", "staged", "same",
           "found", "new", "synced", "calm", "seen"}

\* The variables a replacement depends on have their types; of the operation,
\* that it is a record is enough.
Typed ==
  /\ disk \in [Paths -> Content \cup {Nothing}]
  /\ lost \in [Paths -> SUBSET Content]
  /\ promised \in [Paths -> Content \cup {Nothing}]
  /\ writing \in BOOLEAN
  /\ DOMAIN op = Fields

\* The game is in the middle of a file that it has opened, and that still has
\* its name.
OnlyTheGameWrites ==
  writing => disk["rep"] \in Content /\ disk["rep"].head \in Written

\* A replacement is the only operation at its steps, on a file that is there and
\* of which nothing is promised; its bytes are on the disk before the path names
\* them.
ReplaceSteps == {"sync", "rename", "directory"}

Replacing ==
  /\ op.kind = "replace" <=> op.at \in ReplaceSteps
  /\ op.kind = "replace" =>
       /\ op.path \in Paths /\ op.new \in Written
       /\ Exists(op.path) /\ promised[op.path] = Nothing
  /\ op.at \in {"rename", "directory"} => op.synced

IInv == Typed /\ OnlyTheGameWrites /\ Replacing /\ PowerLossSafe

-----------------------------------------------------------------------------

LEMMA FilesAreContents ==
  /\ Empty \in Content
  /\ \A f \in Written : File(f) \in Content /\ File(f) # Empty
                        /\ File(f) # Nothing
  /\ Nothing \notin Content
BY NothingAssumption DEF Empty, File, Content


LEMMA SavesAreContents ==
  ASSUME NEW progress \in SUBSET Progress, NEW forms \in SUBSET Forms
  PROVE  \A c \in Saves(progress, forms) : c \in Content /\ c # Empty
<1> SUFFICES ASSUME NEW f \in [progress : progress, form : forms]
             PROVE  File(f) \in Content /\ File(f) # Empty
  BY DEF Saves
<1>1. f \in Written
  BY DEF Written
<1> QED
  BY <1>1, FilesAreContents

LEMMA IdleIsAnOperation ==
  DOMAIN Idle = Fields /\ Idle.kind = "none" /\ Idle.at = "idle"
BY DEF Idle, Fields

LEMMA InitHolds == Init => IInv
<1> SUFFICES ASSUME Init PROVE IInv
  OBVIOUS
<1>1. \A c \in Saves(Older, {"compressed", "rebirth"}) :
        c \in Content /\ c # Empty
  <2>1. Older \in SUBSET Progress
    BY BoundsAssumption DEF Older
  <2> QED
    BY <2>1, SavesAreContents DEF Forms
<1>2. \A c \in Saves(Progress, {"compressed", "canonical"}) :
        c \in Content /\ c # Empty
  BY SavesAreContents DEF Forms
<1>3. \A path \in Paths : disk[path] \in (Content \cup {Nothing}) \ {Empty}
  BY <1>1, <1>2, FilesAreContents DEF Init
<1>4. Typed
  BY <1>3, IdleIsAnOperation DEF Init, Typed
<1>5. OnlyTheGameWrites /\ Replacing
  BY IdleIsAnOperation
  DEF Init, OnlyTheGameWrites, Replacing, ReplaceSteps
<1>6. PowerLossSafe
  BY <1>3 DEF Init, PowerLossSafe
<1> QED
  BY <1>4, <1>5, <1>6 DEF IInv

\* A step of another operation, or one that ends, leaves the files alone.
LEMMA ReadingKeeps ==
  ASSUME IInv, Reading, DOMAIN op' = Fields,
         op'.kind # "replace", op'.at \notin ReplaceSteps
  PROVE  IInv'
BY DEF IInv, Reading, Typed, OnlyTheGameWrites, Replacing, ReplaceSteps,
       PowerLossSafe, Exists

\* Every such step: it ends its operation, begins one or goes on to a step of a
\* read.
LEMMA ReadStepsRead ==
  ASSUME IInv,
         \/ \E kind \in {"discover", "immediate", "unlocks"} :
              BeginDiscover(kind)
         \/ \E path \in Paths : Walk(path) \/ ReadAgain(path)
         \/ BeginUpload \/ Walked \/ Stat \/ ReadHead \/ ReadTail
         \/ Identify \/ Unlocks \/ Observed \/ ReplaceFails
  PROVE  /\ Reading /\ DOMAIN op' = Fields
         /\ op'.kind # "replace" /\ op'.at \notin ReplaceSteps
<1> USE IdleIsAnOperation DEF ReplaceSteps
<1>1. DOMAIN op = Fields /\ (op.kind = "replace" <=> op.at \in ReplaceSteps)
  BY DEF IInv, Typed, Replacing
<1>0. \A step \in {"walk", "again"} :
        /\ DOMAIN Leave(step) = Fields
        /\ Leave(step).kind = op.kind /\ Leave(step).at = step
  BY <1>1 DEF Leave, Fields
<1>2. ASSUME NEW kind \in {"discover", "immediate", "unlocks"},
             BeginDiscover(kind)
      PROVE  /\ Reading /\ DOMAIN op' = Fields
             /\ op'.kind # "replace" /\ op'.at \notin ReplaceSteps
  BY <1>2 DEF BeginDiscover, Continue, Fields
<1>3. ASSUME NEW path \in Paths, Walk(path)
      PROVE  /\ Reading /\ DOMAIN op' = Fields
             /\ op'.kind # "replace" /\ op'.at \notin ReplaceSteps
  BY <1>1, <1>3 DEF Walk, Continue, Fields
<1>4. ASSUME NEW path \in Paths, ReadAgain(path)
      PROVE  /\ Reading /\ DOMAIN op' = Fields
             /\ op'.kind # "replace" /\ op'.at \notin ReplaceSteps
  BY <1>1, <1>4 DEF ReadAgain, Continue, Fields
<1>5. CASE BeginUpload
  BY <1>5 DEF BeginUpload, Continue, Fields
<1>6. CASE Walked
  <2>1. \/ op' = Idle
        \/ op' = [op EXCEPT !.at = "again", !.found = {},
                    !.todo = {r.path : r \in op.found}]
    BY <1>6 DEF Walked, Continue, Return
  <2>2. Reading /\ op.kind # "replace"
    BY <1>1, <1>6 DEF Walked
  <2> QED
    BY <1>1, <2>1, <2>2 DEF Fields
<1>7. CASE Stat \/ ReadHead \/ ReadTail
  <2>1. Reading /\ op.kind # "replace"
    BY <1>1, <1>7 DEF Stat, ReadHead, ReadTail
  <2>2. CASE Stat
    BY <1>1, <2>1, <2>2 DEF Stat, Continue, Fields
  <2>3. CASE ReadHead
    BY <1>1, <2>1, <2>3 DEF ReadHead, Continue, Fields
  <2>4. CASE ReadTail
    BY <1>1, <2>1, <2>4 DEF ReadTail, Continue, Fields
  <2> QED
    BY <1>7, <2>2, <2>3, <2>4
<1>8. CASE Identify
  <2>1. Reading /\ op.at = "check"
    BY <1>8 DEF Identify
  <2>2. \/ op' = Idle \/ op' = Leave("walk")
        \/ op' = [Leave("walk") EXCEPT !.found = Found(op.read)]
        \/ op' = [op EXCEPT !.at = "stat", !.attempt = @ + 1]
    BY <1>8 DEF Identify, Unreadable, Continue, Return
  <2>3. CASE op' = [Leave("walk") EXCEPT !.found = Found(op.read)]
    BY <1>0, <1>1, <2>1, <2>3 DEF Fields
  <2>4. CASE op' = [op EXCEPT !.at = "stat", !.attempt = @ + 1]
    BY <1>1, <2>1, <2>4 DEF Fields
  <2> QED
    BY <1>0, <1>1, <2>1, <2>2, <2>3, <2>4
<1>9. CASE Unlocks
  <2>1. Reading /\ op.at = "check"
    BY <1>9 DEF Unlocks
  <2>2. \/ op' = Idle
        \/ op' = [Leave("again") EXCEPT !.found = Found(op.read)]
    BY <1>9 DEF Unlocks, Continue, Return
  <2> QED
    BY <1>0, <1>1, <2>1, <2>2 DEF Fields
<1>10. CASE Observed
  <2>1. Reading /\ op.at = "check"
    BY <1>10 DEF Observed
  <2>2. /\ DOMAIN NextRound = Fields /\ NextRound.kind = op.kind
        /\ NextRound.at \in {"head", "stat"}
    BY <1>1 DEF NextRound, Fields
  <2>3. \/ op' = Idle
        \/ op' = [NextRound EXCEPT !.last = op.read, !.lastSize = Size]
        \/ op' = [NextRound EXCEPT !.staged = op.read]
    BY <1>10 DEF Observed, Continue, Return
  <2>4. CASE op' = [NextRound EXCEPT !.last = op.read, !.lastSize = Size]
    BY <1>1, <2>1, <2>2, <2>4 DEF Fields
  <2>5. CASE op' = [NextRound EXCEPT !.staged = op.read]
    BY <1>1, <2>1, <2>2, <2>5 DEF Fields
  <2> QED
    BY <1>1, <2>1, <2>3, <2>4, <2>5
<1>11. CASE ReplaceFails
  BY <1>11 DEF ReplaceFails, Return, Fields
<1> QED
  BY <1>2, <1>3, <1>4, <1>5, <1>6, <1>7, <1>8, <1>9, <1>10, <1>11

\* What the game puts into its save is never empty.
LEMMA PutKeeps ==
  ASSUME IInv, writing' \in BOOLEAN, NEW content \in Content,
         content.head \in Written, Put(content), lost' = lost
  PROVE  IInv'
<1> USE DEF ReplaceSteps
<1>1. content # Empty /\ content # Nothing /\ Empty # Nothing
  BY FilesAreContents, NothingAssumption DEF Empty, File
<1>3. /\ DOMAIN op' = Fields /\ op'.kind = op.kind /\ op'.at = op.at
      /\ op'.path = op.path /\ op'.new = op.new /\ op'.synced = op.synced
  BY IdleIsAnOperation DEF Put, IInv, Typed, Fields
<1>4. /\ disk' \in [Paths -> Content \cup {Nothing}]
      /\ promised' \in [Paths -> Content \cup {Nothing}]
      /\ disk'["rep"] = content /\ disk'["old"] = disk["old"]
      /\ promised'["rep"] = Nothing /\ promised'["old"] = promised["old"]
  BY DEF Put, IInv, Typed, Paths
<1>5. Typed'
  BY <1>3, <1>4 DEF IInv, Typed
<1>6. OnlyTheGameWrites'
  BY <1>4 DEF OnlyTheGameWrites
<1>2. Replacing'
  BY <1>1, <1>3, <1>4 DEF IInv, Replacing, Exists, Paths
<1>7. PowerLossSafe'
  BY <1>1, <1>4 DEF IInv, PowerLossSafe, Paths
<1> QED
  BY <1>2, <1>5, <1>6, <1>7 DEF IInv

LEMMA GameKeeps ==
  ASSUME IInv, (\E p \in Progress : GameWrites(p)) \/ GameCompletes
  PROVE  IInv'
<1>1. ASSUME NEW p \in Progress, GameWrites(p)
      PROVE  IInv'
  <2>1. [progress |-> p, form |-> "compressed"] \in Written
    BY DEF Written, Forms
  <2>2. PICK tail \in IF Exists("rep") THEN {Nothing, disk["rep"].tail}
                                       ELSE {Nothing} :
          Put([head |-> [progress |-> p, form |-> "compressed"],
               tail |-> tail])
    BY <1>1 DEF GameWrites
  <2>3. tail \in Written \cup {Nothing}
    BY DEF IInv, Typed, Exists, Content, Paths
  <2> QED
    BY <1>1, <2>1, <2>2, <2>3, PutKeeps DEF GameWrites, Content
<1>2. CASE GameCompletes
  <2>1. File(disk["rep"].head) \in Content /\ disk["rep"].head \in Written
    BY <1>2, FilesAreContents DEF GameCompletes, IInv, OnlyTheGameWrites
  <2>2. File(disk["rep"].head).head \in Written
    BY <2>1 DEF File
  <2> QED
    BY <1>2, <2>1, <2>2, PutKeeps
    DEF GameCompletes, IInv, OnlyTheGameWrites
<1> QED
  BY <1>1, <1>2

LEMMA EndKeeps ==
  ASSUME IInv, Kill \/ PowerLoss \/ \E path \in Paths : Flush(path)
  PROVE  IInv'
<1> USE DEF ReplaceSteps
<1>1. CASE Kill
  BY <1>1, IdleIsAnOperation
  DEF Kill, Ended, IInv, Typed, OnlyTheGameWrites, Replacing, PowerLossSafe
<1>2. CASE PowerLoss
  <2>1. PICK path \in Paths : \E content \in lost[path] :
          disk' = [disk EXCEPT ![path] = content]
    BY <1>2 DEF PowerLoss
  <2>2. Typed'
    <3>1. disk' \in [Paths -> Content \cup {Nothing}]
      <4>1. lost[path] \subseteq Content
        BY DEF IInv, Typed
      <4>2. PICK content \in Content : disk' = [disk EXCEPT ![path] = content]
        BY <2>1, <4>1
      <4> QED
        BY <4>2 DEF IInv, Typed
    <3>2. /\ lost' \in [Paths -> SUBSET Content] /\ promised' = promised
          /\ writing' \in BOOLEAN /\ DOMAIN op' = Fields
      BY <1>2, IdleIsAnOperation DEF PowerLoss, Ended
    <3> QED
      BY <3>1, <3>2 DEF IInv, Typed
  <2>3. OnlyTheGameWrites' /\ Replacing'
    <3>1. writing' = FALSE /\ op' = Idle
      BY <1>2 DEF PowerLoss, Ended
    <3> QED
      BY <3>1, IdleIsAnOperation DEF OnlyTheGameWrites, Replacing
  <2>4. PowerLossSafe'
    BY <1>2, <2>1 DEF PowerLoss, IInv, Typed, PowerLossSafe
  <2> QED
    BY <2>2, <2>3, <2>4 DEF IInv
<1>3. ASSUME NEW path \in Paths, Flush(path)
      PROVE  IInv'
  BY <1>3
  DEF Flush, IInv, Typed, OnlyTheGameWrites, Replacing, PowerLossSafe, Exists
<1> QED
  BY <1>1, <1>2, <1>3

LEMMA ReplaceKeeps ==
  ASSUME IInv,
         \/ \E path \in Paths, f \in Written : BeginReplace(path, f)
         \/ SyncTemporary \/ Rename \/ SyncDirectory
  PROVE  IInv'
<1> USE DEF ReplaceSteps
<1>1. ASSUME NEW preferred \in Paths, NEW f \in Written,
             BeginReplace(preferred, f)
      PROVE  IInv'
  <2>1. PICK path \in Destination(preferred) :
          /\ Continue([Idle EXCEPT !.kind = "replace", !.at = "sync",
                         !.path = path, !.new = f])
          /\ promised' = [promised EXCEPT ![path] = Nothing]
    BY <1>1 DEF BeginReplace
  <2>2. path \in Paths /\ Exists(path)
    BY DEF Destination
  <2>3. /\ DOMAIN op' = Fields /\ op'.kind = "replace" /\ op'.at = "sync"
        /\ op'.path = path /\ op'.new = f
    BY <2>1, IdleIsAnOperation DEF Continue, Fields
  <2>4. Typed' /\ OnlyTheGameWrites'
    BY <1>1, <2>1, <2>3 DEF BeginReplace, IInv, Typed, OnlyTheGameWrites
  <2>5. Replacing'
    BY <1>1, <2>1, <2>2, <2>3
    DEF BeginReplace, IInv, Typed, Replacing, Exists
  <2>6. PowerLossSafe'
    BY <1>1, <2>1, <2>2 DEF BeginReplace, IInv, Typed, PowerLossSafe
  <2> QED
    BY <2>4, <2>5, <2>6 DEF IInv
<1>2. CASE SyncTemporary
  <2>1. /\ DOMAIN op' = Fields /\ op'.kind = op.kind /\ op'.at = "rename"
        /\ op'.path = op.path /\ op'.new = op.new /\ op'.synced
    BY <1>2 DEF SyncTemporary, Sync, Continue, IInv, Typed, Fields
  <2> QED
    BY <1>2, <2>1
    DEF SyncTemporary, Reading, IInv, Typed, OnlyTheGameWrites, Replacing,
        PowerLossSafe, Exists
<1>3. CASE Rename
  <2>1. /\ DOMAIN op' = Fields /\ op'.kind = op.kind /\ op'.at = "directory"
        /\ op'.path = op.path /\ op'.new = op.new /\ op'.synced = op.synced
    BY <1>3 DEF Rename, Continue, IInv, Typed, Fields
  <2>2. /\ op.kind = "replace" /\ op.path \in Paths /\ op.synced
        /\ op.new \in Written /\ promised[op.path] = Nothing
        /\ disk[op.path] \in Content \ {Empty}
    BY <1>3 DEF Rename, IInv, Typed, Replacing, Exists, PowerLossSafe
  <2>3. /\ disk' = [disk EXCEPT ![op.path] = File(op.new)]
        /\ lost' = [lost EXCEPT ![op.path] = @ \cup {disk[op.path]}]
        /\ writing' = (writing /\ op.path # "rep")
    BY <1>3, <2>2 DEF Rename, IInv, Typed
  <2>4. File(op.new) \in Content /\ File(op.new) \notin {Empty, Nothing}
    BY <2>2, FilesAreContents
  <2>5. Typed'
    BY <1>3, <2>1, <2>2, <2>3, <2>4 DEF Rename, IInv, Typed
  <2>6. OnlyTheGameWrites' /\ Replacing'
    <3>1. ASSUME op.path = "rep" PROVE ~writing'
      BY <2>3, <3>1
    <3>2. ASSUME op.path # "rep"
          PROVE  disk'["rep"] = disk["rep"] /\ writing' = writing
      BY <2>2, <2>3, <3>2 DEF IInv, Typed, Paths
    <3>3. OnlyTheGameWrites'
      BY <3>1, <3>2 DEF IInv, OnlyTheGameWrites
    <3>4. disk'[op.path] # Nothing
      BY <2>2, <2>3, <2>4 DEF IInv, Typed
    <3>5. promised' = promised
      BY <1>3 DEF Rename
    <3>6. Replacing'
      BY <2>1, <2>2, <3>4, <3>5 DEF Replacing, Exists
    <3> QED
      BY <3>3, <3>6
  <2>7. PowerLossSafe'
    BY <1>3, <2>2, <2>3, <2>4 DEF Rename, IInv, Typed, PowerLossSafe
  <2> QED
    BY <2>5, <2>6, <2>7 DEF IInv
<1>4. CASE SyncDirectory
  <2>1. op.path \in Paths /\ op.synced /\ File(op.new) \in Content
    BY <1>4, FilesAreContents DEF SyncDirectory, IInv, Replacing
  <2>2. /\ lost' = [lost EXCEPT ![op.path] = {}] /\ op' = Idle
        /\ \/ promised' = [promised EXCEPT ![op.path] = Nothing]
           \/ /\ promised' = [promised EXCEPT ![op.path] = disk[op.path]]
              /\ disk[op.path] = File(op.new)
    BY <1>4, <2>1 DEF SyncDirectory, Return
  <2>3. Typed'
    BY <1>4, <2>1, <2>2, IdleIsAnOperation DEF SyncDirectory, IInv, Typed
  <2>4. OnlyTheGameWrites' /\ Replacing'
    BY <1>4, <2>2, IdleIsAnOperation
    DEF SyncDirectory, IInv, OnlyTheGameWrites, Replacing
  <2>5. PowerLossSafe'
    BY <1>4, <2>1, <2>2 DEF SyncDirectory, IInv, Typed, PowerLossSafe
  <2> QED
    BY <2>3, <2>4, <2>5 DEF IInv
<1> QED
  BY <1>1, <1>2, <1>3, <1>4

LEMMA NextHolds == IInv /\ [Next]_vars => IInv'
<1> SUFFICES ASSUME IInv, [Next]_vars PROVE IInv'
  OBVIOUS
<1>1. CASE UNCHANGED vars
  BY <1>1 DEF vars, IInv, Typed, OnlyTheGameWrites, Replacing, PowerLossSafe,
              Exists
<1>2. CASE Next
  BY <1>2, GameKeeps, EndKeeps, ReplaceKeeps, ReadStepsRead, ReadingKeeps
  DEF Next
<1> QED
  BY <1>1, <1>2

\* The invariant: of the file of a replacement nothing is promised while it runs,
\* and its bytes reach the disk before the name does.
THEOREM InvariantHolds == Spec => []IInv
BY InitHolds, NextHolds, PTL DEF Spec

\* Whatever a power loss undoes of a replacement, a path holds a file the game
\* left or a whole new one, and what write_bytes has reported stays, for any
\* number of writes, replacements and losses.
THEOREM PowerLossIsSafe == Spec => []PowerLossSafe
<1>1. IInv => PowerLossSafe
  BY DEF IInv
<1> QED
  BY <1>1, InvariantHolds, PTL

-----------------------------------------------------------------------------
(* What a discovery finds                                                  *)

Discoveries == {"discover", "immediate", "unlocks"}
ReadSteps   == {"stat", "head", "tail", "check"}
TheActive   == [path |-> Active, save |-> disk[Active]]

\* Only a discovery is called calm, and it still knows which generation is the
\* active one.
CalmDiscovers ==
  /\ op.calm \in BOOLEAN
  /\ op.calm => /\ op.kind \in Discoveries
                /\ op.repentance <=> Exists("rep")

\* It reads the active save and no other, sees it as it is, and has found it once
\* the walk has come past it; what it reads for the achievements is that file
\* once more.
FindsActive ==
  /\ op.at \in {"walk", "again"} \cup ReadSteps
  /\ ~op.moved
  /\ op.at = "walk" =>
       /\ op.round = 0
       /\ op.found = IF Active \in op.todo THEN {} ELSE {TheActive}
  /\ op.at = "again" =>
       op.kind = "unlocks" /\ op.found = {} /\ op.todo = {Active}
  /\ op.at \in ReadSteps =>
       /\ op.path = Active /\ Active \notin op.todo /\ op.found = {}
       /\ \/ /\ op.round = 0
             /\ op.at # "stat" => op.size = Len(Raw[disk[Active]])
          \/ /\ op.round = 1 /\ op.at # "stat"
             /\ op.kind = "unlocks" /\ op.todo = {}
  /\ op.at = "tail" =>
       op.read = [head |-> disk[Active].head, tail |-> Nothing]
  /\ op.at = "check" => op.read = disk[Active]

Readable == Exists(Active) /\ Canonical[disk[Active]] # Invalid

CalmInv == CalmDiscovers /\ (op.calm /\ Readable => FindsActive)

-----------------------------------------------------------------------------

LEMMA IdleIsNotCalm == Idle.calm = FALSE
BY DEF Idle

LEMMA NotCalmKeeps ==
  ASSUME op'.calm = FALSE
  PROVE  CalmInv'
BY DEF CalmInv, CalmDiscovers

LEMMA SameKeepsCalm ==
  ASSUME CalmInv, op' = op, disk' = disk
  PROVE  CalmInv'
BY DEF CalmInv, CalmDiscovers, Readable, FindsActive, TheActive, Active,
       Exists

\* A step of a calm discovery.
LEMMA StepKeepsCalm ==
  ASSUME CalmInv, disk' = disk, op'.calm = op.calm,
         op.calm => op'.kind = op.kind /\ (op'.repentance <=> op.repentance),
         op.calm /\ Readable => FindsActive'
  PROVE  CalmInv'
<1>1. Readable' <=> Readable
  BY DEF Readable, Active, Exists
<1> QED
  BY <1>1 DEF CalmInv, CalmDiscovers, Exists

LEMMA BeginKeepsCalm ==
  ASSUME NEW kind \in Discoveries, BeginDiscover(kind)
  PROVE  CalmInv'
<1>1. /\ op' = [Idle EXCEPT !.kind = kind, !.at = "walk", !.todo = Paths,
                  !.repentance = Exists("rep"), !.calm = ~writing]
      /\ disk' = disk
  BY DEF BeginDiscover, Continue, Reading
<1>2. /\ op'.kind = kind /\ op'.at = "walk" /\ op'.todo = Paths
      /\ op'.round = 0 /\ op'.found = {} /\ op'.moved = FALSE
  BY <1>1 DEF Idle
<1>3. (op'.repentance <=> Exists("rep")) /\ op'.calm \in BOOLEAN
  BY <1>1 DEF Idle
<1>4. Active' \in Paths
  BY DEF Active, Paths
<1>5. FindsActive'
  BY <1>2, <1>4 DEF FindsActive, ReadSteps
<1> QED
  BY <1>1, <1>2, <1>3, <1>5 DEF CalmInv, CalmDiscovers, Exists

LEMMA WalkKeepsCalm ==
  ASSUME IInv, CalmInv, NEW path \in Paths, Walk(path)
  PROVE  CalmInv'
<1>1. disk' = disk /\ DOMAIN op = Fields /\ op.at = "walk" /\ path \in op.todo
  BY DEF Walk, Reading, IInv, Typed
<1>2. CASE Candidate(path)
  <2>1. op' = [[op EXCEPT !.todo = @ \ {path}]
                 EXCEPT !.at = "stat", !.path = path]
    BY <1>2 DEF Walk, Continue
  <2>2. /\ op'.kind = op.kind /\ op'.repentance = op.repentance
        /\ op'.calm = op.calm /\ op'.at = "stat" /\ op'.path = path
        /\ op'.todo = op.todo \ {path} /\ op'.found = op.found
        /\ op'.moved = op.moved /\ op'.round = op.round
    BY <1>1, <2>1 DEF Fields
  <2>3. ASSUME op.calm, Readable
        PROVE  FindsActive'
    <3>1. path = Active /\ Active' = Active
      BY <1>1, <1>2, <2>3
      DEF Candidate, CalmInv, CalmDiscovers, Active, Exists, Paths
    <3> QED
      BY <1>1, <2>2, <2>3, <3>1 DEF CalmInv, FindsActive, ReadSteps
  <2> QED
    BY <1>1, <2>2, <2>3, StepKeepsCalm
<1>3. CASE ~Candidate(path)
  <2>1. op' = [op EXCEPT !.todo = @ \ {path}]
    BY <1>3 DEF Walk, Continue
  <2>2. /\ op'.kind = op.kind /\ op'.repentance = op.repentance
        /\ op'.calm = op.calm /\ op'.at = "walk"
        /\ op'.todo = op.todo \ {path} /\ op'.found = op.found
        /\ op'.moved = op.moved /\ op'.round = op.round
    BY <1>1, <2>1 DEF Fields
  <2>3. ASSUME op.calm, Readable
        PROVE  FindsActive'
    <3>1. path # Active /\ Active' = Active /\ TheActive' = TheActive
      BY <1>1, <1>3, <2>3
      DEF Candidate, CalmInv, CalmDiscovers, Readable, Active, Exists,
          TheActive
    <3> QED
      BY <1>1, <2>2, <2>3, <3>1 DEF CalmInv, FindsActive, ReadSteps
  <2> QED
    BY <1>1, <2>2, <2>3, StepKeepsCalm
<1> QED
  BY <1>2, <1>3

LEMMA WalkedKeepsCalm ==
  ASSUME IInv, CalmInv, Walked
  PROVE  CalmInv'
<1>1. /\ disk' = disk /\ DOMAIN op = Fields
      /\ op.at = "walk" /\ op.todo = {}
  BY DEF Walked, Reading, IInv, Typed
<1>2. CASE op' = Idle
  BY <1>2, IdleIsNotCalm, NotCalmKeeps
<1>3. CASE op' # Idle
  <2>1. /\ op.kind = "unlocks"
        /\ op' = [op EXCEPT !.at = "again", !.found = {},
                    !.todo = {r.path : r \in op.found}]
    BY <1>3 DEF Walked, Continue, Return
  <2>2. /\ op'.kind = op.kind /\ op'.repentance = op.repentance
        /\ op'.calm = op.calm /\ op'.at = "again" /\ op'.found = {}
        /\ op'.todo = {r.path : r \in op.found} /\ op'.moved = op.moved
    BY <1>1, <2>1 DEF Fields
  <2>3. ASSUME op.calm, Readable
        PROVE  FindsActive'
    <3>1. op.found = {TheActive} /\ ~op.moved
      BY <1>1, <2>3 DEF CalmInv, FindsActive
    <3>2. op'.todo = {Active} /\ Active' = Active
      BY <1>1, <2>2, <3>1 DEF TheActive, Active, Exists
    <3> QED
      BY <2>1, <2>2, <3>1, <3>2 DEF FindsActive, ReadSteps
  <2> QED
    BY <1>1, <2>2, <2>3, StepKeepsCalm
<1> QED
  BY <1>2, <1>3

LEMMA AgainKeepsCalm ==
  ASSUME IInv, CalmInv, NEW path \in Paths, ReadAgain(path)
  PROVE  CalmInv'
<1>1. /\ disk' = disk /\ DOMAIN op = Fields
      /\ op.at = "again" /\ path \in op.todo
      /\ op' = [op EXCEPT !.at = "head", !.path = path, !.todo = @ \ {path},
                  !.round = 1, !.seen = ProgressOf[disk[path]]]
  BY DEF ReadAgain, Continue, Reading, IInv, Typed
<1>2. /\ op'.kind = op.kind /\ op'.repentance = op.repentance
      /\ op'.calm = op.calm /\ op'.at = "head" /\ op'.path = path
      /\ op'.todo = op.todo \ {path} /\ op'.found = op.found
      /\ op'.moved = op.moved /\ op'.round = 1
  BY <1>1 DEF Fields
<1>3. ASSUME op.calm, Readable
      PROVE  FindsActive'
  <2>1. Active' = Active
    BY <1>1 DEF Active, Exists
  <2>2. /\ op.todo = {Active} /\ op.kind = "unlocks" /\ op.found = {}
        /\ ~op.moved
    BY <1>1, <1>3 DEF CalmInv, FindsActive
  <2> QED
    BY <1>1, <1>2, <2>1, <2>2 DEF FindsActive, ReadSteps
<1> QED
  BY <1>1, <1>2, <1>3, StepKeepsCalm

LEMMA StatKeepsCalm ==
  ASSUME IInv, CalmInv, Stat
  PROVE  CalmInv'
<1>1. disk' = disk /\ DOMAIN op = Fields /\ op.at = "stat"
  BY DEF Stat, Reading, IInv, Typed
<1>2. /\ op'.kind = op.kind /\ op'.repentance = op.repentance
      /\ op'.calm = op.calm /\ op'.at = "head" /\ op'.path = op.path
      /\ op'.todo = op.todo /\ op'.found = op.found
      /\ op'.moved = FALSE /\ op'.round = op.round
      /\ op'.size = Len(Raw[disk[op.path]])
  BY <1>1 DEF Stat, Continue, Fields
<1>3. ASSUME op.calm, Readable
      PROVE  FindsActive'
  <2>1. Active' = Active
    BY <1>1 DEF Active, Exists
  <2>2. /\ op.path = Active /\ Active \notin op.todo /\ op.found = {}
        /\ op.round = 0
    BY <1>1, <1>3 DEF CalmInv, FindsActive, ReadSteps
  <2> QED
    BY <1>1, <1>2, <2>1, <2>2 DEF FindsActive, ReadSteps
<1> QED
  BY <1>1, <1>2, <1>3, StepKeepsCalm

LEMMA HeadKeepsCalm ==
  ASSUME IInv, CalmInv, ReadHead
  PROVE  CalmInv'
<1>1. disk' = disk /\ DOMAIN op = Fields /\ op.at = "head"
  BY DEF ReadHead, Reading, IInv, Typed
<1>2. /\ op'.kind = op.kind /\ op'.repentance = op.repentance
      /\ op'.calm = op.calm /\ op'.at = "tail" /\ op'.path = op.path
      /\ op'.todo = op.todo /\ op'.found = op.found
      /\ op'.moved = op.moved /\ op'.round = op.round /\ op'.size = op.size
      /\ op'.read = [head |-> disk[op.path].head, tail |-> Nothing]
  BY <1>1 DEF ReadHead, Continue, Fields
<1>3. ASSUME op.calm, Readable
      PROVE  FindsActive'
  <2>1. Active' = Active
    BY <1>1 DEF Active, Exists
  <2> QED
    BY <1>1, <1>2, <1>3, <2>1 DEF CalmInv, FindsActive, ReadSteps
<1> QED
  BY <1>1, <1>2, <1>3, StepKeepsCalm

LEMMA TailKeepsCalm ==
  ASSUME IInv, CalmInv, ReadTail
  PROVE  CalmInv'
<1>1. disk' = disk /\ DOMAIN op = Fields /\ op.at = "tail"
  BY DEF ReadTail, Reading, IInv, Typed
<1>2. /\ op'.kind = op.kind /\ op'.repentance = op.repentance
      /\ op'.calm = op.calm /\ op'.at = "check" /\ op'.path = op.path
      /\ op'.todo = op.todo /\ op'.found = op.found
      /\ op'.moved = op.moved /\ op'.round = op.round /\ op'.size = op.size
      /\ op'.read = [op.read EXCEPT !.tail = disk[op.path].tail]
  BY <1>1 DEF ReadTail, Continue, Fields
<1>3. ASSUME op.calm, Readable
      PROVE  FindsActive'
  <2>1. Active' = Active /\ Active \in Paths
    BY <1>1 DEF Active, Exists, Paths
  <2>2. /\ op.read = [head |-> disk[Active].head, tail |-> Nothing]
        /\ op.path = Active
    BY <1>1, <1>3 DEF CalmInv, FindsActive, ReadSteps
  <2>3. disk[Active] \in Content
    BY <1>3, <2>1 DEF Readable, Exists, IInv, Typed
  <2>4. op'.read = disk[Active]
    BY <1>2, <2>2, <2>3 DEF Content
  <2> QED
    BY <1>1, <1>2, <1>3, <2>1, <2>4 DEF CalmInv, FindsActive, ReadSteps
<1> QED
  BY <1>1, <1>2, <1>3, StepKeepsCalm

\* An unchanged save is recognised at the first attempt.
LEMMA CheckSucceeds ==
  ASSUME CalmInv, op.calm, Readable, Identify
  PROVE  /\ op' = [Leave("walk") EXCEPT !.found = Found(op.read)]
         /\ Found(op.read) = {TheActive} /\ Active \notin op.todo
<1>1. /\ op.path = Active /\ Active \notin op.todo /\ op.found = {}
      /\ op.size = Len(Raw[disk[Active]]) /\ ~op.moved
      /\ op.read = disk[Active] /\ Canonical[disk[Active]] # Invalid
  BY DEF Identify, CalmInv, FindsActive, ReadSteps, Readable
<1> QED
  BY <1>1 DEF Identify, Continue, Found, TheActive

LEMMA IdentifyKeepsCalm ==
  ASSUME IInv, CalmInv, Identify
  PROVE  CalmInv'
<1>1. /\ disk' = disk /\ DOMAIN op = Fields
      /\ op.at = "check" /\ op.round = 0
  BY DEF Identify, Reading, IInv, Typed
<1>2. CASE op' = Idle
  BY <1>2, IdleIsNotCalm, NotCalmKeeps
<1>3. CASE op' # Idle
  <2>1. \/ op' = Leave("walk")
        \/ op' = [Leave("walk") EXCEPT !.found = Found(op.read)]
        \/ op' = [op EXCEPT !.at = "stat", !.attempt = @ + 1]
    BY <1>3 DEF Identify, Unreadable, Continue, Return
  <2>2. /\ op'.kind = op.kind /\ op'.repentance = op.repentance
        /\ op'.calm = op.calm
    <3>1. /\ DOMAIN Leave("walk") = Fields /\ Leave("walk").kind = op.kind
          /\ Leave("walk").repentance = op.repentance
          /\ Leave("walk").calm = op.calm
      BY <1>1 DEF Leave, Fields
    <3>2. CASE op' = [Leave("walk") EXCEPT !.found = Found(op.read)]
      BY <3>1, <3>2 DEF Fields
    <3>3. CASE op' = [op EXCEPT !.at = "stat", !.attempt = @ + 1]
      BY <1>1, <3>3 DEF Fields
    <3> QED
      BY <2>1, <3>1, <3>2, <3>3
  <2>3. ASSUME op.calm, Readable
        PROVE  FindsActive'
    <3>1. op' = [Leave("walk") EXCEPT !.found = {TheActive}]
      BY <2>3, CheckSucceeds
    <3>2. /\ op'.at = "walk" /\ op'.found = {TheActive}
          /\ op'.todo = op.todo /\ op'.round = 0 /\ op'.moved = FALSE
      BY <1>1, <3>1 DEF Leave, Fields
    <3>3. Active' = Active /\ TheActive' = TheActive
      BY <1>1 DEF TheActive, Active, Exists
    <3> QED
      BY <2>3, <3>2, <3>3, CheckSucceeds DEF FindsActive, ReadSteps
  <2> QED
    BY <1>1, <2>2, <2>3, StepKeepsCalm
<1> QED
  BY <1>2, <1>3

LEMMA UnlocksKeepsCalm ==
  ASSUME IInv, CalmInv, Unlocks
  PROVE  CalmInv'
<1>1. /\ disk' = disk /\ DOMAIN op = Fields
      /\ op.at = "check" /\ op.round = 1
  BY DEF Unlocks, Reading, IInv, Typed
<1>2. CASE op' = Idle
  BY <1>2, IdleIsNotCalm, NotCalmKeeps
<1>3. CASE op' # Idle
  <2>1. /\ op' = [Leave("again") EXCEPT !.found = Found(op.read)]
        /\ op.todo # {}
    BY <1>3 DEF Unlocks, Continue, Return
  <2>2. /\ op'.kind = op.kind /\ op'.repentance = op.repentance
        /\ op'.calm = op.calm
    BY <1>1, <2>1 DEF Leave, Fields
  <2>3. ~(op.calm /\ Readable)
    BY <1>1, <2>1 DEF CalmInv, FindsActive, ReadSteps
  <2> QED
    BY <1>1, <2>2, <2>3, StepKeepsCalm
<1> QED
  BY <1>2, <1>3

\* No other step leaves a calm discovery in progress and touches it.
LEMMA OtherStepsKeepCalm ==
  ASSUME IInv, CalmInv,
         \/ \E p \in Progress : GameWrites(p)
         \/ GameCompletes \/ Kill \/ PowerLoss
         \/ \E path \in Paths : Flush(path)
         \/ BeginUpload \/ Observed
         \/ \E path \in Paths, f \in Written : BeginReplace(path, f)
         \/ SyncTemporary \/ Rename \/ SyncDirectory \/ ReplaceFails
  PROVE  CalmInv'
<1> USE IdleIsNotCalm, NotCalmKeeps
<1>1. DOMAIN op = Fields /\ (op.kind = "replace" <=> op.at \in ReplaceSteps)
  BY DEF IInv, Typed, Replacing
<1>2. op.kind \notin Discoveries => op.calm = FALSE
  BY DEF CalmInv, CalmDiscovers
<1>3. ASSUME NEW content, Put(content)
      PROVE  CalmInv'
  <2>1. op'.calm = FALSE
    BY <1>1, <1>3 DEF Put, Fields
  <2> QED
    BY <2>1
<1>4. CASE (\E p \in Progress : GameWrites(p)) \/ GameCompletes
  BY <1>3, <1>4 DEF GameWrites, GameCompletes
<1>5. CASE \E path \in Paths : Flush(path)
  BY <1>5, SameKeepsCalm DEF Flush
<1>6. CASE Kill \/ PowerLoss \/ SyncDirectory \/ ReplaceFails
  BY <1>6 DEF Kill, PowerLoss, Ended, SyncDirectory, ReplaceFails, Return
<1>7. CASE BeginUpload
  <2>1. op'.calm = FALSE
    BY <1>7, IdleIsAnOperation DEF BeginUpload, Continue, Fields
  <2> QED
    BY <2>1
<1>8. CASE Observed
  <2>1. op.calm = FALSE
    BY <1>2, <1>8 DEF Observed, Discoveries
  <2>2. \/ op' = Idle
        \/ op' = [NextRound EXCEPT !.last = op.read, !.lastSize = Size]
        \/ op' = [NextRound EXCEPT !.staged = op.read]
    BY <1>8 DEF Observed, Continue, Return
  <2>3. DOMAIN NextRound = Fields /\ NextRound.calm = FALSE
    BY <1>1, <2>1 DEF NextRound, Fields
  <2>4. CASE op' = [NextRound EXCEPT !.last = op.read, !.lastSize = Size]
    BY <2>3, <2>4 DEF Fields
  <2>5. CASE op' = [NextRound EXCEPT !.staged = op.read]
    BY <2>3, <2>5 DEF Fields
  <2> QED
    BY <2>2, <2>4, <2>5
<1>9. ASSUME NEW path \in Paths, NEW f \in Written, BeginReplace(path, f)
      PROVE  CalmInv'
  <2>1. PICK to : op' = [Idle EXCEPT !.kind = "replace", !.at = "sync",
                            !.path = to, !.new = f]
    BY <1>9 DEF BeginReplace, Continue
  <2>2. op'.calm = FALSE
    BY <2>1, IdleIsAnOperation DEF Fields
  <2> QED
    BY <2>2
<1>10. CASE SyncTemporary \/ Rename
  <2>1. op.calm = FALSE
    BY <1>1, <1>2, <1>10
    DEF SyncTemporary, Rename, ReplaceSteps, Discoveries
  <2>2. op'.calm = op.calm
    BY <1>1, <1>10 DEF SyncTemporary, Sync, Rename, Continue, Fields
  <2> QED
    BY <2>1, <2>2
<1> QED
  BY <1>4, <1>5, <1>6, <1>7, <1>8, <1>9, <1>10

LEMMA CalmHolds ==
  /\ Init => CalmInv
  /\ IInv /\ CalmInv /\ [Next]_vars => CalmInv'
<1>1. Init => CalmInv
  BY IdleIsNotCalm DEF Init, CalmInv, CalmDiscovers
<1>2. ASSUME IInv, CalmInv, Next
      PROVE  CalmInv'
  BY <1>2, BeginKeepsCalm, WalkKeepsCalm, WalkedKeepsCalm, AgainKeepsCalm,
     StatKeepsCalm, HeadKeepsCalm, TailKeepsCalm, IdentifyKeepsCalm,
     UnlocksKeepsCalm, OtherStepsKeepCalm
  DEF Next, Discoveries
<1>3. ASSUME CalmInv, UNCHANGED vars
      PROVE  CalmInv'
  BY <1>3, SameKeepsCalm DEF vars
<1> QED
  BY <1>1, <1>2, <1>3

\* Where the result of a discovery is returned.
LEMMA DiscoveryReturns ==
  ASSUME IInv, Next, op.kind \in Discoveries, result'.kind = op.kind
  PROVE  Walked \/ Identify \/ Unlocks
<1>1. result' # NoResult
  BY DEF NoResult, Discoveries
<1>2. op.kind # "replace" /\ op.kind # "upload" /\ op.at # "directory"
  BY DEF Discoveries, IInv, Replacing, ReplaceSteps
<1>3. ~(\/ \E p \in Progress : GameWrites(p)
        \/ GameCompletes \/ Kill \/ PowerLoss
        \/ \E path \in Paths : Flush(path))
  BY <1>1 DEF GameWrites, GameCompletes, Put, Kill, PowerLoss, Ended,
              Flush
<1>4. ~(\/ \E kind \in Discoveries : BeginDiscover(kind)
        \/ \E path \in Paths : Walk(path) \/ ReadAgain(path)
        \/ BeginUpload \/ Stat \/ ReadHead \/ ReadTail)
  BY <1>1 DEF BeginDiscover, Walk, ReadAgain, BeginUpload, Stat, ReadHead,
              ReadTail, Continue
<1>5. ~(\/ \E path \in Paths, f \in Written : BeginReplace(path, f)
        \/ SyncTemporary \/ Rename)
  BY <1>1 DEF BeginReplace, SyncTemporary, Sync, Rename, Continue
<1>6. ~(Observed \/ SyncDirectory \/ ReplaceFails)
  BY <1>2 DEF Observed, SyncDirectory, ReplaceFails
<1>7. Next => \/ \E p \in Progress : GameWrites(p)
              \/ GameCompletes \/ Kill \/ PowerLoss
              \/ \E path \in Paths : Flush(path)
              \/ \E kind \in Discoveries : BeginDiscover(kind)
              \/ \E path \in Paths : Walk(path) \/ ReadAgain(path)
              \/ BeginUpload \/ Walked \/ Stat \/ ReadHead \/ ReadTail
              \/ Identify \/ Unlocks \/ Observed
              \/ \E path \in Paths, f \in Written : BeginReplace(path, f)
              \/ SyncTemporary \/ Rename \/ SyncDirectory \/ ReplaceFails
  BY DEF Next, Discoveries
<1> QED
  BY <1>3, <1>4, <1>5, <1>6, <1>7

LEMMA CalmDiscoveryFinds ==
  ASSUME IInv, CalmInv, Next, op.calm, Readable, result'.kind = op.kind
  PROVE  result'.ok /\ {r.path : r \in result'.found} = {Active}
<1>1. op.kind \in Discoveries /\ FindsActive
  BY DEF CalmInv, CalmDiscovers
<1>2. result' # NoResult
  BY <1>1 DEF NoResult, Discoveries
<1>3. TheActive.path = Active
  BY DEF TheActive
<1>4. CASE Walked
  <2>1. op.found = {TheActive}
    BY <1>1, <1>4 DEF Walked, FindsActive
  <2>2. Cardinality(op.found) = 1
    BY <2>1, FS_Singleton
  <2>3. ~(Cardinality(op.found) > 1)
    BY <2>2
  <2>4. Return(TRUE, op.found)
    BY <1>2, <1>4, <2>1, <2>3 DEF Walked, Continue
  <2>5. result'.ok /\ result'.found = {TheActive}
    BY <2>1, <2>4 DEF Return
  <2> QED
    BY <1>3, <2>5
<1>5. CASE Identify
  <2>1. op' = [Leave("walk") EXCEPT !.found = Found(op.read)]
    BY <1>5, CheckSucceeds
  <2>2. op'.kind = op.kind
    BY <2>1 DEF IInv, Typed, Fields, Leave
  <2>3. op' # Idle
    BY <1>1, <2>2, IdleIsAnOperation DEF Discoveries
  <2> QED
    BY <1>2, <1>5, <2>3 DEF Identify, Unreadable, Continue, Return
<1>6. CASE Unlocks
  <2>1. /\ op.todo = {} /\ op.found = {} /\ op.path = Active
        /\ op.read = disk[Active] /\ Canonical[op.read] # Invalid
    BY <1>1, <1>6 DEF Unlocks, FindsActive, ReadSteps, Readable
  <2>2. Return(TRUE, Found(op.read)) /\ Found(op.read) = {TheActive}
    BY <1>6, <2>1 DEF Unlocks, Found, TheActive
  <2>3. result'.ok /\ result'.found = {TheActive}
    BY <2>2 DEF Return
  <2> QED
    BY <1>3, <2>3
<1> QED
  BY <1>1, <1>4, <1>5, <1>6, DiscoveryReturns

\* While the game leaves the files alone, a discovery succeeds and finds the
\* active save only, whatever lies beside it (discover_saves_internal), for any
\* number of attempts, writes before it and replacements.
THEOREM ActiveIsFound == Spec => ActiveSaveIsFound
<1>1. IInv /\ CalmInv /\ [Next]_vars =>
        [(/\ op.calm /\ result'.kind = op.kind
          /\ Exists(Active) /\ Canonical[disk[Active]] # Invalid)
           => result'.ok /\ {r.path : r \in result'.found} = {Active}]_vars
  BY CalmDiscoveryFinds DEF Readable
<1> QED
  BY <1>1, InvariantHolds, CalmHolds, PTL DEF Spec, ActiveSaveIsFound
===============================================================================
