# Isaac Cloud: a verification development

The library in this repository is loaded into *The Binding of Isaac: Repentance*
on iOS. It keeps the game's save files in step with Steam Cloud: it downloads
saves before the game reads them, uploads them when the user asks, asks the user
when both sides changed, backs up whatever it replaces and unlocks achievements.
A mistake in it costs somebody's progress, and most of the ways to make one need
two actors and an unlucky moment. These TLA+ modules model that logic, TLC checks
it on small instances and TLAPS proves the central results for all sizes.

`PROJECT.json` has the machine-readable side: which definition models which
lines, the runs, the mutants each property must catch, the hazards and the
theorems. This file explains them. Paths below are relative to `src/src/core/src/`
unless they say otherwise.

## 1. The system

| Part | Source | State it keeps | Operations | Module |
|---|---|---|---|---|
| Three-way decision | `sync_engine.rs` | none | `decide` | `SyncDecision` |
| Synchronisation of slots | `engine.rs` (`run_sync`, `force_slot`, `push_one`, `push_new`, `pull_one`) | BASE and queued pulls per slot, on disk and in memory; pending choices | automatic, manual and forced synchronisation, answers to choices | `SlotSync` |
| Prelaunch barrier, operation lane | `engine.rs` (`preflight`, `spawn_operation`, `apply_pending_restore`), `ffi.rs` | `operation_active`, `replacement_allowed`, `replacement_guard`, `preflight_saves` | preflight and its retry, operations of the UI and the lifecycle | `PrelaunchBarrier` |
| Backups | `backups.rs`, `atomic.rs` | manifests and data files per slot; the queued restore | back up, retention, verify, restore, roll back | `BackupStore` |
| Session, account binding | `engine.rs` (`ensure_session`, `finish_login`, `disconnect`, `bind_state_to_account`), `state.rs`, `keychain.rs` | the session behind its mutex, the account of `sync-state.json`, the refresh token, the status flags | connect, bind, install, drop, disconnect | `Session` |
| Sign-in | `engine.rs` (`connect_*`, `cancel_login`, `submit_guard_code`), `steam/cm.rs` | `guard_sender`, `auth_cancel`, the phase of the status | QR and credentials login, guard code, cancel | `SignIn`, its outcomes in `Session` |
| Presence | `engine.rs` (`set_foreground`, `apply_presence`), `isaac/IsaacLifecycle.m` | `foreground`, the session's playing state | foreground, background | `Session` |
| Achievements | `achievements.rs` | the panel's cache | read the saves, add missing bits, store, read back | `Achievements` |
| Cloud transfers | `steam/cloud.rs` | the upload batch | list, download, upload in blocks, commit, complete, verify | `Transfer`, `TransferContract` |
| CM connection | vendored `steam-cm-protocol` | waiters by job id, the reason of its end | request, read loop, close | `Transfer` |
| Discovery, stable reading, replacing | `local.rs`, `atomic.rs`, `isaac_format.rs` | staged copies, temporary files | find saves, read them stably, stage, replace durably | `LiveFile` |
| Save format | `isaac_format.rs`, `save_achievements.rs` | none | canonicalise, decode raw LZ4, list the unlocks | `SaveFormat` |
| Startup gate, game state | `loaders/Bootstrap.m`, `isaac/IsaacGameState.mm` | the gate's flags | release the game, detect menus | not modelled |
| User interface, logging | `ui/IsaacCloudUI.m`, `logging.rs` | view state, log file | | not modelled: layout and text |

How they interact. The bootstrap starts the core in its constructor and calls
`ICSCorePreflight` on a background queue (`Bootstrap.m:20-31`); its gate means to
hold the game back until that has returned, but nothing in the core relies on it.
`ICSCorePreflight` runs the queued restore on the calling thread and starts the
prelaunch synchronisation as an asynchronous operation in the *lane*, a
single slot that every operation of the UI and of the lifecycle has to take too.
The operation reads the state file, lists Steam, downloads, decides slot by slot
and may replace live saves, each replacement under a guard shared with the
preflight thread. When the deadline passes, the preflight thread withdraws the
permission and lets the game start, while the operation may be running on. From
then on pulls and restores are only queued in the state file, for the next
launch. Each foreground or background notification spawns a task of its own,
outside the lane; it competes with the operations for the mutex of the session,
and a login of either binds the state file to its account.

What is hard about it:

* the preflight thread, the operation in the lane and the game touch the same
  files, and only the first two know of each other;
* a PC plays the same account: the Steam copy may change between any two
  requests;
* a synchronisation works for seconds on what it read at its beginning (the
  constructor's identities, the changelist, the stored state) and saves its
  result once, at the end;
* the app may be killed at any step, a request may fail, an upload may be
  committed although its answer is lost;
* retention deletes backups that something else still refers to;
* lifecycle tasks run in any order and log in next to the lane, the Keychain and
  the state file have no lock;
* a sign-in is asked for, called off and answered by the main thread while its
  task runs, through two handles that also a refused sign-in touches;
* a request of Steam may be refused, lost, answered late or answered from a place
  that has not heard of the last write; the connection may end under it;
* Steam need not name a file's SHA-1, neither in the changelist nor with a
  download, and every comparison of versions has to do without it then;
* the game writes its save in place whenever it likes, and the file system keeps
  only what was flushed.

What makes each part correct:

* *decision*: the side that moved away from BASE wins, never a side with nothing
  new; two sides that moved are a conflict;
* *slots*: BASE was on both sides; no automatic trigger uploads; whatever is
  overwritten is in a backup; nobody's progress is overwritten without a
  question; every difference is in the end resolved or shown;
* *barrier*: after it, nothing replaces a save; it always returns; one replacer
  at a time; the lane comes back;
* *backups*: the newest twelve of each source survive, crashes in the middle of
  a removal included; a failed pull is undone; a queued restore happens;
* *session*: the saves of one account never meet the BASE of another; a
  disconnect is final; Steam does not show the game in the background; whoever
  takes the session gives it back;
* *sign-in*: one that was called off in time stores nothing, and ends; a guard
  code reaches the sign-in that runs or none;
* *achievements*: nothing is ever cleared, nothing is shown as unlocked that is
  not, and asking often enough unlocks all;
* *transfers*: Steam never holds a part of a save, an upload never reports success
  without it, a download never other bytes than those of its SHA-1, every batch is
  completed, no call outlives its connection;
* *files*: whatever is taken for a save is the whole of one; the active
  generation's save is the one that is found; a replacement is all or nothing,
  also across a power loss.

## 2. The modules

`SyncDecision` is the pure function `decide` and the two stored forms of a save.
A save is a version, a positive number; Steam may hold the version `v` as the
raw LZ4 block that the native iOS game writes, which is `-v`, and `Canonical`
undoes that.

`SlotSync` is one device with the saves of its slots. A step is what the code
does between two `await`s, or one file operation where somebody else may write
in between. Variables: the live saves and the Steam copies, the stored state
(`base`, `queue`), the backups, and the memory of the operation in the lane
(`seen`, `listed`, `bytes`, `kept`, `memBase`, `memQueue`). The actions follow
the code: `ListSaves`, then for each slot `AskMissing` or `Download`, one of
`ApplyQueuedPull`, `HoldQueuedPull`, `LeaveAlone`, `Learn`, `Publish`, `Adopt`,
`AskRestart`, `AskUser`, then `SaveState`; the sub-operations are
`BackUpForPull`, `Replace`, `VerifyPull` and `PrepareUpload`, `AssertUnchanged`,
`Commit`, `Confirm`; `force_slot` is `ForceList`, `ForceDownload`, `ForceSave`.
Around them the game and a PC write new versions, `Fail` ends an operation at
any request, `Fail` at `confirm` is an upload whose answer was lost, `Fail` or a
kill at `commit` may leave a commit behind that Steam handles at any later time
(`late`, `LateCommit`), and `Relaunch` kills the app at any step. `Racing` says
who writes at any time (`"game"`, `"pc"`, and `"steam"` with its late commits);
who is not in it writes only while no operation is running. With `Hashless`, Steam
leaves the SHA-1 of any slot out of any answer (`bare`, and `memBare`, `queueBare`
for what is remembered of it). The code then compares two missing values
(`PinHolds`), falls back on the bytes (`StillThere`), on the changelist's SHA-1
(`DownloadMismatch`), or fails (`NotConfirmed`). `stopped` is history: an
operation has ended with an error or was killed.

`PrelaunchBarrier` has the same engine as two threads: the preflight thread, one
statement of `Engine::preflight` and `ICSCorePreflight` at a time, and the
operation in the lane, reduced to where it is with respect to the permission and
the guard. Operations of the UI and of the lifecycle compete for the lane.

`BackupStore` is the directory of one slot: manifests, data files and the clock
that retention sorts by, with one action per change of the disk. Its callers are
a backup without a replacement, a pull (back up, replace, verify, roll back), and
a queued restore at the next launch. The app may be killed, or an operation of
the disk fail, between any two steps.

`Session` is the engine around its session mutex: the lane with every operation
that needs a session, and the tasks that lifecycle notifications spawn. Each is
a process; `at` says which `await`, or which access of the Keychain or the state
file, it is at, `acct`, `mem` and `want` what it has read so far. `ensure_session`
is `Reuse` or `LoadToken`, `Connect`, `Bind`, `Ensured` under the mutex;
`finish_login` is `LoginBind`, `Install`, `Welcome`, and takes the mutex only for
the second; `disconnect` is `Forget`, `Leave`, `Left`. The wrapper of
`spawn_operation` drops the session after an error (`Drop`, `Dropped`). The state
file is reduced to the account it is bound to and the accounts whose BASE records
it holds, a synchronisation to "some records of the session's account are
learnt". `origin` and `relogin` are history: they say what the two properties
with a condition depend on and no action reads them.

`SignIn` is the main thread against the sign-in task. `connect_*`,
`cancel_login` and `submit_guard_code` are cut at each access of `auth_cancel`,
`guard_sender` and the lane (`Connect`, `ReplaceSender`, `Spawn` or `Refused`,
`UndoSender`, `UndoFlag`; `CancelTakesFlag`, `CancelSetsFlag`,
`CancelTakesSender`, `CancelShows`), the task at each look at them and each
request of `connect_with_*`. A flag and a channel are named by the number of
their sign-in. The channel takes codes until `connect_with_*` has returned,
though the task looks for one only once. The panel acts on the status it read
last (`shown`), so a button may be pressed too late; `OtherBegins` lets any
other operation have the lane.

`Achievements` is `sync_from_local_saves` between two answers of Steam, against
other clients that unlock, the game that saves, and Steam, whose reads may show
the account as it was (`lagging`), leave groups out of the stats or of the list
of achievements, refuse a request, or answer a store and drop a part of it. A
store writes whole groups (`Written`) and carries the checksum of what it was
built from.

`Transfer` is one transfer at a time over one connection, call by call: `Insert`,
`Send` and the end of a call are the steps of `send_request` and `call`, and
between them the read task may end (`MarkClosed`, `FailPending`). Steam handles a
request at any later time, also one whose caller has given up, or never. The
file on Steam is an array of blocks, so a half of one can be told from a whole.
Either answer about a file may come without its SHA-1, and then `Verified` lets
any bytes pass. `TransferContract` says what a transfer promises without blocks,
calls or a connection: it keeps the two kinds of download apart (`hashed`) and
promises nothing of the bytes of one without a SHA-1. `Transfer` implements it
with `remote <- Save`, the save on Steam if the file is one, and `transfer <-`
the kind and the save of the operation and whether it has a SHA-1 to compare with.
`SlotSync` takes from the contract that an upload which reports failure may land
at once, later or never, and that one which reports success has landed. It assumes
more than the contract of a download without a SHA-1, namely that Steam sends what
it has: damaged bytes there would still have to pass the length, the sections and
the checksum of a save (`canonicalize_save`), and are left out.

`SaveFormat` holds the pure functions of a save's bytes: the raw LZ4 decoder, the
walk over the sections with the bestiary's lists, the checksum, and the list of
achievements. Its last part is the inverse of the decoder: the files that may
stand for a save (literals only, or one match anywhere, with length extensions),
as an encoder writes them. The alphabet is scaled down so that the extensions,
limits and overlaps are reached by saves of a few dozen symbols.

`LiveFile` puts the bytes of `SaveFormat` into the two files a slot may have
(the active generation's and an older one's). The game writes in two pieces,
over the old bytes or after truncating them; a read has two pieces too, so all
mixtures occur. It may begin, go on with and complete a write during any
operation, a replacement included; what it writes after the rename goes to the
file it had opened, which no path names any more. Operations: discovery in its
three modes (`discover`, retried; `immediate`, which passes over a file that is
no save; `unlocks`, which reads the files again for their achievements),
`prepare_upload` with its five observations and the copy, and `write_bytes` with
its flush, rename and flush of the directory. `lost` is what a power loss may
bring back.

The modules share no variables. `SlotSync` has the barrier as one permission bit
that a step withdraws (`CloseBarrier`, not while a prelaunch pull is inside its
replacement: what `BarrierSealed` shows), and backups as a set that only grows
(what retention does to it is the subject of `BackupStore`). `Session` sees a
synchronisation as one step that holds the mutex, as `run_sync` and `force_slot`
do from the listing to the save of the state.

Each `MC` module gives its component small constants. Definitions whose names
begin with `M` and repeat an action are mutants: what a plausible bug would make
of the next definition. Nothing uses them; they show that a property would
notice.

## 3. The runs

| Run | Instance | What it shows |
|---|---|---|
| `barrier` | 2 saves, 2 other operations | `BarrierSealed`, `CompletionIsTrue`; `PreflightReturns` and `LaneReleased` under fairness |
| `racing` | 1 slot, 3 versions, 1 kill, missing SHA-1s, game and PC write at any step | `BaseSeenOnBothSides`, `AutomaticNeverUploads`, `ReplacedIsBackedUp`, `NoRedundantUpload`, `HashedPullIsPinned` |
| `quiet` | 1 slot, 3 versions, 1 failure, 1 kill, late commits at any step, game and PC write between operations | `ConflictIsReal`, `PhoneProgressNotPulledOver`, `SteamProgressNotPushedOver`; `EventuallySettled` under fairness |
| `backups` | 2 kept of 4 made, 2 versions, 2 failures or kills, the clock set back once | `NewestAreKept`, `EnoughAreRetained`, `NothingOverwrittenIsLost`, `FailedPullIsUndone` |
| `session` | 2 accounts, 2 pending lifecycle tasks | `AccountsNeverMix`, `StatusIsTrue`, `ClearedInBackground`; `TasksEnd` under fairness |
| `signin` | 3 sign-ins | `CancelInTimeStoresNothing`, `CodesGoToTheTask`; `CancelEnds` under fairness |
| `achievements` | 2 saves, 3 achievements in 2 groups, 2 read-backs, 1 fault | `UnlockedIsTrue`, `NeverCleared`; `EventuallyUnlocked` under fairness |
| `transfer` | 2 transfers, 2 blocks, 2 contents, 1 upload by a PC | `KeepsContract` (the refinement), `BatchIsSettled`; `CloseEndsTransfer` under fairness |
| `livefile` | 2 sets of achievements, 2 writes of the game, 1 replacement | `PowerLossSafe`, `ReadIsWhole`, `ActiveSaveIsFound` |
| `barrier_retry`, `queued_restore`, `achievements_synced` | as above | disagreements of section 4 |

Bounds, and why they are enough. The slots of a synchronisation are independent
but for the state that is saved after the last one, so one slot shows every
race, and the error of a later slot is a failure between the last step of a slot
and `SaveState`; the proofs are for any number of slots. Three
versions let both sides move from a common one, or one of them move twice; the
two sides begin equal with two versions to come, or apart with one. Missing
SHA-1s multiply the states by what each listing may leave out. `racing`, which
has them, therefore has the kill only: a kill at any step loses whatever the
failure of a request or a lost answer loses there, and opens the barrier again,
which a failure does not. Both together are in `quiet`, and in the proofs of
every property of `racing`. `racing` has 5.8 million states, the others at most
as many. Each kill or failure is a full
stop of an operation, so one of them before a complete synchronisation shows
what a half-done one leaves behind. The barrier's operations are all alike, and
two let one hold the lane before the preflight and one come after it. Four
backups of which two are kept overflow a source once by a row of pulls and once
by a row of restores, with one more to come after the removal that was cut in
half. `Session` bounds nothing but the tasks that are pending at once: two allow
one to hold the mutex while another, of an earlier or a later notification,
waits for it next to the lane, and two accounts are what a mix needs. Three
sign-ins of `SignIn` are one that runs, one that is refused next to it and one
whose flag or channel the undo of the second may find. In `Achievements` a group
of two and one of one tell a whole group from a bit, a second save tells the
union from the first, and one fault is any lost, refused or partial answer; a
second only repeats that, because each operation starts from nothing but the
account. A second transfer meets what Steam still handles of the first, two
blocks make a half. `LiveFile` needs two writes of the game for a mixture of
three saves (the first is there already), one replacement, and two attempts of
`STABLE_READ_ATTEMPTS`, the last and one before it; with `NibbleMax = 3` a token
has length extensions from 3 symbols and an extension a second byte from 15.
`TypeOK` of each module is checked in its largest run. `barrier` (it has the
explicit final step `Quiescent`) and `session` check for deadlock; the others
stop at their bounds and do not.

Fairness. `PrelaunchBarrier!FairSpec`: the preflight thread is runnable, its
deadline is a clock, and a replacement is file I/O without an `await`. Steam may
hang for ever, and `PreflightReturns` holds all the same. `LaneReleased` adds,
as its own hypothesis, that the operation's task keeps moving, which the
timeouts of every request and transfer justify. `SlotSync!FairSpec`: an
operation that has begun goes on until it ends (the same timeouts), the barrier
is closed in the end, and the user presses Sync Now again and again (strong
fairness: the lane may be busy in between). `EventuallySettled` therefore says
that a user who keeps pressing it is never left with a difference nobody
mentions; it says nothing about a user who does not. `Session!FairSpec` is
strong fairness of each process's own steps: tokio's mutex hands itself to its
waiters in order, so a process waiting for it gets it when it keeps becoming
free, and every request made under it ends by a timeout. Nothing obliges the
user, the lifecycle or the network. `SignIn!FairSpec`: the main thread finishes
its call, the task runs, Steam answers a poll. Nobody has to approve, to enter a
code, or to wait until a timeout strikes, so that `CancelEnds` shows what the
cancellation itself achieves. The requests that begin a sign-in and that submit
a code (`cm.rs:113`, `163`, `186`) have no timeout of their own: the fairness
has Steam answer them, or the connection end. If Steam did neither, the sign-in
would keep the lane, and neither `CancelEnds` nor the hypothesis of
`LaneReleased` would hold. `Achievements!FairSpec`: the user asks again,
requests end by their timeouts and Steam's reads catch up; without that last one
no read-back would be of use. `Transfer!FairSpec`: the runtime runs the
operation and the read task; Steam need not answer and no timeout need strike,
so that `CloseEndsTransfer` shows that the close itself reaches every waiter.

Properties with a condition. `PhoneProgressNotPulledOver` needs a game that does
not write during an operation, `SteamProgressNotPushedOver` a PC that does not,
and `ReplacedIsBackedUp` and `NoRedundantUpload` that no given-up commit lands
during an operation. `HashedPullIsPinned` has no condition on who writes, but an
exception: a download that is newer than the changelist the pin was compared with
(`bytes # listed[cur]`). It is about pulls that were queued with a SHA-1. The code
compares, then acts, and Steam offers no compare-and-swap for the last step. A
pull compares the identity captured in the constructor and does not look again, so
what the game saves in between is pulled over without a question (its bytes are in
a backup unless they were written after the copy); the others are the same window
of `assert_remote_unchanged` and of a download newer than the changelist. None of
these properties says anything about those windows, and the hazards that are such
a window name none of them. `ReplacedIsBackedUp` moreover speaks of the versions the engine
read: what a writer puts there after its last look is in no backup.
`ConflictIsReal` is about histories in which no operation was stopped (`stopped`):
an error drops the BASE of every slot the operation had settled, not only of the
one it was at, so a harmless difference is asked about afterwards, which is the
safe side. The errors include the ones that are no fault of Steam or of the
device: a pull of the second slot that is refused because the barrier has closed
drops what was learned of the first one.
`NewestAreKept`, `NothingOverwrittenIsLost` and `FailedPullIsUndone` need a clock
that runs forward: set back, the backup just made is the oldest and the first to
go, rollback or not. `EnoughAreRetained` does not need it. `AccountsNeverMix`
needs that nobody signs in over a stored token (`relogin`; see section 4), and
`ClearedInBackground` is about sessions that `ensure_session` made:
`finish_login` reads `foreground` and sends the presence before it waits for the
mutex, so the background task that comes in between finds no session to clear.
The other direction is not promised either: a background task that is late may
clear the presence of a foreground that came after it. `CancelInTimeStoresNothing`
is about a cancellation before the task's last look at its flag; a later one
cannot be told from none. `ActiveSaveIsFound` needs a game that leaves the files
alone during the discovery, and an active save that is one. `KeepsContract` promises
the bytes of a download only where there was a SHA-1. A game's own write counts as flushed in
`LiveFile`: what a power loss undoes of it is a save that the game had left before.

## 4. Where the code and its words disagree

* `barrier_retry`: the retry after a transient close always ends in "early
  preflight save snapshot unavailable" once the first attempt has taken the
  snapshot.
* `queued_restore`: restoring the oldest retained `local_before_restore` backup
  makes a new backup of that source, whose retention deletes the one being
  restored. The restore fails at this and at every later launch.
* `achievements_synced`: when Steam refuses the achievement request also the
  second time, `get_player_achievements` looks at the empty schema and not at the
  result, and returns a list without entries; nothing seems to be missing, and
  the panel says that save-derived achievements are synchronized.
Eight more windows are in the models without a run of their own:

* the pin of a queued pull is a comparison of two optional SHA-1s
  (`engine.rs:927`). Where Steam gives none, neither when the user chooses nor at
  the next launch, it holds for every version, and what a PC has published in
  between is written over the live save without a question, although the panel
  says that "the selected Steam version is hash-pinned" (`ui/IsaacCloudUI.m:444`).
  `PinHolds` has that case, and `HashedPullIsPinned` leaves it out (`memBare`). A
  pull queued with a SHA-1 is not applied against a listing without one;
* also with all SHA-1s, the pin is compared with the changelist, and the bytes come
  from a later download with a SHA-1 of its own. What a PC publishes between the two
  is written in place of the selected version: the exception of
  `HashedPullIsPinned`;
* `download` compares a SHA-1 only if the answer or the changelist has one
  (`steam/cloud.rs:184`). Without one, "the core verifies the download", as line 181
  of the repository's README has it, is a matter of the length, and in the engine of
  the format of a save: damage is mostly noticed, another whole save is not;
* a preflight that finds the lane busy returns at once, without the guard
  (`Refused`), while the other operation may be inside a replacement;
* a queued pull that was applied is applied again, over what was played since,
  when its operation ended before `SaveState`: the entry is removed in memory
  and saved after the last slot;
* a commit that Steam handles after its caller gave up (`LateCommit`) overwrites
  what a PC has published meanwhile, and that version is in no backup: the operation
  that asserted and backed up the Steam copy is long over;
* such a commit may bring back a version the phone has moved on from. It is the
  phone's own, so no progress of another device is involved, but BASE may by then be
  a later one, and the older save is pulled or asked about as Steam's news (after a
  backup);
* a sign-in fails after its token was stored, so *Connect* is offered again; while
  a lifecycle task connects the stored account the user signs in with another.
  The task has loaded the state file before the sign-in clears the old account's
  BASE records (`LoginBind` is outside the mutex) and saves it afterwards, and
  the next synchronisation compares the new account's saves with the old records.
  `AccountsNeverMix` holds only without `relogin` for that reason.

A guard code that is entered a second time, or after the wait for it, is accepted
without an error and never looked at (`SubmitCode` past `CodeArrives`). And a
credentials login that is refused
because the lane is busy has replaced the channel of the one that runs and then
drops it, so that the running login can no longer receive its code. It ends with
an error (`NoCodeCanArrive`); no code goes astray, which is what
`CodesGoToTheTask` says.

## 5. What is proved

All proofs are for arbitrary constants within the named assumptions: any set of
positive slot numbers, any number of versions, failures and kills, any `Retain`
of at least one, any number of saves and operations at the barrier, any set of
accounts and of pending tasks, any saves a file may hold.

`PrelaunchBarrierProofs`: `TypeCorrect`, `BarrierSeals`,
`PermissionStaysWithdrawn`, `ReplacersExclude`, `CompletionHolds`. The invariant
adds to the properties that the guard is held exactly by the thread whose step is
inside a critical section, that the lane is taken exactly while an operation is
in it, and that both exits of `preflight` have withdrawn the permission. The
first is what makes `Seal` sound: the thread that holds the guard knows that
nobody is inside a replacement, and `EnterPull` reads the permission again under
it.

`SlotSyncProofs`: `TypeCorrect`, `BaseIsCommon`, `UploadsAreAsked`,
`NothingLost`, `UploadsAreNews`, `PhoneProgressIsSafe`, `SteamProgressIsSafe`,
`QueuedPullWritesItsPin`, `QueuedPullWritesTheSelection`, `ConflictsAreReal`. `BaseSeenOnBothSides` is not
inductive, because BASE is set from what an operation remembers. The invariant
says that whatever it remembers was once on the side it was read from
(`HeldWasThere`, `InHandWasThere`), what each step finds prepared (`Prepared`),
that no version is used before it was created, so that an unchanged listing
means unchanged bytes (`NothingFromTheFuture`), and that the backup precedes the
overwrite (`BackedUpFirst`).

The other six theorems add layers to that invariant. What a manual
synchronisation has read of a slot is, until the slot's turn comes, still there
or has made way for a version the other side never had (`ManualComparesNow`), so
what it sends differs from what Steam has (`WorthPublishing`, for any game and
PC, and without late commits during an operation). When the game leaves
operations alone (`"game" \notin Racing`; a PC and late commits may race), the
save an operation compares is the live one, or was replaced by an earlier pull
of the same operation (`SnapIsCurrent`, `SeenIsCurrent`), hence an unasked pull
replaces what Steam has had (`PullReplacesOld`). When no PC does (`"pc" \notin
Racing`; the game and late commits may race), an upload replaces what the phone
has had (`PublishReplacesOld`): what is not as it was listed is then a save of
this phone. Without late commits either, the listing and the download stay true
(`ListedIsCurrent`), and a queued pull with a SHA-1 has its pin in hand
(`PinIsInHand`), so that `QueuedPullWritesTheSelection` has no exception.
`QueuedPullWritesItsPin` needs none of the three: between the comparison and the
replacement the pin stays the listed version (`PinIsListed`). With none of the three, and until an operation is stopped, BASE is
the last version both sides have had: each side still holds it or has moved to
one the other never had (`BaseIsLast`, through `StaleDiffers`, because a save
that an earlier pull replaced may still be in the snapshot but is never what
Steam holds). `TypeCorrect`, `BaseIsCommon`, `UploadsAreAsked` and `QueuedPullWritesItsPin`
have no hypothesis; what the others' are for is said in section 3;
`NothingLost` and `UploadsAreNews` need `"steam" \notin Racing`, the first
because a late commit may bring the listed version back after another one was
downloaded and backed up.

`BackupStoreProofs`: `TypeCorrect`, `RetentionKeepsTheNewest`, `NothingIsLost`,
`PullIsUndone`, `RetentionKeepsEnough`. With a clock that runs forward the time
stamps are in the order of the ids (`InOrder`); whatever is removed, or is on
the list to be, has `Retain` later backups of its source (`OnlyPastRemoved`, by
counting, in `SkippedArePast` and `NewerGrows`). Hence the last backup is always
whole (`LastIsWhole`), and that is the one a pull or a restore has just made.
The rollback's own backup is of another source and cannot push it out
(`CanRollBack`). `RetentionKeepsEnough` does without the clock: whatever is gone
has `Retain` backups with a later time stamp (`OnlyOutdatedRemoved`), and the
latest of those that are gone (`Greatest`) has only whole ones after it.

`SessionProofs`: `TypeCorrect`, `AccountsStayApart`, `StatusHolds`,
`PresenceIsCleared`. The invariant says that the mutex is held exactly by the
process at a step under it (`MutexDiscipline`), that the state file and every
copy of it hold only records of the account they are bound to (`FilesPure`),
that without a token there is no session and no task connects, except while a
disconnect waits for the mutex (`NoTokenNoSession`), and that, until somebody
signs in over a stored token, everybody who is connecting connects the account
of the token (`OneAccount`). The status and the presence each have an invariant
of their own: which process will still correct a flag, or clear what Steam
shows.

`TransferProofs`: `InvariantHolds`, `TypeCorrect`, `Implements`, `BatchSettled`.
The refinement is proved for any number of transfers, blocks, contents and
uploads by a PC. The invariant says whose save an operation carries and that it
was asked for (`KindOfStep`), that a commit that reports success, under way or
late, was sent only after every block had arrived (`BlocksArrive`,
`CommitsAreWhole`; so what `Assembled` puts together is whole), what an answer
vouches for before and after it is read (`AnswersAreTrue`, `SuccessIsKnown`), and
that Steam holds a whole save (`RemoteIsWhole`). A download has a SHA-1 only of what
was on Steam, and that is all the refinement can use: one without is an action of
the contract that promises no bytes. Each action of `Transfer` is then
an action of the contract or leaves its variables alone.

`AchievementsProofs`: `InvariantHolds`, `TypeCorrect`, `UnlocksStay`,
`UnlocksAreTrue`. A read, however old, shows no unlock that is not there
(`LaggingIsBehind`); the stats a store is built from are those of its checksum,
in every group that was in the answer (`StatsMatchChecksum`). Steam accepts it
only when the checksum is that of the account, so writing these groups whole
adds bits and clears none.

`SignInProofs`: `InvariantHolds`, `TypeCorrect`, `CancelledStoresNothing`,
`CodesGoRight`. The lane holds a sign-in exactly while there is a task, whose
number is that of the sign-in that took it (`LaneHasTask`, `NewestIsConnecting`);
a channel belongs to the task, or to the call of the main thread that has just
made it (`SenderHasOwner`, `SenderOfTask`); and a flag set before the last look is
still set when the task looks (`InTimeIsSeen`).

`LiveFileProofs`: `PowerLossIsSafe`, `ActiveIsFound`. The first rests on what a
replacement finds at each step (`Replacing`): it runs on a file that is there
and of which nothing is promised yet, with its bytes flushed before the rename,
whatever the game does to the old file meanwhile; and on the game writing only
over what it has opened (`OnlyTheGameWrites`), which after the rename is no path
of the slot. The second follows a discovery that the game leaves alone
(`CalmDiscovers`): it is still right about which generation is the active one,
it sees that file as it is, so the first attempt succeeds, and it has found it
once the walk has come past (`FindsActive`). The bytes are opaque in both: `Raw`
and `Canonical` are never expanded.

Only model-checked: the liveness properties (`PreflightReturns`,
`LaneReleased`, `EventuallySettled`, `TasksEnd`, `CancelEnds`,
`EventuallyUnlocked`, `CloseEndsTransfer`: liveness under fairness is out of the
prover's reach here) and `ReadIsWhole`. That a torn file or a mixture of two saves
does not pass for a save depends on what the decoder and the checksum compute for
the bytes at hand; they are recursive functions, and induction over data is out of
the prover's reach too. For all inputs it is not even true: two mixtures may share
a checksum.

## 6. Limits of the models

* A version is created once and never comes back: a PC that publishes an old
  save again is left out of `SlotSync`. `BackupStore` lets any version return.
* Files that are not Repentance saves and the texts of the status are left out;
  so is the raw form on the phone's own side.
* `Session` leaves out the phases of the status and `steam_playing`, the cancel
  flag and the guard code's channel (they are in `SignIn`), the legacy Keychain
  item, `restore_backup`
  (it writes the queue into the state file without the mutex, so it may be undone
  by a login of a lifecycle task, or undo its binding), and operations that start
  by themselves other than the foreground one's.
* A hash identifies its bytes, except in `SaveFormat`, whose checksum is a real,
  weaker one.
* `SaveFormat` is scaled down: half a token goes up to 3, a byte up to 15, a
  32-bit field is one symbol, there are four kinds of sections, and `MAX_SAVE_SIZE`
  is 60. Integers do not overflow: the `checked_*` operations of the code guard
  lengths that its limit of 32 MiB keeps far below the width.
* `LiveFile` has one slot, two pieces per file, and a game that writes only the
  active generation's save and keeps the directory as it is. A replacement fails
  anywhere; the temporary file a kill leaves behind is no save's name.
* `Achievements` has one operation at a time, as the lane does, and a schema that
  does not change. `Transfer` has one transfer at a time, as the session's mutex
  makes it; unpacking a zipped download and the size limits are part of "the
  bytes are others, or damaged".
* `BackupStore` has one slot, one caller at a time and no game writing during a
  call: that race is in `SlotSync`. The order of equal time stamps is arbitrary.
* Temporary files that a kill leaves behind are not counted.

## 7. Not modelled

* The startup gate and the game-state detector are Objective-C hooks of the host:
  their order is that of `dyld` and UIKit, and the menu is recognised from memory
  offsets of the game. What they call (`ICSCorePreflight`, the lifecycle's entry
  points) is in the models.
* The user interface beyond the status it acts on, texts and logging.
* Choosing a server and racing the connections of `connect_cm`, the heartbeat and
  streams of packets: at most one connection results, which is where `Session` and
  `Transfer` begin.
* Walking directories: links, the depth limit, our own backup tree.
* PICS, chat and friends of the vendored crate; the core does not use them.
* That an achievement request which Steam refused at first takes the presence back
  when it ends, next to a session that shows the game.

Worth doing next: a contract for `SlotSync` (each side is only ever replaced by a
version of the other, and what is replaced is kept) with `BackupStore`'s
directory as the set of backups; the queue of the state file in `Session`, for
`restore_backup` against the login of a lifecycle task.
