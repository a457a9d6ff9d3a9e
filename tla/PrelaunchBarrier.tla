--------------------------- MODULE PrelaunchBarrier ---------------------------
(***************************************************************************)
(* The prelaunch barrier of the engine: the thread that runs               *)
(* ICSCorePreflight, the single operation lane (operation_active), and the *)
(* critical section in which a live save file is replaced                  *)
(* (replacement_guard, replacement_allowed).                               *)
(*                                                                         *)
(* Two kinds of thread act: the preflight thread, one statement of         *)
(* Engine::preflight at a time, and the runtime's task of the operation    *)
(* that holds the lane.  What a synchronisation compares is left out: a    *)
(* visited slot either needs no replacement or asks for one.  SlotSync has *)
(* the comparison itself.                                                  *)
(***************************************************************************)
EXTENDS Naturals

CONSTANTS
  MaxSlots,       \* the most saves one synchronisation visits
  MaxOperations,  \* bound: operations started by the UI and the lifecycle
  Captured        \* did the constructor capture the save identities?

ASSUME ConstantsAssumption ==
  /\ MaxSlots \in Nat
  /\ MaxOperations \in Nat
  /\ Captured \in BOOLEAN

VARIABLES
  pre,          \* the next statement of the preflight thread
  attempt,      \* 1, or 2 for the retry of ICSCorePreflight
  started,      \* did automatic_sync("prelaunch") get the lane?
  expired,      \* has this attempt's deadline passed?
  completed,    \* what Engine::preflight returns
  restoreQueued,\* is a pending_local_restore stored?
  allowed,      \* replacement_allowed
  guard,        \* who holds replacement_guard
  active,       \* operation_active
  op,           \* the operation in the lane
  opPc,         \* its next step
  todo,         \* saves its synchronisation has still to visit
  snapshot,     \* is preflight_saves Some?
  ended,        \* what the status says of the last operation
  budget        \* operations the UI and the lifecycle may still start

preVars == <<pre, attempt, started, expired, completed, restoreQueued>>
opVars  == <<op, opPc, todo>>
vars    == <<preVars, allowed, guard, active, opVars, snapshot, ended, budget>>

PreSteps == {"begin", "restore", "restoring", "start", "refused", "waiting",
             "closing", "sealing", "inspect", "done"}
Operations == {"none", "prelaunch", "sync", "other"}
OpSteps == {"idle", "connect", "list", "slots", "permit", "replace", "release"}
\* "closed" is an error or offline status whose detail names a CM close
Endings == {"none", "running", "good", "failed", "closed"}

Init ==
  /\ pre = "begin" /\ attempt = 1
  /\ started = FALSE /\ expired = FALSE /\ completed = FALSE
  /\ restoreQueued \in BOOLEAN
  /\ allowed = FALSE /\ guard = "free" /\ active = FALSE
  /\ op = "none" /\ opPc = "idle" /\ todo = 0
  /\ snapshot = Captured
  /\ ended = "none"
  /\ budget = MaxOperations

-------------------------------------------------------------------------------
(* The preflight thread                                                    *)

Begin ==
  /\ pre = "begin"
  /\ allowed' = TRUE
  /\ pre' = "restore"
  /\ UNCHANGED <<attempt, started, expired, completed, restoreQueued, guard,
                 active, opVars, snapshot, ended, budget>>

\* Nothing is queued, or the queued backup fails one of the checks made
\* before the guard is taken: the error is logged and preflight goes on.
SkipRestore ==
  /\ pre = "restore"
  /\ pre' = "start"
  /\ UNCHANGED <<attempt, started, expired, completed, restoreQueued, allowed,
                 guard, active, opVars, snapshot, ended, budget>>

EnterRestore ==
  /\ pre = "restore" /\ restoreQueued
  /\ guard = "free"
  /\ guard' = "preflight"
  /\ pre' = "restoring"
  /\ UNCHANGED <<attempt, started, expired, completed, restoreQueued, allowed,
                 active, opVars, snapshot, ended, budget>>

\* The file is replaced, its identity put into the snapshot (created when the
\* constructor left none) and the queue entry cleared, unless saving the state
\* fails; or the replacement itself fails.
LeaveRestore ==
  /\ pre = "restoring"
  /\ \/ allowed /\ snapshot' = TRUE /\ restoreQueued' \in BOOLEAN
     \/ UNCHANGED <<snapshot, restoreQueued>>
  /\ guard' = "free"
  /\ pre' = "start"
  /\ UNCHANGED <<attempt, started, expired, completed, allowed, active, opVars,
                 ended, budget>>

\* automatic_sync("prelaunch"): spawn_operation takes the lane
StartPrelaunch ==
  /\ pre = "start" /\ ~active
  /\ active' = TRUE
  /\ op' = "prelaunch" /\ opPc' = "connect"
  /\ ended' = "running"
  /\ started' = TRUE /\ expired' = FALSE
  /\ pre' = "waiting"
  /\ UNCHANGED <<attempt, completed, restoreQueued, allowed, guard, todo,
                 snapshot, budget>>

\* or the lane is busy
LaneBusy ==
  /\ pre = "start" /\ active
  /\ started' = FALSE
  /\ pre' = "refused"
  /\ UNCHANGED <<attempt, expired, completed, restoreQueued, allowed, guard,
                 active, opVars, snapshot, ended, budget>>

\* The early return: permission is withdrawn without taking the guard
Refused ==
  /\ pre = "refused"
  /\ allowed' = FALSE
  /\ completed' = TRUE
  /\ pre' = "inspect"
  /\ UNCHANGED <<attempt, started, expired, restoreQueued, guard, active,
                 opVars, snapshot, ended, budget>>

DeadlinePasses ==
  /\ pre = "waiting" /\ ~expired
  /\ expired' = TRUE
  /\ UNCHANGED <<pre, attempt, started, completed, restoreQueued, allowed,
                 guard, active, opVars, snapshot, ended, budget>>

\* MUTANT: the constructor waits without a deadline
MWaitWithoutDeadline ==
  /\ pre = "waiting" /\ ~active
  /\ completed' = ~active
  /\ pre' = "closing"
  /\ UNCHANGED <<attempt, started, expired, restoreQueued, allowed, guard,
                 active, opVars, snapshot, ended, budget>>

\* MUTANT: the barrier is taken as completed whatever happened
MAlwaysCompleted ==
  /\ pre = "waiting" /\ (~active \/ expired)
  /\ completed' = TRUE
  /\ pre' = "closing"
  /\ UNCHANGED <<attempt, started, expired, restoreQueued, allowed, guard,
                 active, opVars, snapshot, ended, budget>>

\* The poll ends when the lane is free or at the deadline; the lane is then
\* read once more for the result.
StopWaiting ==
  /\ pre = "waiting" /\ (~active \/ expired)
  /\ completed' = ~active
  /\ pre' = "closing"
  /\ UNCHANGED <<attempt, started, expired, restoreQueued, allowed, guard,
                 active, opVars, snapshot, ended, budget>>

TakeGuard ==
  /\ pre = "closing" /\ guard = "free"
  /\ guard' = "preflight"
  /\ pre' = "sealing"
  /\ UNCHANGED <<attempt, started, expired, completed, restoreQueued, allowed,
                 active, opVars, snapshot, ended, budget>>

Seal ==
  /\ pre = "sealing"
  /\ allowed' = FALSE
  /\ guard' = "free"
  /\ pre' = "inspect"
  /\ UNCHANGED <<attempt, started, expired, completed, restoreQueued, active,
                 opVars, snapshot, ended, budget>>

\* MUTANT: the retries are not counted
MRetryWithoutLimit ==
  /\ pre = "inspect"
  /\ IF ended = "closed"
       THEN attempt' = attempt + 1 /\ pre' = "begin"
       ELSE attempt' = attempt /\ pre' = "done"
  /\ UNCHANGED <<started, expired, completed, restoreQueued, allowed, guard,
                 active, opVars, snapshot, ended, budget>>

\* ICSCorePreflight: one retry when the status shows a transient CM close
Inspect ==
  /\ pre = "inspect"
  /\ IF ended = "closed" /\ attempt = 1
       THEN attempt' = 2 /\ pre' = "begin"
       ELSE attempt' = attempt /\ pre' = "done"
  /\ UNCHANGED <<started, expired, completed, restoreQueued, allowed, guard,
                 active, opVars, snapshot, ended, budget>>

PreflightStep ==
  \/ Begin \/ SkipRestore \/ EnterRestore \/ LeaveRestore \/ StartPrelaunch
  \/ LaneBusy \/ Refused \/ StopWaiting \/ TakeGuard \/ Seal \/ Inspect

-------------------------------------------------------------------------------
(* The operation in the lane                                               *)

\* A button, the foreground notification or the transport-retry thread starts
\* an operation: "sync" is any run_sync but the prelaunch one, "other" is an
\* operation that never replaces a live save.
StartOperation(kind) ==
  /\ kind \in {"sync", "other"}
  /\ ~active /\ budget > 0
  /\ active' = TRUE
  /\ op' = kind /\ opPc' = "connect"
  /\ ended' = "running"
  /\ budget' = budget - 1
  /\ UNCHANGED <<preVars, allowed, guard, todo, snapshot>>

\* MUTANT: a failed operation ends without releasing the lane
MFailHoldsLane(how) ==
  /\ opPc \in {"connect", "list", "slots"}
  /\ how \in {"failed", "closed"}
  /\ ended' = how
  /\ opPc' = "idle" /\ todo' = 0 /\ op' = "none"
  /\ UNCHANGED <<preVars, allowed, guard, active, snapshot, budget>>

\* Any step that talks to Steam or to the disk may fail, and ensure_session
\* may find Steam offline; spawn_operation's wrapper publishes how it ended.
Fail(how) ==
  /\ opPc \in {"connect", "list", "slots"}
  /\ how \in {"failed", "closed"}
  /\ ended' = how
  /\ opPc' = "release" /\ todo' = 0
  /\ UNCHANGED <<preVars, allowed, guard, active, op, snapshot, budget>>

Connect ==
  /\ opPc = "connect"
  /\ IF op = "other" THEN opPc' = "release" /\ ended' = "good"
                     ELSE opPc' = "list" /\ ended' = ended
  /\ UNCHANGED <<preVars, allowed, guard, active, op, todo, snapshot, budget>>

\* The changelist arrives and the local saves are chosen: the prelaunch
\* operation takes the constructor's snapshot, which is then gone.  No save
\* with a copy on Steam ends the operation with an error.
ListSaves ==
  /\ opPc = "list"
  /\ op = "prelaunch" => snapshot
  /\ snapshot' = (IF op = "prelaunch" THEN FALSE ELSE snapshot)
  /\ \/ todo' \in 1..MaxSlots /\ opPc' = "slots" /\ ended' = ended
     \/ todo' = 0 /\ opPc' = "release" /\ ended' = "failed"
  /\ UNCHANGED <<preVars, allowed, guard, active, op, budget>>

\* "early preflight save snapshot unavailable"
SnapshotGone ==
  /\ opPc = "list" /\ op = "prelaunch" /\ ~snapshot
  /\ ended' = "failed"
  /\ opPc' = "release"
  /\ UNCHANGED <<preVars, allowed, guard, active, op, todo, snapshot, budget>>

\* A slot that needs no replacement, or one found while it is not permitted
VisitSlot ==
  /\ opPc = "slots" /\ todo > 0
  /\ todo' = todo - 1
  /\ UNCHANGED <<preVars, allowed, guard, active, op, opPc, snapshot, ended,
                 budget>>

\* run_sync reads replacement_allowed and calls pull_one
DecidePull ==
  /\ opPc = "slots" /\ todo > 0 /\ allowed
  /\ opPc' = "permit"
  /\ UNCHANGED <<preVars, allowed, guard, active, op, todo, snapshot, ended,
                 budget>>

\* MUTANT: the permission is not checked again under the guard
MEnterPullUnchecked ==
  /\ opPc = "permit" /\ guard = "free"
  /\ guard' = "operation"
  /\ opPc' = "replace"
  /\ UNCHANGED <<preVars, allowed, active, op, todo, snapshot, ended, budget>>

\* pull_one takes the guard and checks the permission again
EnterPull ==
  /\ opPc = "permit" /\ guard = "free" /\ allowed
  /\ guard' = "operation"
  /\ opPc' = "replace"
  /\ UNCHANGED <<preVars, allowed, active, op, todo, snapshot, ended, budget>>

RefusePull ==
  /\ opPc = "permit" /\ guard = "free" /\ ~allowed
  /\ ended' = "failed"
  /\ opPc' = "release" /\ todo' = 0
  /\ UNCHANGED <<preVars, allowed, guard, active, op, snapshot, budget>>

\* The replacement is durable and verified
LeavePull ==
  /\ opPc = "replace"
  /\ guard' = "free"
  /\ opPc' = "slots" /\ todo' = todo - 1
  /\ UNCHANGED <<preVars, allowed, active, op, snapshot, ended, budget>>

\* or it failed and the old save was put back
RollBackPull ==
  /\ opPc = "replace"
  /\ guard' = "free"
  /\ ended' = "failed"
  /\ opPc' = "release" /\ todo' = 0
  /\ UNCHANGED <<preVars, allowed, active, op, snapshot, budget>>

FinishSync ==
  /\ opPc = "slots" /\ todo = 0
  /\ ended' = "good"
  /\ opPc' = "release"
  /\ UNCHANGED <<preVars, allowed, guard, active, op, todo, snapshot, budget>>

ReleaseLane ==
  /\ opPc = "release"
  /\ active' = FALSE
  /\ op' = "none" /\ opPc' = "idle"
  /\ UNCHANGED <<preVars, allowed, guard, todo, snapshot, ended, budget>>

\* the steps with no network wait in them
PullStep == LeavePull \/ RollBackPull

OperationStep ==
  \/ \E how \in {"failed", "closed"} : Fail(how)
  \/ Connect \/ ListSaves \/ SnapshotGone \/ VisitSlot \/ DecidePull
  \/ EnterPull \/ RefusePull \/ PullStep \/ FinishSync \/ ReleaseLane

\* Nothing is left to do: the preflight thread has ended and the lane is free
Quiescent == pre = "done" /\ ~active /\ UNCHANGED vars

Next ==
  \/ PreflightStep
  \/ DeadlinePasses
  \/ \E kind \in {"sync", "other"} : StartOperation(kind)
  \/ OperationStep
  \/ Quiescent

Spec == Init /\ [][Next]_vars

\* The preflight thread is a runnable thread, the deadline is a clock, and the
\* replacement itself is file I/O without an await.  Nothing is assumed of the
\* steps that wait for Steam: they may hang for ever.
FairSpec ==
  /\ Spec
  /\ WF_vars(PreflightStep) /\ WF_vars(DeadlinePasses) /\ WF_vars(PullStep)

-------------------------------------------------------------------------------
(* Properties                                                              *)

\* The variables keep their types.
TypeOK ==
  /\ pre \in PreSteps /\ attempt \in {1, 2}
  /\ started \in BOOLEAN /\ expired \in BOOLEAN /\ completed \in BOOLEAN
  /\ restoreQueued \in BOOLEAN
  /\ allowed \in BOOLEAN /\ active \in BOOLEAN /\ snapshot \in BOOLEAN
  /\ guard \in {"free", "preflight", "operation"}
  /\ op \in Operations /\ opPc \in OpSteps
  /\ todo \in Nat /\ budget \in Nat
  /\ ended \in Endings

\* Once a preflight that got the lane has closed the barrier, no operation is
\* inside the replacement of a live save and none can enter it: the promise
\* of the comment in Engine::preflight, whatever the operation in the lane
\* was doing when the deadline passed.
BarrierSealed ==
  (started /\ pre \in {"inspect", "done"}) => (~allowed /\ opPc # "replace")

\* When ICSCorePreflight has returned, by whichever path, the permission to
\* replace saves is withdrawn for the rest of the process.
PermissionWithdrawn == pre = "done" => ~allowed

\* The queued restore of the preflight thread and a pull of the operation in
\* the lane never write a live save at the same time.
OneReplacer == ~(pre = "restoring" /\ opPc = "replace")

\* A preflight that waited for the lane and reports completion has not left
\* its own prelaunch synchronisation running behind it.
CompletionIsTrue ==
  (started /\ completed /\ pre \in {"closing", "sealing", "inspect", "done"})
    => op # "prelaunch"

\* The launch is never held up: whatever Steam does, ICSCorePreflight returns.
PreflightReturns == <>(pre = "done")

\* Whoever takes the lane gives it back, on the error paths too, as long as the
\* operation's task keeps moving: every request and transfer has a timeout.
LaneReleased == WF_vars(OperationStep) => (active ~> ~active)

\* ICSCorePreflight logs "reconnecting and retrying once": a retry after a
\* transient close has the saves to compare.  The first attempt took them.
RetryHasSnapshot ==
  (Captured /\ attempt = 2 /\ op = "prelaunch" /\ opPc = "list") => snapshot
===============================================================================
