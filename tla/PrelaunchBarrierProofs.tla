------------------------ MODULE PrelaunchBarrierProofs ------------------------
(***************************************************************************)
(* The safety properties of the prelaunch barrier, for every number of     *)
(* saves and of operations.  The argument: the guard says exactly who is   *)
(* inside a replacement, so the preflight thread can only withdraw the     *)
(* permission under the guard while nobody is; and a pull that saw the     *)
(* permission before has to read it again once it owns the guard.          *)
(***************************************************************************)
EXTENDS PrelaunchBarrier, TLAPS

\* TypeOK in two parts: the Boolean variables, and the others
Switches ==
  /\ started \in BOOLEAN /\ expired \in BOOLEAN /\ completed \in BOOLEAN
  /\ restoreQueued \in BOOLEAN
  /\ allowed \in BOOLEAN /\ active \in BOOLEAN /\ snapshot \in BOOLEAN

Registers ==
  /\ pre \in PreSteps /\ attempt \in {1, 2}
  /\ guard \in {"free", "preflight", "operation"}
  /\ op \in Operations /\ opPc \in OpSteps
  /\ todo \in Nat /\ budget \in Nat
  /\ ended \in Endings

\* The guard is held by exactly the thread whose step is in a critical section
GuardDiscipline ==
  /\ guard = "operation" <=> opPc = "replace"
  /\ guard = "preflight" <=> pre \in {"restoring", "sealing"}

\* The lane is taken exactly while an operation is in it, and an operation
\* that is about to replace a save has one to visit
LaneDiscipline ==
  /\ active <=> op # "none"
  /\ op = "none" <=> opPc = "idle"
  /\ opPc \in {"permit", "replace"} => todo > 0

\* Both exits of Engine::preflight have withdrawn the permission, and the
\* early one belongs to an attempt that did not get the lane
ExitsWithdraw ==
  /\ pre \in {"inspect", "done"} => ~allowed
  /\ pre = "refused" => ~started

IInv ==
  /\ TypeOK
  /\ GuardDiscipline
  /\ LaneDiscipline
  /\ ExitsWithdraw
  /\ BarrierSealed
  /\ CompletionIsTrue

\* The invariant holds when the dylib has been loaded and nothing has run.
LEMMA InitIInv == Init => IInv
  <1> SUFFICES ASSUME Init PROVE IInv
    OBVIOUS
  <1> USE DEF Init
  <1>1. TypeOK
    <2>1. snapshot \in BOOLEAN BY Zenon, ConstantsAssumption
          DEF ConstantsAssumption
    <2> QED BY <2>1, ConstantsAssumption
            DEF TypeOK, PreSteps, Operations, OpSteps, Endings
  <1>2. GuardDiscipline  BY DEF GuardDiscipline
  <1>3. LaneDiscipline   BY DEF LaneDiscipline
  <1>4. ExitsWithdraw    BY DEF ExitsWithdraw
  <1>5. BarrierSealed    BY DEF BarrierSealed
  <1>6. CompletionIsTrue BY DEF CompletionIsTrue
  <1> QED BY ONLY <1>1, <1>2, <1>3, <1>4, <1>5, <1>6 DEF IInv

\* Every step of the preflight thread preserves the invariant.
LEMMA PreflightKeepsIInv == IInv /\ PreflightStep => IInv'
  <1> SUFFICES ASSUME IInv, PreflightStep PROVE IInv'
    OBVIOUS
  <1> USE DEF IInv, TypeOK, GuardDiscipline, LaneDiscipline, ExitsWithdraw,
              BarrierSealed, CompletionIsTrue, PreSteps, Operations, OpSteps,
              Endings, opVars
  <1>1. CASE Begin        BY <1>1 DEF Begin
  <1>2. CASE SkipRestore  BY <1>2 DEF SkipRestore
  <1>3. CASE EnterRestore BY <1>3 DEF EnterRestore
  <1>4. CASE LeaveRestore
    <2> USE <1>4 DEF LeaveRestore
    <2>1. TypeOK'
      <3>1. snapshot' \in BOOLEAN /\ restoreQueued' \in BOOLEAN
        BY ONLY IInv, LeaveRestore, Zenon DEF IInv, TypeOK, LeaveRestore
      <3> QED BY <3>1
    <2>2. GuardDiscipline'  OBVIOUS
    <2>3. LaneDiscipline'   OBVIOUS
    <2>4. ExitsWithdraw'    OBVIOUS
    <2>5. BarrierSealed'    OBVIOUS
    <2>6. CompletionIsTrue' OBVIOUS
    <2> HIDE DEF TypeOK, GuardDiscipline, LaneDiscipline, ExitsWithdraw,
                 BarrierSealed, CompletionIsTrue
    <2> QED BY ONLY <2>1, <2>2, <2>3, <2>4, <2>5, <2>6 DEF IInv
  <1>5. CASE StartPrelaunch BY <1>5 DEF StartPrelaunch
  <1>6. CASE LaneBusy
    <2> USE <1>6 DEF LaneBusy
    <2>1. TypeOK'
      <3>1. TypeOK /\ LaneBusy
        BY ONLY IInv, <1>6 DEF IInv
      <3>2. Switches'
        BY ONLY <3>1, Zenon DEF TypeOK, Switches, LaneBusy
      <3>3. Registers'
        <4>1. pre' \in PreSteps
          BY ONLY <3>1 DEF LaneBusy, PreSteps
        <4> HIDE DEF PreSteps, Operations, OpSteps, Endings
        <4> QED BY ONLY <3>1, <4>1, Zenon DEF TypeOK, Registers, LaneBusy, opVars
      <3> QED BY ONLY <3>2, <3>3, Zenon DEF TypeOK, Switches, Registers
    <2>2. GuardDiscipline'  OBVIOUS
    <2>3. LaneDiscipline'   OBVIOUS
    <2>4. ExitsWithdraw'    OBVIOUS
    <2>5. BarrierSealed'    OBVIOUS
    <2>6. CompletionIsTrue' OBVIOUS
    <2> HIDE DEF TypeOK, GuardDiscipline, LaneDiscipline, ExitsWithdraw,
                 BarrierSealed, CompletionIsTrue
    <2> QED BY ONLY <2>1, <2>2, <2>3, <2>4, <2>5, <2>6 DEF IInv
  <1>7. CASE Refused
    <2> USE <1>7 DEF Refused
    <2>1. TypeOK'
      <3>1. /\ TypeOK /\ pre' = "inspect" /\ allowed' = FALSE
            /\ completed' = TRUE
            /\ UNCHANGED <<attempt, started, expired, restoreQueued, guard,
                           active, opVars, snapshot, ended, budget>>
        BY ONLY IInv, <1>7 DEF IInv, Refused
      <3>2. pre' \in PreSteps
        BY ONLY <3>1 DEF PreSteps
      <3> HIDE DEF PreSteps, Operations, OpSteps, Endings
      <3> QED BY ONLY <3>1, <3>2, Zenon DEF TypeOK, opVars
    <2>2. GuardDiscipline'  OBVIOUS
    <2>3. LaneDiscipline'   OBVIOUS
    <2>4. ExitsWithdraw'    OBVIOUS
    <2>5. BarrierSealed'    OBVIOUS
    <2>6. CompletionIsTrue' OBVIOUS
    <2> HIDE DEF TypeOK, GuardDiscipline, LaneDiscipline, ExitsWithdraw,
                 BarrierSealed, CompletionIsTrue
    <2> QED BY ONLY <2>1, <2>2, <2>3, <2>4, <2>5, <2>6 DEF IInv
  <1>8. CASE StopWaiting
    <2> USE <1>8 DEF StopWaiting
    <2>1. TypeOK'
      <3>1. TypeOK /\ StopWaiting
        BY ONLY IInv, <1>8 DEF IInv
      <3>2. Switches'
        BY ONLY <3>1, Zenon DEF TypeOK, Switches, StopWaiting
      <3>3. Registers'
        BY ONLY <3>1 DEF TypeOK, Registers, StopWaiting, PreSteps, opVars
      <3> QED BY ONLY <3>2, <3>3, Zenon DEF TypeOK, Switches, Registers
    <2>2. GuardDiscipline'  OBVIOUS
    <2>3. LaneDiscipline'   OBVIOUS
    <2>4. ExitsWithdraw'    OBVIOUS
    <2>5. BarrierSealed'    OBVIOUS
    <2>6. CompletionIsTrue' OBVIOUS
    <2> HIDE DEF TypeOK, GuardDiscipline, LaneDiscipline, ExitsWithdraw,
                 BarrierSealed, CompletionIsTrue
    <2> QED BY ONLY <2>1, <2>2, <2>3, <2>4, <2>5, <2>6 DEF IInv
  <1>9. CASE TakeGuard    BY <1>9 DEF TakeGuard
  <1>10. CASE Seal
    <2> USE <1>10 DEF Seal
    <2>1. TypeOK'
      <3>1. TypeOK /\ Seal
        BY ONLY IInv, <1>10 DEF IInv
      <3>2. Switches'
        BY ONLY <3>1, Zenon DEF TypeOK, Switches, Seal
      <3>3. Registers'
        BY ONLY <3>1 DEF TypeOK, Registers, Seal, PreSteps, opVars
      <3> QED BY ONLY <3>2, <3>3, Zenon DEF TypeOK, Switches, Registers
    <2>2. GuardDiscipline'  OBVIOUS
    <2>3. LaneDiscipline'   OBVIOUS
    <2>4. ExitsWithdraw'    OBVIOUS
    <2>5. BarrierSealed'    OBVIOUS
    <2>6. CompletionIsTrue' OBVIOUS
    <2> HIDE DEF TypeOK, GuardDiscipline, LaneDiscipline, ExitsWithdraw,
                 BarrierSealed, CompletionIsTrue
    <2> QED BY ONLY <2>1, <2>2, <2>3, <2>4, <2>5, <2>6 DEF IInv
  <1>11. CASE Inspect     BY <1>11 DEF Inspect
  <1> QED
    BY <1>1, <1>2, <1>3, <1>4, <1>5, <1>6, <1>7, <1>8, <1>9, <1>10, <1>11
    DEF PreflightStep

\* Every step of the operation in the lane preserves the invariant.
LEMMA OperationKeepsIInv == IInv /\ OperationStep => IInv'
  <1> SUFFICES ASSUME IInv, OperationStep PROVE IInv'
    OBVIOUS
  <1> USE DEF IInv, TypeOK, GuardDiscipline, LaneDiscipline, ExitsWithdraw,
              BarrierSealed, CompletionIsTrue, PreSteps, Operations, OpSteps,
              Endings, preVars
  <1>1. ASSUME NEW how \in {"failed", "closed"}, Fail(how) PROVE IInv'
    BY <1>1 DEF Fail
  <1>2. CASE Connect      BY <1>2 DEF Connect
  <1>3. CASE ListSaves
    <2> USE <1>3 DEF ListSaves
    <2>1. TypeOK'
      <3>1. snapshot' \in BOOLEAN
        BY ONLY IInv, ListSaves, Zenon DEF IInv, TypeOK, ListSaves
      <3>2. todo' \in Nat /\ ended' \in Endings /\ opPc' \in OpSteps
        BY ConstantsAssumption
      <3>3. TypeOK /\ UNCHANGED <<preVars, allowed, guard, active, op, budget>>
        BY ONLY IInv, ListSaves DEF IInv, ListSaves
      <3> HIDE DEF PreSteps, Operations, OpSteps, Endings
      <3> QED BY ONLY <3>1, <3>2, <3>3, Zenon DEF TypeOK, preVars
    <2>2. GuardDiscipline'  OBVIOUS
    <2>3. LaneDiscipline'   OBVIOUS
    <2>4. ExitsWithdraw'    OBVIOUS
    <2>5. BarrierSealed'    OBVIOUS
    <2>6. CompletionIsTrue' OBVIOUS
    <2> HIDE DEF TypeOK, GuardDiscipline, LaneDiscipline, ExitsWithdraw,
                 BarrierSealed, CompletionIsTrue
    <2> QED BY ONLY <2>1, <2>2, <2>3, <2>4, <2>5, <2>6 DEF IInv
  <1>4. CASE SnapshotGone BY <1>4 DEF SnapshotGone
  <1>5. CASE VisitSlot    BY <1>5 DEF VisitSlot
  <1>6. CASE DecidePull   BY <1>6 DEF DecidePull
  <1>7. CASE EnterPull    BY <1>7 DEF EnterPull
  <1>8. CASE RefusePull   BY <1>8 DEF RefusePull
  <1>9. CASE LeavePull    BY <1>9 DEF LeavePull
  <1>10. CASE RollBackPull BY <1>10 DEF RollBackPull
  <1>11. CASE FinishSync  BY <1>11 DEF FinishSync
  <1>12. CASE ReleaseLane
    <2> USE <1>12 DEF ReleaseLane
    <2>1. TypeOK'
      <3>1. active' \in BOOLEAN
        BY ONLY ReleaseLane, Zenon DEF ReleaseLane
      <3> QED BY <3>1
    <2>2. GuardDiscipline'  OBVIOUS
    <2>3. LaneDiscipline'   OBVIOUS
    <2>4. ExitsWithdraw'    OBVIOUS
    <2>5. BarrierSealed'    OBVIOUS
    <2>6. CompletionIsTrue' OBVIOUS
    <2> HIDE DEF TypeOK, GuardDiscipline, LaneDiscipline, ExitsWithdraw,
                 BarrierSealed, CompletionIsTrue
    <2> QED BY ONLY <2>1, <2>2, <2>3, <2>4, <2>5, <2>6 DEF IInv
  <1> QED
    BY <1>1, <1>2, <1>3, <1>4, <1>5, <1>6, <1>7, <1>8, <1>9, <1>10, <1>11,
       <1>12
    DEF OperationStep, PullStep

\* The invariant is inductive.
LEMMA NextKeepsIInv == IInv /\ [Next]_vars => IInv'
  <1> SUFFICES ASSUME IInv, [Next]_vars PROVE IInv'
    OBVIOUS
  <1> USE DEF IInv, TypeOK, GuardDiscipline, LaneDiscipline, ExitsWithdraw,
              BarrierSealed, CompletionIsTrue, PreSteps, Operations, OpSteps,
              Endings
  <1>1. CASE PreflightStep BY <1>1, PreflightKeepsIInv
  <1>2. CASE OperationStep BY <1>2, OperationKeepsIInv
  <1>3. CASE DeadlinePasses BY <1>3 DEF DeadlinePasses, opVars
  <1>4. ASSUME NEW kind \in {"sync", "other"}, StartOperation(kind)
        PROVE  IInv'
    BY <1>4 DEF StartOperation, preVars
  <1>5. CASE Quiescent BY <1>5 DEF Quiescent, vars, preVars, opVars
  <1>6. CASE UNCHANGED vars BY <1>6 DEF vars, preVars, opVars
  <1> QED BY <1>1, <1>2, <1>3, <1>4, <1>5, <1>6 DEF Next

\* The strengthened invariant holds in every reachable state.
LEMMA Invariant == Spec => []IInv
  BY InitIInv, NextKeepsIInv, PTL DEF Spec

\* The variables keep their types, for every instance.
THEOREM TypeCorrect == Spec => []TypeOK
  <1>1. IInv => TypeOK
    BY DEF IInv
  <1> QED BY <1>1, Invariant, PTL

\* Once a preflight that got the lane has closed the barrier, no live save is
\* being replaced and none can be.
THEOREM BarrierSeals == Spec => []BarrierSealed
  <1>1. IInv => BarrierSealed
    BY DEF IInv
  <1> QED BY <1>1, Invariant, PTL

\* After ICSCorePreflight has returned the permission stays withdrawn.
THEOREM PermissionStaysWithdrawn == Spec => []PermissionWithdrawn
  <1>1. IInv => PermissionWithdrawn
    BY DEF IInv, ExitsWithdraw, PermissionWithdrawn
  <1> QED BY <1>1, Invariant, PTL

\* A queued restore and a pull exclude each other.
THEOREM ReplacersExclude == Spec => []OneReplacer
  <1>1. IInv => OneReplacer
    BY DEF IInv, GuardDiscipline, OneReplacer, TypeOK
  <1> QED BY <1>1, Invariant, PTL

\* A reported completion leaves no prelaunch synchronisation behind.
THEOREM CompletionHolds == Spec => []CompletionIsTrue
  <1>1. IInv => CompletionIsTrue
    BY DEF IInv
  <1> QED BY <1>1, Invariant, PTL
===============================================================================
