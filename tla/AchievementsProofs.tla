-------------------------- MODULE AchievementsProofs --------------------------
(***************************************************************************)
(* Proofs about achievement synchronisation, for any achievements, groups, *)
(* slots and bounds: it never clears an unlock, and claims none that Steam *)
(* does not have.                                                          *)
(***************************************************************************)
EXTENDS Achievements, TLAPS

USE DEF vars, Steps

\* A read may be old, but it shows no unlock that is not there.
LaggingIsBehind == lagging \subseteq unlocked

\* A store is built from the stats its checksum is of, in the groups Steam sent.
StatsMatchChecksum ==
  op.at = "store" =>
    \A g \in op.present : op.stats \cap g = op.crc \cap g

\* The read-back has attempts left.
AttemptsLeft == op.at = "verify" => op.attempt < VerifyAttempts

IInv == /\ TypeOK /\ LaggingIsBehind /\ UnlockedIsTrue
        /\ StatsMatchChecksum /\ AttemptsLeft

USE DEF IInv

Ops == [at : Steps, todo : SUBSET Slots, local : SUBSET Ids,
        previous : SUBSET Known, names : SUBSET Known,
        stats : SUBSET Known, present : SUBSET Groups,
        crc : SUBSET Known, attempt : 0..VerifyAttempts]

Reports == [ok : BOOLEAN, local : SUBSET Known, added : SUBSET Known]

\* The faults stay within their bound.
LEMMA FaultsAreBounded ==
  ASSUME TypeOK, Fault \/ UNCHANGED faults
  PROVE  faults' \in 0..MaxFaults
<1>1. faults \in 0..MaxFaults
  BY DEF TypeOK
<1>2. CASE Fault
  BY <1>1, <1>2, BoundsAssumption DEF Fault
<1>3. CASE UNCHANGED faults
  BY <1>1, <1>3
<1> QED BY <1>2, <1>3

\* A list that Steam answers has no achievement the account has not.
LEMMA AnswerIsTrue ==
  ASSUME IInv, NEW list \in Lists, Answer(list)
  PROVE  list.achieved \subseteq unlocked /\ faults' \in 0..MaxFaults
<1>1. ASSUME NEW view \in Views, NEW some \in SUBSET Groups,
             list = [names |-> Known, achieved |-> view \cap UNION some]
      PROVE  list.achieved \subseteq unlocked
  <2>1. view \subseteq unlocked
    BY DEF Views, LaggingIsBehind
  <2>2. list.achieved = view \cap UNION some
    BY <1>1
  <2> QED BY <2>1, <2>2
<1>2. ASSUME list = EmptyList PROVE list.achieved \subseteq unlocked
  BY <1>2 DEF EmptyList
<1>3. (Fault \/ UNCHANGED faults) /\ TypeOK
  BY DEF Answer
<1>4. faults' \in 0..MaxFaults
  BY <1>3, FaultsAreBounded
<1> QED BY <1>1, <1>2, <1>4 DEF Answer

\* An operation begins as the record the type invariant describes.
LEMMA IdleIsAnOp == Idle \in Ops
<1>1. 0 \in 0..VerifyAttempts
  BY BoundsAssumption
<1> QED BY <1>1 DEF Idle, Ops

\* An operation that ends reports unlocks that Steam has.
LEMMA FinishKeeps ==
  ASSUME IInv, NEW ok \in BOOLEAN, NEW added \in SUBSET unlocked,
         Finish(ok, added), UNCHANGED <<saves, lagging>>,
         unlocked \subseteq unlocked', unlocked' \subseteq Known,
         cache' \in Lists, cache'.achieved \subseteq unlocked',
         faults' \in 0..MaxFaults
  PROVE  IInv'
<1>1. op' \in Ops /\ op'.at = "idle"
  BY BoundsAssumption DEF Finish, Idle, Ops
<1>2. report' \in Reports /\ report'.added = added
  BY DEF Finish, Report, Reports, TypeOK
<1>3. TypeOK'
  BY <1>1, <1>2 DEF TypeOK, Ops, Reports
<1>4. LaggingIsBehind' /\ UnlockedIsTrue'
  BY <1>2 DEF LaggingIsBehind, UnlockedIsTrue
<1>5. StatsMatchChecksum' /\ AttemptsLeft'
  BY <1>1 DEF StatsMatchChecksum, AttemptsLeft
<1> QED BY <1>3, <1>4, <1>5

\* The same for the verdict on a list that was read back.
LEMMA ConcludeKeeps ==
  ASSUME IInv, NEW list \in Lists, Answer(list), Conclude(list),
         UNCHANGED <<saves, unlocked, lagging>>
  PROVE  IInv'
<1>1. list.achieved \subseteq unlocked /\ faults' \in 0..MaxFaults
  BY AnswerIsTrue
<1>2. unlocked \subseteq Known /\ cache \in Lists
      /\ cache.achieved \subseteq unlocked
  BY DEF TypeOK, UnlockedIsTrue
<1>3. CASE cache' = list /\ AllVerified(list) /\ Finish(TRUE, op.names)
  <2>1. op.names \subseteq unlocked
    BY <1>1, <1>3 DEF AllVerified
  <2> QED BY <1>1, <1>2, <1>3, <2>1, FinishKeeps
<1>4. CASE cache' \in {cache, list} /\ Finish(FALSE, {})
  BY <1>1, <1>2, <1>4, FinishKeeps
<1> QED BY <1>3, <1>4 DEF Conclude

\* What a store writes has every unlock of the account, when its checksum is
\* that of the account's stats and Steam has sent the groups it needs.
LEMMA StoreKeepsUnlocks ==
  ASSUME IInv, op.at = "store", GroupsPresent, ChecksumMatches,
         NEW some \in SUBSET Changed
  PROVE  unlocked \subseteq Written(some) /\ Written(some) \subseteq Known
<1>1. ASSUME NEW a \in unlocked, NEW g \in some, a \in g
      PROVE  a \in op.stats
  <2>1. g \in Groups /\ g \cap op.names # {}
    BY DEF Changed
  <2>2. g \in op.present
    BY <2>1 DEF GroupsPresent
  <2>3. op.stats \cap g = unlocked \cap g
    BY <2>2 DEF StatsMatchChecksum, ChecksumMatches
  <2> QED BY <1>1, <2>3
<1>2. op.stats \subseteq Known /\ op.names \subseteq Known
      /\ unlocked \subseteq Known
  BY DEF TypeOK
<1> QED BY <1>1, <1>2 DEF Written

\* A step never clears an unlock.
LEMMA StepKeepsUnlocks == IInv /\ [Next]_vars => unlocked \subseteq unlocked'
<1> SUFFICES ASSUME IInv, [Next]_vars PROVE unlocked \subseteq unlocked'
  OBVIOUS
<1>1. CASE Store
  BY <1>1, StoreKeepsUnlocks DEF Store
<1>2. CASE StoreFails
  BY <1>2, StoreKeepsUnlocks DEF StoreFails
<1>3. CASE \E a \in Known : OtherUnlocks(a)
  BY <1>3 DEF OtherUnlocks
<1>4. CASE \/ UNCHANGED vars \/ Begin \/ CatchUp \/ Collected \/ Compare
           \/ RefreshStats \/ RefuseUnsafeWrite \/ NothingToStore
           \/ StoreOutOfDate \/ Confirm \/ Verify \/ OperationFails
           \/ \E s \in Slots : Collect(s)
           \/ \E s \in Slots : SaveReplaced(s)
           \/ \E s \in Slots : \E a \in Ids : GameUnlocks(s, a)
  BY <1>4 DEF Begin, CatchUp, Collected, Compare, RefreshStats,
     RefuseUnsafeWrite, NothingToStore, StoreOutOfDate, Confirm, Verify,
     OperationFails, Collect, SaveReplaced, GameUnlocks
<1> QED BY <1>1, <1>2, <1>3, <1>4 DEF Next, Operation

\* Every step keeps the invariant.
LEMMA StepKeeps == IInv /\ [Next]_vars => IInv'
<1> SUFFICES ASSUME IInv, [Next]_vars PROVE IInv'
  OBVIOUS
<1> USE BoundsAssumption
<1>0. /\ op \in Ops /\ report \in Reports /\ faults \in 0..MaxFaults
      /\ saves \in [Slots -> SUBSET Ids] /\ cache \in Lists
      /\ unlocked \subseteq Known /\ lagging \subseteq Known
      /\ lagging \subseteq unlocked
      /\ cache.achieved \subseteq unlocked /\ report.added \subseteq unlocked
  BY DEF TypeOK, Ops, Reports, LaggingIsBehind, UnlockedIsTrue
\* What remains to be shown of a step that leaves the lane's operation running.
<1>a. ASSUME op' \in Ops, report' \in Reports, faults' \in 0..MaxFaults,
             saves' \in [Slots -> SUBSET Ids], cache' \in Lists,
             unlocked \subseteq unlocked', unlocked' \subseteq Known,
             lagging' \subseteq unlocked',
             cache'.achieved \subseteq unlocked',
             report'.added \subseteq unlocked',
             StatsMatchChecksum', AttemptsLeft'
      PROVE  IInv'
  BY <1>a DEF TypeOK, Ops, Reports, LaggingIsBehind, UnlockedIsTrue
<1>1. CASE Begin
  <2>1. op' \in Ops /\ op'.at = "collect"
    BY <1>1, IdleIsAnOp DEF Begin, Ops
  <2>2. report' \in Reports /\ report'.added = {}
    BY <1>1 DEF Begin, NoReport, Reports
  <2> QED BY <1>0, <1>a, <1>1, <2>1, <2>2
          DEF Begin, StatsMatchChecksum, AttemptsLeft
<1>2. CASE \E s \in Slots : Collect(s)
  <2>a. PICK s \in Slots : Collect(s)
    BY <1>2
  <2>b. saves[s] \subseteq Ids /\ op.local \cup saves[s] \subseteq Ids
    BY <1>0 DEF Ops
  <2>1. op' \in Ops /\ op'.at = "collect"
    BY <1>0, <2>a, <2>b DEF Collect, ReadSave, Ops
  <2> QED BY <1>0, <1>a, <1>2, <2>1
          DEF Collect, StatsMatchChecksum, AttemptsLeft
<1>3. CASE Collected
  <2>1. CASE op.local = {}
    BY <1>0, <1>3, <2>1, FinishKeeps DEF Collected
  <2>2. CASE op.local # {}
    <3>1. /\ op' = [op EXCEPT !.at = "compare"]
          /\ UNCHANGED <<saves, unlocked, lagging, cache, report, faults>>
      BY <1>3, <2>2 DEF Collected
    <3>2. op' \in Ops /\ op'.at = "compare"
      BY <1>0, <3>1 DEF Ops
    <3> QED BY <1>0, <1>a, <3>1, <3>2 DEF StatsMatchChecksum, AttemptsLeft
  <2> QED BY <2>1, <2>2
<1>4. CASE Compare
  <2>1. PICK list \in Lists :
          /\ Answer(list) /\ cache' = list
          /\ \/ Finish(TRUE, {})
             \/ /\ op' = [op EXCEPT !.at = "refresh",
                                    !.previous = list.achieved,
                                    !.names = Missing(list)]
                /\ UNCHANGED report
    BY <1>4 DEF Compare
  <2>2. list.achieved \subseteq unlocked /\ faults' \in 0..MaxFaults
    BY <2>1, AnswerIsTrue
  <2>3. UNCHANGED <<saves, unlocked, lagging>>
    BY <1>4 DEF Compare
  <2>4. CASE Finish(TRUE, {})
    BY <1>0, <2>1, <2>2, <2>3, <2>4, FinishKeeps
  <2>5. CASE /\ op' = [op EXCEPT !.at = "refresh",
                                 !.previous = list.achieved,
                                 !.names = Missing(list)]
             /\ UNCHANGED report
    <3>1. list.achieved \subseteq Known /\ Missing(list) \subseteq Known
      BY DEF Lists, Missing
    <3>2. op' \in Ops /\ op'.at = "refresh"
      BY <1>0, <2>5, <3>1 DEF Ops
    <3> QED BY <1>0, <1>a, <2>1, <2>2, <2>3, <2>5, <3>2
            DEF StatsMatchChecksum, AttemptsLeft
  <2> QED BY <2>1, <2>4, <2>5
<1>5. CASE RefreshStats
  <2>1. PICK view \in Views, some \in SUBSET Groups :
          /\ op' = [op EXCEPT !.at = "store", !.crc = view,
                       !.stats = view \cap UNION some, !.present = some]
          /\ Fault \/ UNCHANGED faults
    BY <1>5 DEF RefreshStats
  <2>2. view \subseteq Known /\ view \cap UNION some \subseteq Known
    BY <1>0 DEF Views
  <2>3. /\ op' \in Ops /\ op'.at = "store"
        /\ op'.stats = view \cap UNION some
        /\ op'.present = some /\ op'.crc = view
    BY <1>0, <2>1, <2>2 DEF Ops
  <2>4. \A g \in some : (view \cap UNION some) \cap g = view \cap g
    OBVIOUS
  <2>5. StatsMatchChecksum' /\ AttemptsLeft'
    BY <2>3, <2>4 DEF StatsMatchChecksum, AttemptsLeft
  <2>6. faults' \in 0..MaxFaults
    BY <2>1, FaultsAreBounded
  <2> QED BY <1>0, <1>a, <1>5, <2>3, <2>5, <2>6 DEF RefreshStats
<1>6. CASE RefuseUnsafeWrite \/ StoreOutOfDate
  <2>1. /\ Finish(FALSE, {})
        /\ UNCHANGED <<saves, unlocked, lagging, cache, faults>>
    BY <1>6 DEF RefuseUnsafeWrite, StoreOutOfDate
  <2> QED BY <1>0, <2>1, FinishKeeps
<1>7. CASE NothingToStore
  <2>1. op' \in Ops /\ op'.at = "confirm"
    BY <1>0, <1>7 DEF NothingToStore, Ops
  <2> QED BY <1>0, <1>a, <1>7, <2>1
          DEF NothingToStore, StatsMatchChecksum, AttemptsLeft
<1>8. CASE Store
  <2>a. 0 \in 0..VerifyAttempts
    OBVIOUS
  <2>1. op' \in Ops /\ op'.at = "verify" /\ op'.attempt = 0
    BY <1>0, <1>8, <2>a DEF Store, Ops
  <2>2. PICK some \in SUBSET Changed : unlocked' = Written(some)
    BY <1>8 DEF Store
  <2>3. unlocked \subseteq unlocked' /\ unlocked' \subseteq Known
    BY <1>8, <2>2, StoreKeepsUnlocks DEF Store
  <2>4. faults' \in 0..MaxFaults
    BY <1>8, FaultsAreBounded DEF Store
  <2> QED BY <1>0, <1>a, <1>8, <2>1, <2>3, <2>4
          DEF Store, StatsMatchChecksum, AttemptsLeft
<1>9. CASE StoreFails
  <2>1. PICK some \in SUBSET Changed : unlocked' = Written(some)
    BY <1>9 DEF StoreFails
  <2>2. unlocked \subseteq unlocked' /\ unlocked' \subseteq Known
    BY <1>9, <2>1, StoreKeepsUnlocks DEF StoreFails
  <2>3. /\ Finish(FALSE, {}) /\ faults' \in 0..MaxFaults
        /\ UNCHANGED <<saves, lagging, cache>>
    BY <1>9, FaultsAreBounded DEF StoreFails
  <2> QED BY <1>0, <2>2, <2>3, FinishKeeps
<1>10. CASE Confirm
  BY <1>10, ConcludeKeeps DEF Confirm
<1>11. CASE Verify
  <2>1. PICK list \in Lists :
          /\ Answer(list)
          /\ IF AllVerified(list) \/ LastAttempt
             THEN Conclude(list)
             ELSE /\ op' = [op EXCEPT !.attempt = @ + 1]
                  /\ UNCHANGED <<cache, report>>
    BY <1>11 DEF Verify
  <2>2. op.at = "verify" /\ UNCHANGED <<saves, unlocked, lagging>>
    BY <1>11 DEF Verify
  <2>3. CASE Conclude(list)
    BY <2>1, <2>2, <2>3, ConcludeKeeps
  <2>4. CASE /\ ~LastAttempt /\ op' = [op EXCEPT !.attempt = @ + 1]
             /\ UNCHANGED <<cache, report>>
    <3>1. op.attempt + 1 < VerifyAttempts
      BY <1>0, <2>2, <2>4 DEF LastAttempt, AttemptsLeft, Ops
    <3>2. op' \in Ops /\ op'.at = "verify" /\ op'.attempt = op.attempt + 1
      BY <1>0, <2>2, <2>4, <3>1 DEF Ops
    <3>3. faults' \in 0..MaxFaults
      BY <2>1, AnswerIsTrue
    <3> QED BY <1>0, <1>a, <2>2, <2>4, <3>1, <3>2, <3>3
            DEF StatsMatchChecksum, AttemptsLeft
  <2> QED BY <2>1, <2>3, <2>4
<1>12. CASE OperationFails
  <2>1. /\ Finish(FALSE, {}) /\ faults' \in 0..MaxFaults
        /\ UNCHANGED <<saves, unlocked, lagging, cache>>
    BY <1>12, FaultsAreBounded DEF OperationFails
  <2> QED BY <1>0, <2>1, FinishKeeps
<1>13. CASE \/ CatchUp
            \/ \E a \in Known : OtherUnlocks(a)
            \/ \E s \in Slots : SaveReplaced(s)
            \/ \E s \in Slots : \E a \in Ids : GameUnlocks(s, a)
            \/ UNCHANGED vars
  <2>1. /\ unlocked \subseteq unlocked' /\ unlocked' \subseteq Known
        /\ lagging' \subseteq unlocked'
        /\ saves' \in [Slots -> SUBSET Ids]
        /\ UNCHANGED <<cache, op, report>>
    BY <1>0, <1>13 DEF CatchUp, OtherUnlocks, SaveReplaced, GameUnlocks
  <2>2. StatsMatchChecksum' /\ AttemptsLeft'
    BY <2>1 DEF StatsMatchChecksum, AttemptsLeft
  <2>3. faults' \in 0..MaxFaults
    BY <1>13, FaultsAreBounded
       DEF CatchUp, OtherUnlocks, SaveReplaced, GameUnlocks
  <2> QED BY <1>0, <1>a, <2>1, <2>2, <2>3
<1> QED BY <1>1, <1>2, <1>3, <1>4, <1>5, <1>6, <1>7, <1>8, <1>9, <1>10,
           <1>11, <1>12, <1>13 DEF Next, Operation

\* It holds at first.
LEMMA Initially == Init => IInv
<1> SUFFICES ASSUME Init PROVE IInv
  OBVIOUS
<1> USE BoundsAssumption DEF Init
<1>1. op \in Ops /\ op.at = "idle"
  BY DEF Ops, Idle
<1>2. report \in Reports /\ report.added = {}
  BY DEF NoReport, Reports
<1>3. cache \in Lists /\ cache.achieved = {}
  BY DEF EmptyList, Lists
<1> QED BY <1>1, <1>2, <1>3 DEF TypeOK, Ops, Reports, LaggingIsBehind,
           UnlockedIsTrue, StatsMatchChecksum, AttemptsLeft

\* The invariant the theorems rest on.
THEOREM InvariantHolds == Spec => []IInv
BY Initially, StepKeeps, PTL DEF Spec

\* The types hold; the read-back never passes its number of attempts.
THEOREM TypeCorrect == Spec => []TypeOK
BY InvariantHolds, PTL

\* An achievement that is unlocked on Steam is never cleared, whatever saves,
\* other clients and failures do between a read of the stats and the store.
THEOREM UnlocksStay == Spec => NeverCleared
<1>1. IInv /\ [Next]_vars => [unlocked \subseteq unlocked']_vars
  BY StepKeepsUnlocks
<1> QED BY <1>1, InvariantHolds, PTL DEF Spec, NeverCleared

\* What the panel lists as achieved, and what an operation reports as added, is
\* unlocked on Steam.
THEOREM UnlocksAreTrue == Spec => []UnlockedIsTrue
BY InvariantHolds, PTL
===============================================================================
