---------------------------- MODULE SlotSyncProofs ----------------------------
(***************************************************************************)
(* What BASE means and what an operation may overwrite, for any set of     *)
(* slots, any number of versions, failures and launches.                   *)
(*                                                                         *)
(* First whoever writes whenever: whatever an operation holds in memory    *)
(* has been on the side it was read from, so that the three places that    *)
(* set a BASE (Learn, VerifyPull, Confirm) set a version both sides have   *)
(* had; and what a manual sync sends differs from what Steam has.          *)
(*                                                                         *)
(* Then what depends on who writes during an operation: the compared save  *)
(* is the live one if the game does not, the listed copy is Steam's if no  *)
(* PC does, and if neither does BASE is the last version both sides had.   *)
(***************************************************************************)
EXTENDS SlotSync, TLAPS

\* Each version an operation or the snapshot holds for a slot has been the
\* content of the side it was read from, and Steam's copies do not vanish
HeldWasThere ==
  /\ \A s \in Slots :
       memBase[s] # Absent => memBase[s] \in onPhone[s] \cap onSteam[s]
  /\ \A s \in Slots : phone[s] \in onPhone[s]
  /\ \A s \in Slots : seen[s] # Absent => seen[s] \in onPhone[s]
  /\ \A s \in Slots : snap[s] # Absent => snap[s] \in onPhone[s]
  /\ \A s \in Slots : steam[s] # Absent => Canonical(steam[s]) \in onSteam[s]
  /\ \A s \in Slots : listed[s] # Absent => steam[s] # Absent
  /\ \A s \in Slots : late[s] \subseteq onPhone[s]
  /\ \A s \in Slots : late[s] # {} => stopped

\* The bytes in hand belong to the slot the operation is at
InHandWasThere ==
  /\ bytes # Absent => cur \in Slots /\ Canonical(bytes) \in onSteam[cur]
  /\ kept # Absent => cur \in Slots /\ kept \in onPhone[cur]

\* What each step finds prepared by the steps before it
Prepared ==
  /\ kind = "none" <=> pc = "idle"
  /\ pc \in {"idle", "list", "slots", "force_list"}
       => bytes = Absent /\ kept = Absent
  /\ pc \notin {"idle", "list", "slots"} => cur \in Slots
  /\ pc \in {"decide", "pull", "replace", "verify"} => bytes # Absent
  /\ pc \in {"replace", "verify", "assert", "commit", "confirm"}
       => kept # Absent
  /\ pc = "force_download" => listed[cur] # Absent
  /\ pc \in {"push", "assert"} /\ listed[cur] # Absent => bytes # Absent
  /\ pc \in {"push", "assert", "commit"} => (kind = "manual" \/ UsesLocal(kind))

\* No version is in use before the game or a PC has created it, so a Steam
\* copy that still is the listed one is the one that was downloaded, unless a
\* late commit brought it back
NothingFromTheFuture ==
  /\ \A s \in Slots : \A v \in onPhone[s] \cup onSteam[s] : v <= newest
  /\ \A s \in Slots : listed[s] <= newest
  /\ pc \in {"decide", "push", "assert"} /\ listed[cur] # Absent
       => (steam[cur] = listed[cur] =>
             \/ bytes = steam[cur]
             \/ "steam" \in Racing /\ Canonical(steam[cur]) \in onPhone[cur])

\* What is about to be overwritten is in the backups
BackedUpFirst ==
  /\ pc \in {"replace", "verify"} => kept \in backups[cur]
  /\ pc = "commit" /\ "steam" \notin Racing
       => steam[cur] \in backups[cur] \cup {Absent}
            \/ steam[cur] \notin {listed[cur], bytes}

IInv ==
  /\ TypeOK
  /\ BaseSeenOnBothSides
  /\ HeldWasThere
  /\ InHandWasThere
  /\ Prepared
  /\ NothingFromTheFuture
  /\ BackedUpFirst

\* A stored form decodes to a version.
LEMMA CanonicalType ==
  /\ \A f \in Forms : Canonical(f) \in Versions
  /\ \A v \in Versions : Canonical(v) = v
  /\ \A v \in Versions : v \in Int /\ v >= 1 /\ v # Absent
  /\ \A f \in Forms : f \in Int /\ f <= Canonical(f)
  /\ Versions \subseteq Forms /\ Absent \notin Forms
  BY BoundsAssumption DEF Forms, Versions, Canonical, Absent

\* The invariant holds after a fresh installation.
LEMMA InitIInv == Init => IInv
  <1> SUFFICES ASSUME Init PROVE IInv
    OBVIOUS
  <1> USE DEF Init
  <1>1. {1, 2, -1, -2} \subseteq Forms /\ 1 \in Versions /\ 2 \in Versions
    BY BoundsAssumption DEF Forms, Versions
  <1>2. TypeOK
    <2>1. steam \in [Slots -> Forms \cup {Absent}]
      BY <1>1 DEF Absent
    <2>2. onSteam \in [Slots -> SUBSET Versions]
      <3>1. \A f \in Forms \cup {Absent} :
              {Canonical(f)} \ {Absent} \subseteq Versions
        BY CanonicalType DEF Canonical, Absent
      <3> QED BY <2>1, <3>1
    <2>3. snap \in [Slots -> Versions \cup {Absent}]
      BY <1>1
    <2> QED BY <1>1, <2>1, <2>2, <2>3 DEF TypeOK, NoSlots, Steps, Absent
  <1>3. BaseSeenOnBothSides /\ HeldWasThere
    BY <1>1, CanonicalType
       DEF BaseSeenOnBothSides, HeldWasThere, NoSlots, Absent
  <1>4. InHandWasThere /\ Prepared /\ BackedUpFirst
    BY DEF InHandWasThere, Prepared, BackedUpFirst
  <1>5. NothingFromTheFuture
    BY DEF NothingFromTheFuture, NoSlots, Canonical, Absent
  <1> QED BY <1>2, <1>3, <1>4, <1>5 DEF IInv

\* Whoever writes, whatever fails and whenever the app is killed, the invariant
\* holds.
LEMMA EnvironmentKeepsIInv ==
  ASSUME IInv,
         \/ \E s \in Slots : GameWrites(s) \/ PcWrites(s) \/ LateCommit(s)
         \/ Relaunch \/ CloseBarrier \/ Fail \/ WriteFails
         \/ \E k \in Syncs : BeginSync(k)
  PROVE  IInv'
  <1> USE CanonicalType DEF IInv, TypeOK, BaseSeenOnBothSides, HeldWasThere,
       InHandWasThere, Prepared, NothingFromTheFuture, BackedUpFirst,
       world, saves, disk, stored, listing,
       mem, work, ghost, Unqueue, Answers, Steps, Syncs, Forces, Absent
  <1>1. ASSUME NEW s \in Slots, GameWrites(s) PROVE IInv'
    <2> USE <1>1 DEF GameWrites
    <2>1. newest + 1 \in Versions /\ newest <= newest + 1
      BY BoundsAssumption DEF Versions
    <2>2. TypeOK'
      BY <2>1
    <2>3. \A t \in Slots : \A v \in onPhone'[t] \cup onSteam'[t] : v <= newest'
      BY <2>1
    <2>4. \A t \in Slots : listed'[t] <= newest'
      BY <2>1
    <2>5. NothingFromTheFuture'
      BY <2>3, <2>4
    <2> QED BY <2>2, <2>5
  <1>2. ASSUME NEW s \in Slots, PcWrites(s) PROVE IInv'
    <2> USE <1>2 DEF PcWrites
    <2>1. /\ newest + 1 \in Versions /\ newest < newest + 1
          /\ Canonical(newest + 1) = newest + 1
      BY BoundsAssumption DEF Versions
    <2>2. TypeOK'
      BY <2>1
    <2>3. HeldWasThere'
      BY <2>1
    <2>4. \A t \in Slots : \A v \in onPhone'[t] \cup onSteam'[t] : v <= newest'
      BY <2>1
    <2>5. \A t \in Slots : listed'[t] < newest' /\ listed'[t] <= newest'
      BY <2>1
    <2>6. steam'[s] = newest' /\ \A t \in Slots \ {s} : steam'[t] = steam[t]
      OBVIOUS
    <2>7. pc \in {"decide", "push", "assert"} /\ listed[cur] # Absent
            => (steam'[cur] = listed[cur] =>
                  \/ bytes = steam'[cur]
                  \/ /\ "steam" \in Racing
                     /\ Canonical(steam'[cur]) \in onPhone[cur])
      <3>1. CASE cur = s
        BY <3>1, <2>5, <2>6
      <3>2. CASE cur # s
        BY <3>2, <2>6
      <3> QED BY <3>1, <3>2
    <2>8. NothingFromTheFuture'
      BY <2>4, <2>5, <2>7
    <2>9. BackedUpFirst'
      <3>1. CASE cur = s
        BY <3>1, <2>5, <2>6
      <3>2. CASE cur # s
        BY <3>2, <2>6
      <3> QED BY <3>1, <3>2
    <2> QED BY <2>2, <2>3, <2>8, <2>9
  <1>3. ASSUME Relaunch PROVE IInv'
    <2> USE <1>3 DEF Relaunch, EndOperation, NoSlots
    <2>1. \A s \in Slots : /\ late'[s] \subseteq onPhone[s]
                           /\ late'[s] # {} => stopped'
      <3>1. CASE late' = late
        BY <3>1
      <3>2. CASE pc = "commit" /\ late' = [late EXCEPT ![cur] = @ \cup {kept}]
        <4>1. cur \in Slots /\ kept \in onPhone[cur] /\ stopped'
          BY <3>2
        <4> QED BY <3>2, <4>1
      <3> QED BY <3>1, <3>2 DEF GivenUp
    <2>2. late' \in [Slots -> SUBSET Versions]
      BY DEF GivenUp
    <2>3. TypeOK'
      BY <2>2
    <2>4. HeldWasThere'
      BY <2>1
    <2> QED BY <2>3, <2>4
  <1>4. ASSUME CloseBarrier PROVE IInv'
    <2>1. allowed' \in BOOLEAN
      BY <1>4 DEF CloseBarrier
    <2>2. TypeOK'
      BY <1>4, <2>1 DEF CloseBarrier
    <2> QED BY <1>4, <2>2 DEF CloseBarrier
  <1>5. ASSUME Fail PROVE IInv'
    BY <1>5 DEF Fail, GivenUp, StopOperation, EndOperation, NoSlots
  <1>6. ASSUME WriteFails PROVE IInv'
    BY <1>6 DEF WriteFails, RollBack, StopOperation, EndOperation, NoSlots,
                BackUp
  <1>7. ASSUME NEW k \in Syncs, BeginSync(k) PROVE IInv'
    <2>1. kind' \in Syncs /\ pc' = "list"
      BY <1>7 DEF BeginSync
    <2>2. TypeOK'
      BY <1>7, <2>1 DEF BeginSync
    <2>3. /\ UNCHANGED <<world, disk, snap, work, ghost>> /\ pc = "idle"
          /\ bytes = Absent /\ kept = Absent
      BY <1>7 DEF BeginSync
    <2>4. Prepared'
      BY <2>1, <2>3
    <2>5. BaseSeenOnBothSides' /\ HeldWasThere' /\ InHandWasThere'
      BY <2>3
    <2>6. NothingFromTheFuture'
      <3>1. UNCHANGED <<onPhone, onSteam, newest, listed>>
        BY <2>3
      <3>2. pc' \notin {"decide", "push", "assert"}
        BY <2>1
      <3>3. \A s \in Slots :
              /\ \A v \in onPhone'[s] \cup onSteam'[s] : v <= newest'
              /\ listed'[s] <= newest'
        BY <3>1
      <3> QED BY ONLY <3>2, <3>3 DEF NothingFromTheFuture
    <2>7. BackedUpFirst'
      BY ONLY BackedUpFirst, <2>1, <2>3 DEF BackedUpFirst
    <2> QED BY ONLY <2>2, <2>4, <2>5, <2>6, <2>7 DEF IInv
  <1>8. ASSUME NEW s \in Slots, LateCommit(s) PROVE IInv'
    <2> USE <1>8 DEF LateCommit
    <2>1. PICK v \in late[s] : /\ late' = [late EXCEPT ![s] = @ \ {v}]
                               /\ steam' = [steam EXCEPT ![s] = v]
                               /\ onSteam' = [onSteam EXCEPT ![s] = @ \cup {v}]
      OBVIOUS
    <2>2. v \in Versions /\ v \in onPhone[s] /\ Canonical(v) = v /\ v <= newest
      OBVIOUS
    <2>3. TypeOK'
      BY <2>1, <2>2
    <2>4. HeldWasThere'
      BY <2>1, <2>2
    <2>5. NothingFromTheFuture'
      BY <2>1, <2>2
    <2>6. BackedUpFirst'
      BY <2>1
    <2> QED BY <2>1, <2>3, <2>4, <2>5, <2>6
  <1> QED BY ONLY <1>1, <1>2, <1>3, <1>4, <1>5, <1>6, <1>7, <1>8,
            \/ \E s \in Slots : GameWrites(s) \/ PcWrites(s) \/ LateCommit(s)
            \/ Relaunch \/ CloseBarrier \/ Fail \/ WriteFails
            \/ \E k \in Syncs : BeginSync(k)

\* Every step of run_sync preserves the invariant.
LEMMA SyncKeepsIInv == IInv /\ SyncStep => IInv'
  <1> SUFFICES ASSUME IInv, SyncStep PROVE IInv'
    OBVIOUS
  <1> USE CanonicalType DEF IInv, TypeOK, BaseSeenOnBothSides, HeldWasThere,
       InHandWasThere, Prepared, NothingFromTheFuture, BackedUpFirst,
       world, saves, disk, stored, listing,
       mem, work, ghost, Unqueue, Answers, Steps, Syncs, Forces, Absent
  <1>1. ASSUME ListSaves PROVE IInv'
    BY <1>1 DEF ListSaves, NoSlots, Candidates
  <1>2. ASSUME NothingToCompare PROVE IInv'
    BY <1>2 DEF NothingToCompare, EndOperation, NoSlots, Candidates
  <1>3. ASSUME NEW s \in Slots, AskMissing(s) PROVE IInv'
    BY <1>3 DEF AskMissing, BackUp, IsNext
  <1>4. ASSUME NEW s \in Slots, Download(s) PROVE IInv'
    BY <1>4 DEF Download, IsNext
  <1>5. ASSUME HoldQueuedPull PROVE IInv'
    BY <1>5 DEF HoldQueuedPull, SlotDone, PinHolds
  <1>6. ASSUME ApplyQueuedPull PROVE IInv'
    BY <1>6 DEF ApplyQueuedPull, PinHolds
  <1>7. ASSUME LeaveAlone PROVE IInv'
    BY <1>7 DEF LeaveAlone, SlotDone, Verdict, PinHolds, Decide, Publishes
  <1>8. ASSUME Learn PROVE IInv'
    <2> USE <1>8 DEF Learn, Verdict, SlotDone
    <2>1. seen[cur] = Canonical(bytes)
      BY DEF Decide
    <2> QED BY <2>1
  <1>9. ASSUME Publish PROVE IInv'
    BY <1>9 DEF Publish, Verdict, PinHolds, Decide, Publishes, Verdicts
  <1>10. ASSUME Adopt PROVE IInv'
    BY <1>10 DEF Adopt, Verdict, PinHolds, Decide
  <1>11. ASSUME AskRestart PROVE IInv'
    BY <1>11 DEF AskRestart, SlotDone, Verdict, PinHolds, Decide
  <1>12. ASSUME AskUser PROVE IInv'
    BY <1>12 DEF AskUser, SlotDone, BackUp, Verdict, PinHolds, Decide
  <1>13. ASSUME SaveState PROVE IInv'
    BY <1>13 DEF SaveState, EndOperation, NoSlots
  <1>14. ASSUME DownloadMismatch PROVE IInv'
    BY <1>14 DEF DownloadMismatch, StopOperation, EndOperation, NoSlots
  <1> QED BY <1>1, <1>2, <1>3, <1>4, <1>5, <1>6, <1>7, <1>8, <1>9,
            <1>10, <1>11, <1>12, <1>13, <1>14
        DEF SyncStep

\* Every step of pull_one preserves the invariant.
LEMMA PullKeepsIInv == IInv /\ PullStep => IInv'
  <1> SUFFICES ASSUME IInv, PullStep PROVE IInv'
    OBVIOUS
  <1> USE CanonicalType DEF IInv, TypeOK, BaseSeenOnBothSides, HeldWasThere,
       InHandWasThere, Prepared, NothingFromTheFuture, BackedUpFirst,
       world, saves, disk, stored, listing,
       mem, work, ghost, Unqueue, Answers, Steps, Syncs, Forces, Absent
  <1>1. ASSUME BackUpForPull PROVE IInv'
    BY <1>1 DEF BackUpForPull, BackUp
  <1>2. ASSUME PullRefused PROVE IInv'
    BY <1>2 DEF PullRefused, StopOperation, EndOperation, NoSlots
  <1>3. ASSUME Replace PROVE IInv'
    BY <1>3 DEF Replace
  <1>4. ASSUME VerifyPull PROVE IInv'
    BY <1>4 DEF VerifyPull, SlotDone
  <1>5. ASSUME VerifyFails PROVE IInv'
    BY <1>5 DEF VerifyFails, RollBack, StopOperation, EndOperation, NoSlots,
                BackUp
  <1> QED BY <1>1, <1>2, <1>3, <1>4, <1>5
        DEF PullStep

\* Every step of push_one and push_new preserves the invariant.
LEMMA PushKeepsIInv == IInv /\ PushStep => IInv'
  <1> SUFFICES ASSUME IInv, PushStep PROVE IInv'
    OBVIOUS
  <1> USE CanonicalType DEF IInv, TypeOK, BaseSeenOnBothSides, HeldWasThere,
       InHandWasThere, Prepared, NothingFromTheFuture, BackedUpFirst,
       world, saves, disk, stored, listing,
       mem, work, ghost, Unqueue, Answers, Steps, Syncs, Forces, Absent
  <1>1. ASSUME PrepareUpload PROVE IInv'
    BY <1>1 DEF PrepareUpload
  <1>2. ASSUME AssertUnchanged PROVE IInv'
    BY <1>2 DEF AssertUnchanged, StillThere, BackUp
  <1>3. ASSUME SteamMoved PROVE IInv'
    BY <1>3 DEF SteamMoved, StopOperation, EndOperation, NoSlots
  <1>4. ASSUME Commit PROVE IInv'
    BY <1>4 DEF Commit
  <1>5. ASSUME Confirm PROVE IInv'
    BY <1>5 DEF Confirm, SlotDone
  <1>6. ASSUME NotConfirmed PROVE IInv'
    BY <1>6 DEF NotConfirmed, StopOperation, EndOperation, NoSlots
  <1> QED BY <1>1, <1>2, <1>3, <1>4, <1>5, <1>6
        DEF PushStep

\* Every step of force_slot preserves the invariant.
LEMMA ForceKeepsIInv ==
  ASSUME IInv,
         \/ \E k \in Forces, s \in Slots : BeginForce(k, s)
         \/ ForceStep
  PROVE  IInv'
  <1> USE CanonicalType DEF IInv, TypeOK, BaseSeenOnBothSides, HeldWasThere,
       InHandWasThere, Prepared, NothingFromTheFuture, BackedUpFirst,
       world, saves, disk, stored, listing,
       mem, work, ghost, Unqueue, Answers, Steps, Syncs, Forces, Absent
  <1>1. ASSUME NEW k \in Forces, NEW s \in Slots, BeginForce(k, s) PROVE IInv'
    BY <1>1 DEF BeginForce
  <1>2. ASSUME ForceList PROVE IInv'
    BY <1>2 DEF ForceList, UsesLocal
  <1>3. ASSUME NothingToPull PROVE IInv'
    BY <1>3 DEF NothingToPull, EndOperation, NoSlots, UsesLocal
  <1>4. ASSUME ForceDownload PROVE IInv'
    BY <1>4 DEF ForceDownload, BackUp, UsesLocal
  <1>5. ASSUME ForceSave PROVE IInv'
    BY <1>5 DEF ForceSave, EndOperation, NoSlots, UsesLocal
  <1> QED BY <1>1, <1>2, <1>3, <1>4, <1>5
        DEF ForceStep

\* Every step of the specification preserves the invariant.
LEMMA NextKeepsIInv == IInv /\ [Next]_vars => IInv'
  <1> SUFFICES ASSUME IInv, [Next]_vars PROVE IInv'
    OBVIOUS
  <1>1. CASE \/ \E s \in Slots : GameWrites(s) \/ PcWrites(s) \/ LateCommit(s)
             \/ Relaunch \/ CloseBarrier \/ Fail \/ WriteFails
             \/ \E k \in Syncs : BeginSync(k)
    BY <1>1, EnvironmentKeepsIInv
  <1>2. CASE SyncStep
    BY <1>2, SyncKeepsIInv
  <1>3. CASE PullStep
    BY <1>3, PullKeepsIInv
  <1>4. CASE PushStep
    BY <1>4, PushKeepsIInv
  <1>5. CASE ForceStep \/ \E k \in Forces, s \in Slots : BeginForce(k, s)
    BY <1>5, ForceKeepsIInv
  <1>6. CASE UNCHANGED vars
    BY <1>6 DEF IInv, TypeOK, BaseSeenOnBothSides, HeldWasThere,
                InHandWasThere, Prepared, NothingFromTheFuture, BackedUpFirst,
                vars, world, saves, disk, stored, listing, mem, work, ghost
  <1> QED BY <1>1, <1>2, <1>3, <1>4, <1>5, <1>6 DEF Next, OperationStep

\* The strengthened invariant holds in every reachable state.
THEOREM Invariant == Spec => []IInv
  <1>1. Init => IInv
    BY InitIInv
  <1>2. IInv /\ [Next]_vars => IInv'
    BY NextKeepsIInv
  <1> QED BY <1>1, <1>2, PTL DEF Spec

\* Every variable of SlotSync keeps its type.
THEOREM TypeCorrect == Spec => []TypeOK
  <1>1. IInv => TypeOK
    BY DEF IInv
  <1> QED BY <1>1, Invariant, PTL

\* A stored BASE has been on both sides of its slot.
THEOREM BaseIsCommon == Spec => []BaseSeenOnBothSides
  <1>1. IInv => BaseSeenOnBothSides
    BY DEF IInv
  <1> QED BY <1>1, Invariant, PTL

\* Only Commit writes to Steam for the engine.
LEMMA OnlyCommitWritesSteam ==
  ASSUME IInv, [Next]_vars, NEW s \in Slots, EngineWritesSteam(s)
  PROVE  Commit
  <1> USE DEF EngineWritesSteam, world, saves
  <1>1. ASSUME NEW t \in Slots, PcWrites(t) PROVE FALSE
    BY <1>1 DEF PcWrites, IInv, TypeOK, Versions
  <1>2. ASSUME NEW t \in Slots, GameWrites(t) PROVE FALSE
    BY <1>2 DEF GameWrites
  <1>3. CASE Relaunch \/ CloseBarrier \/ Fail \/ WriteFails
             \/ \E k \in Syncs : BeginSync(k)
    BY <1>3 DEF Relaunch, CloseBarrier, Fail, WriteFails, RollBack, BeginSync
  <1>4. CASE SyncStep
    BY <1>4 DEF SyncStep, ListSaves, NothingToCompare, AskMissing, Download,
                DownloadMismatch, HoldQueuedPull, ApplyQueuedPull, LeaveAlone,
                Learn, Publish, Adopt, AskRestart, AskUser, SaveState
  <1>5. CASE PullStep
    BY <1>5 DEF PullStep, BackUpForPull, PullRefused, Replace, VerifyPull,
                VerifyFails, RollBack
  <1>6. CASE PushStep
    BY <1>6 DEF PushStep, PrepareUpload, AssertUnchanged, SteamMoved, Confirm,
                NotConfirmed
  <1>7. CASE ForceStep \/ \E k \in Forces, t \in Slots : BeginForce(k, t)
    BY <1>7 DEF ForceStep, BeginForce, ForceList, NothingToPull, ForceDownload,
                ForceSave
  <1>8. CASE UNCHANGED vars
    BY <1>8 DEF vars
  <1>9. ASSUME NEW t \in Slots, LateCommit(t) PROVE FALSE
    BY <1>9 DEF LateCommit, IInv, TypeOK
  <1> QED BY <1>1, <1>2, <1>3, <1>4, <1>5, <1>6, <1>7, <1>8, <1>9
          DEF Next, OperationStep

\* No automatic synchronisation ever changes a Steam copy.
THEOREM UploadsAreAsked == Spec => AutomaticNeverUploads
  <1>1. IInv /\ [Next]_vars =>
          [\A s \in Slots :
             EngineWritesSteam(s) => (kind = "manual" \/ UsesLocal(kind))]_vars
    BY OnlyCommitWritesSteam DEF Commit, IInv, Prepared
  <1> QED BY <1>1, Invariant, PTL DEF Spec, AutomaticNeverUploads

\* Only Replace and the rollback write the live save for the engine.
LEMMA OnlyPullsWritePhone ==
  ASSUME IInv, [Next]_vars, NEW s \in Slots, EngineWritesPhone(s)
  PROVE  Replace \/ (pc \in {"replace", "verify"} /\ RollBack)
  <1> USE DEF EngineWritesPhone, world, saves
  <1>1. ASSUME NEW t \in Slots, GameWrites(t) PROVE FALSE
    BY <1>1 DEF GameWrites, IInv, TypeOK, Versions
  <1>2. ASSUME NEW t \in Slots, PcWrites(t) PROVE FALSE
    BY <1>2 DEF PcWrites
  <1>3. CASE Relaunch \/ CloseBarrier \/ Fail \/ WriteFails
             \/ \E k \in Syncs : BeginSync(k)
    BY <1>3 DEF Relaunch, CloseBarrier, Fail, WriteFails, BeginSync
  <1>4. CASE SyncStep
    BY <1>4 DEF SyncStep, ListSaves, NothingToCompare, AskMissing, Download,
                DownloadMismatch, HoldQueuedPull, ApplyQueuedPull, LeaveAlone,
                Learn, Publish, Adopt, AskRestart, AskUser, SaveState
  <1>5. CASE PullStep
    BY <1>5 DEF PullStep, BackUpForPull, PullRefused, VerifyPull, VerifyFails
  <1>6. CASE PushStep
    BY <1>6 DEF PushStep, PrepareUpload, AssertUnchanged, SteamMoved, Commit,
                Confirm, NotConfirmed
  <1>7. CASE ForceStep \/ \E k \in Forces, t \in Slots : BeginForce(k, t)
    BY <1>7 DEF ForceStep, BeginForce, ForceList, NothingToPull, ForceDownload,
                ForceSave
  <1>8. CASE UNCHANGED vars
    BY <1>8 DEF vars
  <1>9. ASSUME NEW t \in Slots, LateCommit(t) PROVE FALSE
    BY <1>9 DEF LateCommit
  <1> QED BY <1>1, <1>2, <1>3, <1>4, <1>5, <1>6, <1>7, <1>8, <1>9
          DEF Next, OperationStep

\* What the engine overwrites, on either side, is in the backups, as long as
\* Steam handles no late commit during an operation.
THEOREM NothingLost ==
  ASSUME "steam" \notin Racing
  PROVE  Spec => ReplacedIsBackedUp
  <1>1. ASSUME IInv, [Next]_vars, NEW s \in Slots, EngineWritesPhone(s)
        PROVE  \/ phone[s] \in backups'[s]
               \/ pc = "replace" /\ phone[s] # kept
    <2>1. CASE Replace
      BY <1>1, <2>1 DEF Replace, EngineWritesPhone, disk, IInv, TypeOK,
                        Prepared, BackedUpFirst
    <2>2. CASE pc \in {"replace", "verify"} /\ RollBack
      BY <1>1, <2>2 DEF RollBack, BackUp, EngineWritesPhone, IInv, TypeOK,
                        Prepared
    <2> QED BY <1>1, <2>1, <2>2, OnlyPullsWritePhone
  <1>2. ASSUME IInv, [Next]_vars, NEW s \in Slots, EngineWritesSteam(s),
               steam[s] # Absent
        PROVE  steam[s] \in backups[s] \/ steam[s] \notin {listed[s], bytes}
    BY <1>2, OnlyCommitWritesSteam
       DEF Commit, EngineWritesSteam, IInv, TypeOK, Prepared, BackedUpFirst
  <1>3. IInv /\ [Next]_vars =>
          [\A s \in Slots :
             /\ EngineWritesPhone(s) =>
                  \/ phone[s] \in backups'[s]
                  \/ pc = "replace" /\ phone[s] # kept
             /\ (EngineWritesSteam(s) /\ steam[s] # Absent) =>
                  steam[s] \in backups[s] \/ steam[s] \notin {listed[s], bytes}]_vars
    BY <1>1, <1>2
  <1> QED BY <1>3, Invariant, PTL DEF Spec, ReplacedIsBackedUp

-------------------------------------------------------------------------------
(* The place of an operation among its slots                               *)

\* A synchronisation is at the next of the slots it has to visit, which Steam
\* lists
CurIsNext ==
  /\ kind \in Syncs /\ pc \notin {"idle", "list", "slots"} => cur \in todo
  /\ pc \in {"list", "slots", "decide", "pull", "replace", "verify"}
       => kind \in Syncs
  /\ pc = "decide" => listed[cur] # Absent

\* The steps that end an operation.
Ends ==
  \/ Relaunch \/ Fail \/ WriteFails \/ NothingToCompare \/ SaveState
  \/ DownloadMismatch
  \/ PullRefused \/ VerifyFails \/ SteamMoved \/ NotConfirmed \/ NothingToPull

\* An operation that ends leaves nothing in memory.
LEMMA EndsWithNothing ==
  ASSUME Ends
  PROVE  kind' = "none" /\ pc' = "idle" /\ todo' = {}
  BY DEF Ends, Relaunch, Fail, WriteFails, NothingToCompare, SaveState,
         DownloadMismatch,
         PullRefused, VerifyFails, SteamMoved, NotConfirmed, NothingToPull,
         RollBack, StopOperation, EndOperation

\* Every step is one of these, so that a proof by cases can be short.
LEMMA StepCases ==
  ASSUME [Next]_vars
  PROVE  \/ \E s \in Slots : \/ GameWrites(s) \/ PcWrites(s) \/ LateCommit(s)
                             \/ AskMissing(s) \/ Download(s)
         \/ \E k \in Syncs : BeginSync(k)
         \/ \E k \in Forces, s \in Slots : BeginForce(k, s)
         \/ Ends \/ CloseBarrier \/ ListSaves
         \/ HoldQueuedPull \/ ApplyQueuedPull \/ LeaveAlone \/ Learn \/ Publish
         \/ Adopt \/ AskRestart \/ AskUser
         \/ BackUpForPull \/ Replace \/ VerifyPull
         \/ PrepareUpload \/ AssertUnchanged \/ Commit \/ Confirm
         \/ ForceList \/ ForceDownload \/ ForceSave
         \/ UNCHANGED vars
  BY DEF Next, OperationStep, SyncStep, PullStep, PushStep, ForceStep, Ends

\* Every step keeps it.
LEMMA NextKeepsCurIsNext ==
  ASSUME IInv, CurIsNext, [Next]_vars PROVE CurIsNext'
  <1> USE DEF IInv, TypeOK, Prepared, CurIsNext, world, saves, disk, stored,
       listing, mem, work, ghost, Unqueue, Syncs, Forces, Absent, UsesLocal
  <1>1. ASSUME NEW s \in Slots, GameWrites(s) \/ PcWrites(s) \/ LateCommit(s)
        PROVE CurIsNext'
    BY <1>1 DEF GameWrites, PcWrites, LateCommit
  <1>2. CASE Ends
    BY <1>2, EndsWithNothing
  <1>3. CASE CloseBarrier \/ (\E k \in Syncs : BeginSync(k))
             \/ (\E k \in Forces, s \in Slots : BeginForce(k, s))
    BY <1>3 DEF CloseBarrier, BeginSync, BeginForce
  <1>4. CASE ListSaves
    BY <1>4 DEF ListSaves
  <1>5. ASSUME NEW s \in Slots, AskMissing(s) \/ Download(s) PROVE CurIsNext'
    BY <1>5 DEF AskMissing, Download, IsNext
  <1>6. CASE ApplyQueuedPull \/ HoldQueuedPull
    BY <1>6 DEF ApplyQueuedPull, HoldQueuedPull, SlotDone
  <1>7. CASE LeaveAlone \/ Learn \/ AskRestart \/ AskUser
    BY <1>7 DEF LeaveAlone, Learn, AskRestart, AskUser, Verdict, SlotDone
  <1>8. CASE Publish \/ Adopt
    BY <1>8 DEF Publish, Adopt, Verdict
  <1>9. CASE BackUpForPull \/ Replace
    BY <1>9 DEF BackUpForPull, Replace
  <1>10. CASE VerifyPull
    BY <1>10 DEF VerifyPull, SlotDone
  <1>11. CASE PrepareUpload \/ AssertUnchanged \/ Commit
    BY <1>11 DEF PrepareUpload, AssertUnchanged, Commit
  <1>12. CASE Confirm
    BY <1>12 DEF Confirm, SlotDone
  <1>13. CASE ForceList \/ ForceDownload \/ ForceSave
    BY <1>13 DEF ForceList, ForceDownload, ForceSave, EndOperation
  <1>14. CASE UNCHANGED vars
    BY <1>14 DEF vars
  <1> QED BY ONLY StepCases, [Next]_vars, <1>1, <1>2, <1>3, <1>4, <1>5, <1>6,
        <1>7, <1>8, <1>9, <1>10, <1>11, <1>12, <1>13, <1>14

\* It holds in every reachable state.
LEMMA PlaceInvariant == Spec => []CurIsNext
  <1>1. Init => CurIsNext
    BY DEF Init, CurIsNext, Syncs
  <1>2. IInv /\ CurIsNext /\ [Next]_vars => CurIsNext'
    BY NextKeepsCurIsNext
  <1> QED BY <1>1, <1>2, Invariant, PTL DEF Spec
-------------------------------------------------------------------------------
(* No upload is redundant, unless Steam handles a late commit meanwhile    *)

\* Until its turn comes, what a manual sync has read of a slot is still there,
\* or has made way for a version the other side never had
ManualComparesNow ==
  kind = "manual" /\ pc # "list" =>
    \A s \in todo :
      \/ s = cur /\ pc \in {"verify", "confirm"}
      \/ /\ phone[s] = seen[s] \/ phone[s] \notin onSteam[s]
         /\ steam[s] = listed[s] \/ Canonical(steam[s]) \notin onPhone[s]

\* What it is about to send differs from what Steam has
WorthPublishing ==
  kind = "manual" =>
    /\ pc = "push" => /\ listed[cur] # Absent
                      /\ bytes < 0 \/ Canonical(bytes) # seen[cur]
    /\ pc \in {"assert", "commit"} => steam[cur] # kept

ManualInv == ManualComparesNow /\ WorthPublishing

\* What a manual sync is about to send still differs from the Steam copy.
LEMMA NextKeepsManualInv ==
  ASSUME "steam" \notin Racing,
         IInv, IInv', CurIsNext, ManualInv, [Next]_vars
  PROVE  ManualInv'
  <1> USE CanonicalType DEF IInv, TypeOK, HeldWasThere, InHandWasThere,
       Prepared, NothingFromTheFuture, ManualInv, CurIsNext, ManualComparesNow,
       WorthPublishing, world, saves, disk, stored, listing,
       mem, work, ghost, Unqueue, Answers, Syncs, Forces, Absent,
       UsesLocal
  <1>1. ASSUME NEW s \in Slots, GameWrites(s) PROVE ManualInv'
    BY <1>1 DEF GameWrites
  <1>2. ASSUME NEW s \in Slots, PcWrites(s) \/ LateCommit(s) PROVE ManualInv'
    BY <1>2 DEF PcWrites, LateCommit
  <1>3. CASE Ends
    BY <1>3, EndsWithNothing
  <1>4. CASE CloseBarrier \/ (\E k \in Syncs : BeginSync(k))
             \/ (\E k \in Forces, s \in Slots : BeginForce(k, s))
    BY <1>4 DEF CloseBarrier, BeginSync, BeginForce
  <1>5. CASE ListSaves
    BY <1>5 DEF ListSaves
  <1>6. ASSUME NEW s \in Slots, AskMissing(s) \/ Download(s) PROVE ManualInv'
    <2>1. CASE AskMissing(s)
      BY <2>1 DEF AskMissing
    <2>2. CASE Download(s)
      <3>1. ManualComparesNow'
        BY <2>2 DEF Download
      <3>2. WorthPublishing'
        BY <2>2 DEF Download
      <3> QED BY <3>1, <3>2
    <2> QED BY <1>6, <2>1, <2>2
  <1>7. CASE ApplyQueuedPull \/ HoldQueuedPull
    BY <1>7 DEF ApplyQueuedPull, HoldQueuedPull, SlotDone
  <1>8. CASE LeaveAlone \/ Learn \/ AskRestart \/ AskUser
    BY <1>8 DEF LeaveAlone, Learn, AskRestart, AskUser, Verdict, SlotDone
  <1>9. CASE Publish
    <2>1. bytes < 0 \/ Canonical(bytes) # seen[cur]
      BY <1>9 DEF Publish, Publishes, Verdict, Decide, NeedsRepair
    <2>2. pc = "decide" /\ pc' = "push" /\ UNCHANGED <<kind, todo, cur, seen>>
          /\ UNCHANGED <<listed, bytes, world>>
      BY <1>9 DEF Publish, Verdict
    <2> QED BY <2>1, <2>2
  <1>10. CASE Adopt
    BY <1>10 DEF Adopt, Verdict
  <1>11. CASE BackUpForPull \/ Replace \/ VerifyPull
    <2>1. CASE BackUpForPull \/ Replace
      BY <2>1 DEF BackUpForPull, Replace
    <2>2. CASE VerifyPull
      BY <2>2 DEF VerifyPull, SlotDone
    <2> QED BY <1>11, <2>1, <2>2
  <1>12. CASE PrepareUpload
    <2>1. kind = "manual" => steam[cur] # phone[cur]
      BY <1>12 DEF PrepareUpload
    <2> QED BY <1>12, <2>1 DEF PrepareUpload
  <1>13. CASE AssertUnchanged \/ Commit
    BY <1>13 DEF AssertUnchanged, Commit
  <1>14. CASE Confirm
    BY <1>14 DEF Confirm, SlotDone
  <1>15. CASE ForceList \/ ForceDownload \/ ForceSave
    BY <1>15 DEF ForceList, ForceDownload, ForceSave, EndOperation
  <1>16. CASE UNCHANGED vars
    BY <1>16 DEF vars
  <1> QED BY ONLY StepCases, [Next]_vars, <1>1, <1>2, <1>3, <1>4, <1>5, <1>6,
        <1>7, <1>8, <1>9, <1>10, <1>11, <1>12, <1>13, <1>14, <1>15, <1>16

\* Those facts hold in every reachable state.
LEMMA ManualInvariant ==
  ASSUME "steam" \notin Racing PROVE Spec => []ManualInv
  <1>1. Init => ManualInv
    BY DEF Init, ManualInv, ManualComparesNow, WorthPublishing
  <1>2. IInv /\ IInv' /\ CurIsNext /\ ManualInv /\ [Next]_vars => ManualInv'
    BY NextKeepsManualInv
  <1> QED BY <1>1, <1>2, Invariant, PlaceInvariant, PTL DEF Spec

\* A manual sync never sends Steam what it has, as long as Steam handles no
\* late commit during an operation.
THEOREM UploadsAreNews ==
  ASSUME "steam" \notin Racing
  PROVE  Spec => NoRedundantUpload
  <1>1. ManualInv /\ [Next]_vars =>
          [(pc = "commit" /\ pc' = "confirm" /\ kind = "manual")
             => steam[cur] # kept]_vars
    BY DEF ManualInv, WorthPublishing
  <1> QED BY <1>1, ManualInvariant, PTL DEF Spec, NoRedundantUpload

-------------------------------------------------------------------------------
(* The game leaves operations alone                                        *)

\* What a synchronisation compares is the live save, or was replaced by an
\* earlier pull; the prelaunch one compares the constructor's snapshot
SnapIsCurrent ==
  (allowed \/ kind = "prelaunch") /\ snap # NoSlots =>
    \A s \in Slots : phone[s] = snap[s] \/ phone[s] \in onSteam[s]
SeenIsCurrent ==
  kind \in Syncs /\ pc # "list" =>
    \A s \in todo : phone[s] = seen[s] \/ phone[s] \in onSteam[s]

\* A pull that no order asked for replaces what Steam has had
PullReplacesOld ==
  pc \in {"pull", "replace"} /\ memQueue[cur] = Absent
    => phone[cur] \in onSteam[cur]

\* The live save is the one pull_one left
PullHoldsFile ==
  /\ pc = "replace" => phone[cur] = kept
  /\ pc = "verify" => phone[cur] = Canonical(bytes)

PhoneInv == SnapIsCurrent /\ SeenIsCurrent /\ PullReplacesOld /\ PullHoldsFile

\* As long as the game leaves an operation alone, the compared save is current.
LEMMA NextKeepsPhoneInv ==
  ASSUME "game" \notin Racing, IInv, IInv', CurIsNext, PhoneInv, [Next]_vars
  PROVE  PhoneInv'
  <1> USE CanonicalType DEF IInv, TypeOK, HeldWasThere, InHandWasThere,
       Prepared, CurIsNext, PhoneInv, SnapIsCurrent, SeenIsCurrent,
       PullReplacesOld, PullHoldsFile,
       world, saves, disk, stored, listing,
       mem, work, ghost, Unqueue, Answers, Syncs, Forces, Absent
  <1>1. ASSUME NEW s \in Slots, GameWrites(s) PROVE PhoneInv'
    BY <1>1 DEF GameWrites
  <1>2. ASSUME NEW s \in Slots, PcWrites(s) \/ LateCommit(s) PROVE PhoneInv'
    BY <1>2 DEF PcWrites, LateCommit
  <1>3. CASE Ends
    <2>1. CASE Relaunch
      BY <2>1 DEF Relaunch, EndOperation
    <2>2. CASE WriteFails \/ VerifyFails
      <3>1. phone' = phone
        BY <2>2 DEF WriteFails, VerifyFails, RollBack
      <3> QED BY <2>2, <3>1 DEF WriteFails, VerifyFails, RollBack,
                StopOperation, EndOperation
    <2>3. CASE NothingToCompare
      BY <2>3 DEF NothingToCompare, EndOperation
    <2>4. CASE Fail \/ SaveState \/ PullRefused \/ SteamMoved \/ NotConfirmed
               \/ NothingToPull \/ DownloadMismatch
      BY <2>4 DEF Fail, DownloadMismatch, SaveState, PullRefused, SteamMoved, NotConfirmed,
                  NothingToPull, StopOperation, EndOperation
    <2> QED BY <1>3, <2>1, <2>2, <2>3, <2>4 DEF Ends
  <1>4. CASE CloseBarrier \/ (\E k \in Syncs : BeginSync(k))
             \/ (\E k \in Forces, s \in Slots : BeginForce(k, s))
    BY <1>4 DEF CloseBarrier, BeginSync, BeginForce
  <1>5. CASE ListSaves
    BY <1>5 DEF ListSaves
  <1>6. ASSUME NEW s \in Slots, AskMissing(s) \/ Download(s) PROVE PhoneInv'
    BY <1>6 DEF AskMissing, Download
  <1>7. CASE ApplyQueuedPull \/ HoldQueuedPull
    BY <1>7 DEF ApplyQueuedPull, HoldQueuedPull, PinHolds, SlotDone
  <1>8. CASE LeaveAlone \/ Learn \/ AskRestart \/ AskUser
    BY <1>8 DEF LeaveAlone, Learn, AskRestart, AskUser, Verdict, SlotDone
  <1>9. CASE Publish
    BY <1>9 DEF Publish, Verdict
  <1>10. CASE Adopt
    <2>1. seen[cur] = memBase[cur] /\ memBase[cur] # Absent
      BY <1>10 DEF Adopt, Verdict, Decide
    <2>2. phone[cur] \in onSteam[cur]
      BY <1>10, <2>1 DEF Adopt, Verdict
    <2> QED BY <1>10, <2>2 DEF Adopt, Verdict
  <1>11. CASE BackUpForPull
    BY <1>11 DEF BackUpForPull
  <1>12. CASE Replace
    BY <1>12 DEF Replace
  <1>13. CASE VerifyPull
    BY <1>13 DEF VerifyPull, SlotDone
  <1>14. CASE PrepareUpload \/ AssertUnchanged \/ Commit
    BY <1>14 DEF PrepareUpload, AssertUnchanged, Commit
  <1>15. CASE Confirm
    BY <1>15 DEF Confirm, SlotDone
  <1>16. CASE ForceList \/ ForceDownload \/ ForceSave
    BY <1>16 DEF ForceList, ForceDownload, ForceSave, EndOperation
  <1>17. CASE UNCHANGED vars
    BY <1>17 DEF vars
  <1> QED BY ONLY StepCases, [Next]_vars, <1>1, <1>2, <1>3, <1>4, <1>5, <1>6,
        <1>7, <1>8, <1>9, <1>10, <1>11, <1>12, <1>13, <1>14, <1>15, <1>16, <1>17

\* Those facts hold in every reachable state.
LEMMA PhoneInvariant ==
  ASSUME "game" \notin Racing PROVE Spec => []PhoneInv
  <1>1. Init => PhoneInv
    BY DEF Init, PhoneInv, SnapIsCurrent, SeenIsCurrent, PullReplacesOld,
           PullHoldsFile, Syncs
  <1>2. IInv /\ IInv' /\ CurIsNext /\ PhoneInv /\ [Next]_vars => PhoneInv'
    BY NextKeepsPhoneInv
  <1> QED BY <1>1, <1>2, Invariant, PlaceInvariant, PTL DEF Spec

\* Progress made on the phone is never pulled over unasked, as long as the game
\* leaves an operation alone.
THEOREM PhoneProgressIsSafe ==
  ASSUME "game" \notin Racing
  PROVE  Spec => PhoneProgressNotPulledOver
  <1>1. ASSUME IInv, PhoneInv, [Next]_vars, NEW s \in Slots,
               EngineWritesPhone(s), pc' = "verify", memQueue[s] = Absent
        PROVE  phone[s] \in onSteam[s]
    BY <1>1, OnlyPullsWritePhone
       DEF Replace, RollBack, StopOperation, EndOperation, EngineWritesPhone,
           PhoneInv, PullReplacesOld, IInv, TypeOK
  <1>2. IInv /\ PhoneInv /\ [Next]_vars =>
          [\A s \in Slots :
             (EngineWritesPhone(s) /\ pc' = "verify" /\ memQueue[s] = Absent)
               => phone[s] \in onSteam[s]]_vars
    BY <1>1
  <1> QED BY <1>2, Invariant, PhoneInvariant, PTL
          DEF Spec, PhoneProgressNotPulledOver

-------------------------------------------------------------------------------
(* No PC writes during an operation                                        *)

\* What a manual sync is about to replace on Steam, the phone has had
PublishReplacesOld ==
  kind = "manual" =>
    /\ pc \in {"push", "assert", "commit"}
         => listed[cur] # Absent /\ Canonical(bytes) \in onPhone[cur]
    /\ pc = "commit" => Canonical(steam[cur]) \in onPhone[cur]

\* What a synchronisation was told of Steam, and downloaded, is still there
ListedIsCurrent ==
  /\ kind \in Syncs /\ pc # "list" =>
       \A s \in todo : steam[s] = listed[s] \/ (s = cur /\ pc = "confirm")
  /\ pc \in {"decide", "pull", "replace", "verify"} => bytes = steam[cur]

\* A queued pull with a SHA-1 has the version in hand that its pin names
PinIsInHand ==
  pc \in {"pull", "replace"} /\ memQueue[cur] # Absent /\ cur \notin memBare
    => bytes = memQueue[cur]

SteamInv ==
  /\ PublishReplacesOld
  /\ "steam" \notin Racing => ListedIsCurrent /\ PinIsInHand

\* As long as no PC writes during an operation, Steam is as it was listed.
LEMMA NextKeepsSteamInv ==
  ASSUME "pc" \notin Racing, IInv, IInv', CurIsNext, SteamInv, [Next]_vars
  PROVE  SteamInv'
  <1> USE CanonicalType DEF IInv, TypeOK, HeldWasThere, InHandWasThere,
       Prepared, NothingFromTheFuture, CurIsNext, SteamInv,
       PublishReplacesOld, ListedIsCurrent, PinIsInHand,
       world, saves, disk, stored, listing,
       mem, work, ghost, Unqueue, Answers, Syncs, Forces, Absent, UsesLocal
  <1>1. ASSUME NEW s \in Slots, GameWrites(s) PROVE SteamInv'
    BY <1>1 DEF GameWrites
  <1>2. ASSUME NEW s \in Slots, PcWrites(s) \/ LateCommit(s) PROVE SteamInv'
    BY <1>2 DEF PcWrites, LateCommit
  <1>3. CASE Ends
    BY <1>3, EndsWithNothing
  <1>4. CASE CloseBarrier \/ (\E k \in Syncs : BeginSync(k))
             \/ (\E k \in Forces, s \in Slots : BeginForce(k, s))
    BY <1>4 DEF CloseBarrier, BeginSync, BeginForce
  <1>5. CASE ListSaves
    BY <1>5 DEF ListSaves
  <1>6. ASSUME NEW s \in Slots, AskMissing(s) PROVE SteamInv'
    BY <1>6 DEF AskMissing
  <1>7. ASSUME NEW s \in Slots, Download(s) PROVE SteamInv'
    BY <1>7 DEF Download, IsNext
  <1>8. CASE ApplyQueuedPull \/ HoldQueuedPull
    BY <1>8 DEF ApplyQueuedPull, HoldQueuedPull, PinHolds, SlotDone
  <1>9. CASE LeaveAlone \/ Learn \/ AskRestart \/ AskUser
    BY <1>9 DEF LeaveAlone, Learn, AskRestart, AskUser, Verdict, SlotDone
  <1>10. CASE Publish
    <2>1. Canonical(bytes) \in {memBase[cur], seen[cur]}
      BY <1>10 DEF Publish, Publishes, Verdict, Decide
    <2>2. Canonical(bytes) \in onPhone[cur]
      BY <1>10, <2>1 DEF Publish, Verdict
    <2> QED BY <1>10, <2>2 DEF Publish, Verdict
  <1>11. CASE Adopt
    BY <1>11 DEF Adopt, Verdict
  <1>12. CASE BackUpForPull \/ Replace
    BY <1>12 DEF BackUpForPull, Replace
  <1>13. CASE VerifyPull
    BY <1>13 DEF VerifyPull, SlotDone
  <1>14. CASE PrepareUpload \/ AssertUnchanged \/ Commit
    BY <1>14 DEF PrepareUpload, AssertUnchanged, StillThere, Commit
  <1>15. CASE Confirm
    BY <1>15 DEF Confirm, SlotDone
  <1>16. CASE ForceList \/ ForceDownload \/ ForceSave
    BY <1>16 DEF ForceList, ForceDownload, ForceSave, EndOperation
  <1>17. CASE UNCHANGED vars
    BY <1>17 DEF vars
  <1> QED BY ONLY StepCases, [Next]_vars, <1>1, <1>2, <1>3, <1>4, <1>5, <1>6,
        <1>7, <1>8, <1>9, <1>10, <1>11, <1>12, <1>13, <1>14, <1>15, <1>16, <1>17

\* Those facts hold in every reachable state.
LEMMA SteamInvariant ==
  ASSUME "pc" \notin Racing PROVE Spec => []SteamInv
  <1>1. Init => SteamInv
    BY DEF Init, SteamInv, PublishReplacesOld, ListedIsCurrent, PinIsInHand,
           Syncs
  <1>2. IInv /\ IInv' /\ CurIsNext /\ SteamInv /\ [Next]_vars => SteamInv'
    BY NextKeepsSteamInv
  <1> QED BY <1>1, <1>2, Invariant, PlaceInvariant, PTL DEF Spec

\* Progress made on a PC is never pushed over unasked, as long as no PC writes
\* during an operation.
THEOREM SteamProgressIsSafe ==
  ASSUME "pc" \notin Racing
  PROVE  Spec => SteamProgressNotPushedOver
  <1>1. ASSUME IInv, SteamInv, [Next]_vars, NEW s \in Slots,
               EngineWritesSteam(s), kind = "manual"
        PROVE  Canonical(steam[s]) \in onPhone[s]
    BY <1>1, OnlyCommitWritesSteam
       DEF Commit, EngineWritesSteam, SteamInv, PublishReplacesOld, IInv, TypeOK
  <1>2. IInv /\ SteamInv /\ [Next]_vars =>
          [\A s \in Slots :
             (EngineWritesSteam(s) /\ kind = "manual")
               => Canonical(steam[s]) \in onPhone[s]]_vars
    BY <1>1
  <1> QED BY <1>2, Invariant, SteamInvariant, PTL
          DEF Spec, SteamProgressNotPushedOver

-------------------------------------------------------------------------------
(* What a queued pull writes                                               *)

\* The last step of a pull before its file is verified replaces the file.
LEMMA OnlyReplaceVerifies ==
  ASSUME pc = "replace", pc' = "verify", [Next]_vars
  PROVE  Replace
  BY StepCases, EndsWithNothing
     DEF GameWrites, PcWrites, LateCommit, AskMissing, Download, BeginSync,
         BeginForce, CloseBarrier, ListSaves, HoldQueuedPull, ApplyQueuedPull,
         LeaveAlone, Learn, Publish, Adopt, AskRestart, AskUser, BackUpForPull,
         VerifyPull, PrepareUpload, AssertUnchanged, Commit, Confirm, ForceList,
         ForceDownload, ForceSave, Verdict, vars

\* A queued pull with a SHA-1 was made for the listed version
PinIsListed ==
  pc \in {"pull", "replace"} /\ memQueue[cur] # Absent /\ cur \notin memBare
    => memQueue[cur] = listed[cur]

\* Every step keeps it.
LEMMA NextKeepsPinIsListed ==
  ASSUME IInv, PinIsListed, [Next]_vars PROVE PinIsListed'
  <1> USE DEF IInv, TypeOK, Prepared, PinIsListed, world, saves, disk, stored,
       listing, mem, work, ghost, Unqueue
  <1>1. ASSUME NEW s \in Slots, \/ GameWrites(s) \/ PcWrites(s) \/ LateCommit(s)
                                \/ AskMissing(s) \/ Download(s)
        PROVE  PinIsListed'
    BY <1>1 DEF GameWrites, PcWrites, LateCommit, AskMissing, Download
  <1>2. CASE Ends
    BY <1>2, EndsWithNothing
  <1>3. CASE CloseBarrier \/ (\E k \in Syncs : BeginSync(k))
             \/ (\E k \in Forces, s \in Slots : BeginForce(k, s))
    BY <1>3 DEF CloseBarrier, BeginSync, BeginForce
  <1>4. CASE ListSaves \/ HoldQueuedPull
    BY <1>4 DEF ListSaves, HoldQueuedPull, SlotDone
  <1>5. CASE ApplyQueuedPull
    BY <1>5 DEF ApplyQueuedPull, PinHolds
  <1>6. CASE LeaveAlone \/ Learn \/ AskRestart \/ AskUser
    BY <1>6 DEF LeaveAlone, Learn, AskRestart, AskUser, Verdict, SlotDone
  <1>7. CASE Publish \/ Adopt
    BY <1>7 DEF Publish, Adopt, Verdict
  <1>8. CASE BackUpForPull \/ Replace \/ VerifyPull
    BY <1>8 DEF BackUpForPull, Replace, VerifyPull, SlotDone
  <1>9. CASE PrepareUpload \/ AssertUnchanged \/ Commit \/ Confirm
    BY <1>9 DEF PrepareUpload, AssertUnchanged, Commit, Confirm, SlotDone
  <1>10. CASE ForceList \/ ForceDownload \/ ForceSave
    BY <1>10 DEF ForceList, ForceDownload, ForceSave, EndOperation
  <1>11. CASE UNCHANGED vars
    BY <1>11 DEF vars
  <1> QED BY ONLY StepCases, [Next]_vars, <1>1, <1>2, <1>3, <1>4, <1>5, <1>6,
        <1>7, <1>8, <1>9, <1>10, <1>11

\* A queued pull with a SHA-1 writes the version the user selected or one newer
\* than the changelist it works from, whoever writes whenever.
THEOREM QueuedPullWritesItsPin == Spec => HashedPullIsPinned
  <1>1. Init => PinIsListed
    BY DEF Init, PinIsListed
  <1>2. IInv /\ PinIsListed /\ [Next]_vars => PinIsListed'
    BY NextKeepsPinIsListed
  <1>3. ASSUME IInv, PinIsListed, Replace, memQueue[cur] # Absent,
               cur \notin memBare
        PROVE  phone'[cur] = Canonical(memQueue[cur]) \/ bytes # listed[cur]
    BY <1>3 DEF Replace, PinIsListed, IInv, TypeOK, Prepared
  <1>4. IInv /\ PinIsListed /\ [Next]_vars =>
          [(pc = "replace" /\ pc' = "verify" /\ memQueue[cur] # Absent
              /\ cur \notin memBare)
             => \/ phone'[cur] = Canonical(memQueue[cur])
                \/ bytes # listed[cur]]_vars
    BY <1>3, OnlyReplaceVerifies
  <1> QED BY <1>1, <1>2, <1>4, Invariant, PTL DEF Spec, HashedPullIsPinned

\* What a queued pull with a SHA-1 writes is what the user selected
WritesTheSelection ==
  [][(pc = "replace" /\ pc' = "verify" /\ memQueue[cur] # Absent
        /\ cur \notin memBare)
       => phone'[cur] = Canonical(memQueue[cur])]_vars

\* It does without exception as long as Steam's copy does not change during an
\* operation.
THEOREM QueuedPullWritesTheSelection ==
  ASSUME "pc" \notin Racing, "steam" \notin Racing
  PROVE  Spec => WritesTheSelection
  <1>1. ASSUME IInv, SteamInv, Replace, memQueue[cur] # Absent,
               cur \notin memBare
        PROVE  phone'[cur] = Canonical(memQueue[cur])
    BY <1>1 DEF Replace, SteamInv, PinIsInHand, IInv, TypeOK, Prepared
  <1>2. IInv /\ SteamInv /\ [Next]_vars =>
          [(pc = "replace" /\ pc' = "verify" /\ memQueue[cur] # Absent
              /\ cur \notin memBare)
             => phone'[cur] = Canonical(memQueue[cur])]_vars
    BY <1>1, OnlyReplaceVerifies
  <1> QED BY <1>2, Invariant, SteamInvariant, PTL DEF Spec, WritesTheSelection

-------------------------------------------------------------------------------
(* Neither of them does                                                    *)

\* Where one side still has b, or has had a version since that the other never
\* had
Settled(s, b) ==
  b # Absent =>
    /\ phone[s] = b \/ phone[s] \notin onSteam[s]
    /\ Canonical(steam[s]) = b \/ Canonical(steam[s]) \notin onPhone[s]

\* BASE is the last version both sides have had
BaseIsLast ==
  ~stopped =>
    /\ pc \in {"idle", "list", "force_list"}
         => \A s \in Slots : Settled(s, base[s])
    /\ pc \notin {"idle", "list", "force_list"}
         => \A s \in Slots : \/ Settled(s, memBase[s])
                             \/ s = cur /\ pc \in {"verify", "confirm"}

\* A stale snapshot is not mistaken for what Steam has
StaleDiffers ==
  ~stopped =>
  /\ (allowed \/ kind = "prelaunch") /\ snap # NoSlots =>
       \A s \in Slots : phone[s] = snap[s] \/ Canonical(steam[s]) # snap[s]
  /\ kind \in Syncs /\ pc # "list" =>
       \A s \in todo : \/ phone[s] = seen[s] \/ Canonical(steam[s]) # seen[s]
                       \/ s = cur /\ pc = "confirm"

\* The file that is uploaded is the one that was staged
UploadHoldsFile == pc \in {"assert", "commit", "confirm"} => phone[cur] = kept

LastInv == BaseIsLast /\ StaleDiffers /\ UploadHoldsFile

\* Nobody writes the file between the staging and the upload's confirmation.
LEMMA NextKeepsUpload ==
  ASSUME "game" \notin Racing, IInv, LastInv, [Next]_vars
  PROVE  UploadHoldsFile'
  <1> USE DEF IInv, TypeOK, Prepared, LastInv, UploadHoldsFile,
       world, saves, disk, stored, listing,
       mem, work, ghost, Unqueue, Answers
  <1>1. ASSUME NEW s \in Slots, GameWrites(s) \/ PcWrites(s) \/ LateCommit(s)
        PROVE  UploadHoldsFile'
    BY <1>1 DEF GameWrites, PcWrites, LateCommit
  <1>2. CASE Ends
    BY <1>2, EndsWithNothing
  <1>3. CASE CloseBarrier \/ (\E k \in Syncs : BeginSync(k))
             \/ (\E k \in Forces, s \in Slots : BeginForce(k, s))
    BY <1>3 DEF CloseBarrier, BeginSync, BeginForce
  <1>4. ASSUME NEW s \in Slots, AskMissing(s) \/ Download(s)
        PROVE  UploadHoldsFile'
    BY <1>4 DEF AskMissing, Download
  <1>5. CASE \/ ListSaves \/ ApplyQueuedPull \/ HoldQueuedPull \/ LeaveAlone
             \/ Learn \/ Publish \/ Adopt \/ AskRestart \/ AskUser
    BY <1>5 DEF ListSaves, ApplyQueuedPull, HoldQueuedPull, LeaveAlone, Learn,
                Publish, Adopt, AskRestart, AskUser, Verdict, SlotDone
  <1>6. CASE BackUpForPull \/ Replace \/ VerifyPull
    BY <1>6 DEF BackUpForPull, Replace, VerifyPull, SlotDone
  <1>7. CASE PrepareUpload \/ AssertUnchanged \/ Commit \/ Confirm
    BY <1>7 DEF PrepareUpload, AssertUnchanged, Commit, Confirm, SlotDone
  <1>8. CASE ForceList \/ ForceDownload \/ ForceSave
    BY <1>8 DEF ForceList, ForceDownload, ForceSave, EndOperation
  <1>9. CASE UNCHANGED vars
    BY <1>9 DEF vars
  <1> QED BY ONLY StepCases, [Next]_vars, <1>1, <1>2, <1>3, <1>4, <1>5, <1>6,
        <1>7, <1>8, <1>9

\* A save that a pull has replaced since it was read comes back to neither side.
LEMMA NextKeepsStale ==
  ASSUME "game" \notin Racing, "pc" \notin Racing, "steam" \notin Racing,
         IInv, IInv', CurIsNext, PhoneInv, SteamInv, LastInv, [Next]_vars
  PROVE  StaleDiffers'
  <1> USE CanonicalType DEF IInv, TypeOK, HeldWasThere, Prepared,
       NothingFromTheFuture, CurIsNext, PhoneInv, PullHoldsFile,
       SteamInv, ListedIsCurrent, LastInv, StaleDiffers, UploadHoldsFile,
       world, saves, disk, stored, listing,
       mem, work, ghost, Unqueue, Answers, Syncs, Forces, Absent
  <1>1. ASSUME NEW s \in Slots, GameWrites(s) PROVE StaleDiffers'
    BY <1>1 DEF GameWrites
  <1>2. ASSUME NEW s \in Slots, PcWrites(s) \/ LateCommit(s) PROVE StaleDiffers'
    BY <1>2 DEF PcWrites, LateCommit
  <1>3. CASE Ends
    <2>1. CASE Relaunch
      BY <2>1 DEF Relaunch, EndOperation
    <2>2. CASE WriteFails \/ VerifyFails
      <3>1. phone' = phone
        BY <2>2 DEF WriteFails, VerifyFails, RollBack
      <3> QED BY <2>2, <3>1 DEF WriteFails, VerifyFails, RollBack,
                StopOperation, EndOperation
    <2>3. CASE NothingToCompare
      BY <2>3 DEF NothingToCompare, EndOperation
    <2>4. CASE Fail \/ SaveState \/ PullRefused \/ SteamMoved \/ NotConfirmed
               \/ NothingToPull \/ DownloadMismatch
      BY <2>4 DEF Fail, DownloadMismatch, SaveState, PullRefused, SteamMoved, NotConfirmed,
                  NothingToPull, StopOperation, EndOperation
    <2> QED BY <1>3, <2>1, <2>2, <2>3, <2>4 DEF Ends
  <1>4. CASE CloseBarrier \/ (\E k \in Syncs : BeginSync(k))
             \/ (\E k \in Forces, s \in Slots : BeginForce(k, s))
    BY <1>4 DEF CloseBarrier, BeginSync, BeginForce
  <1>5. CASE ListSaves
    BY <1>5 DEF ListSaves
  <1>6. ASSUME NEW s \in Slots, AskMissing(s) \/ Download(s) PROVE StaleDiffers'
    BY <1>6 DEF AskMissing, Download
  <1>7. CASE ApplyQueuedPull \/ HoldQueuedPull
    BY <1>7 DEF ApplyQueuedPull, HoldQueuedPull, SlotDone
  <1>8. CASE LeaveAlone \/ Learn \/ AskRestart \/ AskUser
    BY <1>8 DEF LeaveAlone, Learn, AskRestart, AskUser, Verdict, SlotDone
  <1>9. CASE Publish \/ Adopt
    BY <1>9 DEF Publish, Adopt, Verdict
  <1>10. CASE BackUpForPull
    BY <1>10 DEF BackUpForPull
  <1>11. CASE Replace
    <2>1. phone'[cur] = Canonical(steam[cur])
      BY <1>11 DEF Replace
    <2> QED BY <1>11, <2>1 DEF Replace
  <1>12. CASE VerifyPull
    BY <1>12 DEF VerifyPull, SlotDone
  <1>13. CASE PrepareUpload \/ AssertUnchanged
    BY <1>13 DEF PrepareUpload, AssertUnchanged
  <1>14. CASE Commit
    <2>1. Canonical(steam'[cur]) = phone[cur]
      BY <1>14 DEF Commit
    <2> QED BY <1>14, <2>1 DEF Commit
  <1>15. CASE Confirm
    BY <1>15 DEF Confirm, SlotDone
  <1>16. CASE ForceList \/ ForceDownload \/ ForceSave
    BY <1>16 DEF ForceList, ForceDownload, ForceSave, EndOperation
  <1>17. CASE UNCHANGED vars
    BY <1>17 DEF vars
  <1> QED BY ONLY StepCases, [Next]_vars, <1>1, <1>2, <1>3, <1>4, <1>5, <1>6,
        <1>7, <1>8, <1>9, <1>10, <1>11, <1>12, <1>13, <1>14, <1>15, <1>16, <1>17

\* BASE moves when a version reaches both sides.
LEMMA NextKeepsBaseIsLast ==
  ASSUME "game" \notin Racing, "pc" \notin Racing, "steam" \notin Racing,
         IInv, IInv', CurIsNext, PhoneInv, SteamInv, LastInv, [Next]_vars
  PROVE  BaseIsLast'
  <1> USE CanonicalType DEF IInv, TypeOK, HeldWasThere, Prepared,
       NothingFromTheFuture, CurIsNext, PhoneInv, PullHoldsFile,
       SteamInv, ListedIsCurrent, LastInv, StaleDiffers, UploadHoldsFile,
       BaseIsLast, Settled,
       world, saves, disk, stored, listing,
       mem, work, ghost, Unqueue, Answers, Syncs, Forces, Steps, Absent
  <1>1. ASSUME NEW s \in Slots, GameWrites(s) PROVE BaseIsLast'
    <2>1. pc = "idle" /\ UNCHANGED <<pc, stopped, base, steam, onSteam>>
      BY <1>1 DEF GameWrites
    <2>2. newest + 1 \in Versions /\ newest + 1 \notin onSteam[s]
      BY <1>1, BoundsAssumption DEF GameWrites, Versions
    <2>3. Canonical(steam[s]) \in onSteam[s] \cup {Absent}
      BY DEF Canonical
    <2>4. Canonical(steam[s]) # newest + 1
      BY <2>2, <2>3
    <2>5. \A t \in Slots : Settled(t, base[t])' \/ stopped
      BY <1>1, <2>1, <2>2, <2>4 DEF GameWrites
    <2> QED BY <2>1, <2>5
  <1>2. ASSUME NEW s \in Slots, PcWrites(s) \/ LateCommit(s) PROVE BaseIsLast'
    BY <1>2 DEF PcWrites, LateCommit
  <1>3. CASE Ends
    <2>1. CASE SaveState
      BY <2>1 DEF SaveState, EndOperation
    <2>2. CASE NothingToCompare \/ NothingToPull
      BY <2>2 DEF NothingToCompare, NothingToPull, EndOperation
    <2>3. CASE Relaunch
      BY <2>3 DEF Relaunch, EndOperation
    <2>4. CASE WriteFails \/ VerifyFails \/ Fail \/ PullRefused \/ SteamMoved
               \/ NotConfirmed \/ DownloadMismatch
      <3>1. stopped' = TRUE
        BY <2>4 DEF WriteFails, VerifyFails, Fail, PullRefused, SteamMoved,
                    NotConfirmed, DownloadMismatch, RollBack, StopOperation
      <3> QED BY <3>1
    <2> QED BY <1>3, <2>1, <2>2, <2>3, <2>4 DEF Ends
  <1>4. CASE CloseBarrier \/ (\E k \in Syncs : BeginSync(k))
             \/ (\E k \in Forces, s \in Slots : BeginForce(k, s))
    BY <1>4 DEF CloseBarrier, BeginSync, BeginForce
  <1>5. CASE ListSaves
    BY <1>5 DEF ListSaves
  <1>6. ASSUME NEW s \in Slots, AskMissing(s) \/ Download(s) PROVE BaseIsLast'
    BY <1>6 DEF AskMissing, Download
  <1>7. CASE ApplyQueuedPull \/ HoldQueuedPull
    BY <1>7 DEF ApplyQueuedPull, HoldQueuedPull, SlotDone
  <1>8. CASE LeaveAlone \/ AskRestart \/ AskUser
    BY <1>8 DEF LeaveAlone, AskRestart, AskUser, Verdict, SlotDone
  <1>9. CASE Learn
    <2> SUFFICES ASSUME ~stopped PROVE BaseIsLast'
      BY <1>9 DEF Learn
    <2>1. seen[cur] = Canonical(steam[cur])
      BY <1>9 DEF Learn, Verdict, Decide
    <2>2. phone[cur] = seen[cur]
      BY <1>9, <2>1 DEF Learn, Verdict
    <2> QED BY <1>9, <2>1, <2>2 DEF Learn, Verdict, SlotDone
  <1>10. CASE Publish \/ Adopt
    BY <1>10 DEF Publish, Adopt, Verdict
  <1>11. CASE BackUpForPull
    BY <1>11 DEF BackUpForPull
  <1>12. CASE Replace
    BY <1>12 DEF Replace
  <1>13. CASE VerifyPull
    <2>1. phone[cur] = Canonical(steam[cur])
      BY <1>13 DEF VerifyPull
    <2> QED BY <1>13, <2>1 DEF VerifyPull, SlotDone
  <1>14. CASE PrepareUpload \/ AssertUnchanged
    BY <1>14 DEF PrepareUpload, AssertUnchanged
  <1>15. CASE Commit
    BY <1>15 DEF Commit
  <1>16. CASE Confirm
    BY <1>16 DEF Confirm, SlotDone
  <1>17. CASE ForceList \/ ForceDownload
    BY <1>17 DEF ForceList, ForceDownload
  <1>18. CASE ForceSave
    BY <1>18 DEF ForceSave, EndOperation
  <1>19. CASE UNCHANGED vars
    BY <1>19 DEF vars
  <1> QED BY ONLY StepCases, [Next]_vars, <1>1, <1>2, <1>3, <1>4, <1>5, <1>6,
        <1>7, <1>8, <1>9, <1>10, <1>11, <1>12, <1>13, <1>14, <1>15, <1>16,
        <1>17, <1>18, <1>19

\* As long as nobody writes during an operation and every operation has run to
\* its end, the user is asked only about real conflicts.
THEOREM ConflictsAreReal ==
  ASSUME "game" \notin Racing, "pc" \notin Racing, "steam" \notin Racing
  PROVE  Spec => []ConflictIsReal
  <1>1. Init => LastInv
    BY CanonicalType DEF Init, LastInv, BaseIsLast, Settled, StaleDiffers,
       UploadHoldsFile, NoSlots, Syncs
  <1>2. IInv /\ IInv' /\ CurIsNext /\ PhoneInv /\ SteamInv /\ LastInv
        /\ [Next]_vars => LastInv'
    BY NextKeepsUpload, NextKeepsStale, NextKeepsBaseIsLast DEF LastInv
  <1>3. IInv /\ SteamInv /\ LastInv => ConflictIsReal
    BY DEF IInv, Prepared, SteamInv, ListedIsCurrent, LastInv, BaseIsLast,
           Settled, ConflictIsReal, Decide
  <1> QED BY <1>1, <1>2, <1>3, Invariant, PlaceInvariant, PhoneInvariant,
             SteamInvariant, PTL DEF Spec
===============================================================================
