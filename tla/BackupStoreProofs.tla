--------------------------- MODULE BackupStoreProofs ---------------------------
(***************************************************************************)
(* What retention promises, for any number of backups, failures and kills  *)
(* and any Retain: while the clock runs forward, a backup leaves the disk  *)
(* only after Retain later ones of its source.  The backup that a pull or  *)
(* a restore has just made is the newest of its source, so it is there     *)
(* when the live save is replaced and when a failed pull is rolled back.   *)
(***************************************************************************)
EXTENDS BackupStore, FiniteSetTheorems, WellFoundedInduction, TLAPS

Making == {"data", "manifest", "retain", "removed"}
Past(r) == Cardinality(Newer(r, made)) >= Retain

\* What each step finds prepared by the steps before it
Prepared ==
  /\ caller = "none" <=> pc = "idle"
  /\ pc \in Making => draft.source \in Sources /\ draft.what = live
  /\ pc = "data" => draft.id = lastId + 1
  /\ pc \in {"manifest", "retain", "removed"}
       => draft \in Records /\ draft.id = lastId
  /\ caller = "pull" => incoming \in Versions
  /\ caller \in {"undo", "restore"} => target \in Records
  /\ pc \in {"replace", "verify", "undo"}
       => caller \in {"pull", "undo", "restore"} /\ target \in Records
  /\ pc = "undo" => caller = "pull"
  /\ pc = "clear" => caller = "restore"
  /\ caller \in {"pull", "undo"} => phase = "prelaunch"
  /\ pc \notin {"retain", "removed"} => victims = {}

\* The manifests ever written, by their ids
Numbered ==
  /\ IsFiniteSet(made)
  /\ records \subseteq made /\ victims \subseteq made
  /\ \A r \in made : r.id <= lastId
  /\ \A r, q \in made : r.id = q.id => r = q
  /\ pc = "manifest" => draft.id \in files /\ \A r \in made : r.id < lastId
  /\ pc \in {"retain", "removed"} => draft \in made
  /\ pc = "removed" => victim \in made

\* While the clock runs forward the time stamps are in the order of the ids
InOrder ==
  steady => /\ \A r \in made : r.at <= now
            /\ \A r, q \in made : r.id < q.id => r.at < q.at

\* What is removed, or about to be, has Retain later backups
OnlyPastRemoved ==
  steady => /\ \A r \in made : Verified(r) \/ Past(r)
            /\ \A v \in victims : Past(v)
            /\ pc = "removed" => Past(victim)

\* The live save about to be replaced is in a backup
BackedUpFirst ==
  steady /\ pc = "replace" => \E r \in records : Verified(r) /\ r.what = live

\* The backup of a pull is there until its rollback is over; the rollback's
\* own retention is that of another source
CanRollBack ==
  /\ caller = "pull" /\ pc \in Making
       => draft.source = "local_before_pull" /\ before = live
  /\ caller = "undo" /\ pc \in Making => draft.source = "local_before_restore"
  /\ \A v \in victims : v.source = draft.source
  /\ pc = "removed" => victim.source = draft.source
  /\ steady /\ (caller = "undo"
                \/ (caller = "pull" /\ pc \in {"replace", "verify", "undo"}))
       => /\ Verified(target) /\ target.what = before
          /\ target.source = "local_before_pull"
  /\ caller = "undo" /\ pc = "verify" /\ steady => live = before

IInv ==
  /\ TypeOK
  /\ Prepared
  /\ Numbered
  /\ InOrder
  /\ OnlyPastRemoved
  /\ BackedUpFirst
  /\ CanRollBack

DraftType == [id : 0..(MaxBackups + 1), source : Sources \cup {"none"},
              at : 0..MaxTime, what : Versions \cup {NoVersion}]

-------------------------------------------------------------------------------
\* A larger set of manifests has at least as many newer ones.
LEMMA NewerGrows ==
  ASSUME NEW S, IsFiniteSet(S), NEW T \in SUBSET S, NEW r
  PROVE  /\ Cardinality(Newer(r, S)) \in Nat
         /\ Cardinality(Newer(r, T)) \in Nat
         /\ Cardinality(Newer(r, T)) <= Cardinality(Newer(r, S))
  <1>1. Newer(r, S) \in SUBSET S /\ Newer(r, T) \in SUBSET Newer(r, S)
    BY DEF Newer
  <1>2. IsFiniteSet(Newer(r, S))
    BY <1>1, FS_Subset
  <1>3. IsFiniteSet(Newer(r, T))
    BY <1>1, <1>2, FS_Subset
  <1> QED BY <1>1, <1>2, <1>3, FS_Subset, FS_CardinalityType

\* The backup with the last id is whole while the clock runs forward: nothing
\* is newer, so retention does not touch it.
LEMMA LastIsWhole ==
  ASSUME IInv, steady, NEW r \in made, r.id = lastId
  PROVE  Verified(r) /\ r \notin victims /\ (pc = "removed" => r # victim)
  <1>1. Newer(r, made) = {}
    <2>1. \A q \in made : q.id \in Nat /\ q.id <= lastId
      BY DEF IInv, TypeOK, Records, Numbered
    <2>2. lastId \in Nat
      BY BoundsAssumption DEF IInv, TypeOK
    <2> QED BY <2>1, <2>2 DEF Newer
  <1>2. ~Past(r)
    BY <1>1, FS_EmptySet, RetainAssumption DEF Past
  <1> QED BY <1>2 DEF IInv, OnlyPastRemoved

\* The invariant holds before the first backup.
LEMMA InitIInv == Init => IInv
  <1> SUFFICES ASSUME Init PROVE IInv
    OBVIOUS
  <1> USE DEF Init
  <1>1. TypeOK
    BY BoundsAssumption DEF TypeOK, Callers, Steps, NoRecord
  <1>2. Prepared /\ CanRollBack
    BY DEF Prepared, CanRollBack, Making
  <1>3. Numbered /\ InOrder /\ OnlyPastRemoved /\ BackedUpFirst
    BY FS_EmptySet DEF Numbered, InOrder, OnlyPastRemoved, BackedUpFirst
  <1> QED BY <1>1, <1>2, <1>3 DEF IInv

-------------------------------------------------------------------------------
\* Steps that make no manifest, remove nothing and leave the clock alone
DirectoryKept ==
  /\ UNCHANGED <<records, files, made, victims, lastId, now, steady>>
  /\ UNCHANGED victim

AroundStep ==
  \/ GameWrites \/ Relaunch \/ CloseBarrier
  \/ StartNote \/ StartPull \/ SkipRestore \/ StartRestore
  \/ \E r \in records : QueueRestore(r)

\* The world around the manager, and the beginning of a call, keep the
\* invariant.
LEMMA AroundKeepsIInv == IInv /\ AroundStep => IInv'
  <1> SUFFICES ASSUME IInv, AroundStep PROVE IInv'
    OBVIOUS
  <1> USE DEF IInv, AroundStep, GameWrites, Relaunch, CloseBarrier, StartNote,
       StartPull, SkipRestore, StartRestore, QueueRestore, disk, call, work,
       goal, count
  <1>0. \A src \in Sources : Drafted(src) \in DraftType
    BY BoundsAssumption DEF TypeOK, Drafted, DraftType
  <1>1. TypeOK'
    <2>1. draft' \in DraftType /\ live' \in Versions
      BY <1>0 DEF TypeOK, DraftType, Sources
    <2>2. queued' \in Records \cup {NoRecord} /\ target' \in Records \cup {NoRecord}
      BY DEF TypeOK, Verified
    <2>3. {incoming', before'} \subseteq Versions \cup {NoVersion}
      BY DEF TypeOK
    <2> QED BY <2>1, <2>2, <2>3 DEF TypeOK, DraftType, Callers, Steps
  <1>2. Prepared'
    BY DEF TypeOK, Prepared, Making, Drafted, Verified, Sources
  <1>3. caller = "none" /\ pc = "idle" /\ pc' \in {"idle", "data"}
    BY DEF Prepared
  <1>4. DirectoryKept
    BY DEF DirectoryKept
  <1>5. Numbered' /\ InOrder' /\ OnlyPastRemoved' /\ BackedUpFirst'
    BY <1>3, <1>4 DEF DirectoryKept, Numbered, InOrder, OnlyPastRemoved,
       BackedUpFirst, Past, Newer, Verified
  <1>6. CanRollBack'
    BY <1>3 DEF CanRollBack, Prepared, Making, Drafted
  <1> QED BY <1>1, <1>2, <1>5, <1>6

ReplaceStep ==
  \/ Kill \/ BackupDone \/ Replace \/ SourceGone \/ ReplaceFails
  \/ VerifyFails \/ RollBack \/ NoRollBack \/ VerifyPasses \/ ClearQueue

\* The replacement, its failures and its rollback keep the invariant.
LEMMA ReplaceKeepsIInv == IInv /\ ReplaceStep => IInv'
  <1> SUFFICES ASSUME IInv, ReplaceStep PROVE IInv'
    OBVIOUS
  <1> USE DEF IInv, ReplaceStep, Kill, BackupDone, Replace, SourceGone,
       ReplaceFails, VerifyFails, RollBack, NoRollBack, VerifyPasses,
       ClearQueue, disk, call, work, goal, count, Return, GiveUp, Wanted,
       Works, Trips
  <1>0. Drafted("local_before_restore") \in DraftType /\ NoRecord \in DraftType
    BY BoundsAssumption DEF TypeOK, Drafted, DraftType, Sources, NoRecord
  <1>1. TypeOK'
    <2>1. draft' \in DraftType
      BY <1>0 DEF TypeOK, DraftType
    <2>2. queued' \in Records \cup {NoRecord} /\ target' \in Records \cup {NoRecord}
      BY DEF TypeOK, Prepared
    <2>3. live' \in Versions
      <3>1. caller = "pull" => incoming \in Versions
        BY DEF Prepared
      <3>2. pc = "replace" => target.what \in Versions
        BY DEF Prepared, Records
      <3> QED BY <3>1, <3>2 DEF TypeOK
    <2>4. {incoming', before'} \subseteq Versions \cup {NoVersion}
      BY DEF TypeOK
    <2>5. failures' \in 0..MaxFailures
      BY BoundsAssumption DEF TypeOK
    <2> QED BY <2>1, <2>2, <2>3, <2>4, <2>5 DEF TypeOK, DraftType, Callers, Steps
  <1>2. Prepared'
    <2>1. CASE Return \/ Kill
      BY <2>1 DEF TypeOK, Prepared, Making
    <2>2. CASE BackupDone
      BY <2>2 DEF TypeOK, Callers, Prepared, Making
    <2>3. CASE (Replace \/ ReplaceFails \/ VerifyFails \/ VerifyPasses) /\ ~Return
      BY <2>3 DEF Prepared, Making
    <2>4. CASE RollBack
      <3>1. target \in Records
        BY <2>4 DEF Prepared
      <3> QED BY <2>4, <3>1 DEF Prepared, Making, Drafted, Sources
    <2> QED BY <2>1, <2>2, <2>3, <2>4
  <1>3. /\ UNCHANGED <<records, files, made, lastId, now, steady>>
        /\ victims' = {} /\ pc' \notin {"manifest", "retain", "removed"}
    BY DEF Prepared
  <1>4. Numbered' /\ InOrder' /\ OnlyPastRemoved'
    BY <1>3 DEF Numbered, InOrder, OnlyPastRemoved, Past, Newer, Verified
  <1>5. BackedUpFirst'
    BY <1>3, LastIsWhole DEF BackedUpFirst, Verified, Numbered, Prepared,
       Making
  <1>6. CanRollBack'
    BY <1>3, LastIsWhole DEF CanRollBack, Prepared, Numbered, Making, Drafted,
       Verified
  <1> QED BY <1>1, <1>2, <1>4, <1>5, <1>6
-------------------------------------------------------------------------------
\* A backup loses none of its later ones when another is made.
LEMMA WriteDataKeepsIInv == IInv /\ WriteData => IInv'
  <1> SUFFICES ASSUME IInv, WriteData PROVE IInv'
    OBVIOUS
  <1> USE DEF IInv, WriteData, work, goal, Return, Works, Trips
  <1>0. /\ lastId \in Nat /\ lastId' = lastId + 1 /\ draft.id = lastId + 1
        /\ pc = "data" /\ pc' \in {"idle", "manifest"}
    BY BoundsAssumption DEF TypeOK, Prepared
  <1>1. TypeOK'
    <2>1. lastId' \in 0..MaxBackups /\ lastId + 1 \in 1..MaxBackups
      BY <1>0, BoundsAssumption DEF TypeOK
    <2>2. files' \subseteq 1..MaxBackups
      BY <1>0, <2>1 DEF TypeOK
    <2>3. draft' \in DraftType
      BY BoundsAssumption DEF TypeOK, DraftType, NoRecord
    <2>4. failures' \in 0..MaxFailures
      BY BoundsAssumption DEF TypeOK
    <2> QED BY <2>1, <2>2, <2>3, <2>4 DEF TypeOK, DraftType, Callers, Steps
  <1>2. Prepared'
    <2>1. draft \in DraftType /\ draft.source \in Sources /\ draft.what = live
          /\ live \in Versions /\ draft.id \in 1..MaxBackups
      BY <1>0, BoundsAssumption DEF TypeOK, Prepared, Making, DraftType
    <2>2. draft \in Records
      BY <2>1 DEF DraftType, Records
    <2> QED BY <1>0, <2>1, <2>2 DEF Prepared, Making
  <1>3. Numbered'
    <2>1. \A r \in made : r.id \in Nat
      BY DEF TypeOK, Records
    <2> QED BY <1>0, <2>1 DEF Numbered, Prepared
  <1>4. InOrder' /\ OnlyPastRemoved' /\ BackedUpFirst'
    BY <1>0 DEF InOrder, OnlyPastRemoved, BackedUpFirst, Past, Newer, Verified,
       Prepared
  <1>5. CanRollBack'
    BY <1>0 DEF CanRollBack, Making, Verified, Prepared
  <1> QED BY <1>1, <1>2, <1>3, <1>4, <1>5

\* The list leaves the Retain newest: what it skips has Retain later ones.
LEMMA SkippedArePast ==
  ASSUME NEW S, IsFiniteSet(S), NEW V, NEW source, NEW rs \in SUBSET S,
         \A r \in S : r.id \in Nat /\ r.at \in Nat,
         \A r, q \in S : r.id = q.id => r = q,
         \A r, q \in S : r.id < q.id => r.at < q.at,
         Skipped(V, source, rs)
  PROVE  \A v \in V : Cardinality(Newer(v, S)) >= Retain
  <1> DEFINE matching == {r \in rs : r.source = source}
             kept == matching \ V
  <1> SUFFICES ASSUME NEW v \in V PROVE Cardinality(Newer(v, S)) >= Retain
    OBVIOUS
  <1>1. V \subseteq matching /\ Cardinality(kept) = Retain
    BY DEF Skipped
  <1>2. \A k \in kept : k \in Newer(v, S)
    <2> SUFFICES ASSUME NEW k \in kept PROVE k \in Newer(v, S)
      OBVIOUS
    <2>1. v \in S /\ k \in S /\ v # k /\ k.source = v.source /\ v.at <= k.at
      BY <1>1 DEF Skipped
    <2>2. k.id > v.id
      BY <2>1
    <2> QED BY <2>1, <2>2 DEF Newer
  <1>3. Newer(v, S) \in SUBSET S /\ kept \in SUBSET Newer(v, S)
    BY <1>2 DEF Newer
  <1>4. IsFiniteSet(Newer(v, S))
    BY <1>3, FS_Subset
  <1>5. Cardinality(kept) <= Cardinality(Newer(v, S))
    BY <1>3, <1>4, FS_Subset
  <1>6. Cardinality(Newer(v, S)) \in Nat
    BY <1>4, FS_CardinalityType
  <1> QED BY <1>1, <1>5, <1>6, RetainAssumption
\* The new manifest is the newest; who loses a place to it had Retain later
\* ones already, or has with it.
LEMMA WriteManifestKeepsIInv == IInv /\ WriteManifest => IInv'
  <1> SUFFICES ASSUME IInv, WriteManifest PROVE IInv'
    OBVIOUS
  <1> USE DEF IInv, WriteManifest, goal, Return, Works, Trips, Listed
  <1>0. /\ pc = "manifest" /\ pc' \in {"idle", "retain"}
        /\ draft \in Records /\ draft.id = lastId /\ draft.id \in files
        /\ lastId \in Nat /\ lastId' = lastId
        /\ now \in Nat /\ now' \in 0..MaxTime /\ victims = {}
    BY BoundsAssumption DEF TypeOK, Prepared, Numbered
  <1>1. /\ Stamped \in Records /\ Stamped.id = lastId /\ Stamped.at = now'
        /\ Stamped.source = draft.source /\ Stamped.what = draft.what
    BY <1>0 DEF Stamped, Records
  <1>2. /\ made' \in SUBSET (made \cup {Stamped}) /\ made \subseteq made'
        /\ records' \in SUBSET (records \cup {Stamped})
        /\ records \subseteq records' /\ records' \subseteq made'
        /\ (Stamped \in made' => Stamped \in records')
        /\ \A r \in made' : r \in made \/ r = Stamped
    BY <1>0, <1>1 DEF Numbered, TypeOK
  <1>3. TypeOK'
    <2>1. draft' \in DraftType
      BY <1>1, BoundsAssumption DEF TypeOK, DraftType, NoRecord, Records
    <2>2. records' \subseteq Records /\ made' \subseteq Records
      BY <1>1, <1>2 DEF TypeOK
    <2>3. victims' \subseteq Records
      BY <2>2
    <2>4. failures' \in 0..MaxFailures
      BY BoundsAssumption DEF TypeOK
    <2> QED BY <1>0, <2>1, <2>2, <2>3, <2>4 DEF TypeOK, DraftType, Callers, Steps
  <1>4. Prepared'
    BY <1>0, <1>1 DEF Prepared, Making
  <1>5. Numbered'
    <2>1. IsFiniteSet(made')
      BY <1>2, FS_AddElement, FS_Subset DEF Numbered
    <2>2. \A r \in made' : r.id <= lastId
      BY <1>0, <1>1, <1>2 DEF Numbered
    <2>3. \A r, q \in made' : r.id = q.id => r = q
      BY <1>0, <1>1, <1>2 DEF Numbered, TypeOK, Records
    <2>4. victims' \subseteq made'
      BY <1>2
    <2> QED BY <1>0, <1>2, <2>1, <2>2, <2>3, <2>4 DEF Numbered
  <1>6. InOrder'
    <2> SUFFICES ASSUME steady' PROVE /\ \A r \in made' : r.at <= now'
                 /\ \A r, q \in made' : r.id < q.id => r.at < q.at
      BY DEF InOrder
    <2>0. steady /\ now' > now
      BY Zenon
    <2>1. now < now' /\ \A r \in made : r.at \in Nat /\ r.at <= now /\ r.id < lastId
      BY <1>0, <2>0 DEF InOrder, Numbered, TypeOK, Records
    <2>2. \A r \in made : r.id \in Nat
      BY DEF TypeOK, Records
    <2> QED BY <1>0, <1>1, <1>2, <2>0, <2>1, <2>2 DEF InOrder
  <1>7. OnlyPastRemoved'
    <2> SUFFICES ASSUME steady' PROVE /\ \A r \in made' : Verified(r)' \/ Past(r)'
                                     /\ \A v \in victims' : Past(v)'
      BY <1>0 DEF OnlyPastRemoved
    <2>1. ASSUME NEW r \in made' PROVE Verified(r)' \/ Past(r)'
      <3>1. CASE r = Stamped
        BY <1>0, <1>1, <1>2, <2>1, <3>1 DEF Verified
      <3>2. CASE r \in made /\ Verified(r)
        BY <1>2, <3>2 DEF Verified
      <3>3. CASE r \in made /\ Past(r)
        <4>1. Cardinality(Newer(r, made)) <= Cardinality(Newer(r, made'))
          BY <1>2, <1>5, NewerGrows DEF Numbered
        <4>2. /\ Cardinality(Newer(r, made)) \in Nat
              /\ Cardinality(Newer(r, made')) \in Nat
          BY <1>2, <1>5, NewerGrows DEF Numbered
        <4> QED BY <3>3, <4>1, <4>2, RetainAssumption DEF Past
      <3> QED BY <1>2, <2>1, <3>1, <3>2, <3>3 DEF OnlyPastRemoved
    <2>2. ASSUME NEW v \in victims' PROVE Past(v)'
      <3>1. CASE pc' = "idle"
        BY <2>2, <3>1
      <3>2. CASE pc' = "retain"
        <4>1. Skipped(victims', draft.source, records')
          BY <3>2
        <4>2. \A r \in made' : r.id \in Nat /\ r.at \in Nat
          BY <1>3 DEF TypeOK, Records
        <4>3. \A r, q \in made' : r.id < q.id => r.at < q.at
          BY <1>6 DEF InOrder
        <4>4. IsFiniteSet(made') /\ \A r, q \in made' : r.id = q.id => r = q
          BY <1>5 DEF Numbered
        <4>5. Cardinality(Newer(v, made')) >= Retain
          BY <1>2, <2>2, <4>1, <4>2, <4>3, <4>4, SkippedArePast
        <4> QED BY <4>5 DEF Past
      <3> QED BY <1>0, <3>1, <3>2
    <2> QED BY <2>1, <2>2
  <1>8. BackedUpFirst'
    BY <1>0 DEF BackedUpFirst
  <1>9. CanRollBack'
    <2>1. \A v \in victims' : v.source = draft'.source
      BY <1>1 DEF Skipped
    <2>2. steady' => steady
      OBVIOUS
    <2>3. Verified(target) => target \in records' /\ target.id \in files'
      BY <1>2 DEF Verified
    <2> QED BY <1>0, <1>1, <2>1, <2>2, <2>3 DEF CanRollBack, Making, Verified
  <1> QED BY <1>3, <1>4, <1>5, <1>6, <1>7, <1>8, <1>9
\* Removing a backup that has Retain later ones keeps the invariant.
LEMMA RemoveKeepsIInv == IInv /\ (RemoveData \/ RemoveManifest) => IInv'
  <1>1. ASSUME IInv, RemoveData PROVE IInv'
    <2> USE <1>1 DEF IInv, RemoveData, goal, count, Works, Trips
    <2>1. PICK v \in victims :
            /\ victim' = v /\ victims' = victims \ {v}
            /\ files \ {v.id} \subseteq files' /\ files' \subseteq files
      OBVIOUS
    <2>2. /\ v \in made /\ pc = "retain" /\ pc' = "removed"
          /\ \A r \in made : r # v => (Verified(r) => Verified(r)')
      BY <2>1 DEF Numbered, Verified
    <2>3. TypeOK'
      <3>1. failures' \in 0..MaxFailures
        BY BoundsAssumption DEF TypeOK
      <3> QED BY <2>1, <3>1 DEF TypeOK, Steps
    <2>4. Prepared' /\ Numbered' /\ InOrder' /\ BackedUpFirst'
      BY <2>1, <2>2 DEF Prepared, Making, Numbered, InOrder, BackedUpFirst
    <2>5. OnlyPastRemoved'
      BY <2>1, <2>2 DEF OnlyPastRemoved, Past, Newer
    <2>6. CanRollBack'
      <3>1. v.source = draft.source
        BY <2>1 DEF CanRollBack
      <3>2. caller = "undo" /\ steady => target \in made /\ target # v
        BY <2>2, <3>1 DEF CanRollBack, Making, Numbered, Verified
      <3> QED BY <2>1, <2>2, <3>1, <3>2 DEF CanRollBack, Making
    <2> QED BY <2>3, <2>4, <2>5, <2>6
  <1>2. ASSUME IInv, RemoveManifest PROVE IInv'
    <2> USE <1>2 DEF IInv, RemoveManifest, goal, count, Works, Trips
    <2>1. /\ victim \in made /\ pc = "removed" /\ pc' = "retain"
          /\ records' \subseteq records
          /\ \A r \in made : r # victim => (Verified(r) => Verified(r)')
      BY DEF Numbered, Verified
    <2>2. TypeOK'
      <3>1. failures' \in 0..MaxFailures
        BY BoundsAssumption DEF TypeOK
      <3> QED BY <2>1, <3>1 DEF TypeOK, Steps
    <2>3. Prepared' /\ Numbered' /\ InOrder' /\ BackedUpFirst'
      BY <2>1 DEF Prepared, Making, Numbered, InOrder, BackedUpFirst
    <2>4. OnlyPastRemoved'
      BY <2>1 DEF OnlyPastRemoved, Past, Newer
    <2>5. CanRollBack'
      <3>1. caller = "undo" /\ steady => target \in made /\ target # victim
        BY <2>1 DEF CanRollBack, Making, Numbered, Verified
      <3> QED BY <2>1, <3>1 DEF CanRollBack, Making
    <2> QED BY <2>2, <2>3, <2>4, <2>5
  <1> QED BY <1>1, <1>2

\* Every step keeps the invariant.
LEMMA NextKeepsIInv == IInv /\ [Next]_vars => IInv'
  <1> SUFFICES ASSUME IInv, [Next]_vars PROVE IInv'
    OBVIOUS
  <1>1. CASE AroundStep
    BY <1>1, AroundKeepsIInv
  <1>2. CASE ReplaceStep
    BY <1>2, ReplaceKeepsIInv
  <1>3. CASE WriteData
    BY <1>3, WriteDataKeepsIInv
  <1>4. CASE WriteManifest
    BY <1>4, WriteManifestKeepsIInv
  <1>5. CASE RemoveData \/ RemoveManifest
    BY <1>5, RemoveKeepsIInv
  <1>6. CASE UNCHANGED vars
    BY <1>6 DEF vars, disk, call, work, goal, count, IInv, TypeOK, Prepared,
       Numbered, InOrder, OnlyPastRemoved, BackedUpFirst, CanRollBack, Past,
       Newer, Verified
  <1> QED BY <1>1, <1>2, <1>3, <1>4, <1>5, <1>6 DEF Next, AroundStep, ReplaceStep

\* The inductive invariant.
THEOREM Invariant == Spec => []IInv
  BY InitIInv, NextKeepsIInv, PTL DEF Spec

\* Every variable keeps its type.
THEOREM TypeCorrect == Spec => []TypeOK
  <1>1. IInv => TypeOK
    BY DEF IInv
  <1> QED BY <1>1, Invariant, PTL

\* apply_retention and every crash in it: a backup leaves the disk only after
\* Retain later ones of its source, while the clock runs forward.
THEOREM RetentionKeepsTheNewest == Spec => []NewestAreKept
  <1>1. IInv => NewestAreKept
    BY DEF IInv, OnlyPastRemoved, NewestAreKept, Past
  <1> QED BY <1>1, Invariant, PTL

\* pull_one and restore_local: the save that is replaced is in a backup.
THEOREM NothingIsLost == Spec => NothingOverwrittenIsLost
  <1> DEFINE A == steady /\ live' # live /\ caller # "none"
                    => \E r \in records : Verified(r) /\ r.what = live
  <1>1. IInv /\ [Next]_vars => [A]_vars
    <2> SUFFICES ASSUME IInv, Next, steady, live' # live, caller # "none"
                 PROVE  \E r \in records : Verified(r) /\ r.what = live
      BY Zenon
    <2>1. Replace \/ ReplaceFails
      BY DEF Next, GameWrites, Relaunch, Kill, CloseBarrier, StartNote,
         StartPull, SkipRestore, StartRestore, QueueRestore, WriteData,
         WriteManifest, RemoveData, RemoveManifest, BackupDone, SourceGone,
         VerifyFails, RollBack, NoRollBack, VerifyPasses, ClearQueue, disk
    <2>2. pc = "replace"
      BY <2>1 DEF Replace, ReplaceFails
    <2> QED BY <2>2 DEF IInv, BackedUpFirst
  <1> QED BY <1>1, Invariant, PTL DEF Spec, NothingOverwrittenIsLost

\* pull_one's rollback: the save from before the pull is back whenever the
\* pull returns an error.
THEOREM PullIsUndone == Spec => FailedPullIsUndone
  <1> DEFINE A == steady /\ PullFails => live' = before
  <1>1. IInv /\ [Next]_vars => [A]_vars
    <2> SUFFICES ASSUME IInv, Next, steady, PullFails PROVE live' = before
      BY Zenon
    <2> USE DEF IInv, PullFails
    <2>1. caller \in {"pull", "undo"} /\ phase = "prelaunch" /\ caller' = "none"
      BY DEF Prepared
    <2>2. CASE WriteData \/ WriteManifest
      <3>1. failures \in Nat
        BY BoundsAssumption DEF TypeOK
      <3>2. caller' = caller \/ Trips
        BY <2>2 DEF WriteData, WriteManifest
      <3>3. caller = "pull"
        BY <2>1, <3>1, <3>2 DEF Trips
      <3> QED BY <2>2, <3>3 DEF WriteData, WriteManifest, CanRollBack, Making
    <2>3. CASE SourceGone \/ NoRollBack
      BY <2>1, <2>3 DEF SourceGone, NoRollBack, CanRollBack, Verified, Readable,
         Prepared
    <2>4. CASE VerifyPasses
      BY <2>1, <2>4 DEF VerifyPasses, CanRollBack, disk
    <2>5. CASE ReplaceFails \/ VerifyFails
      BY <2>1, <2>5, BoundsAssumption DEF ReplaceFails, VerifyFails, GiveUp,
         Trips, TypeOK
    <2>6. CASE BackupDone \/ ClearQueue
      BY <2>1, <2>6 DEF BackupDone, ClearQueue, Prepared
    <2> QED BY <2>1, <2>2, <2>3, <2>4, <2>5, <2>6 DEF Next, GameWrites,
         Relaunch, Kill, CloseBarrier, StartNote, StartPull, SkipRestore,
         StartRestore, QueueRestore, RemoveData, RemoveManifest, Replace,
         RollBack, call
  <1> QED BY <1>1, Invariant, PTL DEF Spec, FailedPullIsUndone
-------------------------------------------------------------------------------
(* Whatever the clock does                                                 *)

Later(r, rs) == {q \in rs : q.source = r.source /\ q.at > r.at}
Outdated(r)  == Cardinality(Later(r, made)) >= Retain

\* Without two backups of one source in the same millisecond, what is removed,
\* or about to be, has Retain backups with a later time stamp
OnlyOutdatedRemoved ==
  Untied => /\ \A r \in made : Verified(r) \/ Outdated(r)
            /\ \A v \in victims : Outdated(v)
            /\ pc = "removed" => Outdated(victim)

\* A larger set of manifests has at least as many later ones.
LEMMA LaterGrows ==
  ASSUME NEW S, IsFiniteSet(S), NEW T \in SUBSET S, NEW r
  PROVE  /\ Cardinality(Later(r, S)) \in Nat
         /\ Cardinality(Later(r, T)) \in Nat
         /\ Cardinality(Later(r, T)) <= Cardinality(Later(r, S))
  <1>1. Later(r, S) \in SUBSET S /\ Later(r, T) \in SUBSET Later(r, S)
    BY DEF Later
  <1>2. IsFiniteSet(Later(r, S))
    BY <1>1, FS_Subset
  <1>3. IsFiniteSet(Later(r, T))
    BY <1>1, <1>2, FS_Subset
  <1> QED BY <1>1, <1>2, <1>3, FS_Subset, FS_CardinalityType

\* The list leaves the Retain latest: what it skips has Retain later ones.
LEMMA SkippedAreOutdated ==
  ASSUME NEW S, IsFiniteSet(S), NEW V, NEW source, NEW rs \in SUBSET S,
         \A r \in S : r.at \in Nat,
         \A r, q \in S : r.source = q.source /\ r.at = q.at => r = q,
         Skipped(V, source, rs)
  PROVE  \A v \in V : Cardinality(Later(v, S)) >= Retain
  <1> DEFINE matching == {r \in rs : r.source = source}
             kept == matching \ V
  <1> SUFFICES ASSUME NEW v \in V PROVE Cardinality(Later(v, S)) >= Retain
    OBVIOUS
  <1>1. V \subseteq matching /\ Cardinality(kept) = Retain
    BY DEF Skipped
  <1>2. \A k \in kept : k \in Later(v, S)
    <2> SUFFICES ASSUME NEW k \in kept PROVE k \in Later(v, S)
      OBVIOUS
    <2>1. v \in S /\ k \in S /\ v # k /\ k.source = v.source /\ v.at <= k.at
      BY <1>1 DEF Skipped
    <2>2. k.at > v.at
      BY <2>1
    <2> QED BY <2>1, <2>2 DEF Later
  <1>3. Later(v, S) \in SUBSET S /\ kept \in SUBSET Later(v, S)
    BY <1>2 DEF Later
  <1>4. IsFiniteSet(Later(v, S))
    BY <1>3, FS_Subset
  <1>5. Cardinality(kept) <= Cardinality(Later(v, S))
    BY <1>3, <1>4, FS_Subset
  <1>6. Cardinality(Later(v, S)) \in Nat
    BY <1>4, FS_CardinalityType
  <1> QED BY <1>1, <1>5, <1>6, RetainAssumption

\* The list that is made with a new manifest skips none of the Retain latest.
LEMMA WriteManifestSparesTheLatest ==
  ASSUME IInv, IInv', OnlyOutdatedRemoved, WriteManifest
  PROVE  OnlyOutdatedRemoved'
  <1> USE DEF WriteManifest, Return, Works, Listed
  <1> SUFFICES ASSUME Untied' PROVE /\ \A r \in made' : Verified(r)' \/ Outdated(r)'
                                    /\ \A v \in victims' : Outdated(v)'
    BY DEF OnlyOutdatedRemoved
  <1>1. /\ made' \in SUBSET (made \cup {Stamped}) /\ made \subseteq made'
        /\ (Stamped \in made' => Stamped \in records')
        /\ records \subseteq records' /\ files' = files
        /\ Stamped.id \in files
    BY DEF IInv, Numbered, Prepared, Stamped, TypeOK, Records
  <1>2. Untied
    BY <1>1 DEF Untied
  <1>3. IsFiniteSet(made') /\ records' \in SUBSET made'
        /\ \A r \in made' : r.at \in Nat
    BY DEF IInv, Numbered, TypeOK, Records
  <1>4. ASSUME NEW r \in made' PROVE Verified(r)' \/ Outdated(r)'
    <2>1. CASE r = Stamped \/ Verified(r)
      BY <1>1, <1>4, <2>1 DEF Verified
    <2>2. CASE r \in made /\ Outdated(r)
      <3>1. /\ Cardinality(Later(r, made)) \in Nat
            /\ Cardinality(Later(r, made')) \in Nat
            /\ Cardinality(Later(r, made)) <= Cardinality(Later(r, made'))
        BY <1>1, <1>3, LaterGrows
      <3> QED BY <2>2, <3>1, RetainAssumption DEF Outdated
    <2> QED BY <1>1, <1>2, <1>4, <2>1, <2>2 DEF OnlyOutdatedRemoved
  <1>5. ASSUME NEW v \in victims' PROVE Outdated(v)'
    <2>1. Skipped(victims', draft.source, records')
      BY <1>5 DEF IInv, Prepared
    <2>2. \A r, q \in made' : r.source = q.source /\ r.at = q.at => r = q
      BY DEF Untied
    <2>3. Cardinality(Later(v, made')) >= Retain
      BY <1>3, <1>5, <2>1, <2>2, SkippedAreOutdated
    <2> QED BY <2>3 DEF Outdated
  <1> QED BY <1>4, <1>5

\* Every other step makes no manifest and removes only what was skipped.
LEMMA NextSparesTheLatest ==
  ASSUME IInv, IInv', OnlyOutdatedRemoved, [Next]_vars
  PROVE  OnlyOutdatedRemoved'
  <1> USE DEF IInv, OnlyOutdatedRemoved, Untied, Outdated, Later, Verified
  <1>1. CASE WriteManifest
    BY <1>1, WriteManifestSparesTheLatest
  <1>2. CASE RemoveData
    <2>1. PICK v \in victims :
            /\ victim' = v /\ victims' = victims \ {v}
            /\ files \ {v.id} \subseteq files'
      BY <1>2 DEF RemoveData, Works, Trips
    <2>2. \A r \in made : r # v /\ Verified(r) => Verified(r)'
      BY <1>2, <2>1 DEF RemoveData, Numbered
    <2> QED BY <1>2, <2>1, <2>2 DEF RemoveData
  <1>3. CASE RemoveManifest
    <2>1. /\ UNCHANGED <<made, files, victims>>
          /\ pc = "removed" /\ pc' = "retain"
          /\ records \ {victim} \subseteq records'
      BY <1>3 DEF RemoveManifest, Works, Trips
    <2> QED BY <2>1
  <1>4. CASE WriteData
    BY <1>4 DEF WriteData, Return, Works, Trips, work, Numbered, Prepared
  <1>5. CASE AroundStep
    BY <1>5 DEF AroundStep, GameWrites, Relaunch, CloseBarrier, StartNote,
       StartPull, SkipRestore, StartRestore, QueueRestore, disk, call, work
  <1>6. CASE ReplaceStep
    <2>1. /\ UNCHANGED <<made, files, records>>
          /\ victims' \subseteq victims /\ pc' # "removed"
      BY <1>6 DEF ReplaceStep, Kill, BackupDone, Replace, SourceGone,
         ReplaceFails, VerifyFails, RollBack, NoRollBack, VerifyPasses,
         ClearQueue, disk, call, work, goal, count, Return, GiveUp
    <2> QED BY <2>1
  <1>7. CASE UNCHANGED vars
    BY <1>7 DEF vars, disk, call, work
  <1> QED BY <1>1, <1>2, <1>3, <1>4, <1>5, <1>6, <1>7
          DEF Next, AroundStep, ReplaceStep

\* A set of time stamps has a greatest one.
LEMMA Greatest ==
  ASSUME NEW N \in Nat, NEW T \in SUBSET (0..N), T # {}
  PROVE  \E m \in T : \A t \in T : t <= m
  <1> DEFINE R == OpToRel(<, Nat)
             D == {n \in Nat : N - n \in T}
  <1>1. D # {} /\ D \subseteq Nat
    <2>1. PICK t \in T : TRUE
      OBVIOUS
    <2>2. N - t \in Nat /\ N - (N - t) = t
      OBVIOUS
    <2> QED BY <2>1, <2>2
  <1>2. PICK d \in D : \A e \in D : ~ (<<e, d>> \in R)
    <2> HIDE DEF D, R
    <2>1. IsWellFoundedOn(R, Nat)
      BY NatLessThanWellFounded, Zenon DEF R
    <2> QED BY <1>1, <2>1, WFMin
  <1>3. \A e \in D : ~ (e < d)
    BY <1>2 DEF OpToRel
  <1>4. \A t \in T : N - t \in D
    OBVIOUS
  <1>5. ASSUME NEW t \in T PROVE t <= N - d
    <2>1. t \in Nat /\ d \in Nat /\ ~ (N - t < d)
      BY <1>3, <1>4
    <2> QED BY ONLY <2>1, N \in Nat
  <1>6. N - d \in T
    OBVIOUS
  <1> QED BY <1>5, <1>6

\* Of the backups of a source that are not whole, the latest has only whole
\* ones after it, and at least Retain of them.
THEOREM RetentionKeepsEnough == Spec => []EnoughAreRetained
  <1>1. Init => OnlyOutdatedRemoved
    BY DEF Init, OnlyOutdatedRemoved
  <1>2. IInv /\ IInv' /\ OnlyOutdatedRemoved /\ [Next]_vars
          => OnlyOutdatedRemoved'
    BY NextSparesTheLatest
  <1>3. IInv /\ OnlyOutdatedRemoved => EnoughAreRetained
    <2> DEFINE all(s)  == {r \in made : r.source = s}
               here(s) == {r \in all(s) : Verified(r)}
    <2> SUFFICES ASSUME IInv, OnlyOutdatedRemoved, Untied, NEW s \in Sources
                 PROVE  Cardinality(here(s)) >=
                          IF Cardinality(all(s)) < Retain
                          THEN Cardinality(all(s)) ELSE Retain
      BY DEF EnoughAreRetained
    <2> DEFINE stamps == {r.at : r \in all(s) \ here(s)}
    <2>1. IsFiniteSet(made) /\ all(s) \in SUBSET made /\ here(s) \in SUBSET all(s)
          /\ \A r \in made : r.at \in 0..MaxTime
      BY DEF IInv, Numbered, TypeOK, Records
    <2>2. IsFiniteSet(all(s)) /\ IsFiniteSet(here(s))
      BY <2>1, FS_Subset
    <2>3. Cardinality(all(s)) \in Nat /\ Cardinality(here(s)) \in Nat
      BY <2>2, FS_CardinalityType
    <2>4. CASE all(s) = here(s)
      <3> HIDE DEF all, here
      <3>1. Cardinality(all(s)) = Cardinality(here(s))
        BY <2>4
      <3> QED BY <2>3, <3>1, RetainAssumption
    <2>5. CASE all(s) # here(s)
      <3>1. stamps \in SUBSET (0..MaxTime) /\ stamps # {}
        BY <2>1, <2>5
      <3>2. PICK m \in stamps : \A t \in stamps : t <= m
        <4> HIDE DEF stamps
        <4> QED BY <3>1, BoundsAssumption, Greatest
      <3>3. PICK r \in all(s) \ here(s) : r.at = m
        BY <3>2
      <3>4. Outdated(r)
        BY <3>3 DEF OnlyOutdatedRemoved
      <3>5. Later(r, made) \in SUBSET here(s)
        <4> SUFFICES ASSUME NEW q \in Later(r, made) PROVE q \in here(s)
          OBVIOUS
        <4>1. q \in all(s) /\ q.at > r.at
          BY <3>3 DEF Later
        <4>2. q.at \in stamps => q.at <= r.at
          BY <3>2, <3>3
        <4>3. q \in made /\ r \in made /\ q.at \in Nat /\ r.at \in Nat
          BY <2>1, <3>3, <4>1
        <4>4. q.at \notin stamps
          BY ONLY <4>1, <4>2, <4>3
        <4> QED BY <4>1, <4>4
      <3>6. Cardinality(Later(r, made)) <= Cardinality(here(s))
            /\ Cardinality(Later(r, made)) \in Nat
        BY <2>2, <3>5, FS_Subset, FS_CardinalityType
      <3> QED BY <2>3, <3>4, <3>6, RetainAssumption DEF Outdated
    <2> QED BY <2>4, <2>5
  <1> QED BY <1>1, <1>2, <1>3, Invariant, PTL DEF Spec
===============================================================================
