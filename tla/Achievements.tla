----------------------------- MODULE Achievements -----------------------------
(***************************************************************************)
(* Achievement synchronisation: what the saves of the phone show as        *)
(* unlocked is added to the achievements of the Steam account, which other *)
(* clients change too and which Steam does not serve from one place.       *)
(*                                                                         *)
(* Steam keeps the achievements as bits of stat groups.  A store writes    *)
(* whole groups, so it could clear a bit; it carries the checksum of the   *)
(* stats it was built from, and Steam refuses it when they have changed.   *)
(* One operation runs at a time: it has the operation lane and holds the   *)
(* session.  A step of it is what it does between two answers of Steam.    *)
(***************************************************************************)
EXTENDS FiniteSets, Naturals

CONSTANTS
  Ids,             \* the achievements a save may show as unlocked
  Groups,          \* the stat groups of Steam's schema: disjoint sets of Ids
  Slots,           \* the save slots
  VerifyAttempts,  \* VERIFY_ATTEMPTS
  MaxFaults        \* bound: failures, and saves that are replaced

ASSUME GroupsAssumption ==
  /\ Groups \subseteq SUBSET Ids
  /\ \A g, h \in Groups : g \cap h # {} => g = h

ASSUME BoundsAssumption == VerifyAttempts \in Nat \ {0} /\ MaxFaults \in Nat

VARIABLES
  saves,     \* per slot, the achievements its save has unlocked
  unlocked,  \* the account's unlocked achievements, as Steam stores them
  lagging,   \* and as a read may still show them
  cache,     \* CACHE: the achievements the panel lists
  op,        \* the operation in the lane
  report,    \* what the last operation reported
  faults     \* the number of faults so far

vars == <<saves, unlocked, lagging, cache, op, report, faults>>

Known == UNION Groups
Steps == {"idle", "collect", "compare", "refresh", "store", "confirm", "verify"}

\* The achievement list of an answer: Steam's schema names Known, unless it did not
\* come and the list is empty.
Lists == [names : {{}, Known}, achieved : SUBSET Known]
EmptyList == [names |-> {}, achieved |-> {}]

Idle == [at |-> "idle", todo |-> {}, local |-> {}, previous |-> {},
         names |-> {}, stats |-> {}, present |-> {}, crc |-> {},
         attempt |-> 0]

NoReport == [ok |-> FALSE, local |-> {}, added |-> {}]

TypeOK ==
  /\ saves \in [Slots -> SUBSET Ids]
  /\ unlocked \subseteq Known /\ lagging \subseteq Known
  /\ cache \in Lists
  /\ op \in [at : Steps, todo : SUBSET Slots, local : SUBSET Ids,
             previous : SUBSET Known, names : SUBSET Known,
             stats : SUBSET Known, present : SUBSET Groups,
             crc : SUBSET Known, attempt : 0..VerifyAttempts]
  /\ report \in [ok : BOOLEAN, local : SUBSET Known, added : SUBSET Known]
  /\ faults \in 0..MaxFaults

Init ==
  /\ saves = [s \in Slots |-> {}]
  /\ unlocked \in SUBSET Known /\ lagging = unlocked
  /\ cache = EmptyList
  /\ op = Idle
  /\ report = NoReport
  /\ faults = 0

\* --------------------------------------------------------------- environment

Fault == faults < MaxFaults /\ faults' = faults + 1

\* The game unlocks an achievement and writes its save.
GameUnlocks(s, a) ==
  /\ a \notin saves[s]
  /\ saves' = [saves EXCEPT ![s] = @ \cup {a}]
  /\ UNCHANGED <<unlocked, lagging, cache, op, report, faults>>

\* A pull or a restore puts another save in the slot; both need the lane.
SaveReplaced(s) ==
  /\ op.at = "idle" /\ Fault
  /\ \E progress \in SUBSET Ids : saves' = [saves EXCEPT ![s] = progress]
  /\ UNCHANGED <<unlocked, lagging, cache, op, report>>

\* Another client of the account unlocks one.
OtherUnlocks(a) ==
  /\ a \notin unlocked
  /\ unlocked' = unlocked \cup {a}
  /\ UNCHANGED <<saves, lagging, cache, op, report, faults>>

\* What Steam serves catches up with what it stores.
CatchUp ==
  /\ lagging # unlocked
  /\ lagging' = unlocked
  /\ UNCHANGED <<saves, unlocked, cache, op, report, faults>>

Views == {unlocked, lagging}

\* ------------------------------------------------------------- the operation

Report(ok, added) == [ok |-> ok, local |-> op.local \cap Known,
                      added |-> added]

Finish(ok, added) ==
  /\ op' = Idle
  /\ report' = Report(ok, added)

\* get_player_achievements: the names of the schema, achieved as far as Steam sent
\* their groups, or after a refused request an empty list.  An answer that Steam
\* calls a failure but that has the schema counts too, and nothing tells a list
\* that lacks groups, or all, from a whole one.
Answer(list) ==
  \/ \E view \in Views, some \in SUBSET Groups :
       /\ list = [names |-> Known, achieved |-> view \cap UNION some]
       /\ IF some = Groups THEN UNCHANGED faults ELSE Fault
  \/ list = EmptyList /\ Fault

\* sync_achievements, or "Sync Now" once its slots are done.
Begin ==
  /\ op.at = "idle"
  /\ op' = [Idle EXCEPT !.at = "collect", !.todo = Slots]
  /\ report' = NoReport
  /\ UNCHANGED <<saves, unlocked, lagging, cache, faults>>

\* MUTANT: the first save is taken for all of them.
MReadSaveOnce(s) ==
  op' = [op EXCEPT !.local = @ \cup saves[s], !.todo = {}]

\* The unlocks of one more save join the ones read so far.
ReadSave(s) ==
  op' = [op EXCEPT !.local = @ \cup saves[s], !.todo = @ \ {s}]

Collect(s) ==
  /\ op.at = "collect" /\ s \in op.todo
  /\ ReadSave(s)
  /\ UNCHANGED <<saves, unlocked, lagging, cache, report, faults>>

\* All saves are read; without an unlock there is nothing to ask Steam.
Collected ==
  /\ op.at = "collect" /\ op.todo = {}
  /\ IF op.local = {}
     THEN Finish(TRUE, {})
     ELSE op' = [op EXCEPT !.at = "compare"] /\ UNCHANGED report
  /\ UNCHANGED <<saves, unlocked, lagging, cache, faults>>

\* names_to_add: what the saves have, and the list names and has not.
Missing(list) == (op.local \cap list.names) \ list.achieved

Compare ==
  /\ op.at = "compare"
  /\ \E list \in Lists :
       /\ Answer(list)
       /\ cache' = list
       /\ IF Missing(list) = {}
          THEN Finish(TRUE, {})
          ELSE /\ op' = [op EXCEPT !.at = "refresh", !.previous = list.achieved,
                                   !.names = Missing(list)]
               /\ UNCHANGED report
  /\ UNCHANGED <<saves, unlocked, lagging>>

\* store_missing_unlocks reads the stats again, with their checksum.  Steam may
\* leave groups out of the answer.
RefreshStats ==
  /\ op.at = "refresh"
  /\ \E view \in Views, some \in SUBSET Groups :
       /\ op' = [op EXCEPT !.at = "store", !.crc = view,
                           !.stats = view \cap UNION some, !.present = some]
       /\ IF some = Groups THEN UNCHANGED faults ELSE Fault
  /\ UNCHANGED <<saves, unlocked, lagging, cache, report>>

\* build_additive_stats: the groups that gain a bit ...
Changed == {g \in Groups : (g \cap op.names) \ op.stats # {}}

\* MUTANT: a group that Steam left out counts as zero.
MGroupsDefaultToZero == TRUE

\* ... and whether the value of each group that is needed was in the answer.
GroupsPresent == \A g \in Groups : g \cap op.names # {} => g \in op.present

RefuseUnsafeWrite ==
  /\ op.at = "store" /\ ~GroupsPresent
  /\ Finish(FALSE, {})
  /\ UNCHANGED <<saves, unlocked, lagging, cache, faults>>

\* Every bit is there already: the store is skipped, the list is read once.
NothingToStore ==
  /\ op.at = "store" /\ GroupsPresent /\ Changed = {}
  /\ op' = [op EXCEPT !.at = "confirm"]
  /\ UNCHANGED <<saves, unlocked, lagging, cache, report, faults>>

\* What the account has once the given groups are written.
Written(groups) ==
  (unlocked \ UNION groups) \cup ((op.stats \cup op.names) \cap UNION groups)

\* Steam compares the checksum that came with the stats, also with those of the
\* groups that it left out, with the stats it has.
ChecksumMatches == op.crc = unlocked

\* ClientStoreUserStats2 is accepted; Steam may still drop a part of it.
Store ==
  /\ op.at = "store" /\ GroupsPresent /\ Changed # {}
  /\ ChecksumMatches
  /\ \/ unlocked' = Written(Changed) /\ UNCHANGED faults
     \/ Fault /\ \E some \in SUBSET Changed : unlocked' = Written(some)
  /\ op' = [op EXCEPT !.at = "verify", !.attempt = 0]
  /\ UNCHANGED <<saves, lagging, cache, report>>

\* stats_out_of_date: somebody changed the stats since they were read.
StoreOutOfDate ==
  /\ op.at = "store" /\ GroupsPresent /\ Changed # {}
  /\ ~ChecksumMatches
  /\ Finish(FALSE, {})
  /\ UNCHANGED <<saves, unlocked, lagging, cache, faults>>

\* stats_failed_validation, another result, or an answer that does not arrive:
\* Steam may have written some of the groups.
StoreFails ==
  /\ op.at = "store" /\ GroupsPresent /\ Changed # {}
  /\ ChecksumMatches /\ Fault
  /\ \E some \in SUBSET Changed : unlocked' = Written(some)
  /\ Finish(FALSE, {})
  /\ UNCHANGED <<saves, lagging, cache>>

\* MUTANT: an accepted store is taken for a verified one.
MAllVerified(list) == TRUE

AllVerified(list) == op.names \subseteq list.achieved

\* The previous unlocks must still be there; then the panel lists what was read
\* back, and the operation succeeds if every name it asked for is among it.
Conclude(list) ==
  IF op.previous \subseteq list.achieved
  THEN /\ cache' = list
       /\ IF AllVerified(list) THEN Finish(TRUE, op.names)
                               ELSE Finish(FALSE, {})
  ELSE Finish(FALSE, {}) /\ UNCHANGED cache

\* The read after a store that was not needed.
Confirm ==
  /\ op.at = "confirm"
  /\ \E list \in Lists : Answer(list) /\ Conclude(list)
  /\ UNCHANGED <<saves, unlocked, lagging>>

\* MUTANT: the loop goes round until the count is past its bound.
MLastAttempt == op.attempt > VerifyAttempts

LastAttempt == op.attempt + 1 = VerifyAttempts

\* The list is read back until it shows the unlocks, at most VERIFY_ATTEMPTS
\* times; the last list is the one that counts.
Verify ==
  /\ op.at = "verify"
  /\ \E list \in Lists :
       /\ Answer(list)
       /\ IF AllVerified(list) \/ LastAttempt
          THEN Conclude(list)
          ELSE /\ op' = [op EXCEPT !.attempt = @ + 1]
               /\ UNCHANGED <<cache, report>>
  /\ UNCHANGED <<saves, unlocked, lagging>>

\* A save cannot be read or parsed, a request fails or is not answered.
OperationFails ==
  /\ op.at \in {"collect", "compare", "refresh", "confirm", "verify"}
  /\ Fault
  /\ Finish(FALSE, {})
  /\ UNCHANGED <<saves, unlocked, lagging, cache>>

\* ------------------------------------------------------------- specification

Operation ==
  \/ \E s \in Slots : Collect(s)
  \/ Collected \/ Compare \/ RefreshStats \/ RefuseUnsafeWrite \/ NothingToStore
  \/ Store \/ StoreOutOfDate \/ StoreFails \/ Confirm \/ Verify
  \/ OperationFails

Next ==
  \/ \E s \in Slots : SaveReplaced(s) \/ \E a \in Ids : GameUnlocks(s, a)
  \/ \E a \in Known : OtherUnlocks(a)
  \/ CatchUp \/ Begin \/ Operation

Spec == Init /\ [][Next]_vars

\* The user asks again, Steam answers and catches up.
FairSpec == Spec /\ WF_vars(Begin) /\ WF_vars(Operation) /\ WF_vars(CatchUp)

\* ---------------------------------------------------------------- properties

\* An achievement that is unlocked on Steam is never cleared: not by a save that
\* has less, not when another client unlocks one while the store is built, and
\* not when Steam leaves a group out of its answer (build_additive_stats).
NeverCleared == [][unlocked \subseteq unlocked']_vars

\* What the panel lists as achieved, and what an operation reports as added, is
\* unlocked on Steam, also when Steam accepted a store and dropped a part of it
\* (the read-back of store_missing_unlocks and the count after it).
UnlockedIsTrue == cache.achieved \cup report.added \subseteq unlocked

\* While the user keeps asking, all that the saves have unlocked and the schema
\* names ends up unlocked on Steam, whatever failed, was lost, was changed by
\* another client or was read too early before.
EventuallyUnlocked ==
  <>[](UNION {saves[s] : s \in Slots} \cap Known \subseteq unlocked)

\* "Steam Cloud and save-derived achievements are synchronized" is true: after
\* an operation that reported success, Steam has every unlock that it read from
\* the saves and that the schema names (report_achievement_result).
SynchronizedIsTrue == report.ok => report.local \subseteq unlocked
================================================================================
