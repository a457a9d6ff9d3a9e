----------------------------- MODULE SignInProofs -----------------------------
(***************************************************************************)
(* Proofs about signing in, for any number of attempts: a cancel in time   *)
(* stores nothing, and a code goes to the sign-in that runs or to nobody.  *)
(***************************************************************************)
EXTENDS SignIn, TLAPS

USE DEF Nobody, Kinds, Guards, Someone, handles, facts, status, history

Mains == [at : MainSteps, attempt : Someone, kind : Kinds, previous : Someone]
Tasks == [at : TaskSteps, attempt : Someone, kind : Kinds,
          guard : Guards, ok : BOOLEAN]

\* A task in the lane is that of a sign-in, and nothing else is.
LaneHasTask ==
  /\ lane = "signIn" <=> task.at # "none"
  /\ task.at = "none" <=> task.attempt = Nobody

\* connect_* works on the newest sign-in, which no task has begun.
Connecting == main.at \in {"sender", "spawn", "undoSender", "undoFlag"}

NewestIsConnecting ==
  /\ task.attempt <= attempts
  /\ Connecting => main.attempt = attempts /\ task.attempt < main.attempt
  /\ main.at = "store" => main.attempt # Nobody
  /\ main.at \in {"sender", "undoSender"} => main.kind = "credentials"

\* connect_credentials has put in the sender of the sign-in it starts.
Offers == main.at \in {"spawn", "undoSender"} /\ main.kind = "credentials"

\* The sender is gone, or the task's, or the one of connect_*.
SenderHasOwner ==
  \/ guard_sender \in {Nobody, task.attempt}
  \/ Offers /\ guard_sender = main.attempt

\* The task has dropped its sender, if it had one.
Late == {"dropFlag", "check", "keep", "finish", "sync", "end"}

\* A task whose sender is in place has credentials and has not dropped it.
SenderOfTask ==
  guard_sender = task.attempt =>
    \/ guard_sender = Nobody
    \/ /\ task.kind = "credentials"
       /\ task.at \notin Late

\* A flag counts as set in time only when it is set, and never once the task
\* has looked for the last time and goes on.
InTimeIsSeen ==
  /\ inTime \subseteq cancelled
  /\ task.at = "keep" => task.attempt \notin inTime

IInv ==
  /\ TypeOK /\ LaneHasTask /\ NewestIsConnecting
  /\ SenderHasOwner /\ SenderOfTask
  /\ InTimeIsSeen /\ CancelInTimeStoresNothing

USE DEF IInv, vars

\* A step of the task that leaves the handles, the flags and the lane alone.
Quiet ==
  /\ task' \in Tasks
  /\ task'.attempt = task.attempt /\ task'.kind = task.kind
  /\ task.at # "none" /\ task'.at # "none"
  /\ task'.at \in Late => task.at \in Late \/ task.kind = "qr"
  /\ task'.at = "keep" => task.attempt \notin cancelled
  /\ UNCHANGED <<attempts, handles, facts, main, lane, shown, history>>
  /\ phase' \in Phases /\ connected' \in BOOLEAN

\* What the type invariant says, one variable at a time.
LEMMA Typed ==
  ASSUME TypeOK
  PROVE  /\ attempts \in 0..MaxAttempts
         /\ main \in Mains /\ task \in Tasks
         /\ auth_cancel \in Someone /\ guard_sender \in Someone
         /\ phase \in Phases /\ connected \in BOOLEAN
  BY DEF TypeOK, Mains, Tasks

\* Such a step keeps the invariant.
LEMMA QuietKeeps ==
  ASSUME IInv, Quiet
  PROVE  IInv'
<1>1. TypeOK'
  BY Typed DEF Quiet, TypeOK, Mains, Tasks
<1>2. LaneHasTask' /\ NewestIsConnecting'
  BY DEF Quiet, LaneHasTask, NewestIsConnecting, Connecting
<1>3. SenderHasOwner' /\ SenderOfTask'
  BY DEF Quiet, SenderHasOwner, Offers, SenderOfTask
<1>4. InTimeIsSeen' /\ CancelInTimeStoresNothing'
  BY DEF Quiet, InTimeIsSeen, CancelInTimeStoresNothing
<1> QED BY <1>1, <1>2, <1>3, <1>4

\* A task goes on to any step that Quiet allows ...
LEMMA GoesIsQuiet ==
  ASSUME IInv, NEW from \in TaskSteps, NEW at \in TaskSteps, Goes(from, at),
         from # "none", at # "none",
         at \in Late => from \in Late,
         at = "keep" => task.attempt \notin cancelled,
         UNCHANGED <<handles, codes, stored>>, phase' \in Phases
  PROVE  Quiet
<1>1. task \in Tasks /\ task.at = from /\ connected \in BOOLEAN
  BY Typed DEF Goes
<1>2. task' = [task EXCEPT !.at = at]
  BY DEF Goes
<1>3. /\ task' \in Tasks /\ task'.at = at
      /\ task'.attempt = task.attempt /\ task'.kind = task.kind
  BY <1>1, <1>2 DEF Tasks
<1> QED BY <1>1, <1>3 DEF Goes, Quiet

\* ... and so it does when connect_with_* returns.
LEMMA ReturnsIsQuiet ==
  ASSUME IInv, NEW from \in TaskSteps, NEW ok \in BOOLEAN, Returns(from, ok),
         from # "none", UNCHANGED codes
  PROVE  Quiet
<1>1. task \in Tasks /\ task.at = from /\ connected \in BOOLEAN
      /\ phase \in Phases
  BY Typed DEF Returns
<1>2. task' = [task EXCEPT !.ok = ok,
                 !.at = IF task.kind = "qr" THEN "dropFlag" ELSE "dropSender"]
  BY DEF Returns
<1>3. /\ task' \in Tasks
      /\ task'.attempt = task.attempt /\ task'.kind = task.kind
      /\ task'.at = IF task.kind = "qr" THEN "dropFlag" ELSE "dropSender"
  BY <1>1, <1>2 DEF Tasks, TaskSteps
<1> QED BY <1>1, <1>3 DEF Returns, Quiet, Late

\* The steps of the task up to its last look at the flag.
LEMMA TaskIsQuiet ==
  ASSUME IInv,
         \/ BeginAnswered \/ Prompt \/ CodeArrives \/ NoCodeCanArrive
         \/ CodeAccepted \/ PollCancelled \/ Poll \/ Pending \/ Approved
         \/ LoggedOn \/ StepFails \/ GoOn
  PROVE  Quiet
<1> USE DEF TaskSteps, Late
<1>1. CASE BeginAnswered
  <2>1. PICK guard \in Guards :
          task' = [task EXCEPT !.guard = guard,
                     !.at = IF guard = "none" THEN "poll" ELSE "prompt"]
    BY <1>1 DEF BeginAnswered
  <2>2. /\ task' \in Tasks /\ task'.at \in {"poll", "prompt"}
        /\ task'.attempt = task.attempt /\ task'.kind = task.kind
    BY <2>1, Typed DEF Tasks
  <2> QED BY <1>1, <2>2, Typed DEF BeginAnswered, Quiet
<1>2. CASE Prompt
  BY <1>2, GoesIsQuiet DEF Prompt, Phases
<1>3. CASE CodeArrives \/ CodeAccepted \/ Poll \/ Approved
  BY <1>3, Typed, GoesIsQuiet DEF CodeArrives, CodeAccepted, Poll, Approved
<1>4. CASE Pending
  BY <1>4, Typed, GoesIsQuiet DEF Pending, Phases
<1>5. CASE GoOn
  BY <1>5, Typed, GoesIsQuiet DEF GoOn
<1>6. CASE NoCodeCanArrive \/ PollCancelled \/ LoggedOn \/ StepFails
  BY <1>6, ReturnsIsQuiet
     DEF NoCodeCanArrive, PollCancelled, LoggedOn, StepFails
<1> QED BY <1>1, <1>2, <1>3, <1>4, <1>5, <1>6

\* The steps of the task after it.
LEMMA EndingIsQuiet ==
  ASSUME IInv, Abandon \/ FinishLogin \/ Synchronise \/ AfterLoginFails
  PROVE  Quiet
<1> USE DEF TaskSteps, Late, Phases
<1>1. CASE Abandon
  <2>1. task' \in Tasks /\ task'.at = "end"
        /\ task'.attempt = task.attempt /\ task'.kind = task.kind
    BY <1>1, Typed DEF Abandon, Tasks
  <2> QED BY <1>1, <2>1, Typed DEF Abandon, Quiet
<1>2. CASE FinishLogin
  <2>1. task' \in Tasks /\ task'.at = "sync"
        /\ task'.attempt = task.attempt /\ task'.kind = task.kind
    BY <1>2, Typed DEF FinishLogin, Tasks
  <2> QED BY <1>2, <2>1, Typed DEF FinishLogin, Quiet
<1>3. CASE Synchronise
  BY <1>3, GoesIsQuiet DEF Synchronise
<1>4. CASE AfterLoginFails
  <2>1. task' \in Tasks /\ task'.at = "end"
        /\ task'.attempt = task.attempt /\ task'.kind = task.kind
    BY <1>4, Typed DEF AfterLoginFails, Tasks
  <2> QED BY <1>4, <2>1, Typed DEF AfterLoginFails, Quiet
<1> QED BY <1>1, <1>2, <1>3, <1>4

\* The other steps of the task, and those of another operation.
LEMMA LaneKeeps ==
  ASSUME IInv, \/ DropSender \/ DropFlag \/ StoreToken \/ EndTask
               \/ OtherBegins \/ OtherEnds
  PROVE  IInv'
<1> USE Typed DEF Late, Phases, TaskSteps
<1>1. CASE DropSender
  <2>1. task' \in Tasks /\ task'.at = "dropFlag"
        /\ task'.attempt = task.attempt /\ task'.kind = task.kind
    BY <1>1 DEF DropSender, Goes, Tasks
  <2>2. TypeOK'
    BY <1>1, <2>1 DEF DropSender, Goes, TypeOK, Tasks, Mains
  <2> QED BY <1>1, <2>1, <2>2
      DEF DropSender, Goes, LaneHasTask, NewestIsConnecting, Connecting,
          SenderHasOwner, Offers, SenderOfTask, InTimeIsSeen,
          CancelInTimeStoresNothing
<1>2. CASE DropFlag
  <2>1. task' \in Tasks /\ task'.at = "check"
        /\ task'.attempt = task.attempt /\ task'.kind = task.kind
    BY <1>2 DEF DropFlag, Goes, Tasks
  <2>2. TypeOK'
    BY <1>2, <2>1 DEF DropFlag, Goes, TypeOK, Tasks, Mains
  <2> QED BY <1>2, <2>1, <2>2
      DEF DropFlag, Goes, LaneHasTask, NewestIsConnecting, Connecting,
          SenderHasOwner, Offers, SenderOfTask, InTimeIsSeen,
          CancelInTimeStoresNothing
<1>3. CASE StoreToken
  <2>1. task' \in Tasks /\ task'.at = "finish"
        /\ task'.attempt = task.attempt /\ task'.kind = task.kind
    BY <1>3 DEF StoreToken, Goes, Tasks
  <2>2. task.attempt \in Attempts /\ task.attempt \notin inTime
    BY <1>3 DEF StoreToken, Goes, Tasks, LaneHasTask, InTimeIsSeen
  <2>3. TypeOK'
    BY <1>3, <2>1, <2>2 DEF StoreToken, Goes, TypeOK, Tasks, Mains
  <2> QED BY <1>3, <2>1, <2>2, <2>3
      DEF StoreToken, Goes, LaneHasTask, NewestIsConnecting, Connecting,
          SenderHasOwner, Offers, SenderOfTask, InTimeIsSeen,
          CancelInTimeStoresNothing
<1>4. CASE EndTask
  <2>1. task' \in Tasks /\ task'.at = "none" /\ task'.attempt = Nobody
    BY <1>4 DEF EndTask, NoTask, Tasks
  <2>2. TypeOK'
    BY <1>4, <2>1 DEF EndTask, TypeOK, Tasks, Mains
  <2>3. NewestIsConnecting'
    BY <1>4, <2>1
       DEF EndTask, NewestIsConnecting, Connecting, Attempts, Tasks
  <2> QED BY <1>4, <2>1, <2>2, <2>3
      DEF EndTask, LaneHasTask, SenderHasOwner, Offers, SenderOfTask,
          InTimeIsSeen, CancelInTimeStoresNothing
<1>5. CASE OtherBegins \/ OtherEnds
  <2>1. TypeOK'
    BY <1>5 DEF OtherBegins, OtherEnds, TypeOK
  <2> QED BY <1>5, <2>1
      DEF OtherBegins, OtherEnds, LaneHasTask, NewestIsConnecting, Connecting,
          SenderHasOwner, Offers, SenderOfTask, InTimeIsSeen,
          CancelInTimeStoresNothing
<1> QED BY <1>1, <1>2, <1>3, <1>4, <1>5

\* connect_* on the main thread keeps the invariant.
LEMMA ConnectKeeps ==
  ASSUME IInv, \/ \E kind \in Kinds : Connect(kind)
               \/ ReplaceSender \/ Spawn \/ Refused \/ UndoSender \/ UndoFlag
  PROVE  IInv'
<1> USE Typed, AttemptsAssumption DEF MainSteps, Phases, TaskSteps
<1>1. CASE \E kind \in Kinds : Connect(kind)
  <2>1. PICK kind \in Kinds : Connect(kind)
    BY <1>1
  <2>2. /\ attempts' \in 1..MaxAttempts /\ attempts' = attempts + 1
        /\ task.attempt < attempts' /\ attempts \in Nat
    BY <2>1 DEF Connect, NewestIsConnecting, Tasks, Attempts
  <2>3. /\ main' \in Mains
        /\ main'.at = IF kind = "qr" THEN "spawn" ELSE "sender"
        /\ main'.attempt = attempts' /\ main'.kind = kind
    BY <2>1, <2>2 DEF Connect, Mains, Attempts
  <2>4. TypeOK'
    BY <2>1, <2>2, <2>3 DEF Connect, TypeOK, Mains, Attempts
  <2>5. NewestIsConnecting'
    BY <2>1, <2>2, <2>3, <2>4
       DEF Connect, NewestIsConnecting, Connecting, Tasks, Attempts
  <2>6. SenderHasOwner' /\ SenderOfTask'
    BY <2>1, <2>3 DEF Connect, SenderHasOwner, Offers, SenderOfTask
  <2> QED BY <2>1, <2>4, <2>5, <2>6
      DEF Connect, LaneHasTask, InTimeIsSeen, CancelInTimeStoresNothing
<1>2. CASE ReplaceSender
  <2>1. /\ main' \in Mains /\ main'.at = "spawn"
        /\ main'.attempt = main.attempt /\ main'.kind = "credentials"
        /\ main.attempt \in Someone
    BY <1>2 DEF ReplaceSender, Mains, NewestIsConnecting
  <2>2. TypeOK'
    BY <1>2, <2>1 DEF ReplaceSender, TypeOK, Mains
  <2>3. main.attempt = attempts /\ task.attempt < main.attempt
    BY <1>2 DEF ReplaceSender, NewestIsConnecting, Connecting
  <2>4. SenderHasOwner' /\ NewestIsConnecting'
    BY <1>2, <2>1, <2>3
       DEF ReplaceSender, SenderHasOwner, Offers, NewestIsConnecting, Connecting
  <2>5. task.attempt # main.attempt
    BY <2>3 DEF Tasks, Attempts
  <2> QED BY <1>2, <2>1, <2>2, <2>4, <2>5
      DEF ReplaceSender, LaneHasTask, SenderOfTask, InTimeIsSeen,
          CancelInTimeStoresNothing
<1>3. CASE Spawn
  <2>1. task.at = "none" /\ task.attempt = Nobody
    BY <1>3 DEF Spawn, LaneHasTask
  <2>2. /\ main.attempt \in Attempts /\ main.attempt = attempts
        /\ main.kind \in Kinds
    BY <1>3, <2>1 DEF Spawn, NewestIsConnecting, Connecting, Mains, Attempts
  <2>3. /\ task' \in Tasks /\ task'.at = "begin"
        /\ task'.attempt = main.attempt /\ task'.kind = main.kind
    BY <1>3, <2>2 DEF Spawn, NoTask, Tasks
  <2>4. main' \in Mains /\ main'.at = "idle"
    BY <1>3 DEF Spawn, AtRest, Mains
  <2>5. TypeOK'
    BY <1>3, <2>3, <2>4 DEF Spawn, TypeOK, Tasks, Mains
  <2>6. LaneHasTask' /\ NewestIsConnecting'
    BY <1>3, <2>2, <2>3, <2>4
       DEF Spawn, LaneHasTask, NewestIsConnecting, Connecting, Attempts
  <2>7. SenderHasOwner' /\ SenderOfTask'
    BY <1>3, <2>1, <2>3, <2>4
       DEF Spawn, SenderHasOwner, SenderOfTask, Offers, Late
  <2> QED BY <1>3, <2>3, <2>5, <2>6, <2>7
      DEF Spawn, InTimeIsSeen, CancelInTimeStoresNothing
<1>4. CASE Refused
  <2>1. /\ main' \in Mains
        /\ main'.at = IF main.kind = "qr" THEN "undoFlag" ELSE "undoSender"
        /\ main'.attempt = main.attempt /\ main'.kind = main.kind
        /\ main.kind \in Kinds
    BY <1>4 DEF Refused, Mains
  <2>2. TypeOK'
    BY <1>4, <2>1 DEF Refused, TypeOK, Mains
  <2> QED BY <1>4, <2>1, <2>2
      DEF Refused, LaneHasTask, NewestIsConnecting, Connecting,
          SenderHasOwner, Offers, SenderOfTask, InTimeIsSeen,
          CancelInTimeStoresNothing
<1>5. CASE UndoSender
  <2>1. /\ main' \in Mains /\ main'.at = "undoFlag"
        /\ main'.attempt = main.attempt /\ main'.kind = main.kind
    BY <1>5 DEF UndoSender, Mains
  <2>2. TypeOK'
    BY <1>5, <2>1 DEF UndoSender, TypeOK, Mains
  <2> QED BY <1>5, <2>1, <2>2
      DEF UndoSender, LaneHasTask, NewestIsConnecting, Connecting,
          SenderHasOwner, Offers, SenderOfTask, InTimeIsSeen,
          CancelInTimeStoresNothing
<1>6. CASE UndoFlag
  <2>1. /\ main' \in Mains /\ main'.at = "idle" /\ main.previous \in Someone
    BY <1>6 DEF UndoFlag, AtRest, Mains
  <2>2. TypeOK'
    BY <1>6, <2>1 DEF UndoFlag, TypeOK, Mains
  <2> QED BY <1>6, <2>1, <2>2
      DEF UndoFlag, LaneHasTask, NewestIsConnecting, Connecting,
          SenderHasOwner, Offers, SenderOfTask, InTimeIsSeen,
          CancelInTimeStoresNothing
<1> QED BY <1>1, <1>2, <1>3, <1>4, <1>5, <1>6

\* cancel_login, submit_guard_code and the panel keep it.
LEMMA CancelKeeps ==
  ASSUME IInv, \/ CancelTakesFlag \/ CancelSetsFlag \/ CancelTakesSender
               \/ CancelShows \/ SubmitCode \/ Refresh
  PROVE  IInv'
<1> USE Typed DEF MainSteps, Phases, TaskSteps
<1>1. CASE CancelTakesFlag
  <2>1. /\ main' \in Mains /\ main'.at = "store"
        /\ main'.attempt = auth_cancel /\ auth_cancel # Nobody
    BY <1>1 DEF CancelTakesFlag, AtRest, Mains
  <2>2. TypeOK'
    BY <1>1, <2>1 DEF CancelTakesFlag, TypeOK, Mains
  <2> QED BY <1>1, <2>1, <2>2
      DEF CancelTakesFlag, LaneHasTask, NewestIsConnecting, Connecting,
          SenderHasOwner, Offers, SenderOfTask, InTimeIsSeen,
          CancelInTimeStoresNothing
<1>2. CASE CancelSetsFlag
  <2>1. /\ main' \in Mains /\ main'.at = "take"
        /\ main'.attempt = main.attempt /\ main'.kind = main.kind
        /\ main.attempt \in Attempts
    BY <1>2 DEF CancelSetsFlag, Mains, NewestIsConnecting
  <2>2. TypeOK'
    BY <1>2, <2>1 DEF CancelSetsFlag, TypeOK, Mains
  <2>3. InTimeIsSeen' /\ CancelInTimeStoresNothing'
    BY <1>2 DEF CancelSetsFlag, StillLooks, InTimeIsSeen,
       CancelInTimeStoresNothing
  <2> QED BY <1>2, <2>1, <2>2, <2>3
      DEF CancelSetsFlag, LaneHasTask, NewestIsConnecting, Connecting,
          SenderHasOwner, Offers, SenderOfTask
<1>3. CASE CancelTakesSender
  <2>1. main' \in Mains /\ main'.at = "show"
    BY <1>3 DEF CancelTakesSender, Mains
  <2>2. TypeOK'
    BY <1>3, <2>1 DEF CancelTakesSender, TypeOK, Mains
  <2> QED BY <1>3, <2>1, <2>2
      DEF CancelTakesSender, LaneHasTask, NewestIsConnecting, Connecting,
          SenderHasOwner, Offers, SenderOfTask, InTimeIsSeen,
          CancelInTimeStoresNothing
<1>4. CASE CancelShows
  <2>1. main' \in Mains /\ main'.at = "idle"
    BY <1>4 DEF CancelShows, AtRest, Mains
  <2>2. TypeOK'
    BY <1>4, <2>1 DEF CancelShows, TypeOK, Mains
  <2> QED BY <1>4, <2>1, <2>2
      DEF CancelShows, LaneHasTask, NewestIsConnecting, Connecting,
          SenderHasOwner, Offers, SenderOfTask, InTimeIsSeen,
          CancelInTimeStoresNothing
<1>5. CASE SubmitCode
  <2>1. guard_sender \in Attempts
    BY <1>5 DEF SubmitCode, Receives, LaneHasTask
  <2>2. TypeOK'
    BY <1>5, <2>1 DEF SubmitCode, TypeOK
  <2> QED BY <1>5, <2>2
      DEF SubmitCode, LaneHasTask, NewestIsConnecting, Connecting,
          SenderHasOwner, Offers, SenderOfTask, InTimeIsSeen,
          CancelInTimeStoresNothing
<1>6. CASE Refresh
  <2>1. TypeOK'
    BY <1>6 DEF Refresh, TypeOK
  <2> QED BY <1>6, <2>1
      DEF Refresh, LaneHasTask, NewestIsConnecting, Connecting,
          SenderHasOwner, Offers, SenderOfTask, InTimeIsSeen,
          CancelInTimeStoresNothing
<1> QED BY <1>1, <1>2, <1>3, <1>4, <1>5, <1>6

\* Every step keeps the invariant.
LEMMA StepKeeps == IInv /\ [Next]_vars => IInv'
<1> SUFFICES ASSUME IInv, [Next]_vars PROVE IInv'
  OBVIOUS
<1>1. CASE UNCHANGED vars
  BY <1>1 DEF TypeOK, LaneHasTask, NewestIsConnecting, Connecting,
          SenderHasOwner, Offers, SenderOfTask, InTimeIsSeen,
          CancelInTimeStoresNothing
<1>2. CASE \/ \E kind \in Kinds : Connect(kind)
           \/ ReplaceSender \/ Spawn \/ Refused \/ UndoSender \/ UndoFlag
  BY <1>2, ConnectKeeps
<1>3. CASE \/ CancelTakesFlag \/ CancelSetsFlag \/ CancelTakesSender
           \/ CancelShows \/ SubmitCode \/ Refresh
  BY <1>3, CancelKeeps
<1>4. CASE \/ BeginAnswered \/ Prompt \/ CodeArrives \/ NoCodeCanArrive
           \/ CodeAccepted \/ PollCancelled \/ Poll \/ Pending \/ Approved
           \/ LoggedOn \/ StepFails \/ GoOn
  BY <1>4, TaskIsQuiet, QuietKeeps
<1>5. CASE Abandon \/ FinishLogin \/ Synchronise \/ AfterLoginFails
  BY <1>5, EndingIsQuiet, QuietKeeps
<1>6. CASE \/ DropSender \/ DropFlag \/ StoreToken \/ EndTask
           \/ OtherBegins \/ OtherEnds
  BY <1>6, LaneKeeps
<1> QED BY <1>1, <1>2, <1>3, <1>4, <1>5, <1>6
        DEF Next, MainGoesOn, TaskGoesOn

\* It holds at first.
LEMMA Initially == Init => IInv
<1> SUFFICES ASSUME Init PROVE IInv
  OBVIOUS
<1>1. main \in Mains /\ task \in Tasks
  BY DEF Init, AtRest, NoTask, Mains, Tasks, MainSteps, TaskSteps
<1>2. attempts \in 0..MaxAttempts
  BY AttemptsAssumption DEF Init
<1>3. TypeOK
  BY <1>1, <1>2 DEF Init, TypeOK, Mains, Tasks, Phases
<1> QED BY <1>3, AttemptsAssumption
    DEF Init, AtRest, NoTask, LaneHasTask, NewestIsConnecting, Connecting,
        SenderHasOwner, SenderOfTask, InTimeIsSeen, CancelInTimeStoresNothing

\* The invariant holds at all times.
THEOREM InvariantHolds == Spec => []IInv
BY Initially, StepKeeps, PTL DEF Spec

\* The variables keep to their types.
THEOREM TypeCorrect == Spec => []TypeOK
<1>1. IInv => TypeOK
  OBVIOUS
<1> QED BY <1>1, InvariantHolds, PTL

\* A sign-in called off before its task looked for the last time never stores a
\* token, however connect_*, cancel_login and the task interleave.
THEOREM CancelledStoresNothing == Spec => []CancelInTimeStoresNothing
<1>1. IInv => CancelInTimeStoresNothing
  OBVIOUS
<1> QED BY <1>1, InvariantHolds, PTL

\* Between two calls of the user interface a code goes to the sign-in that runs,
\* or to nobody: the sender is the task's, or the one connect_* offers.
THEOREM CodesGoRight == Spec => []CodesGoToTheTask
<1>1. IInv => CodesGoToTheTask
  BY DEF SenderHasOwner, Offers, CodesGoToTheTask
<1> QED BY <1>1, InvariantHolds, PTL
===============================================================================
