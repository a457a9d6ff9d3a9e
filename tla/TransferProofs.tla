---------------------------- MODULE TransferProofs ----------------------------
(***************************************************************************)
(* Proofs about the transfers, for any saves, blocks and bounds: they      *)
(* implement TransferContract.                                             *)
(***************************************************************************)
EXTENDS Transfer, TLAPS

USE DEF Numbers, Calls, Steps

\* Where a transfer of each kind is.
KindOfStep ==
  /\ op.at = "idle" => op = Idle
  /\ op.at # "idle" => transfers \in Numbers
  /\ op.phase # "none" => op.at \in Calls
  /\ op.at \in {"batchBegin", "fileBegin", "put", "commit", "complete", "list"}
       => op.kind = "upload" /\ op.save \in Contents /\ op.save \in asked
  /\ op.at \in {"info", "get"}
       => /\ op.kind = "download" /\ op.save = None
          /\ op.sha # None => op.sha \in been

\* Steam has, or is about to get, every block of an upload that goes well.
BlocksArrive ==
  /\ op.at \in {"batchBegin", "fileBegin", "put"} => op.transferred
  /\ op.at = "put" => op.todo \cup received[transfers] = Blocks
  /\ op.at = "commit" /\ op.transferred => received[transfers] = Blocks

\* A commit that is still under way is one of a whole save.
CommitsAreWhole ==
  \A r \in wire :
    /\ r.number <= transfers
    /\ r.call = "commit" /\ r.ok
         => received[r.number] = Blocks /\ r.save \in asked
    /\ r.call = "commit" /\ r.number = transfers /\ op.kind = "upload"
         => r.save = op.save

\* What an answer says.
AnswersAreTrue ==
  (op.phase # "none" /\ waiter.at = "done" /\ waiter.save # None) =>
    /\ op.at = "commit" => landed
    /\ op.at = "info" => waiter.save \in been

\* What is known of an upload whose commit has been answered.
SuccessIsKnown ==
  /\ op.at = "complete" /\ ~op.failed => landed
  /\ op.at = "list" => landed

\* An upload that completes its batch, or is past that, has asked Steam to.
Closing ==
  /\ op.at = "complete" /\ op.phase # "none" => op.closing
  /\ op.at = "list" => op.closing

\* What is on Steam is a whole save.
RemoteIsWhole == \E c \in been : remote = Whole(c)

IInv == /\ TypeOK /\ KindOfStep /\ BlocksArrive /\ CommitsAreWhole
        /\ AnswersAreTrue /\ SuccessIsKnown /\ Closing /\ RemoteIsWhole

USE DEF steam, network, bounds, vars, IInv

Ops == [at : Steps, kind : {"none", "upload", "download"},
        save : Contents \cup {None}, phase : {"none", "ask", "wait"},
        todo : SUBSET Blocks, transferred : BOOLEAN, failed : BOOLEAN,
        sha : Contents \cup {None}, closing : BOOLEAN]

Waiters == [at : {"none", "pending", "done"}, ok : BOOLEAN,
            save : Contents \cup {None}]

\* A file is one whole save at most.
LEMMA WholeIsOne ==
  ASSUME NEW c \in Contents, NEW d \in Contents, Whole(c) = Whole(d)
  PROVE  c = d
BY BlocksAssumption DEF Whole

\* The phases of a call.
Phases == {"none", "ask", "wait"}

\* An update of the operation's record is an operation's record again.
LEMMA UpdatedField ==
  ASSUME NEW o \in Ops
  PROVE  /\ \A a \in Steps : [o EXCEPT !.at = a] \in Ops
         /\ \A f \in Phases : [o EXCEPT !.phase = f] \in Ops
         /\ \A t \in SUBSET Blocks : [o EXCEPT !.todo = t] \in Ops
         /\ \A c \in Contents \cup {None} : [o EXCEPT !.sha = c] \in Ops
         /\ \A b \in BOOLEAN : /\ [o EXCEPT !.closing = b] \in Ops
                             /\ [o EXCEPT !.transferred = b] \in Ops
                             /\ [o EXCEPT !.failed = b] \in Ops
<1>1. ASSUME NEW a \in Steps PROVE [o EXCEPT !.at = a] \in Ops
  BY DEF Ops
<1>2. ASSUME NEW f \in Phases
      PROVE  [o EXCEPT !.phase = f] \in Ops
  BY DEF Ops, Phases
<1>3. ASSUME NEW t \in SUBSET Blocks PROVE [o EXCEPT !.todo = t] \in Ops
  BY DEF Ops
<1>4. ASSUME NEW c \in Contents \cup {None} PROVE [o EXCEPT !.sha = c] \in Ops
  BY DEF Ops
<1>5. ASSUME NEW b \in BOOLEAN PROVE [o EXCEPT !.closing = b] \in Ops
  BY DEF Ops
<1>6. ASSUME NEW b \in BOOLEAN PROVE [o EXCEPT !.transferred = b] \in Ops
  BY DEF Ops
<1>7. ASSUME NEW b \in BOOLEAN PROVE [o EXCEPT !.failed = b] \in Ops
  BY DEF Ops
<1> QED BY <1>1, <1>2, <1>3, <1>4, <1>5, <1>6, <1>7, Zenon

\* The places and phases an operation goes to.
LEMMA StepNames ==
  /\ "fileBegin" \in Steps /\ "put" \in Steps /\ "commit" \in Steps
  /\ "complete" \in Steps /\ "list" \in Steps /\ "get" \in Steps
  /\ "none" \in Phases /\ "ask" \in Phases /\ "wait" \in Phases
<1>1. "fileBegin" \in Steps /\ "commit" \in Steps
  OBVIOUS
<1>2. "complete" \in Steps /\ "list" \in Steps
  OBVIOUS
<1>3. "put" \in Steps /\ "get" \in Steps
  OBVIOUS
<1>4. "none" \in Phases /\ "ask" \in Phases /\ "wait" \in Phases
  BY DEF Phases
<1> QED BY ONLY <1>1, <1>2, <1>3, <1>4, Zenon

\* The same for the updates of several fields that the actions make.
LEMMA UpdatedOp ==
  ASSUME NEW o \in Ops, NEW a \in Steps, NEW f \in Phases
  PROVE  /\ [o EXCEPT !.at = a, !.phase = f] \in Ops
         /\ \A t \in SUBSET Blocks :
              [o EXCEPT !.at = a, !.phase = f, !.todo = t] \in Ops
         /\ \A c \in Contents \cup {None} :
              [o EXCEPT !.at = a, !.phase = f, !.sha = c] \in Ops
         /\ \A b \in BOOLEAN :
              /\ [o EXCEPT !.phase = f, !.closing = b] \in Ops
              /\ [o EXCEPT !.at = a, !.phase = f, !.transferred = b] \in Ops
              /\ [o EXCEPT !.at = a, !.phase = f, !.failed = b] \in Ops
<1> DEFINE p == [o EXCEPT !.at = a, !.phase = f]
           q == [o EXCEPT !.phase = f]
<1>1. p = [[o EXCEPT !.at = a] EXCEPT !.phase = f]
  BY DEF Ops
<1>2. p \in Ops /\ q \in Ops
  <2>1. [o EXCEPT !.at = a] \in Ops /\ q \in Ops
    BY UpdatedField
  <2> HIDE DEF p, q
  <2> QED BY <1>1, <2>1, UpdatedField
<1>3. ASSUME NEW t \in SUBSET Blocks
      PROVE  [o EXCEPT !.at = a, !.phase = f, !.todo = t]
               = [p EXCEPT !.todo = t]
  BY DEF Ops
<1>4. ASSUME NEW c \in Contents \cup {None}
      PROVE  [o EXCEPT !.at = a, !.phase = f, !.sha = c] = [p EXCEPT !.sha = c]
  BY DEF Ops
<1>5. ASSUME NEW b \in BOOLEAN
      PROVE  /\ [o EXCEPT !.phase = f, !.closing = b] = [q EXCEPT !.closing = b]
             /\ [o EXCEPT !.at = a, !.phase = f, !.transferred = b]
                   = [p EXCEPT !.transferred = b]
             /\ [o EXCEPT !.at = a, !.phase = f, !.failed = b]
                   = [p EXCEPT !.failed = b]
  BY DEF Ops
<1> HIDE DEF p, q
<1> QED BY <1>1, <1>2, <1>3, <1>4, <1>5, UpdatedField

\* A transfer that returns leaves the rest as it is.
LEMMA ReturnKeeps ==
  ASSUME IInv, NEW result, Return(result),
         result \in [result : {"none", "ok", "failed"},
                     save : Contents \cup {None}],
         UNCHANGED <<steam, wire, conn, bounds>>
  PROVE  IInv'
<1> USE DEF Return, Idle, NoWaiter
<1>1. TypeOK'
  <2>1. op' \in Ops /\ waiter' \in Waiters
    BY DEF Ops, Waiters
  <2> QED BY <2>1 DEF TypeOK, Ops, Waiters
<1>2. KindOfStep' /\ BlocksArrive' /\ SuccessIsKnown' /\ Closing'
  BY DEF KindOfStep, BlocksArrive, SuccessIsKnown, Closing
<1>3. CommitsAreWhole'
  BY DEF CommitsAreWhole
<1>4. AnswersAreTrue' /\ RemoteIsWhole'
  BY DEF AnswersAreTrue, RemoteIsWhole
<1> QED BY <1>1, <1>2, <1>3, <1>4

\* A transfer whose call has failed returns, or goes on to complete its batch.
LEMMA FailureKeeps ==
  ASSUME IInv, op.at # "idle", AfterFailure,
         UNCHANGED <<steam, wire, conn, bounds>>
  PROVE  IInv'
<1>1. CASE op.at \in {"fileBegin", "commit"}
  <2>1. /\ op' = [op EXCEPT !.at = "complete", !.phase = "none",
                            !.failed = TRUE]
        /\ waiter' = NoWaiter /\ outcome' = outcome
    BY <1>1 DEF AfterFailure, Calling, TypeOK
  <2>2. TypeOK'
    <3>1. op \in Ops
      BY DEF TypeOK, Ops
    <3>2. op' \in Ops
      BY ONLY <2>1, <3>1, UpdatedOp, StepNames, Zenon
    <3> QED BY <2>1, <3>2 DEF TypeOK, Ops, NoWaiter
  <2>3. KindOfStep' /\ BlocksArrive' /\ SuccessIsKnown' /\ Closing'
    BY <1>1, <2>1 DEF KindOfStep, BlocksArrive, SuccessIsKnown, Closing,
                      TypeOK
  <2>4. CommitsAreWhole'
    BY <2>1 DEF CommitsAreWhole, TypeOK
  <2>5. AnswersAreTrue' /\ RemoteIsWhole'
    BY <2>1 DEF AnswersAreTrue, RemoteIsWhole, TypeOK
  <2> QED BY <2>2, <2>3, <2>4, <2>5
<1>2. CASE op.at \notin {"fileBegin", "commit"}
  <2>1. Return(Failed)
    BY <1>2 DEF AfterFailure
  <2> QED BY <2>1, ReturnKeeps DEF Failed
<1> QED BY <1>1, <1>2

\* Every step keeps the invariant.
LEMMA Step == IInv /\ [Next]_vars => IInv'
<1> SUFFICES ASSUME IInv, [Next]_vars PROVE IInv'
  OBVIOUS
<1> USE NoneAssumption, BlocksAssumption, BoundAssumption
<1> USE DEF Idle
<1>0. op \in Ops /\ waiter \in Waiters
  BY DEF TypeOK, Ops, Waiters
<1>1. CASE BeginUpload
  <2>1. PICK c \in Contents : Begin("upload", c, "batchBegin", None)
    BY <1>1 DEF BeginUpload, Begin
  <2> USE <2>1 DEF Begin
  <2>2. /\ op' = [Idle EXCEPT !.at = "batchBegin", !.kind = "upload",
                              !.save = c, !.sha = None]
        /\ asked' = asked \cup {c} /\ transfers' = transfers + 1
        /\ transfers' \in Numbers /\ transfers \in Nat
    BY DEF TypeOK
  <2>3. TypeOK'
    <3>1. op' \in Ops
      BY <2>2 DEF Ops
    <3>2. /\ asked' \subseteq Contents /\ transfers' \in 0..MaxTransfers
          /\ conn' \in {"open", "marked", "drained"}
      BY <2>2 DEF TypeOK
    <3> QED BY <3>1, <3>2 DEF TypeOK, Ops, Pending
  <2>4. KindOfStep' /\ BlocksArrive' /\ SuccessIsKnown' /\ Closing'
    BY <2>2 DEF KindOfStep, BlocksArrive, SuccessIsKnown, Closing
  <2>5. CommitsAreWhole'
    <3>1. ASSUME NEW r \in wire
          PROVE  /\ r.number <= transfers' /\ r.number # transfers'
                 /\ r.call = "commit" /\ r.ok
                      => received[r.number] = Blocks /\ r.save \in asked'
      <4>1. r.number \in Nat /\ r.number <= transfers
        BY DEF CommitsAreWhole, TypeOK, Requests
      <4> QED BY <2>2, <4>1 DEF CommitsAreWhole
    <3>2. wire' = wire /\ received' = received
      OBVIOUS
    <3> QED BY <3>1, <3>2 DEF CommitsAreWhole
  <2>6. AnswersAreTrue' /\ RemoteIsWhole'
    BY <2>2 DEF AnswersAreTrue, RemoteIsWhole
  <2> QED BY <2>3, <2>4, <2>5, <2>6
<1>2. CASE BeginDownload
  <2>1. PICK c \in Contents \cup {None} :
          /\ c # None => remote = Whole(c)
          /\ Begin("download", None, "info", c)
    BY <1>2 DEF BeginDownload
  <2>2. c # None => c \in been
    BY <2>1, WholeIsOne DEF RemoteIsWhole, TypeOK
  <2> USE <2>1 DEF Begin
  <2>3. /\ op' = [Idle EXCEPT !.at = "info", !.kind = "download",
                              !.save = None, !.sha = c]
        /\ asked' = asked /\ transfers' = transfers + 1
        /\ transfers' \in Numbers /\ transfers \in Nat
    BY DEF TypeOK
  <2>4. TypeOK'
    <3>1. op' \in Ops
      BY <2>3 DEF Ops
    <3>2. /\ transfers' \in 0..MaxTransfers
          /\ conn' \in {"open", "marked", "drained"}
      BY <2>3 DEF TypeOK
    <3> QED BY <2>3, <3>1, <3>2 DEF TypeOK, Ops, Pending
  <2>5. KindOfStep' /\ BlocksArrive' /\ SuccessIsKnown' /\ Closing'
    BY <2>2, <2>3 DEF KindOfStep, BlocksArrive, SuccessIsKnown, Closing
  <2>6. CommitsAreWhole'
    <3>1. ASSUME NEW r \in wire
          PROVE  /\ r.number <= transfers' /\ r.number # transfers'
                 /\ r.call = "commit" /\ r.ok
                      => received[r.number] = Blocks /\ r.save \in asked'
      <4>1. r.number \in Nat /\ r.number <= transfers
        BY DEF CommitsAreWhole, TypeOK, Requests
      <4> QED BY <2>3, <4>1 DEF CommitsAreWhole
    <3>2. wire' = wire /\ received' = received
      OBVIOUS
    <3> QED BY <3>1, <3>2 DEF CommitsAreWhole
  <2>7. AnswersAreTrue' /\ RemoteIsWhole'
    BY <2>3 DEF AnswersAreTrue, RemoteIsWhole
  <2> QED BY <2>4, <2>5, <2>6, <2>7
<1>3. CASE Insert
  <2>1. /\ op.at \in Calls /\ op.phase = "none"
        /\ op' = [op EXCEPT !.phase = "ask",
                            !.closing = op.closing \/ op.at = "complete"]
        /\ waiter' = [at |-> "pending", ok |-> TRUE, save |-> None]
        /\ UNCHANGED <<steam, wire, conn, outcome, bounds>>
    BY <1>3 DEF Insert, Waiting, NoWaiter
  <2>2. /\ op' \in Ops /\ op'.at = op.at /\ op'.kind = op.kind
        /\ op'.save = op.save /\ op'.phase = "ask" /\ op'.todo = op.todo
        /\ op'.transferred = op.transferred /\ op'.failed = op.failed
        /\ op'.sha = op.sha
        /\ op'.closing = (op.closing \/ op.at = "complete")
    <3> DEFINE closing == op.closing \/ op.at = "complete"
    <3>1. /\ closing \in BOOLEAN
          /\ op' = [op EXCEPT !.phase = "ask", !.closing = closing]
      BY <2>1
    <3> HIDE DEF closing
    <3>2. op' \in Ops
      BY ONLY <1>0, <3>1, UpdatedOp, StepNames, Zenon
    <3>3. /\ op'.at = op.at /\ op'.kind = op.kind /\ op'.save = op.save
          /\ op'.phase = "ask" /\ op'.todo = op.todo
          /\ op'.transferred = op.transferred /\ op'.failed = op.failed
          /\ op'.sha = op.sha /\ op'.closing = closing
      BY <1>0, <3>1 DEF Ops
    <3> QED BY <3>2, <3>3, Zenon DEF closing
  <2>3. TypeOK'
    <3>1. waiter' \in Waiters
      BY <2>1 DEF Waiters
    <3> QED BY <2>1, <2>2, <3>1 DEF TypeOK, Ops, Waiters
  <2>4. KindOfStep'
    BY <2>1, <2>2 DEF KindOfStep
  <2>5. BlocksArrive'
    BY <2>1, <2>2 DEF BlocksArrive
  <2>6. SuccessIsKnown' /\ Closing'
    BY <2>1, <2>2 DEF SuccessIsKnown, Closing
  <2>7. CommitsAreWhole'
    BY <2>1, <2>2 DEF CommitsAreWhole
  <2>8. AnswersAreTrue' /\ RemoteIsWhole'
    BY <2>1, <2>2 DEF AnswersAreTrue, RemoteIsWhole
  <2> QED BY <2>3, <2>4, <2>5, <2>6, <2>7, <2>8
<1>4. CASE Send
  <2> USE <1>4 DEF Send
  <2> DEFINE r == [call |-> op.at, number |-> transfers, save |-> op.save,
                   ok |-> op.transferred]
  <2>1. /\ op' = [op EXCEPT !.phase = "wait"]
        /\ wire' \subseteq wire \cup {r}
    OBVIOUS
  <2>2. op.at \in Calls /\ transfers \in Numbers
    BY DEF TypeOK, KindOfStep
  <2>3. TypeOK'
    <3>1. r \in Requests
      <4>1. op.save \in Contents \cup {None} /\ op.transferred \in BOOLEAN
        BY <1>0 DEF Ops
      <4> QED BY ONLY <2>2, <4>1, Zenon DEF Requests, r
    <3>2. op' \in Ops
      BY ONLY <1>0, <2>1, UpdatedField, StepNames, Zenon
    <3>3. wire' \subseteq Requests
      BY <2>1, <3>1 DEF TypeOK
    <3>4. UNCHANGED <<steam, conn, waiter, outcome, bounds>>
      OBVIOUS
    <3> HIDE DEF r, Send
    <3> QED BY <3>2, <3>3, <3>4 DEF TypeOK, Ops
  <2>4. KindOfStep' /\ BlocksArrive' /\ SuccessIsKnown' /\ Closing'
    BY <2>1 DEF TypeOK, KindOfStep, BlocksArrive, SuccessIsKnown, Closing
  <2>5. CommitsAreWhole'
    <3>1. /\ r.number <= transfers
          /\ r.call = "commit" /\ r.ok
               => received[r.number] = Blocks /\ r.save \in asked
          /\ r.save = op.save
      BY <2>2 DEF TypeOK, BlocksArrive, KindOfStep
    <3>2. op'.kind = op.kind /\ op'.save = op.save
      BY <2>1 DEF TypeOK
    <3> HIDE DEF r
    <3> QED BY <2>1, <3>1, <3>2 DEF CommitsAreWhole
  <2>6. AnswersAreTrue' /\ RemoteIsWhole'
    BY <2>1 DEF TypeOK, AnswersAreTrue, RemoteIsWhole
  <2> QED BY <2>3, <2>4, <2>5, <2>6
<1>5. CASE SendFails \/ CallFailed \/ CallTimesOut
  <2>1. /\ op.at # "idle" /\ AfterFailure
        /\ UNCHANGED <<steam, wire, conn, bounds>>
    BY <1>5 DEF SendFails, CallFailed, CallTimesOut, KindOfStep
  <2> QED BY <2>1, FailureKeeps
<1>6. CASE FileBegun
  <2>1. /\ op' = [op EXCEPT !.at = "put", !.phase = "none", !.todo = Blocks]
        /\ op.at = "fileBegin" /\ waiter' = NoWaiter
        /\ UNCHANGED <<steam, wire, conn, bounds, outcome>>
    BY <1>6 DEF FileBegun, CallSucceeded, Calling, RequestedBlocks
  <2>2. /\ op' \in Ops /\ op'.at = "put" /\ op'.kind = op.kind
        /\ op'.save = op.save /\ op'.phase = "none" /\ op'.todo = Blocks
        /\ op'.transferred = op.transferred
    <3>1. op' \in Ops
      BY ONLY <1>0, <2>1, UpdatedOp, StepNames, Zenon
    <3> QED BY <1>0, <2>1, <3>1 DEF Ops
  <2>3. TypeOK'
    BY <2>1, <2>2 DEF TypeOK, Ops, NoWaiter
  <2>4. KindOfStep'
    BY <2>1, <2>2 DEF KindOfStep
  <2>5. SuccessIsKnown' /\ Closing'
    BY <2>2 DEF SuccessIsKnown, Closing
  <2>6. BlocksArrive'
    <3>1. received[transfers] \subseteq Blocks
      BY <2>1 DEF TypeOK, KindOfStep
    <3>2. op.transferred
      BY <2>1 DEF BlocksArrive
    <3> QED BY <2>1, <2>2, <3>1, <3>2 DEF BlocksArrive
  <2>7. CommitsAreWhole'
    BY <2>1, <2>2 DEF CommitsAreWhole
  <2>8. AnswersAreTrue' /\ RemoteIsWhole'
    BY <2>1, <2>2 DEF AnswersAreTrue, RemoteIsWhole
  <2> QED BY <2>3, <2>4, <2>5, <2>6, <2>7, <2>8
<1>7. CASE PutBlock
  <2> USE <1>7 DEF PutBlock
  <2>1. PICK b \in op.todo :
          /\ received' = [received EXCEPT ![transfers] = @ \cup {b}]
          /\ op' = [op EXCEPT !.todo = @ \ {b}]
    OBVIOUS
  <2>2. transfers \in Numbers /\ b \in Blocks
    <3>1. op.at # "idle" /\ op.todo \subseteq Blocks
      BY DEF TypeOK
    <3> QED BY <3>1 DEF KindOfStep
  <2>3. TypeOK'
    <3>1. op' \in Ops
      BY <2>1, <2>2 DEF TypeOK, Ops
    <3>2. received' \in [Numbers -> SUBSET Blocks]
      BY <2>1, <2>2 DEF TypeOK
    <3> QED BY <3>1, <3>2 DEF TypeOK, Ops
  <2>4. KindOfStep' /\ SuccessIsKnown' /\ Closing'
    BY <2>1 DEF TypeOK, KindOfStep, SuccessIsKnown, Closing
  <2>5. BlocksArrive'
    BY <2>1, <2>2 DEF TypeOK, BlocksArrive
  <2>6. CommitsAreWhole'
    BY <2>1, <2>2 DEF TypeOK, CommitsAreWhole, Requests
  <2>7. AnswersAreTrue' /\ RemoteIsWhole'
    BY <2>1 DEF TypeOK, AnswersAreTrue, RemoteIsWhole
  <2> QED BY <2>3, <2>4, <2>5, <2>6, <2>7
<1>8. CASE PutFails
  <2> USE <1>8 DEF PutFails
  <2>1. PICK b \in op.todo :
          received' \in {received, [received EXCEPT ![transfers] = @ \cup {b}]}
    OBVIOUS
  <2>2. op' = [op EXCEPT !.at = "commit", !.phase = "none",
                         !.transferred = FALSE]
    BY DEF Calling, TypeOK
  <2>3. transfers \in Numbers /\ b \in Blocks
    BY DEF TypeOK, KindOfStep
  <2>4. TypeOK'
    <3>1. op' \in Ops
      BY ONLY <1>0, <2>2, UpdatedOp, StepNames, Zenon
    <3>2. received' \in [Numbers -> SUBSET Blocks]
      BY <2>1, <2>3 DEF TypeOK
    <3>3. UNCHANGED <<remote, been, landed, network, outcome, bounds>>
      OBVIOUS
    <3> HIDE DEF PutFails
    <3> QED BY <3>1, <3>2, <3>3 DEF TypeOK, Ops
  <2>8. /\ op'.at = "commit" /\ op'.kind = op.kind /\ op'.save = op.save
        /\ op'.phase = "none" /\ ~op'.transferred
    BY <1>0, <2>2 DEF Ops
  <2>5. KindOfStep' /\ BlocksArrive' /\ SuccessIsKnown' /\ Closing'
    BY <2>8 DEF KindOfStep, BlocksArrive, SuccessIsKnown, Closing
  <2>6. CommitsAreWhole'
    <3>1. ASSUME NEW r \in wire, received[r.number] = Blocks
          PROVE  received'[r.number] = Blocks
      <4>1. r.number \in Numbers
        BY DEF TypeOK, Requests
      <4>2. received' = [received EXCEPT ![transfers] =
                           received[transfers] \cup {b}]
            \/ received' = received
        BY <2>1
      <4>3. Blocks \cup {b} = Blocks
        BY <2>3
      <4> QED BY <2>3, <3>1, <4>1, <4>2, <4>3 DEF TypeOK
    <3>2. op'.kind = op.kind /\ op'.save = op.save
      BY <2>2 DEF TypeOK
    <3> QED BY <3>1, <3>2 DEF CommitsAreWhole
  <2>7. AnswersAreTrue' /\ RemoteIsWhole'
    BY <2>2 DEF TypeOK, AnswersAreTrue, RemoteIsWhole
  <2> QED BY <2>4, <2>5, <2>6, <2>7
<1>9. CASE Unusable \/ PutDone
  <2>1. /\ \/ op' = [op EXCEPT !.at = "complete", !.phase = "none",
                               !.failed = TRUE]
           \/ /\ op.todo = {}
              /\ op' = [op EXCEPT !.at = "commit", !.phase = "none"]
        /\ op.at = "put" /\ UNCHANGED <<steam, network, outcome, bounds>>
    <3>1. CASE Unusable
      BY <3>1 DEF Unusable, Calling, TypeOK
    <3>2. CASE PutDone
      BY <3>2 DEF PutDone, Calling, TypeOK
    <3> QED BY <1>9, <3>1, <3>2
  <2>2. /\ op' \in Ops /\ op'.kind = op.kind /\ op'.save = op.save
        /\ op'.phase = "none"
        /\ \/ op'.at = "complete" /\ op'.failed
           \/ /\ op'.at = "commit" /\ op.todo = {}
              /\ op'.transferred = op.transferred
    <3>1. CASE op' = [op EXCEPT !.at = "complete", !.phase = "none",
                                !.failed = TRUE]
      <4>1. op' \in Ops
        BY ONLY <1>0, <3>1, UpdatedOp, StepNames, Zenon
      <4> QED BY <1>0, <3>1, <4>1 DEF Ops
    <3>2. CASE /\ op.todo = {}
               /\ op' = [op EXCEPT !.at = "commit", !.phase = "none"]
      <4>1. op' \in Ops
        BY ONLY <1>0, <3>2, UpdatedOp, StepNames, Zenon
      <4> QED BY <1>0, <3>2, <4>1 DEF Ops
    <3> QED BY <2>1, <3>1, <3>2
  <2>3. TypeOK'
    BY <2>1, <2>2 DEF TypeOK, Ops
  <2>4. KindOfStep'
    BY <2>1, <2>2 DEF KindOfStep
  <2>5. BlocksArrive' /\ SuccessIsKnown' /\ Closing'
    BY <2>1, <2>2 DEF BlocksArrive, SuccessIsKnown, Closing
  <2>6. CommitsAreWhole'
    BY <2>1, <2>2 DEF CommitsAreWhole
  <2>7. AnswersAreTrue' /\ RemoteIsWhole'
    BY <2>1, <2>2 DEF AnswersAreTrue, RemoteIsWhole
  <2> QED BY <2>3, <2>4, <2>5, <2>6, <2>7
<1>10. CASE BatchBegun \/ Informed \/ Committed
  <2>1. /\ UNCHANGED <<steam, wire, conn, bounds, outcome>>
        /\ waiter' = NoWaiter /\ waiter.at = "done" /\ op.phase = "wait"
        /\ \/ /\ op.at = "batchBegin"
              /\ op' = [op EXCEPT !.at = "fileBegin", !.phase = "none"]
           \/ /\ op.at = "info"
              /\ op' = [op EXCEPT !.at = "get", !.phase = "none",
                          !.sha = IF waiter.save = None THEN @
                                                        ELSE waiter.save]
           \/ /\ op.at = "commit"
              /\ op' = [op EXCEPT !.at = "complete", !.phase = "none",
                          !.failed = ~op.transferred \/ waiter.save = None]
    <3>1. CASE BatchBegun
      BY <3>1 DEF BatchBegun, CallSucceeded, Calling, TypeOK
    <3>2. CASE Informed
      BY <3>2 DEF Informed, CallSucceeded, Calling, TypeOK
    <3>3. CASE Committed
      BY <3>3 DEF Committed, CallSucceeded, Calling, TypeOK
    <3> QED BY <1>10, <3>1, <3>2, <3>3
  <2>2. waiter.save \in Contents \cup {None} /\ op.sha \in Contents \cup {None}
    BY <1>0 DEF Ops, Waiters
  <2>3. /\ op' \in Ops /\ op'.kind = op.kind /\ op'.save = op.save
        /\ op'.phase = "none"
        /\ \/ /\ op.at = "batchBegin" /\ op'.at = "fileBegin"
              /\ op'.transferred = op.transferred
           \/ /\ op.at = "info" /\ op'.at = "get"
              /\ op'.sha = IF waiter.save = None THEN op.sha ELSE waiter.save
           \/ /\ op.at = "commit" /\ op'.at = "complete"
              /\ op'.failed = (~op.transferred \/ waiter.save = None)
    <3>1. CASE op.at = "batchBegin"
      <4>1. op' = [op EXCEPT !.at = "fileBegin", !.phase = "none"]
        BY ONLY <2>1, <3>1
      <4>2. op' \in Ops
        BY ONLY <1>0, <4>1, UpdatedOp, StepNames, Zenon
      <4> QED BY <1>0, <3>1, <4>1, <4>2 DEF Ops
    <3>2. CASE op.at = "info"
      <4> DEFINE sha == IF waiter.save = None THEN op.sha ELSE waiter.save
      <4>1. /\ sha \in Contents \cup {None}
            /\ op' = [op EXCEPT !.at = "get", !.phase = "none", !.sha = sha]
        BY ONLY <2>1, <2>2, <3>2
      <4> HIDE DEF sha
      <4>2. op' \in Ops
        BY ONLY <1>0, <4>1, UpdatedOp, StepNames, Zenon
      <4>3. /\ op'.kind = op.kind /\ op'.save = op.save /\ op'.phase = "none"
            /\ op'.at = "get" /\ op'.sha = sha
        BY <1>0, <4>1 DEF Ops
      <4> QED BY <3>2, <4>2, <4>3 DEF sha
    <3>3. CASE op.at = "commit"
      <4> DEFINE failed == ~op.transferred \/ waiter.save = None
      <4>1. /\ failed \in BOOLEAN
            /\ op' = [op EXCEPT !.at = "complete", !.phase = "none",
                                !.failed = failed]
        BY ONLY <2>1, <3>3
      <4> HIDE DEF failed
      <4>2. op' \in Ops
        BY ONLY <1>0, <4>1, UpdatedOp, StepNames, Zenon
      <4>3. /\ op'.kind = op.kind /\ op'.save = op.save /\ op'.phase = "none"
            /\ op'.at = "complete" /\ op'.failed = failed
        BY <1>0, <4>1 DEF Ops
      <4> QED BY <3>3, <4>2, <4>3, Zenon DEF failed
    <3> QED BY <2>1, <3>1, <3>2, <3>3
  <2>4. TypeOK'
    BY <2>1, <2>3 DEF TypeOK, Ops, NoWaiter
  <2>5. KindOfStep'
    BY <2>1, <2>3 DEF KindOfStep, AnswersAreTrue
  <2>6. BlocksArrive'
    BY <2>1, <2>3 DEF BlocksArrive
  <2>7. SuccessIsKnown' /\ Closing'
    BY <2>1, <2>3 DEF AnswersAreTrue, SuccessIsKnown, Closing
  <2>8. CommitsAreWhole'
    BY <2>1, <2>3 DEF CommitsAreWhole
  <2>9. AnswersAreTrue' /\ RemoteIsWhole'
    BY <2>1, <2>3 DEF AnswersAreTrue, RemoteIsWhole
  <2> QED BY <2>4, <2>5, <2>6, <2>7, <2>8, <2>9
<1>11. CASE Completed
  <2> USE <1>11 DEF Completed
  <2>1. CASE op.failed
    BY <2>1, ReturnKeeps DEF Failed
  <2>2. CASE ~op.failed
    <3>1. /\ op' = [op EXCEPT !.at = "list", !.phase = "none"]
          /\ waiter' = NoWaiter
          /\ UNCHANGED <<steam, wire, conn, bounds, outcome>>
          /\ op.at = "complete" /\ op.phase = "wait"
      BY <2>2 DEF Calling, TypeOK
    <3>2. TypeOK'
      <4>1. op' \in Ops
        BY ONLY <1>0, <3>1, UpdatedOp, StepNames, Zenon
      <4> QED BY <3>1, <4>1 DEF TypeOK, Ops, NoWaiter
    <3>3. KindOfStep' /\ BlocksArrive' /\ SuccessIsKnown' /\ Closing'
      BY <2>2, <3>1 DEF TypeOK, KindOfStep, BlocksArrive, SuccessIsKnown,
                        Closing
    <3>4. CommitsAreWhole'
      BY <3>1 DEF TypeOK, CommitsAreWhole
    <3>5. AnswersAreTrue' /\ RemoteIsWhole'
      BY <3>1 DEF AnswersAreTrue, RemoteIsWhole, NoWaiter
    <3> QED BY <3>2, <3>3, <3>4, <3>5
  <2> QED BY <2>1, <2>2
<1>12. CASE Listed
  <2>1. op.save \in Contents \cup {None}
    BY DEF TypeOK
  <2> QED BY <1>12, <2>1, ReturnKeeps DEF Listed, Ok, Failed
<1>13. CASE Get
  BY <1>13, ReturnKeeps DEF Get, Ok, Failed
<1>14. CASE MarkClosed \/ FailPending
  <2>1. /\ conn' \in {"marked", "drained"}
        /\ \/ waiter' = waiter
           \/ waiter' = [at |-> "done", ok |-> FALSE, save |-> None]
        /\ UNCHANGED <<steam, wire, op, outcome, bounds>>
    <3>1. CASE MarkClosed
      BY <3>1 DEF MarkClosed
    <3>2. CASE FailPending
      BY <3>2 DEF FailPending, Answered
    <3> QED BY <1>14, <3>1, <3>2
  <2>2. TypeOK'
    <3>1. [at |-> "done", ok |-> FALSE, save |-> None] \in Waiters
      BY DEF Waiters
    <3>2. waiter' \in Waiters
      BY <1>0, <2>1, <3>1
    <3> QED BY <2>1, <3>2 DEF TypeOK, Waiters
  <2>3. KindOfStep' /\ BlocksArrive' /\ SuccessIsKnown' /\ Closing'
    BY <2>1 DEF KindOfStep, BlocksArrive, SuccessIsKnown, Closing
  <2>4. CommitsAreWhole'
    BY <2>1 DEF CommitsAreWhole
  <2>5. AnswersAreTrue' /\ RemoteIsWhole'
    BY <2>1 DEF AnswersAreTrue, RemoteIsWhole
  <2> QED BY <2>2, <2>3, <2>4, <2>5
<1>15. CASE \E r \in wire : SteamHandles(r)
  <2>1. PICK r \in wire : SteamHandles(r)
    BY <1>15
  <2>2. /\ r \in Requests /\ wire' \subseteq wire
        /\ UNCHANGED <<received, conn, op, outcome, bounds>>
    BY <2>1 DEF SteamHandles, TypeOK
  <2> DEFINE Told == /\ op.at = r.call /\ waiter' \in Waiters
                     /\ r.call = "commit" /\ waiter'.save # None => landed'
                     /\ r.call = "info" /\ waiter'.save # None
                          => waiter'.save \in been
  <2>3. /\ \/ remote' = remote /\ been' = been
           \/ /\ remote' = Whole(r.save) /\ been' = been \cup {r.save}
              /\ r.save \in Contents
        /\ landed' \in BOOLEAN /\ (landed => landed')
        /\ waiter' = waiter \/ Told
    <3>0. ASSUME NEW ok \in BOOLEAN, NEW save \in Contents \cup {None},
                 Reply(r, ok, save)
          PROVE  \/ waiter' = waiter
                 \/ /\ op.at = r.call /\ r.number = transfers
                    /\ waiter' \in Waiters /\ waiter'.save = save
      BY <3>0 DEF Reply, Answered, Waiters
    <3>1. ASSUME NEW ok \in BOOLEAN, Reply(r, ok, None)
          PROVE  waiter' = waiter \/ Told
      BY <3>0, <3>1
    <3>2. CASE CommitHandled(r)
      <4>1. CASE UNCHANGED <<remote, been, landed>>
                 /\ (Reply(r, TRUE, None) \/ Reply(r, FALSE, None))
        BY <3>1, <4>1 DEF TypeOK
      <4>2. CASE /\ r.call = "commit" /\ r.ok
                 /\ remote' = Assembled(r) /\ been' = been \cup {r.save}
                 /\ landed' = (landed \/ (r.number = transfers
                                          /\ op.kind = "upload"))
                 /\ Reply(r, TRUE, r.save)
        <5>1. received[r.number] = Blocks /\ r.save \in Contents
          BY <4>2 DEF CommitsAreWhole, TypeOK
        <5>2. remote' = Whole(r.save)
          BY <4>2, <5>1 DEF Assembled, Whole
        <5>3. op.at = "commit" => op.kind = "upload"
          BY DEF KindOfStep
        <5>4. landed' \in BOOLEAN /\ (landed => landed')
          BY <4>2 DEF TypeOK
        <5>5. waiter' = waiter \/ Told
          BY <3>0, <4>2, <5>1, <5>3
        <5> QED BY <4>2, <5>1, <5>2, <5>4, <5>5
      <4> QED BY <3>2, <4>1, <4>2 DEF CommitHandled
    <3>3. CASE ReadHandled(r)
      <4>1. PICK sha \in Contents \cup {None} :
              /\ sha # None => remote = Whole(sha)
              /\ Reply(r, TRUE, sha) \/ Reply(r, FALSE, None)
        BY <3>3 DEF ReadHandled
      <4>2. sha # None => sha \in been
        BY <4>1, WholeIsOne DEF RemoteIsWhole, TypeOK
      <4>3. r.call \in {"list", "info"} /\ UNCHANGED <<remote, been, landed>>
        BY <3>3 DEF ReadHandled
      <4>4. waiter' = waiter \/ Told
        BY <3>0, <3>1, <4>1, <4>2, <4>3
      <4> QED BY <4>3, <4>4 DEF TypeOK
    <3>4. CASE OtherHandled(r)
      BY <3>1, <3>4 DEF OtherHandled, TypeOK
    <3> QED BY <2>1, <3>2, <3>3, <3>4 DEF SteamHandles
  <2>4. TypeOK'
    <3>1. waiter' \in Waiters /\ been' \subseteq Contents
      BY <1>0, <2>3 DEF TypeOK
    <3>2. remote' \in [Blocks -> Contents \cup {None}]
      BY <2>3 DEF TypeOK, Whole
    <3>3. wire' \subseteq Requests
      BY <2>2 DEF TypeOK
    <3> QED BY <2>2, <2>3, <3>1, <3>2, <3>3 DEF TypeOK, Waiters
  <2>5. KindOfStep' /\ BlocksArrive' /\ SuccessIsKnown' /\ Closing'
    BY <2>2, <2>3 DEF KindOfStep, BlocksArrive, SuccessIsKnown, Closing
  <2>6. CommitsAreWhole'
    BY <2>2 DEF CommitsAreWhole
  <2>7. AnswersAreTrue' /\ RemoteIsWhole'
    BY <2>2, <2>3 DEF AnswersAreTrue, RemoteIsWhole
  <2> QED BY <2>4, <2>5, <2>6, <2>7
<1>16. CASE PcUploads
  <2>1. PICK c \in Contents : remote' = Whole(c) /\ been' = been \cup {c}
    BY <1>16 DEF PcUploads
  <2>2. /\ UNCHANGED <<received, landed, network, op, outcome, transfers,
                       asked>>
        /\ pcUploads' \in 0..MaxPc
    BY <1>16 DEF PcUploads, TypeOK
  <2>3. TypeOK'
    BY <2>1, <2>2 DEF TypeOK, Whole
  <2>4. KindOfStep' /\ BlocksArrive' /\ SuccessIsKnown' /\ Closing'
    BY <2>1, <2>2 DEF KindOfStep, BlocksArrive, SuccessIsKnown, Closing
  <2>5. CommitsAreWhole'
    BY <2>2 DEF CommitsAreWhole
  <2>6. AnswersAreTrue' /\ RemoteIsWhole'
    BY <2>1, <2>2 DEF AnswersAreTrue, RemoteIsWhole
  <2> QED BY <2>3, <2>4, <2>5, <2>6
<1>17. CASE UNCHANGED vars
  BY <1>17 DEF TypeOK, KindOfStep, BlocksArrive, CommitsAreWhole,
               AnswersAreTrue, SuccessIsKnown, Closing, RemoteIsWhole
<1> QED BY <1>1, <1>2, <1>3, <1>4, <1>5, <1>6, <1>7, <1>8, <1>9, <1>10,
           <1>11, <1>12, <1>13, <1>14, <1>15, <1>16, <1>17
        DEF Next, ClientStep

\* It holds at first.
LEMMA Initially == Init => IInv
<1> SUFFICES ASSUME Init PROVE IInv
  OBVIOUS
<1> USE BoundAssumption DEF Init
<1>1. TypeOK
  <2>1. op \in Ops /\ waiter \in Waiters
    BY DEF Ops, Waiters, Idle, NoWaiter
  <2>2. PICK c \in Contents : remote = Whole(c) /\ been = {c}
    OBVIOUS
  <2>3. remote \in [Blocks -> Contents \cup {None}] /\ been \subseteq Contents
    BY <2>2 DEF Whole
  <2>4. received \in [Numbers -> SUBSET Blocks]
    OBVIOUS
  <2>5. /\ transfers \in 0..MaxTransfers /\ pcUploads \in 0..MaxPc
        /\ outcome \in [result : {"none", "ok", "failed"},
                        save : Contents \cup {None}]
    BY DEF Pending
  <2> QED BY <2>1, <2>3, <2>4, <2>5 DEF TypeOK, Ops, Waiters
<1> QED BY <1>1 DEF KindOfStep, BlocksArrive, CommitsAreWhole, AnswersAreTrue,
                    SuccessIsKnown, Closing, RemoteIsWhole, Idle, NoWaiter

\* The invariant the theorems rest on.
THEOREM InvariantHolds == Spec => []IInv
BY Initially, Step, PTL DEF Spec

\* A transfer sends the blocks of its save and no others, and every record of
\* the connection and of Steam keeps its form.
THEOREM TypeCorrect == Spec => []TypeOK
BY InvariantHolds, PTL

\* ---------------------------------------------------------------- refinement

\* The refinement mapping reads a whole file as its save, before a step ...
LEMMA SaveOfWhole ==
  ASSUME NEW c \in Contents, remote = Whole(c)
  PROVE  Save = c
BY WholeIsOne DEF Save

\* ... and after it.
LEMMA SaveOfWholeNext ==
  ASSUME NEW c \in Contents, remote' = Whole(c)
  PROVE  Save' = c
BY WholeIsOne DEF Save

\* The transfers start as the contract does.
LEMMA InitImplements == Init => Contract!Init
<1> SUFFICES ASSUME Init PROVE Contract!Init
  OBVIOUS
<1>1. PICK c \in Contents : remote = Whole(c) /\ been = {c}
  BY DEF Init
<1>2. Save = c
  BY <1>1, SaveOfWhole
<1> QED BY <1>1, <1>2 DEF Init, Contract!Init, Contract!NoTransfer,
                          Contract!Pending, Idle, Pending

\* Each of their steps is a step of the contract or changes nothing it sees.
LEMMA StepImplements ==
  IInv /\ IInv' /\ [Next]_vars => [Contract!Next]_(Contract!vars)
<1> SUFFICES ASSUME IInv, IInv', [Next]_vars
             PROVE  Contract!Next \/ UNCHANGED Contract!vars
  OBVIOUS
<1> USE NoneAssumption
<1>0. op \in Ops
  BY DEF TypeOK, Ops
<1>1. ASSUME UNCHANGED remote PROVE Save' = Save
  BY <1>1 DEF Save
<1>2. ASSUME UNCHANGED <<remote, been, asked, landed, outcome>>,
             op'.kind = op.kind, op'.save = op.save,
             op.kind = "download" => op'.sha = op.sha
      PROVE  UNCHANGED Contract!vars
  BY <1>1, <1>2 DEF Contract!vars
<1>3. ASSUME UNCHANGED <<remote, been, asked, landed>>, Return(Failed),
             op.at # "idle"
      PROVE  Contract!Fails
  <2>1. op.kind # "none"
    BY <1>3, <1>0 DEF KindOfStep, Ops, Steps, Calls
  <2> QED BY <1>1, <1>3, <2>1 DEF Return, Idle, Failed, Contract!Fails,
          Contract!NoTransfer, Contract!Failed
<1>4. ASSUME UNCHANGED <<remote, been, asked, landed>>, AfterFailure,
             op.at # "idle"
      PROVE  Contract!Fails \/ UNCHANGED Contract!vars
  <2>1. CASE op.at \in {"fileBegin", "commit"}
    <3>1. op' = [Calling("complete") EXCEPT !.failed = TRUE]
          /\ outcome' = outcome
      BY <1>4, <2>1 DEF AfterFailure
    <3>2. op'.kind = op.kind /\ op'.save = op.save /\ op'.sha = op.sha
      BY <1>0, <3>1 DEF Calling, Ops
    <3> QED BY <1>2, <1>4, <3>1, <3>2
  <2>2. CASE op.at \notin {"fileBegin", "commit"}
    BY <1>3, <1>4, <2>2 DEF AfterFailure
  <2> QED BY <2>1, <2>2
<1>5. CASE BeginUpload
  <2>1. PICK c \in Contents : Begin("upload", c, "batchBegin", None)
    BY <1>5 DEF BeginUpload
  <2>2. /\ op'.kind = "upload" /\ op'.save = c /\ op = Idle
        /\ asked' = asked \cup {c} /\ landed' = FALSE /\ outcome' = Pending
        /\ UNCHANGED <<remote, been>>
    BY <2>1 DEF Begin, Idle, KindOfStep
  <2>3. Contract!BeginUpload(c)
    BY <1>1, <2>2 DEF Idle, Pending, Contract!BeginUpload,
                      Contract!NoTransfer, Contract!Uploading,
                      Contract!Pending
  <2> QED BY <2>3 DEF Contract!Next
<1>6. CASE BeginDownload
  <2>1. PICK sha \in Contents \cup {None} : Begin("download", None, "info", sha)
    BY <1>6 DEF BeginDownload
  <2>2. /\ op'.kind = "download" /\ op'.save = None /\ op = Idle
        /\ asked' = asked /\ landed' = FALSE /\ outcome' = Pending
        /\ UNCHANGED <<remote, been>>
    BY <2>1 DEF Begin, Idle, KindOfStep
  <2>3. Contract!BeginDownload
    BY <1>1, <2>2 DEF Idle, Pending, Contract!BeginDownload,
                      Contract!NoTransfer, Contract!Downloading,
                      Contract!Pending
  <2> QED BY <2>3 DEF Contract!Next
<1>7. CASE SendFails \/ CallFailed \/ CallTimesOut
  <2>1. AfterFailure /\ UNCHANGED <<remote, been, asked, landed>>
    BY <1>7 DEF SendFails, CallFailed, CallTimesOut
  <2>2. op.at # "idle"
    BY <1>7 DEF SendFails, CallFailed, CallTimesOut, KindOfStep, Idle
  <2> QED BY <1>4, <2>1, <2>2 DEF Contract!Next
<1>8. CASE Insert \/ Send \/ PutBlock
  <2>1. UNCHANGED <<remote, been, asked, landed, outcome>>
    BY <1>8 DEF Insert, Send, PutBlock
  <2>2. op'.kind = op.kind /\ op'.save = op.save /\ op'.sha = op.sha
    BY <1>0, <1>8 DEF Insert, Send, PutBlock, Ops
  <2> QED BY <1>2, <2>1, <2>2
<1>9. CASE BatchBegun \/ FileBegun \/ Committed
  <2>1. UNCHANGED <<remote, been, asked, landed, outcome>>
    BY <1>9 DEF BatchBegun, FileBegun, Committed, CallSucceeded
  <2>2. op'.kind = op.kind /\ op'.save = op.save /\ op'.sha = op.sha
    <3>1. CASE BatchBegun \/ FileBegun
      BY <1>0, <3>1 DEF BatchBegun, FileBegun, Calling, Ops
    <3>2. CASE Committed
      BY <1>0, <3>2 DEF Committed, Calling, Ops
    <3> QED BY <1>9, <3>1, <3>2
  <2> QED BY <1>2, <2>1, <2>2
<1>18. CASE Informed
  <2>1. /\ UNCHANGED <<remote, been, asked, landed, outcome>>
        /\ op.kind = "download" /\ op.save = None
    BY <1>18 DEF Informed, CallSucceeded, KindOfStep
  <2>2. /\ op'.kind = op.kind /\ op'.save = op.save
        /\ op'.sha = IF waiter.save = None THEN op.sha ELSE waiter.save
    BY <1>0, <1>18 DEF Informed, Calling, Ops
  <2>3. CASE op'.sha = op.sha
    BY <1>2, <2>1, <2>2, <2>3
  <2>4. CASE op.sha # None /\ op'.sha # None
    BY <1>1, <2>1, <2>2, <2>4 DEF Contract!vars
  <2>5. CASE op.sha = None /\ op'.sha # None
    <3>1. Contract!LearnHash
      BY <1>1, <2>1, <2>2, <2>5 DEF Contract!LearnHash, Contract!Downloading
    <3> QED BY <3>1 DEF Contract!Next
  <2> QED BY <2>2, <2>3, <2>4, <2>5
<1>10. CASE PutDone \/ Unusable \/ PutFails
  <2>1. UNCHANGED <<remote, been, asked, landed, outcome>>
    BY <1>10 DEF PutDone, Unusable, PutFails
  <2>2. op'.kind = op.kind /\ op'.save = op.save /\ op'.sha = op.sha
    <3>1. CASE PutDone
      BY <1>0, <3>1 DEF PutDone, Calling, Ops
    <3>2. CASE Unusable
      BY <1>0, <3>2 DEF Unusable, Calling, Ops
    <3>3. CASE PutFails
      BY <1>0, <3>3 DEF PutFails, Calling, Ops
    <3> QED BY <1>10, <3>1, <3>2, <3>3
  <2> QED BY <1>2, <2>1, <2>2
<1>11. CASE Completed
  <2>1. CASE op.failed
    BY <1>3, <1>11, <2>1 DEF Completed, Contract!Next
  <2>2. CASE ~op.failed
    BY <1>0, <1>2, <1>11, <2>2 DEF Completed, Calling, Ops
  <2> QED BY <2>1, <2>2
<1>12. CASE Listed
  <2>1. /\ op.at = "list" /\ UNCHANGED <<remote, been, asked, landed>>
        /\ Return(Ok(op.save)) \/ Return(Failed)
    BY <1>12 DEF Listed
  <2>2. CASE Return(Failed)
    BY <1>3, <2>1, <2>2 DEF Contract!Next
  <2>3. CASE Return(Ok(op.save))
    <3>1. op.kind = "upload" /\ landed
      BY <2>1 DEF KindOfStep, SuccessIsKnown
    <3> QED BY <1>1, <2>1, <2>3, <3>1
            DEF Return, Ok, Idle, Contract!Next, Contract!UploadSucceeds,
                Contract!Ok, Contract!NoTransfer
  <2> QED BY <2>1, <2>2, <2>3
<1>13. CASE Get
  <2>1. op.at = "get" /\ UNCHANGED <<remote, been, asked, landed>>
    BY <1>13 DEF Get
  <2>2. CASE Return(Failed)
    BY <1>3, <2>1, <2>2 DEF Contract!Next
  <2>3. ASSUME NEW bytes \in Contents \cup {None}, Verified(bytes),
               Return(Ok(bytes))
        PROVE  Contract!DownloadSucceeds
    <3>1. /\ op.kind = "download"
          /\ op.sha # None => bytes \in been
      BY <2>1, <2>3 DEF KindOfStep, Verified
    <3>2. /\ Save' = Save /\ UNCHANGED <<been, asked, landed>>
          /\ op'.kind = "none" /\ op'.save = None
          /\ outcome' = [result |-> "ok", save |-> bytes]
      BY <1>1, <2>1, <2>3 DEF Return, Ok, Idle
    <3> QED BY <3>1, <3>2 DEF Contract!DownloadSucceeds, Contract!Ok,
                              Contract!NoTransfer
  <2> QED BY <1>13, <2>2, <2>3 DEF Get, Contract!Next
<1>14. CASE MarkClosed \/ FailPending
  BY <1>2, <1>14 DEF MarkClosed, FailPending
<1>15. CASE \E r \in wire : SteamHandles(r)
  <2>1. PICK r \in wire : SteamHandles(r)
    BY <1>15
  <2>2. UNCHANGED <<op, outcome, asked, transfers>>
    BY <2>1 DEF SteamHandles
  <2>3. CASE UNCHANGED <<remote, been, landed>>
    BY <1>2, <2>2, <2>3
  <2>4. CASE /\ r.call = "commit" /\ r.ok
             /\ remote' = Assembled(r) /\ been' = been \cup {r.save}
             /\ landed' = (landed \/ (r.number = transfers
                                      /\ op.kind = "upload"))
    <3>1. received[r.number] = Blocks /\ r.save \in asked
      BY <2>4 DEF CommitsAreWhole
    <3>2. Save' = r.save
      <4>1. remote' = Whole(r.save)
        BY <2>4, <3>1 DEF Assembled, Whole
      <4> QED BY <3>1, <4>1, SaveOfWholeNext DEF TypeOK
    <3>3. \/ landed' = landed
          \/ landed' = TRUE /\ op.kind = "upload" /\ op.save = r.save
      BY <2>4 DEF CommitsAreWhole, TypeOK
    <3>4. Contract!Land
      BY <2>2, <2>4, <3>1, <3>2, <3>3
         DEF Contract!Land, Contract!Appears, Contract!Uploading
    <3> QED BY <3>4 DEF Contract!Next
  <2> QED BY <2>1, <2>3, <2>4
          DEF SteamHandles, CommitHandled, ReadHandled, OtherHandled
<1>16. CASE PcUploads
  <2>1. PICK c \in Contents : remote' = Whole(c) /\ been' = been \cup {c}
    BY <1>16 DEF PcUploads
  <2>2. UNCHANGED <<landed, op, outcome, asked>>
    BY <1>16 DEF PcUploads
  <2>3. Save' = c
    BY <2>1, SaveOfWholeNext
  <2>4. Contract!PcUploads
    BY <2>1, <2>2, <2>3 DEF Contract!PcUploads, Contract!Appears
  <2> QED BY <2>4 DEF Contract!Next
<1>17. CASE UNCHANGED vars
  BY <1>2, <1>17
<1> QED BY <1>5, <1>6, <1>7, <1>8, <1>9, <1>10, <1>11, <1>12, <1>13, <1>14,
           <1>15, <1>16, <1>17, <1>18 DEF Next, ClientStep

\* The transfers implement their contract, whatever fails and whatever Steam
\* still handles after the caller gave up: Steam never holds a part of a save, an
\* upload that reports success has put its save there, and a download that reports
\* success and was given a SHA-1 has brought a save that was there.
THEOREM Implements == Spec => KeepsContract
BY InitImplements, StepImplements, InvariantHolds, PTL
   DEF Spec, KeepsContract, Contract!Spec

\* An upload that knows its batch returns only after it has asked Steam to
\* complete it, and asks as for a success only when its save was put there.
THEOREM BatchSettled == Spec => BatchIsSettled
<1> DEFINE Asked   == op.kind = "upload" /\ op.at # "batchBegin"
                      /\ op'.at = "idle" => op.closing
           Deserved == op'.at = "complete" /\ ~op'.failed => landed
<1>1. ASSUME IInv, IInv', Next PROVE Asked
  <2> SUFFICES ASSUME op.kind = "upload", op.at # "batchBegin", op'.at = "idle"
               PROVE  op.closing
    OBVIOUS
  <2>1. op \in Ops /\ op.at \notin {"idle", "info", "get"}
    BY <1>1 DEF KindOfStep, Idle, TypeOK, Ops
  <2>2. CASE SendFails \/ CallFailed \/ CallTimesOut
    <3>1. AfterFailure /\ op.phase # "none"
      BY <2>2 DEF SendFails, CallFailed, CallTimesOut
    <3>2. op.at \notin {"fileBegin", "commit"}
      BY <2>1, <3>1 DEF AfterFailure, Calling, Ops
    <3>3. op.at \in {"complete", "list"}
      BY <1>1, <2>1, <3>1, <3>2 DEF KindOfStep
    <3> QED BY <1>1, <3>1, <3>3 DEF Closing
  <2>3. CASE Completed \/ Listed
    BY <1>1, <2>3 DEF Completed, Listed, Closing
  <2>4. CASE \/ BatchBegun \/ FileBegun \/ Committed \/ Informed \/ PutDone
             \/ Unusable \/ PutFails
    BY <2>1, <2>4 DEF BatchBegun, FileBegun, Committed, Informed, PutDone,
                      Unusable, PutFails, Calling, Ops
  <2>5. CASE \/ Insert \/ Send \/ PutBlock \/ MarkClosed \/ FailPending
             \/ PcUploads \/ \E r \in wire : SteamHandles(r)
    <3>1. op'.at = op.at
      BY <2>1, <2>5 DEF Insert, Send, PutBlock, MarkClosed, FailPending,
                        PcUploads, SteamHandles, Ops
    <3> QED BY <2>1, <3>1
  <2>6. CASE BeginUpload \/ BeginDownload \/ Get
    BY <2>1, <2>6 DEF BeginUpload, BeginDownload, Begin, Get
  <2> QED BY <1>1, <2>2, <2>3, <2>4, <2>5, <2>6 DEF Next, ClientStep
<1>2. ASSUME IInv, IInv', Next PROVE Deserved
  <2>1. CASE op' = op
    BY <1>2, <2>1 DEF SuccessIsKnown
  <2>2. CASE landed' = landed
    BY <1>2, <2>2 DEF SuccessIsKnown
  <2>3. CASE BeginUpload \/ BeginDownload
    <3>1. op'.at \in {"batchBegin", "info"}
      BY <2>3 DEF BeginUpload, BeginDownload, Begin, Idle
    <3> QED BY <3>1
  <2>4. CASE ClientStep \/ CallTimesOut
    BY <2>2, <2>4 DEF ClientStep, Insert, Send, SendFails, CallFailed,
       BatchBegun, FileBegun, PutBlock, PutDone, Committed, Completed, Listed,
       Informed, Get, CallTimesOut, CallSucceeded
  <2>5. CASE Unusable \/ PutFails
    BY <2>2, <2>5 DEF Unusable, PutFails
  <2>6. CASE \/ MarkClosed \/ FailPending \/ PcUploads
             \/ \E r \in wire : SteamHandles(r)
    BY <2>1, <2>6 DEF MarkClosed, FailPending, PcUploads, SteamHandles
  <2> QED BY <1>2, <2>3, <2>4, <2>5, <2>6 DEF Next
<1>3. IInv /\ IInv' /\ [Next]_vars => [Asked /\ Deserved]_vars
  BY <1>1, <1>2
<1> QED BY <1>3, InvariantHolds, PTL DEF Spec, BatchIsSettled
===============================================================================
