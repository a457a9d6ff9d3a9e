------------------------------- MODULE Transfer -------------------------------
(***************************************************************************)
(* The Steam Cloud transfers of cloud.rs and the CM connection they call   *)
(* Steam through.  A call puts a waiter in the connection's pending_jobs,  *)
(* sends the request, and waits; the read task of the connection answers   *)
(* the waiter, and fails every waiter when the connection ends.  Steam may *)
(* handle a request whose caller has given up, and in any order with the   *)
(* next ones.  The blocks of a file go over HTTP.                          *)
(*                                                                         *)
(* A save is cut into blocks, so that one whose upload stopped half way    *)
(* can be told from a whole one: the file on Steam is what is in each      *)
(* block.  Steam is taken to put together what it has once it is told that *)
(* the transfer succeeded.                                                 *)
(***************************************************************************)
EXTENDS FiniteSets, Naturals

CONSTANTS
  Contents,     \* the saves
  Blocks,       \* the blocks a save is uploaded in
  MaxTransfers, \* bound: transfers
  MaxPc,        \* bound: uploads by a PC
  None

ASSUME NoneAssumption   == None \notin Contents
ASSUME BlocksAssumption == Blocks # {} /\ IsFiniteSet(Blocks)
ASSUME BoundAssumption  == MaxTransfers \in Nat /\ MaxPc \in Nat

VARIABLES
  remote,    \* Steam: what is in each block of the file
  received,  \* Steam: the blocks it has of each upload
  wire,      \* the requests Steam has not handled yet
  conn,      \* the connection: "open", "marked" (close_reason is set),
             \* "drained" (and its waiters have failed)
  waiter,    \* the waiter of the call in progress, in pending_jobs or answered
  op,        \* the transfer in progress
  outcome,   \* what the last one returned
  transfers, \* the number of transfers so far
  pcUploads, \* the number of uploads by a PC so far
  asked,     \* history: the saves an upload was asked for
  been,      \* history: the saves that have been on Steam
  landed     \* history: has the save of this upload been put there?

steam   == <<remote, received, been, landed>>
network == <<wire, conn, waiter>>
bounds  == <<transfers, pcUploads, asked>>
vars    == <<steam, network, op, outcome, bounds>>

Whole(c) == [b \in Blocks |-> c]
Numbers  == 1..MaxTransfers
Calls == {"batchBegin", "fileBegin", "commit", "complete", "list", "info"}
Steps == Calls \cup {"idle", "put", "get"}
Results == Contents \cup {None, TRUE, FALSE}

\* A request names its transfer; a commit carries transfer_succeeded.
Requests == [call : Calls, number : Numbers, save : Contents \cup {None},
             ok : BOOLEAN]

Idle == [at |-> "idle", kind |-> "none", save |-> None, phase |-> "none",
         todo |-> {}, transferred |-> TRUE, failed |-> FALSE, sha |-> None,
         closing |-> FALSE]

Pending == [result |-> "none", save |-> None]
Ok(c)   == [result |-> "ok", save |-> c]
Failed  == [result |-> "failed", save |-> None]

NoWaiter == [at |-> "none", ok |-> TRUE, save |-> None]
Waiting  == [NoWaiter EXCEPT !.at = "pending"]
Answered(ok, save) == [at |-> "done", ok |-> ok, save |-> save]

TypeOK ==
  /\ remote \in [Blocks -> Contents \cup {None}]
  /\ received \in [Numbers -> SUBSET Blocks]
  /\ wire \subseteq Requests
  /\ conn \in {"open", "marked", "drained"}
  /\ waiter \in [at : {"none", "pending", "done"}, ok : BOOLEAN,
                 save : Contents \cup {None}]
  /\ op \in [at : Steps, kind : {"none", "upload", "download"},
             save : Contents \cup {None}, phase : {"none", "ask", "wait"},
             todo : SUBSET Blocks, transferred : BOOLEAN, failed : BOOLEAN,
             sha : Contents \cup {None}, closing : BOOLEAN]
  /\ outcome \in [result : {"none", "ok", "failed"},
                  save : Contents \cup {None}]
  /\ transfers \in 0..MaxTransfers /\ pcUploads \in 0..MaxPc
  /\ been \subseteq Contents /\ asked \subseteq Contents /\ landed \in BOOLEAN

Init ==
  /\ \E c \in Contents : remote = Whole(c) /\ been = {c}
  /\ received = [n \in Numbers |-> {}]
  /\ landed = FALSE
  /\ wire = {} /\ conn = "open" /\ waiter = NoWaiter
  /\ op = Idle /\ outcome = Pending
  /\ transfers = 0 /\ pcUploads = 0 /\ asked = {}

\* ------------------------------------------------------------------- a call

\* The operation goes on with the given call.
Calling(call) == [op EXCEPT !.at = call, !.phase = "none"]

\* send_request: the waiter is put in pending_jobs first.
Insert ==
  /\ op.at \in Calls /\ op.phase = "none"
  /\ op' = [op EXCEPT !.phase = "ask",
                      !.closing = op.closing \/ op.at = "complete"]
  /\ waiter' = Waiting
  /\ UNCHANGED <<steam, wire, conn, outcome, bounds>>

\* MUTANT: the request is written without a look at close_reason.
MSendUnchecked ==
  /\ op.phase = "ask"
  /\ op' = [op EXCEPT !.phase = "wait"]
  /\ UNCHANGED <<steam, network, outcome, bounds>>

\* send_frame writes the request unless the connection is known to be closed;
\* what is written may be lost.
Send ==
  /\ op.phase = "ask" /\ conn = "open"
  /\ op' = [op EXCEPT !.phase = "wait"]
  /\ wire' \in
       {wire, wire \cup {[call |-> op.at, number |-> transfers,
                          save |-> op.save, ok |-> op.transferred]}}
  /\ UNCHANGED <<steam, conn, waiter, outcome, bounds>>

\* A transfer returns.
Return(result) ==
  /\ op' = Idle /\ outcome' = result
  /\ waiter' = NoWaiter

\* MUTANT: an error of the commit leaves upload_verified at once.
MReturnsAtCommit ==
  IF op.at = "fileBegin"
  THEN /\ op' = [Calling("complete") EXCEPT !.failed = TRUE]
       /\ waiter' = NoWaiter
       /\ UNCHANGED outcome
  ELSE Return(Failed)

\* What upload_verified and download do when a call fails.
AfterFailure ==
  IF op.at \in {"fileBegin", "commit"}
  THEN /\ op' = [Calling("complete") EXCEPT !.failed = TRUE]
       /\ waiter' = NoWaiter
       /\ UNCHANGED outcome
  ELSE Return(Failed)

\* The connection is known to be closed: the waiter is taken out again.
SendFails ==
  /\ op.phase = "ask" /\ conn # "open"
  /\ AfterFailure
  /\ UNCHANGED <<steam, wire, conn, bounds>>

\* The waiter was failed, or answered with an eresult that is not OK.
CallFailed ==
  /\ op.phase = "wait" /\ waiter.at = "done" /\ ~waiter.ok
  /\ AfterFailure
  /\ UNCHANGED <<steam, wire, conn, bounds>>

\* RPC_TIMEOUT
CallTimesOut ==
  /\ op.phase = "wait" /\ waiter.at = "pending"
  /\ AfterFailure
  /\ UNCHANGED <<steam, wire, conn, bounds>>

\* ----------------------------------------------------- the connection's end

\* The read loop ends: mark_closed, and only then fail_pending_jobs.
MarkClosed ==
  /\ conn = "open"
  /\ conn' = "marked"
  /\ UNCHANGED <<steam, wire, waiter, op, outcome, bounds>>

FailPending ==
  /\ conn = "marked"
  /\ conn' = "drained"
  /\ waiter' = IF waiter.at = "pending" THEN Answered(FALSE, None) ELSE waiter
  /\ UNCHANGED <<steam, wire, op, outcome, bounds>>

\* -------------------------------------------------------------------- Steam

\* What is in the file once Steam puts the blocks it has together.
Assembled(r) ==
  [b \in Blocks |-> IF b \in received[r.number] THEN r.save ELSE None]

\* The answer reaches the waiter of the call that is being waited for.
Reply(r, ok, save) ==
  waiter' \in {waiter} \cup
    (IF r.number = transfers /\ op.at = r.call /\ op.phase = "wait"
        /\ waiter.at = "pending" /\ conn = "open"
     THEN {Answered(ok, save)} ELSE {})

\* Steam puts the file together when it is told that the transfer succeeded.
CommitHandled(r) ==
  /\ r.call = "commit"
  /\ \/ /\ r.ok
        /\ remote' = Assembled(r)
        /\ been' = been \cup {r.save}
        /\ landed' = (landed \/ (r.number = transfers /\ op.kind = "upload"))
        /\ Reply(r, TRUE, r.save)
     \/ /\ UNCHANGED <<remote, been, landed>>
        /\ Reply(r, TRUE, None) \/ Reply(r, FALSE, None)

\* GetAppFileChangelist, ClientFileDownload: the SHA-1 of the file, which either
\* may leave out.
ReadHandled(r) ==
  /\ r.call \in {"list", "info"}
  /\ \E sha \in Contents \cup {None} :
       /\ sha # None => remote = Whole(sha)
       /\ Reply(r, TRUE, sha) \/ Reply(r, FALSE, None)
  /\ UNCHANGED <<remote, been, landed>>

OtherHandled(r) ==
  /\ r.call \in {"batchBegin", "fileBegin", "complete"}
  /\ Reply(r, TRUE, None) \/ Reply(r, FALSE, None)
  /\ UNCHANGED <<remote, been, landed>>

SteamHandles(r) ==
  /\ wire' = wire \ {r}
  /\ CommitHandled(r) \/ ReadHandled(r) \/ OtherHandled(r)
  /\ UNCHANGED <<received, conn, op, outcome, bounds>>

\* A PC uploads its save.
PcUploads ==
  /\ pcUploads < MaxPc
  /\ pcUploads' = pcUploads + 1
  /\ \E c \in Contents : remote' = Whole(c) /\ been' = been \cup {c}
  /\ UNCHANGED <<received, landed, network, op, outcome, transfers,
                 asked>>

\* ---------------------------------------------------------------- transfers

\* A transfer starts on the connection of the session, which may have ended, or
\* on a new one of ensure_session.
Begin(kind, save, at, listed) ==
  /\ op.at = "idle" /\ transfers < MaxTransfers
  /\ op' = [Idle EXCEPT !.at = at, !.kind = kind, !.save = save, !.sha = listed]
  /\ conn' \in {conn, "open"} /\ landed' = FALSE
  /\ transfers' = transfers + 1
  /\ asked' = asked \cup ({save} \ {None})
  /\ outcome' = Pending
  /\ UNCHANGED <<remote, received, been, wire, waiter, pcUploads>>

BeginUpload == \E c \in Contents : Begin("upload", c, "batchBegin", None)

\* download of a file that the changelist has named, with its SHA-1 or without.
BeginDownload ==
  \E sha \in Contents \cup {None} :
    /\ sha # None => remote = Whole(sha)
    /\ Begin("download", None, "info", sha)

CallSucceeded(call) ==
  /\ op.at = call /\ op.phase = "wait"
  /\ waiter.at = "done" /\ waiter.ok
  /\ waiter' = NoWaiter
  /\ UNCHANGED <<steam, wire, conn, bounds>>

BatchBegun ==
  /\ CallSucceeded("batchBegin")
  /\ op' = Calling("fileBegin")
  /\ UNCHANGED outcome

\* MUTANT: a block that lies outside the save is sent as well.
MRequestedBlocks == Blocks \cup {Cardinality(Blocks) + 1}

\* The block_requests of the answer that the save has bytes for.
RequestedBlocks == Blocks

FileBegun ==
  /\ CallSucceeded("fileBegin")
  /\ op' = [Calling("put") EXCEPT !.todo = RequestedBlocks]
  /\ UNCHANGED outcome

\* The answer cannot be used: encryption, or a block that names no host or lies
\* outside the save.  upload_in_batch returns early, without a commit.
Unusable ==
  /\ op.at = "put"
  /\ op' = [Calling("complete") EXCEPT !.failed = TRUE]
  /\ UNCHANGED <<steam, network, outcome, bounds>>

PutBlock ==
  /\ op.at = "put"
  /\ \E b \in op.todo :
       /\ received' = [received EXCEPT ![transfers] = @ \cup {b}]
       /\ op' = [op EXCEPT !.todo = @ \ {b}]
  /\ UNCHANGED <<remote, been, landed, network, outcome, bounds>>

\* MUTANT: the block loop goes on to the commit as if nothing had failed.
MPutFailsUnnoticed ==
  /\ op.at = "put" /\ op.todo # {}
  /\ op' = Calling("commit")
  /\ UNCHANGED <<steam, network, outcome, bounds>>

\* A PUT fails or times out, after Steam got the block or not.
PutFails ==
  /\ op.at = "put" /\ op.todo # {}
  /\ \E b \in op.todo :
       received' \in {received, [received EXCEPT ![transfers] = @ \cup {b}]}
  /\ op' = [Calling("commit") EXCEPT !.transferred = FALSE]
  /\ UNCHANGED <<remote, been, landed, network, outcome, bounds>>

PutDone ==
  /\ op.at = "put" /\ op.todo = {}
  /\ op' = Calling("commit")
  /\ UNCHANGED <<steam, network, outcome, bounds>>

\* file_committed; the batch is completed as a success or as a failure.
Committed ==
  /\ CallSucceeded("commit")
  /\ op' = [Calling("complete") EXCEPT
             !.failed = ~op.transferred \/ waiter.save = None]
  /\ UNCHANGED outcome

Completed ==
  /\ op.at = "complete" /\ op.phase = "wait"
  /\ waiter.at = "done" /\ waiter.ok
  /\ IF op.failed
     THEN Return(Failed)
     ELSE op' = Calling("list") /\ waiter' = NoWaiter /\ UNCHANGED outcome
  /\ UNCHANGED <<steam, wire, conn, bounds>>

\* The upload is verified in a new changelist.
Listed ==
  /\ op.at = "list" /\ op.phase = "wait"
  /\ waiter.at = "done" /\ waiter.ok
  /\ Return(IF waiter.save = op.save THEN Ok(op.save) ELSE Failed)
  /\ UNCHANGED <<steam, wire, conn, bounds>>

\* The SHA-1 to expect: the answer's, or else the changelist's, if there is one.
Informed ==
  /\ CallSucceeded("info")
  /\ op' = [Calling("get") EXCEPT
             !.sha = IF waiter.save = None THEN @ ELSE waiter.save]
  /\ UNCHANGED outcome

\* MUTANT: the bytes are not compared with the SHA-1.
MUnverified(bytes) == TRUE

\* The check of downloaded bytes, which needs a SHA-1 to compare with.
Verified(bytes) == op.sha # None => bytes = op.sha

\* The bytes of the download are a save or damaged; or the request, their length
\* or the check fails.
Get ==
  /\ op.at = "get"
  /\ \/ \E bytes \in Contents \cup {None} : Verified(bytes) /\ Return(Ok(bytes))
     \/ Return(Failed)
  /\ UNCHANGED <<steam, wire, conn, bounds>>

\* ------------------------------------------------------------- specification

ClientStep ==
  \/ Insert \/ Send \/ SendFails \/ CallFailed
  \/ BatchBegun \/ FileBegun \/ PutBlock \/ PutDone
  \/ Committed \/ Completed \/ Listed \/ Informed \/ Get

Next ==
  \/ BeginUpload \/ BeginDownload \/ ClientStep
  \/ CallTimesOut \/ Unusable \/ PutFails
  \/ MarkClosed \/ FailPending
  \/ \E r \in wire : SteamHandles(r)
  \/ PcUploads

Spec == Init /\ [][Next]_vars

\* The runtime runs the operation and the read task.  Steam need not answer, and
\* no timeout need strike.
FairSpec == Spec /\ WF_vars(ClientStep) /\ WF_vars(FailPending)

\* ---------------------------------------------------------------- properties

\* The save on Steam, None when the file is not one whole save.
Save == IF \E c \in Contents : remote = Whole(c)
        THEN CHOOSE c \in Contents : remote = Whole(c)
        ELSE None

Contract == INSTANCE TransferContract
  WITH remote <- Save,
       transfer <- [kind |-> op.kind, save |-> op.save,
                    hashed |-> op.kind = "download" /\ op.sha # None]

\* The transfers keep their promise: whatever block, call, answer or connection
\* fails, and whatever Steam still handles after the caller gave up, Steam never
\* holds a part of a save, an upload that reports success has put its save there,
\* and a download that reports success and was given a SHA-1, by the changelist or
\* by the answer, has brought a save that was there (upload_verified,
\* upload_in_batch, download).
KeepsContract == Contract!Spec

\* An upload that knows its batch returns only after it has asked Steam to
\* complete it, and asks as for a success only when its save was put there, so
\* that no batch is left open to block the next one (upload_verified calls
\* CompleteAppUploadBatchBlocking whatever upload_in_batch returned).
BatchIsSettled ==
  [][/\ op.kind = "upload" /\ op.at # "batchBegin" /\ op'.at = "idle"
           => op.closing
     /\ op'.at = "complete" /\ ~op'.failed => landed]_vars

\* Once the connection has ended, the transfer ends too, without a timeout: no
\* call waits for an answer that can no longer come, however the read task and
\* the caller interleave (send_request, mark_closed and fail_pending_jobs).
CloseEndsTransfer == conn # "open" ~> op.at = "idle"
================================================================================
