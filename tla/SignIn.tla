-------------------------------- MODULE SignIn --------------------------------
(***************************************************************************)
(* Signing in to Steam and calling it off.  connect_qr,                    *)
(* connect_credentials, cancel_login and submit_guard_code run on the      *)
(* application's main thread, one at a time; the sign-in itself is a task  *)
(* in the operation lane.  They share two unsynchronised handles:          *)
(* Engine.auth_cancel, the flag that calls a sign-in off, and              *)
(* Engine.guard_sender, the way a Steam Guard code reaches it.  A step of  *)
(* either side is what it does between two accesses of shared state.       *)
(*                                                                         *)
(* A flag and a channel belong to one sign-in, so both are named by its    *)
(* number.  The user interface offers what the status it last read allows. *)
(***************************************************************************)
EXTENDS Naturals

CONSTANT MaxAttempts  \* bound: how often connect_* is called

ASSUME AttemptsAssumption == MaxAttempts \in Nat

VARIABLES
  attempts,      \* the number of sign-ins that were asked for
  auth_cancel,   \* Engine.auth_cancel: whose flag it holds
  guard_sender,  \* Engine.guard_sender: whose channel it feeds
  cancelled,     \* the sign-ins whose flag is set
  codes,         \* the sign-ins with a code waiting in their channel
  main,          \* what the main thread is in the middle of
  lane,          \* operation_active: "free", "signIn" or "other"
  task,          \* the sign-in in the lane
  phase,         \* status.phase
  connected,     \* status.account_connected
  shown,         \* the status that the user interface read last
  stored,        \* history: the sign-ins whose token was stored
  inTime         \* history: flags set before the task looked for the last time

handles == <<auth_cancel, guard_sender>>
facts   == <<cancelled, codes>>
status  == <<phase, connected>>
history == <<stored, inTime>>
vars    == <<attempts, handles, facts, main, lane, task, status, shown,
             history>>

Attempts == 1..MaxAttempts
Nobody   == 0
Someone  == Attempts \cup {Nobody}
Kinds    == {"qr", "credentials"}
Guards   == {"none", "code", "approve"}
Phases   == {"idle", "connecting", "awaiting", "cancelling", "syncing", "error"}
MainSteps == {"idle", "sender", "spawn", "undoSender", "undoFlag", "store",
              "take", "show"}
TaskSteps == {"none", "begin", "prompt", "code", "submit", "poll", "answer",
              "logOn", "dropSender", "dropFlag", "check", "keep", "finish",
              "sync", "end"}

AtRest == [at |-> "idle", attempt |-> Nobody, kind |-> "qr",
           previous |-> Nobody]
NoTask == [at |-> "none", attempt |-> Nobody, kind |-> "qr",
           guard |-> "none", ok |-> TRUE]

TypeOK ==
  /\ attempts \in 0..MaxAttempts
  /\ auth_cancel \in Someone /\ guard_sender \in Someone
  /\ cancelled \subseteq Attempts /\ codes \subseteq Attempts
  /\ main \in [at : MainSteps, attempt : Someone, kind : Kinds,
               previous : Someone]
  /\ lane \in {"free", "signIn", "other"}
  /\ task \in [at : TaskSteps, attempt : Someone, kind : Kinds,
               guard : Guards, ok : BOOLEAN]
  /\ phase \in Phases /\ connected \in BOOLEAN
  /\ shown \in [phase : Phases, connected : BOOLEAN]
  /\ stored \subseteq Attempts /\ inTime \subseteq Attempts

Init ==
  /\ attempts = 0
  /\ auth_cancel = Nobody /\ guard_sender = Nobody
  /\ cancelled = {} /\ codes = {}
  /\ main = AtRest
  /\ lane = "free" /\ task = NoTask
  /\ phase = "idle" /\ connected = FALSE
  /\ shown = [phase |-> "idle", connected |-> FALSE]
  /\ stored = {} /\ inTime = {}

\* ------------------------------------------------------------ the main thread

\* The panel reads the status again, every 0.75 seconds.
Refresh ==
  /\ shown' = [phase |-> phase, connected |-> connected]
  /\ UNCHANGED <<attempts, handles, facts, main, lane, task, status, history>>

SignInShown == shown.phase \in {"connecting", "awaiting"}

\* The user picks a way to sign in: connect_* replaces the flag.
Connect(kind) ==
  /\ main.at = "idle" /\ ~SignInShown /\ ~shown.connected
  /\ attempts < MaxAttempts
  /\ attempts' = attempts + 1
  /\ auth_cancel' = attempts'
  /\ main' = [at |-> IF kind = "qr" THEN "spawn" ELSE "sender",
              attempt |-> attempts', kind |-> kind, previous |-> auth_cancel]
  /\ UNCHANGED <<guard_sender, facts, lane, task, status, shown, history>>

ReplaceSender ==
  /\ main.at = "sender"
  /\ guard_sender' = main.attempt
  /\ main' = [main EXCEPT !.at = "spawn"]
  /\ UNCHANGED <<attempts, auth_cancel, facts, lane, task, status, shown,
                 history>>

\* spawn_operation: the lane is taken and the task starts.
Spawn ==
  /\ main.at = "spawn" /\ lane = "free"
  /\ lane' = "signIn"
  /\ task' = [NoTask EXCEPT !.at = "begin", !.attempt = main.attempt,
                            !.kind = main.kind]
  /\ phase' = "connecting"
  /\ main' = AtRest
  /\ UNCHANGED <<attempts, handles, facts, connected, shown, history>>

\* spawn_operation: another operation has the lane, so the call is undone.
Refused ==
  /\ main.at = "spawn" /\ lane # "free"
  /\ main' = [main EXCEPT !.at = IF main.kind = "qr" THEN "undoFlag"
                                                     ELSE "undoSender"]
  /\ UNCHANGED <<attempts, handles, facts, lane, task, status, shown, history>>

\* MUTANT: the undo restores the flag but leaves the sender in place.
MUndoKeepsSender ==
  /\ main.at = "undoSender"
  /\ main' = [main EXCEPT !.at = "undoFlag"]
  /\ UNCHANGED <<attempts, handles, facts, lane, task, status, shown, history>>

UndoSender ==
  /\ main.at = "undoSender"
  /\ guard_sender' = Nobody
  /\ main' = [main EXCEPT !.at = "undoFlag"]
  /\ UNCHANGED <<attempts, auth_cancel, facts, lane, task, status, shown,
                 history>>

UndoFlag ==
  /\ main.at = "undoFlag"
  /\ auth_cancel' = main.previous
  /\ main' = AtRest
  /\ UNCHANGED <<attempts, guard_sender, facts, lane, task, status, shown,
                 history>>

\* cancel_login takes the flag; without one it changes nothing.
CancelTakesFlag ==
  /\ main.at = "idle" /\ SignInShown
  /\ auth_cancel # Nobody
  /\ main' = [AtRest EXCEPT !.at = "store", !.attempt = auth_cancel]
  /\ auth_cancel' = Nobody
  /\ UNCHANGED <<attempts, guard_sender, facts, lane, task, status, shown,
                 history>>

\* Has the task of this sign-in still to look at its flag?
StillLooks(a) ==
  /\ a \notin stored
  /\ task.attempt = a => task.at \notin {"keep", "finish", "sync", "end"}

CancelSetsFlag ==
  /\ main.at = "store"
  /\ cancelled' = cancelled \cup {main.attempt}
  /\ inTime' = IF StillLooks(main.attempt) THEN inTime \cup {main.attempt}
                                           ELSE inTime
  /\ main' = [main EXCEPT !.at = "take"]
  /\ UNCHANGED <<attempts, handles, codes, lane, task, status, shown, stored>>

\* MUTANT: cancel_login only sets the flag.
MCancelKeepsSender ==
  /\ main.at = "take"
  /\ main' = [main EXCEPT !.at = "show"]
  /\ UNCHANGED <<attempts, handles, facts, lane, task, status, shown, history>>

CancelTakesSender ==
  /\ main.at = "take"
  /\ guard_sender' = Nobody
  /\ main' = [main EXCEPT !.at = "show"]
  /\ UNCHANGED <<attempts, auth_cancel, facts, lane, task, status, shown,
                 history>>

CancelShows ==
  /\ main.at = "show"
  /\ phase' = "cancelling"
  /\ main' = AtRest
  /\ UNCHANGED <<attempts, handles, facts, lane, task, connected, shown,
                 history>>

\* MUTANT: a code is taken even when there is no sender.
MReceivesAlways(a) == TRUE

\* Does anybody hold the receiving end of the channel of a?  connect_with_* keeps
\* it until it returns, though it takes one code at most: a code that is sent
\* later is accepted and lost.
Receives(a) ==
  /\ task.attempt = a
  /\ task.at \in {"begin", "prompt", "code", "submit", "poll", "answer", "logOn"}

\* submit_guard_code; without a sender or a receiver it changes nothing.
SubmitCode ==
  /\ main.at = "idle" /\ shown.phase = "awaiting"
  /\ Receives(guard_sender) /\ guard_sender \notin codes
  /\ codes' = codes \cup {guard_sender}
  /\ UNCHANGED <<attempts, handles, cancelled, main, lane, task, status, shown,
                 history>>

\* ---------------------------------------------------------- the sign-in task

\* A step of the task: it goes on to the step at, and changes no handle.
Goes(from, at) ==
  /\ task.at = from
  /\ task' = [task EXCEPT !.at = at]
  /\ UNCHANGED <<attempts, main, lane, connected, shown, cancelled, inTime>>

\* connect_with_* returned; ok says whether with a session.
Returns(from, ok) ==
  /\ task.at = from
  /\ task' = [task EXCEPT !.ok = ok,
                          !.at = IF task.kind = "qr" THEN "dropFlag"
                                                     ELSE "dropSender"]
  /\ UNCHANGED <<attempts, main, lane, connected, shown, cancelled, inTime,
                 handles, phase, stored>>

\* connect_cm and the begin request; Steam says which guard it wants.
BeginAnswered ==
  /\ task.at = "begin"
  /\ \E guard \in Guards :
       /\ task.kind = "qr" => guard = "approve"
       /\ task' = [task EXCEPT !.guard = guard,
                     !.at = IF guard = "none" THEN "poll" ELSE "prompt"]
  /\ UNCHANGED <<attempts, handles, facts, main, lane, status, shown, history>>

\* The prompt or challenge callback shows what the user has to do.
Prompt ==
  /\ Goes("prompt", IF task.guard = "code" THEN "code" ELSE "poll")
  /\ phase' = "awaiting"
  /\ UNCHANGED <<handles, codes, stored>>

\* guard_codes.recv(): a code, or None once nobody can send one any more.
CodeArrives ==
  /\ task.attempt \in codes
  /\ Goes("code", "submit")
  /\ UNCHANGED <<handles, codes, phase, stored>>

NoCodeCanArrive ==
  /\ task.attempt \notin codes /\ guard_sender # task.attempt
  /\ Returns("code", FALSE)
  /\ UNCHANGED codes

CodeAccepted ==
  /\ Goes("submit", "poll")
  /\ UNCHANGED <<handles, codes, phase, stored>>

\* The loop looks at the flag before every poll request.
PollCancelled ==
  /\ task.attempt \in cancelled
  /\ Returns("poll", FALSE)
  /\ UNCHANGED codes

Poll ==
  /\ task.attempt \notin cancelled
  /\ Goes("poll", "answer")
  /\ UNCHANGED <<handles, codes, phase, stored>>

\* Not approved yet; a QR challenge may have changed, and is shown again.
Pending ==
  /\ Goes("answer", "poll")
  /\ phase' \in {phase} \cup (IF task.kind = "qr" THEN {"awaiting"} ELSE {})
  /\ UNCHANGED <<handles, codes, stored>>

Approved ==
  /\ Goes("answer", "logOn")
  /\ UNCHANGED <<handles, codes, phase, stored>>

LoggedOn ==
  /\ Returns("logOn", TRUE)
  /\ UNCHANGED codes

\* A request fails, or one of the timeouts of connect_with_* strikes.
StepFails ==
  /\ \E from \in {"begin", "code", "submit", "poll", "answer", "logOn"} :
       Returns(from, FALSE)
  /\ UNCHANGED codes

DropSender ==
  /\ Goes("dropSender", "dropFlag")
  /\ guard_sender' = Nobody
  /\ UNCHANGED <<auth_cancel, codes, phase, stored>>

DropFlag ==
  /\ Goes("dropFlag", "check")
  /\ auth_cancel' = Nobody
  /\ UNCHANGED <<guard_sender, codes, phase, stored>>

\* The flag is looked at for the last time.
Abandon ==
  /\ task.at = "check" /\ task.attempt \in cancelled
  /\ task' = [task EXCEPT !.at = "end", !.ok = TRUE]
  /\ phase' = "idle"
  /\ UNCHANGED <<attempts, handles, facts, main, lane, connected, shown,
                 history>>

\* MUTANT: only the result of connect_with_* decides.
MGoOnRegardless ==
  /\ Goes("check", IF task.ok THEN "keep" ELSE "end")
  /\ UNCHANGED <<handles, codes, phase, stored>>

GoOn ==
  /\ task.attempt \notin cancelled
  /\ Goes("check", IF task.ok THEN "keep" ELSE "end")
  /\ UNCHANGED <<handles, codes, phase, stored>>

\* keychain::store_refresh_token
StoreToken ==
  /\ Goes("keep", "finish")
  /\ stored' = stored \cup {task.attempt}
  /\ UNCHANGED <<handles, codes, phase>>

\* finish_login, then run_sync
FinishLogin ==
  /\ task.at = "finish"
  /\ task' = [task EXCEPT !.at = "sync"]
  /\ connected' = TRUE
  /\ UNCHANGED <<attempts, handles, facts, main, lane, phase, shown, history>>

Synchronise ==
  /\ Goes("sync", "end")
  /\ phase' = "syncing"
  /\ UNCHANGED <<handles, codes, stored>>

AfterLoginFails ==
  /\ task.at \in {"keep", "finish", "sync"}
  /\ task' = [task EXCEPT !.at = "end", !.ok = FALSE]
  /\ UNCHANGED <<attempts, handles, facts, main, lane, status, shown, history>>

\* The end of spawn_operation's task: the last status, then the lane.
EndTask ==
  /\ task.at = "end"
  /\ phase' = IF task.ok THEN "idle" ELSE "error"
  /\ task' = NoTask /\ lane' = "free"
  /\ UNCHANGED <<attempts, handles, facts, main, connected, shown, history>>

\* ------------------------------------------------------- the other operations

\* The lane is taken by something else: a synchronisation, a restore.
OtherBegins ==
  /\ lane = "free"
  /\ lane' = "other" /\ phase' = "syncing"
  /\ UNCHANGED <<attempts, handles, facts, main, task, connected, shown,
                 history>>

\* It ends; it may have been disconnect.
OtherEnds ==
  /\ lane = "other"
  /\ lane' = "free"
  /\ phase' \in {"idle", "error"}
  /\ connected' \in {connected, FALSE}
  /\ UNCHANGED <<attempts, handles, facts, main, task, shown, history>>

\* ------------------------------------------------------------- specification

MainGoesOn ==
  \/ ReplaceSender \/ Spawn \/ Refused \/ UndoSender \/ UndoFlag
  \/ CancelSetsFlag \/ CancelTakesSender \/ CancelShows

TaskGoesOn ==
  \/ BeginAnswered \/ Prompt \/ CodeArrives \/ NoCodeCanArrive \/ CodeAccepted
  \/ PollCancelled \/ Poll \/ LoggedOn \/ DropSender \/ DropFlag
  \/ Abandon \/ GoOn \/ StoreToken \/ FinishLogin \/ Synchronise \/ EndTask

Next ==
  \/ Refresh \/ \E kind \in Kinds : Connect(kind)
  \/ CancelTakesFlag \/ SubmitCode
  \/ MainGoesOn \/ TaskGoesOn
  \/ Pending \/ Approved \/ StepFails \/ AfterLoginFails
  \/ OtherBegins \/ OtherEnds

Spec == Init /\ [][Next]_vars

\* The main thread and the runtime get to run, and Steam answers a request.
\* Nobody has to approve a sign-in, to enter a code or to wait for a timeout.
FairSpec ==
  /\ Spec
  /\ WF_vars(MainGoesOn) /\ WF_vars(TaskGoesOn)
  /\ WF_vars(Pending \/ Approved)

\* ---------------------------------------------------------------- properties

\* A sign-in whose flag was set before its task looked for the last time never
\* stores a token, also when the user approved it and Steam logged it on in
\* between (the check after connect_with_* in connect_qr and
\* connect_credentials).
CancelInTimeStoresNothing == stored \cap inTime = {}

\* Between two calls of the user interface the sender is gone or belongs to the
\* sign-in that runs, so that a code never goes to one that was refused, was
\* called off or has ended, with the panel saying that it was accepted (the undo
\* branch of connect_credentials, the end of its task, cancel_login).
CodesGoToTheTask ==
  main.at = "idle" => guard_sender \in {Nobody, task.attempt}

\* A sign-in that is called off ends without an approval, a code or a timeout
\* (cancel_login drops the sender, the polling loops look at the flag).
CancelEnds ==
  \A a \in Attempts : a \in cancelled ~> task.attempt # a
================================================================================
