-------------------------------- MODULE Session --------------------------------
(***************************************************************************)
(* The Steam session of the engine and the account its stored state        *)
(* belongs to: sign-in, ensure_session, disconnect and the presence tasks  *)
(* that every lifecycle notification spawns next to the operation lane.    *)
(*                                                                         *)
(* One async mutex protects the session; the Keychain and the state file   *)
(* have none.  A step is what runs between two awaits, or between two      *)
(* accesses of the state file.  Saves are abstracted to the account whose  *)
(* BASE the state file holds; SlotSync has their contents.  The texts and  *)
(* phases of the status are left out, its account flags are not.           *)
(***************************************************************************)
EXTENDS Naturals

CONSTANTS
  Accounts,  \* the Steam accounts a user may sign in with
  Tasks,     \* bound: the lifecycle tasks that may be pending at once
  None

ASSUME TasksAssumption == "lane" \notin Tasks /\ "free" \notin Tasks
ASSUME NoneAssumption  == None \notin Accounts

VARIABLES
  token,       \* the refresh token in the Keychain
  file,        \* sync-state.json: its steam_id, whose BASE records it has
  session,     \* the account of Engine.session
  open,        \* is the connection of that session usable?
  playing,     \* does Steam show AppID 250900 on it?
  holder,      \* who holds the mutex of Engine.session
  foreground,  \* Engine.foreground
  op,          \* the operation in the lane, or "none"
  at,          \* the next step of the lane and of every task
  acct,        \* the account each is connecting, or None
  mem,         \* the state file each has loaded to change it
  want,        \* the presence each is about to send
  signedIn,    \* status.authenticated
  connected,   \* status.account_connected
  origin,      \* history: what installed the session, "token" or "login"
  relogin      \* history: was a sign-in approved over a stored token?

account == <<token, file>>
steam   == <<session, open, playing, origin>>
work    == <<acct, mem, want>>
status  == <<signedIn, connected>>
vars    == <<account, steam, holder, foreground, op, at, work, status, relogin>>

Lane     == "lane"
Procs    == Tasks \cup {Lane}
Syncing  == {"auto", "manual", "force", "resolve"}
Ops      == Syncing \cup {"login", "disconnect"}
Ensuring == {"lock", "connect", "bind", "send"}
LaneSteps == Ensuring \cup
  {"idle", "work", "working", "again", "workingAgain", "drop", "dropped",
   "signIn", "store", "loginBind", "install", "welcome", "forget", "leave",
   "left"}
TaskSteps == Ensuring \cup {"idle", "clear"}

Files == [owner : Accounts \cup {None}, base : SUBSET Accounts]
Empty == [owner |-> None, base |-> {}]

LockFree == holder = "free"
Usable   == session # None /\ open

Init ==
  /\ token \in Accounts \cup {None}
  /\ file \in {Empty} \cup {[owner |-> a, base |-> b] :
                              a \in Accounts, b \in {{}}}
              \cup {[owner |-> a, base |-> {a}] : a \in Accounts}
  /\ session = None /\ open = FALSE /\ playing = FALSE /\ origin = "token"
  /\ holder = "free" /\ foreground = TRUE
  /\ op = "none" /\ at = [p \in Procs |-> "idle"]
  /\ acct = [p \in Procs |-> None] /\ mem = [p \in Procs |-> Empty]
  /\ want = [p \in Procs |-> FALSE]
  /\ signedIn = FALSE /\ connected = (token # None)
  /\ relogin = FALSE

Goto(p, step) == at' = [at EXCEPT ![p] = step]

\* What p held in memory is dropped
Forgets(p) ==
  /\ acct' = [acct EXCEPT ![p] = None]
  /\ mem' = [mem EXCEPT ![p] = Empty]
  /\ want' = [want EXCEPT ![p] = FALSE]

-------------------------------------------------------------------------------
(* The lifecycle and the user                                              *)

\* The app comes to the foreground: a task makes sure of the session, and a
\* "foreground" synchronisation is started when the lane is free.
EnterForeground(t) ==
  /\ ~foreground /\ at[t] = "idle"
  /\ foreground' = TRUE
  /\ IF op = "none"
       THEN op' = "auto" /\ at' = [at EXCEPT ![t] = "lock", ![Lane] = "lock"]
       ELSE op' = op /\ Goto(t, "lock")
  /\ UNCHANGED <<account, steam, holder, work, status, relogin>>

EnterBackground(t) ==
  /\ foreground /\ at[t] = "idle"
  /\ foreground' = FALSE
  /\ Goto(t, "clear")
  /\ UNCHANGED <<account, steam, holder, op, work, status, relogin>>

\* spawn_operation: the menu offers to connect only while no account is shown
\* as connected, and everything else of it only while one is.
Start(k) ==
  /\ op = "none"
  /\ k = "login" => ~connected
  /\ k \in {"manual", "force", "resolve", "disconnect"} => connected
  /\ op' = k
  /\ Goto(Lane, CASE k = "login"      -> "signIn"
                  [] k = "disconnect" -> "forget"
                  [] OTHER            -> "lock")
  /\ UNCHANGED <<account, steam, holder, foreground, work, status, relogin>>

\* Steam or the network closes the session's connection
ConnectionCloses ==
  /\ Usable
  /\ open' = FALSE /\ playing' = FALSE
  /\ UNCHANGED <<account, session, origin, holder, foreground, op, at, work,
                 status, relogin>>

\* The app is killed and launched again; the constructor reads the Keychain
Relaunch ==
  /\ session' = None /\ open' = FALSE /\ playing' = FALSE /\ origin' = "token"
  /\ holder' = "free" /\ foreground' = TRUE
  /\ op' = "none" /\ at' = [p \in Procs |-> "idle"]
  /\ acct' = [p \in Procs |-> None] /\ mem' = [p \in Procs |-> Empty]
  /\ want' = [p \in Procs |-> FALSE]
  /\ signedIn' = FALSE /\ connected' = (token # None)
  /\ UNCHANGED <<account, relogin>>

-------------------------------------------------------------------------------
(* ensure_session, by a foreground task or by an operation                 *)

\* A live session is kept; its presence is sent again
Reuse(p) ==
  /\ at[p] = "lock" /\ LockFree /\ Usable
  /\ holder' = p
  /\ want' = [want EXCEPT ![p] = foreground]
  /\ Goto(p, "send")
  /\ UNCHANGED <<account, steam, foreground, op, acct, mem, status, relogin>>

\* MUTANT: a connection is attempted without a stored token
MLoadToken(p) ==
  /\ at[p] = "lock" /\ LockFree /\ ~Usable
  /\ holder' = p
  /\ acct' = [acct EXCEPT ![p] = token]
  /\ Goto(p, "connect")
  /\ UNCHANGED <<account, steam, foreground, op, mem, want, status, relogin>>

LoadToken(p) ==
  /\ at[p] = "lock" /\ LockFree /\ ~Usable /\ token # None
  /\ holder' = p
  /\ acct' = [acct EXCEPT ![p] = token]
  /\ Goto(p, "connect")
  /\ UNCHANGED <<account, steam, foreground, op, mem, want, status, relogin>>

\* The logon succeeds; bind_state_to_account loads the state file
Connect(p) ==
  /\ at[p] = "connect"
  /\ mem' = [mem EXCEPT ![p] = file]
  /\ Goto(p, "bind")
  /\ UNCHANGED <<account, steam, holder, foreground, op, acct, want, status,
                 relogin>>

\* MUTANT: the BASE records of the account before are kept
MBoundTo(state, a) == [state EXCEPT !.owner = a]

\* The BASE records of another account are cleared
BoundTo(state, a) ==
  [owner |-> a,
   base  |-> IF state.owner \in {None, a} THEN state.base ELSE {}]

\* The file is saved, and the presence to send read from Engine.foreground
Bind(p) ==
  /\ at[p] = "bind"
  /\ file' = BoundTo(mem[p], acct[p])
  /\ want' = [want EXCEPT ![p] = foreground]
  /\ Goto(p, "send")
  /\ UNCHANGED <<token, steam, holder, foreground, op, acct, mem, status,
                 relogin>>

\* The presence is sent; a new session is installed with it.  The lock is
\* released: a task is done, an operation goes on.
Ensured(p) ==
  /\ at[p] = "send"
  /\ IF acct[p] = None
       THEN open /\ UNCHANGED <<session, open, origin, status>>
       ELSE /\ session' = acct[p] /\ open' = TRUE /\ origin' = "token"
            /\ signedIn' = TRUE /\ connected' = TRUE
  /\ playing' = want[p]
  /\ holder' = "free"
  /\ Goto(p, IF p = Lane THEN "work" ELSE "idle")
  /\ Forgets(p)
  /\ UNCHANGED <<account, foreground, op, relogin>>

\* The error ends a task.  automatic_sync reports being offline and is done;
\* any other operation drops the session.
GiveUp(p) ==
  IF p = Lane /\ op \notin {"auto", "manual"}
    THEN Goto(p, "drop") /\ op' = op
    ELSE Goto(p, "idle") /\ op' = (IF p = Lane THEN "none" ELSE op)

NoToken(p) ==
  /\ at[p] = "lock" /\ LockFree /\ ~Usable /\ token = None
  /\ GiveUp(p)
  /\ UNCHANGED <<account, steam, holder, foreground, work, status, relogin>>

\* MUTANT: the error path keeps the lock
MEnsureFails(p) ==
  /\ at[p] \in {"connect", "bind", "send"}
  /\ GiveUp(p)
  /\ Forgets(p)
  /\ UNCHANGED <<account, steam, holder, foreground, status, relogin>>

EnsureFails(p) ==
  /\ at[p] \in {"connect", "bind", "send"}
  /\ holder' = "free"
  /\ GiveUp(p)
  /\ Forgets(p)
  /\ UNCHANGED <<account, steam, foreground, status, relogin>>

EnsureStep(p) ==
  Reuse(p) \/ LoadToken(p) \/ Connect(p) \/ Bind(p) \/ Ensured(p)
  \/ NoToken(p) \/ EnsureFails(p)

\* MUTANT: a background task does not wait for the session's mutex
MClear(t) ==
  /\ at[t] = "clear"
  /\ playing' = FALSE
  /\ Goto(t, "idle")
  /\ UNCHANGED <<account, session, open, origin, holder, foreground, op, work,
                 status, relogin>>

\* A background task: whatever session there is stops showing the game.  On a
\* closed connection it fails, and shows nothing either.
Clear(t) ==
  /\ at[t] = "clear" /\ LockFree
  /\ playing' = FALSE
  /\ Goto(t, "idle")
  /\ UNCHANGED <<account, session, open, origin, holder, foreground, op, work,
                 status, relogin>>

-------------------------------------------------------------------------------
(* Operations of the lane                                                  *)

Finish == op' = "none" /\ Goto(Lane, "idle")

\* run_sync, force_slot and run_achievement_sync hold the session throughout
TakeSession(from, to) ==
  /\ at[Lane] = from /\ LockFree /\ session # None
  /\ holder' = Lane
  /\ Goto(Lane, to)
  /\ UNCHANGED <<account, steam, foreground, op, work, status, relogin>>

\* A manual synchronisation goes on with the achievements, a resolution for
\* the phone with a synchronisation
Achievements == op = "manual" /\ at[Lane] = "workingAgain"

\* The slots of the session's account have been compared; what was verified
\* becomes BASE
Synchronised ==
  /\ at[Lane] \in {"working", "workingAgain"}
  /\ \E learnt \in {{}, {session}} :
       /\ Achievements => learnt = {}
       /\ file' = [file EXCEPT !.base = @ \cup learnt]
  /\ holder' = "free"
  /\ IF at[Lane] = "working" /\ op \in {"manual", "resolve"}
       THEN Goto(Lane, "again") /\ op' = op
       ELSE Finish
  /\ UNCHANGED <<token, steam, foreground, work, status, relogin>>

\* An error: only that of the achievements leaves the session in place
SynchroniseFails ==
  /\ at[Lane] \in {"working", "workingAgain"}
  /\ holder' = "free"
  /\ IF Achievements THEN Finish ELSE Goto(Lane, "drop") /\ op' = op
  /\ UNCHANGED <<account, steam, foreground, work, status, relogin>>

\* spawn_operation's wrapper after an error: the session is dropped,
Drop ==
  /\ at[Lane] = "drop" /\ LockFree
  /\ session' = None /\ open' = FALSE /\ playing' = FALSE /\ origin' = "token"
  /\ Goto(Lane, "dropped")
  /\ UNCHANGED <<account, holder, foreground, op, work, status, relogin>>

\* the error shown, and the lane released
Dropped ==
  /\ at[Lane] = "dropped"
  /\ signedIn' = FALSE
  /\ Finish
  /\ UNCHANGED <<account, steam, holder, foreground, work, connected, relogin>>

\* The user approves the sign-in on Steam
Approve(a) ==
  /\ at[Lane] = "signIn"
  /\ acct' = [acct EXCEPT ![Lane] = a]
  /\ relogin' = (relogin \/ token # None)
  /\ Goto(Lane, "store")
  /\ UNCHANGED <<account, steam, holder, foreground, op, mem, want, status>>

Cancelled ==
  /\ at[Lane] = "signIn"
  /\ Finish
  /\ UNCHANGED <<account, steam, holder, foreground, work, status, relogin>>

\* The token is stored; finish_login loads the state file without the mutex
Store ==
  /\ at[Lane] = "store"
  /\ token' = acct[Lane]
  /\ mem' = [mem EXCEPT ![Lane] = file]
  /\ Goto(Lane, "loginBind")
  /\ UNCHANGED <<file, steam, holder, foreground, op, acct, want, status,
                 relogin>>

LoginBind ==
  /\ at[Lane] = "loginBind"
  /\ file' = BoundTo(mem[Lane], acct[Lane])
  /\ want' = [want EXCEPT ![Lane] = foreground]
  /\ Goto(Lane, "install")
  /\ UNCHANGED <<token, steam, holder, foreground, op, acct, mem, status,
                 relogin>>

\* The presence has been sent on the new connection before it waits for the
\* mutex to become the session
Install ==
  /\ at[Lane] = "install" /\ LockFree
  /\ session' = acct[Lane] /\ open' = TRUE /\ origin' = "login"
  /\ playing' = want[Lane]
  /\ Goto(Lane, "welcome")
  /\ Forgets(Lane)
  /\ UNCHANGED <<account, holder, foreground, op, status, relogin>>

Welcome ==
  /\ at[Lane] = "welcome"
  /\ signedIn' = TRUE /\ connected' = TRUE
  /\ Goto(Lane, "work")
  /\ UNCHANGED <<account, steam, holder, foreground, op, work, relogin>>

LoginFails ==
  /\ at[Lane] \in {"signIn", "store", "loginBind", "install"}
  /\ Goto(Lane, "drop")
  /\ Forgets(Lane)
  /\ UNCHANGED <<account, steam, holder, foreground, op, status, relogin>>

\* disconnect deletes the token first,
Forget ==
  /\ at[Lane] = "forget"
  /\ token' = None
  /\ Goto(Lane, "leave")
  /\ UNCHANGED <<file, steam, holder, foreground, op, work, status, relogin>>

ForgetFails ==
  /\ at[Lane] = "forget"
  /\ Goto(Lane, "drop")
  /\ UNCHANGED <<account, steam, holder, foreground, op, work, status, relogin>>

\* MUTANT: the session is dropped without waiting for the mutex
MLeave ==
  /\ at[Lane] = "leave"
  /\ session' = None /\ open' = FALSE /\ playing' = FALSE /\ origin' = "token"
  /\ Goto(Lane, "left")
  /\ UNCHANGED <<account, holder, foreground, op, work, status, relogin>>

\* then the session, when nobody uses it,
Leave ==
  /\ at[Lane] = "leave" /\ LockFree
  /\ session' = None /\ open' = FALSE /\ playing' = FALSE /\ origin' = "token"
  /\ Goto(Lane, "left")
  /\ UNCHANGED <<account, holder, foreground, op, work, status, relogin>>

\* and resets the status
Left ==
  /\ at[Lane] = "left"
  /\ signedIn' = FALSE /\ connected' = FALSE
  /\ Finish
  /\ UNCHANGED <<account, steam, holder, foreground, work, relogin>>

LaneStep ==
  \/ EnsureStep(Lane)
  \/ TakeSession("work", "working") \/ TakeSession("again", "workingAgain")
  \/ Synchronised \/ SynchroniseFails \/ Drop \/ Dropped
  \/ \E a \in Accounts : Approve(a)
  \/ Cancelled \/ Store \/ LoginBind \/ Install \/ Welcome \/ LoginFails
  \/ Forget \/ ForgetFails \/ Leave \/ Left

TaskStep(t) == EnsureStep(t) \/ Clear(t)

Next ==
  \/ LaneStep
  \/ \E t \in Tasks : TaskStep(t) \/ EnterForeground(t) \/ EnterBackground(t)
  \/ \E k \in Ops : Start(k)
  \/ ConnectionCloses
  \/ Relaunch

Spec == Init /\ [][Next]_vars

\* tokio's mutex queues its waiters, so a step that waits for it is taken when
\* the mutex keeps becoming free; every request ends by a timeout of the code.
\* Neither the user, nor the lifecycle, nor a kill has to happen.
Fairness == SF_vars(LaneStep) /\ \A t \in Tasks : SF_vars(TaskStep(t))

FairSpec == Spec /\ Fairness

-------------------------------------------------------------------------------
(* Properties                                                              *)

Quiet == op = "none" /\ \A t \in Tasks : at[t] = "idle"

\* Every variable keeps its type, and whoever is about to connect or to bind
\* the state knows the account it does it for.
TypeOK ==
  /\ token \in Accounts \cup {None} /\ file \in Files
  /\ session \in Accounts \cup {None}
  /\ open \in BOOLEAN /\ playing \in BOOLEAN /\ foreground \in BOOLEAN
  /\ holder \in Procs \cup {"free"}
  /\ op \in Ops \cup {"none"}
  /\ at \in [Procs -> LaneSteps \cup TaskSteps]
  /\ acct \in [Procs -> Accounts \cup {None}]
  /\ mem \in [Procs -> Files] /\ want \in [Procs -> BOOLEAN]
  /\ signedIn \in BOOLEAN /\ connected \in BOOLEAN
  /\ origin \in {"token", "login"} /\ relogin \in BOOLEAN
  /\ \A p \in Procs :
       at[p] \in {"connect", "bind", "store", "loginBind", "install"}
         => acct[p] # None

\* "Steam account changed; synchronization BASE was cleared", engine.rs:772: no
\* synchronisation compares the saves of one account with the BASE of another.
BaseIsOfTheSession ==
  at[Lane] \in {"working", "workingAgain"} => file.base \subseteq {session}

\* That holds whatever order sign-ins, disconnects, kills and the logins of
\* lifecycle tasks bind the state in, as long as nobody signs in over a stored
\* token: finish_login binds the state outside the mutex under which a task
\* may still be connecting the account before.
AccountsNeverMix == ~relogin => BaseIsOfTheSession

\* When nothing runs, an account shown as signed in has a session, and no
\* session is left behind when none is shown as connected: a disconnect is
\* final however late a task was with its login.
StatusIsTrue ==
  Quiet => /\ signedIn => session # None
           /\ ~connected => session = None

\* When nothing runs in the background, Steam does not show the game on a
\* session that ensure_session made: the task of the notification comes after
\* every login that still read foreground (set_foreground, apply_presence).
ClearedInBackground ==
  Quiet /\ ~foreground /\ Usable /\ origin = "token" => ~playing

\* A lifecycle task gives the session back: none waits for ever, whatever
\* fails and however busy the lane is.
TasksEnd == \A t \in Tasks : at[t] # "idle" ~> at[t] = "idle"
===============================================================================
