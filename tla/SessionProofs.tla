---------------------------- MODULE SessionProofs ----------------------------
(***************************************************************************)
(* Types and the separation of accounts, for every set of accounts and of  *)
(* lifecycle tasks.  The argument: while nobody has signed in over a       *)
(* stored token, the account of the token is the only one that is being    *)
(* connected, is the session's, and owns the state file; a disconnect      *)
(* deletes the token first and takes the mutex after every task that had   *)
(* already read it.                                                        *)
(***************************************************************************)
EXTENDS Session, TLAPS

Working == {"working", "workingAgain"}
Holding == {"connect", "bind", "send"} \cup Working

\* The mutex is held by whoever is between taking it and giving it back, and
\* an account is in memory only where one is being connected
MutexDiscipline ==
  /\ \A p \in Procs : at[p] \in Holding => holder = p
  /\ \A t \in Tasks : at[t] \in TaskSteps /\ (acct[t] # None => holder = t)
  /\ acct[Lane] # None => at[Lane] \in {"connect", "bind", "send", "store",
                                        "loginBind", "install"}
  /\ at[Lane] \in Working => session # None
  /\ op = "none" => at[Lane] = "idle"

\* The BASE records of a state file are those of its owner
Pure(f) == f.base \subseteq {f.owner}

FilesPure == ~relogin => Pure(file) /\ \A p \in Procs : Pure(mem[p])

\* Without a token nothing is left of the last account, except while a
\* disconnect waits for the mutex
NoTokenNoSession ==
  /\ token = None /\ at[Lane] # "leave"
       => session = None /\ \A t \in Tasks : acct[t] = None
  /\ at[Lane] = "store" /\ ~relogin => token = None
  /\ token = None => /\ at[Lane] \notin {"connect", "bind", "loginBind",
                                         "install"}
                     /\ at[Lane] = "send" => acct[Lane] = None

\* With one, it is the only account around
OneAccount ==
  ~relogin /\ token # None =>
    /\ \A p \in Procs : acct[p] # None => acct[p] = token
    /\ session # None => session = token /\ file.owner = token
    /\ \A p \in Procs : at[p] = "send" /\ acct[p] # None => file.owner = token
    /\ at[Lane] = "install" => file.owner = token

\* TypeOK without the Boolean variables
Registers ==
  /\ token \in Accounts \cup {None} /\ file \in Files
  /\ session \in Accounts \cup {None}
  /\ holder \in Procs \cup {"free"}
  /\ op \in Ops \cup {"none"}
  /\ at \in [Procs -> LaneSteps \cup TaskSteps]
  /\ acct \in [Procs -> Accounts \cup {None}]
  /\ mem \in [Procs -> Files]
  /\ origin \in {"token", "login"} /\ relogin \in BOOLEAN
  /\ \A p \in Procs :
       at[p] \in {"connect", "bind", "store", "loginBind", "install"}
         => acct[p] # None

IInv == Registers /\ MutexDiscipline /\ FilesPure /\ NoTokenNoSession
        /\ OneAccount

\* The invariant holds when the app has been launched.
LEMMA InitIInv == Init => IInv
  <1> SUFFICES ASSUME Init PROVE IInv
    OBVIOUS
  <1> USE TasksAssumption, NoneAssumption DEF Init, Procs, Lane
  <1>1. Registers
    <2>1. file \in Files
      BY DEF Files, Empty
    <2>2. mem \in [Procs -> Files]
      <3>1. Empty \in Files
        BY DEF Files, Empty
      <3> QED BY <3>1
    <2>3. at \in [Procs -> LaneSteps \cup TaskSteps]
      BY DEF LaneSteps, TaskSteps
    <2>4. /\ acct \in [Procs -> Accounts \cup {None}]
          /\ \A p \in Procs : at[p] = "idle"
      BY DEF Procs, Lane
    <2>5. /\ token \in Accounts \cup {None} /\ session \in Accounts \cup {None}
          /\ holder \in Procs \cup {"free"} /\ op \in Ops \cup {"none"}
          /\ origin \in {"token", "login"}
      BY ONLY Init DEF Init
    <2>6. relogin \in BOOLEAN
      BY ONLY Init, Zenon DEF Init
    <2> QED BY ONLY <2>1, <2>2, <2>3, <2>4, <2>5, <2>6 DEF Registers
  <1>2. MutexDiscipline
    BY DEF MutexDiscipline, Holding, Working, TaskSteps
  <1>3. FilesPure
    BY DEF FilesPure, Pure, Empty
  <1>4. NoTokenNoSession
    BY DEF NoTokenNoSession
  <1>5. OneAccount
    BY DEF OneAccount
  <1> QED BY <1>1, <1>2, <1>3, <1>4, <1>5 DEF IInv

\* Every step of ensure_session preserves it, whoever runs it.
LEMMA EnsureKeepsIInv ==
  ASSUME NEW p \in Procs, IInv, EnsureStep(p) PROVE IInv'
  <1> USE TasksAssumption, NoneAssumption DEF IInv, Registers, MutexDiscipline,
        FilesPure, NoTokenNoSession, OneAccount, Pure, Working, Holding,
        Files, Empty, LaneSteps, TaskSteps, Ensuring, Procs, Lane, Ops, Syncing,
        LockFree, Usable, Goto, Forgets, GiveUp, BoundTo, steam, status,
        account, work
  <1>1. CASE Reuse(p) BY <1>1 DEF Reuse
  <1>2. CASE LoadToken(p) BY <1>2 DEF LoadToken
  <1>3. CASE Connect(p) BY <1>3 DEF Connect
  <1>4. CASE Bind(p) BY <1>4 DEF Bind
  <1>5. CASE Ensured(p) BY <1>5 DEF Ensured
  <1>6. CASE NoToken(p) BY <1>6 DEF NoToken
  <1>7. CASE EnsureFails(p) BY <1>7 DEF EnsureFails
  <1> QED BY <1>1, <1>2, <1>3, <1>4, <1>5, <1>6, <1>7 DEF EnsureStep

\* So does every step of the operation in the lane.
LEMMA LaneKeepsIInv ==
  ASSUME IInv, LaneStep PROVE IInv'
  <1> USE TasksAssumption, NoneAssumption DEF IInv, Registers, MutexDiscipline,
        FilesPure, NoTokenNoSession, OneAccount, Pure, Working, Holding,
        Files, Empty, LaneSteps, TaskSteps, Ensuring, Procs, Lane, Ops, Syncing,
        LockFree, Usable, Goto, Forgets, GiveUp, BoundTo, Finish, Achievements,
        steam, status, account, work
  <1>1. CASE EnsureStep(Lane) BY ONLY <1>1, IInv, EnsureKeepsIInv DEF Procs
  <1>2. CASE TakeSession("work", "working") BY <1>2 DEF TakeSession
  <1>3. CASE TakeSession("again", "workingAgain") BY <1>3 DEF TakeSession
  <1>4. CASE Synchronised BY <1>4 DEF Synchronised
  <1>5. CASE SynchroniseFails BY <1>5 DEF SynchroniseFails
  <1>6. CASE Drop BY <1>6 DEF Drop
  <1>7. CASE Dropped BY <1>7 DEF Dropped
  <1>8. ASSUME NEW a \in Accounts, Approve(a) PROVE IInv'
    <2> USE <1>8 DEF Approve
    <2>1. Registers'       OBVIOUS
    <2>2. MutexDiscipline' OBVIOUS
    <2>3. FilesPure'       OBVIOUS
    <2>4. NoTokenNoSession' OBVIOUS
    <2>5. OneAccount'      OBVIOUS
    <2> QED BY ONLY <2>1, <2>2, <2>3, <2>4, <2>5 DEF IInv
  <1>9. CASE Cancelled BY <1>9 DEF Cancelled
  <1>10. CASE Store BY <1>10 DEF Store
  <1>11. CASE LoginBind BY <1>11 DEF LoginBind
  <1>12. CASE Install BY <1>12 DEF Install
  <1>13. CASE Welcome BY <1>13 DEF Welcome
  <1>14. CASE LoginFails BY <1>14 DEF LoginFails
  <1>15. CASE Forget BY <1>15 DEF Forget
  <1>16. CASE ForgetFails BY <1>16 DEF ForgetFails
  <1>17. CASE Leave BY <1>17 DEF Leave
  <1>18. CASE Left BY <1>18 DEF Left
  <1> QED
    BY ONLY LaneStep, <1>1, <1>2, <1>3, <1>4, <1>5, <1>6, <1>7, <1>8, <1>9,
       <1>10, <1>11, <1>12, <1>13, <1>14, <1>15, <1>16, <1>17, <1>18
    DEF LaneStep

\* The invariant is inductive.
LEMMA NextKeepsIInv == IInv /\ [Next]_vars => IInv'
  <1> SUFFICES ASSUME IInv, [Next]_vars PROVE IInv'
    OBVIOUS
  <1> USE TasksAssumption, NoneAssumption DEF IInv, Registers, MutexDiscipline,
        FilesPure, NoTokenNoSession, OneAccount, Pure, Working, Holding,
        Files, Empty, LaneSteps, TaskSteps, Ensuring, Procs, Lane, Ops, Syncing,
        LockFree, Usable, Goto, steam, status, account, work
  <1>1. CASE LaneStep BY ONLY <1>1, IInv, LaneKeepsIInv
  <1>2. ASSUME NEW t \in Tasks, TaskStep(t) PROVE IInv'
    <2>1. CASE EnsureStep(t)
      BY ONLY <2>1, IInv, EnsureKeepsIInv, t \in Tasks DEF Procs
    <2>2. CASE Clear(t) BY <2>2 DEF Clear
    <2> QED BY ONLY <1>2, <2>1, <2>2 DEF TaskStep
  <1>3. ASSUME NEW t \in Tasks, EnterForeground(t) PROVE IInv'
    <2> USE <1>3 DEF EnterForeground
    <2>1. CASE op = "none" BY <2>1
    <2>2. CASE op # "none" BY <2>2
    <2> QED BY <2>1, <2>2
  <1>4. ASSUME NEW t \in Tasks, EnterBackground(t) PROVE IInv'
    BY <1>4 DEF EnterBackground
  <1>5. ASSUME NEW k \in Ops, Start(k) PROVE IInv'
    <2>1. CASE k = "login"      BY <1>5, <2>1 DEF Start
    <2>2. CASE k = "disconnect" BY <1>5, <2>2 DEF Start
    <2>3. CASE k \notin {"login", "disconnect"} BY <1>5, <2>3 DEF Start
    <2> QED BY <2>1, <2>2, <2>3
  <1>6. CASE ConnectionCloses BY <1>6 DEF ConnectionCloses
  <1>7. CASE Relaunch BY <1>7 DEF Relaunch
  <1>8. CASE UNCHANGED vars BY <1>8 DEF vars
  <1> QED
    BY ONLY [Next]_vars, <1>1, <1>2, <1>3, <1>4, <1>5, <1>6, <1>7, <1>8
    DEF Next

\* It holds in every reachable state.
LEMMA Invariant == Spec => []IInv
  BY InitIInv, NextKeepsIInv, PTL DEF Spec

\* While nobody signs in over a stored token, no synchronisation uses the BASE
\* of another account, whatever else happens in which order.
THEOREM AccountsStayApart == Spec => []AccountsNeverMix
  <1>1. IInv => AccountsNeverMix
    BY NoneAssumption DEF IInv, Registers, MutexDiscipline, FilesPure,
       NoTokenNoSession, OneAccount, Pure, Working, AccountsNeverMix,
       BaseIsOfTheSession, Lane, Procs
  <1> QED BY <1>1, Invariant, PTL

\* TypeOK in two parts: Registers, and the Boolean variables it leaves out
Switches ==
  /\ open \in BOOLEAN /\ playing \in BOOLEAN /\ foreground \in BOOLEAN
  /\ want \in [Procs -> BOOLEAN]
  /\ signedIn \in BOOLEAN /\ connected \in BOOLEAN

\* The Boolean variables keep their type.
LEMMA NextKeepsSwitches == Switches /\ [Next]_vars => Switches'
  <1> SUFFICES ASSUME Switches, [Next]_vars PROVE Switches'
    OBVIOUS
  <1> USE DEF Switches, work, status, steam, account, Forgets, Lane, Procs
  <1>1. ASSUME NEW p \in Procs, EnsureStep(p) PROVE Switches'
    BY <1>1 DEF EnsureStep, Reuse, LoadToken, Connect, Bind, Ensured, NoToken,
                EnsureFails
  <1>2. CASE LaneStep
    BY <1>1, <1>2 DEF LaneStep, TakeSession, Synchronised, SynchroniseFails,
         Drop, Dropped, Approve, Cancelled, Store, LoginBind, Install, Welcome,
         LoginFails, Forget, ForgetFails, Leave, Left
  <1> QED
    BY <1>1, <1>2 DEF Next, TaskStep, Clear, EnterForeground, EnterBackground,
         Start, ConnectionCloses, Relaunch, vars

\* They have it in every reachable state.
LEMMA BooleanInvariant == Spec => []Switches
  <1>1. Init => Switches
    <2> SUFFICES ASSUME Init PROVE Switches
      OBVIOUS
    <2>1. want \in [Procs -> BOOLEAN]
      BY DEF Init
    <2>2. connected \in BOOLEAN
      BY ONLY Init, Zenon DEF Init
    <2> QED BY <2>1, <2>2 DEF Init, Switches
  <1> QED BY <1>1, NextKeepsSwitches, PTL DEF Spec

\* Every variable keeps its type, for any accounts and any number of tasks.
THEOREM TypeCorrect == Spec => []TypeOK
  <1>1. IInv /\ Switches => TypeOK
    BY ONLY Zenon DEF IInv, Registers, Switches, TypeOK
  <1> QED BY <1>1, BooleanInvariant, Invariant, PTL

\* What the two flags of the status say, with the steps between the change of
\* the session and theirs
Flags ==
  /\ signedIn => session # None \/ at[Lane] \in {"dropped", "left"}
  /\ ~connected => session = None \/ at[Lane] = "welcome"
  /\ at[Lane] = "welcome" => session # None
  /\ at[Lane] \in {"leave", "left"} => token = None

\* Every step preserves what the two flags say.
LEMMA NextKeepsFlags == IInv /\ Flags /\ [Next]_vars => Flags'
  <1> SUFFICES ASSUME IInv, Flags, [Next]_vars PROVE Flags'
    OBVIOUS
  <1> USE TasksAssumption, NoneAssumption DEF Flags, IInv, Registers,
        MutexDiscipline, NoTokenNoSession, Working, Holding, TaskSteps,
        Ensuring, Procs, Lane, LockFree, Usable, Goto, GiveUp, Finish, steam,
        status, account, work
  <1>1. ASSUME NEW p \in Procs, EnsureStep(p) PROVE Flags'
    <2>1. CASE Ensured(p) BY <2>1 DEF Ensured
    <2>2. CASE EnsureFails(p) BY <2>2 DEF EnsureFails
    <2>3. CASE Reuse(p) \/ LoadToken(p) \/ Connect(p) \/ Bind(p) \/ NoToken(p)
      BY <2>3 DEF Reuse, LoadToken, Connect, Bind, NoToken
    <2> QED BY ONLY <1>1, <2>1, <2>2, <2>3 DEF EnsureStep
  <1>2. CASE LaneStep
    <2>1. CASE Synchronised BY <2>1 DEF Synchronised
    <2>2. CASE SynchroniseFails BY <2>2 DEF SynchroniseFails
    <2>3. CASE Drop \/ Dropped BY <2>3 DEF Drop, Dropped
    <2>4. CASE Leave \/ Left BY <2>4 DEF Leave, Left
    <2>5. CASE Install \/ Welcome \/ LoginFails
      BY <2>5 DEF Install, Welcome, LoginFails
    <2>6. CASE Forget \/ ForgetFails BY <2>6 DEF Forget, ForgetFails
    <2>7. CASE Cancelled \/ Store \/ LoginBind
      BY <2>7 DEF Cancelled, Store, LoginBind
    <2>8. ASSUME NEW a \in Accounts, Approve(a) PROVE Flags'
      BY <2>8 DEF Approve
    <2>9. CASE \/ TakeSession("work", "working")
               \/ TakeSession("again", "workingAgain")
      BY <2>9 DEF TakeSession
    <2> QED
      BY ONLY <1>1, <1>2, <2>1, <2>2, <2>3, <2>4, <2>5, <2>6, <2>7, <2>8, <2>9
      DEF LaneStep, Procs
  <1>3. ASSUME NEW t \in Tasks,
               Clear(t) \/ EnterForeground(t) \/ EnterBackground(t)
        PROVE  Flags'
    BY <1>3 DEF Clear, EnterForeground, EnterBackground
  <1>4. ASSUME NEW k \in Ops, Start(k) PROVE Flags'
    BY <1>4 DEF Start
  <1>5. CASE ConnectionCloses \/ Relaunch \/ UNCHANGED vars
    BY <1>5 DEF ConnectionCloses, Relaunch, vars
  <1> QED BY ONLY [Next]_vars, <1>1, <1>2, <1>3, <1>4, <1>5
          DEF Next, TaskStep, Procs

\* In every quiet state a signed-in account has a session, and none is left
\* when no account is shown as connected.
THEOREM StatusHolds == Spec => []StatusIsTrue
  <1>1. Init => Flags
    BY DEF Init, Flags, Procs, Lane
  <1>2. IInv /\ Flags => StatusIsTrue
    BY DEF IInv, MutexDiscipline, Flags, StatusIsTrue, Quiet
  <1> QED BY <1>1, <1>2, NextKeepsFlags, Invariant, PTL DEF Spec

\* In the background, a presence that is shown or about to be sent still has
\* the task behind it that clears it
Clearing ==
  ~foreground =>
    \/ \E t \in Tasks : at[t] = "clear"
    \/ /\ Usable /\ origin = "token" => ~playing
       /\ \A p \in Procs : at[p] = "send" => ~want[p]

\* Every step preserves that the clearing task is still to come.
LEMMA NextKeepsClearing ==
  IInv /\ Switches /\ Clearing /\ [Next]_vars => Clearing'
  <1> SUFFICES ASSUME IInv, Switches, Clearing, [Next]_vars PROVE Clearing'
    OBVIOUS
  <1> USE TasksAssumption, NoneAssumption DEF Clearing, IInv, Registers,
        MutexDiscipline, Working, Holding, TaskSteps,
        Ensuring, Procs, Lane, LockFree, Usable, Goto, GiveUp, Finish, Forgets,
        steam, status, account, work
  <1>1. ASSUME NEW p \in Procs, EnsureStep(p) PROVE Clearing'
    <2>1. CASE Ensured(p) BY <2>1 DEF Ensured
    <2>2. CASE EnsureFails(p) BY <2>2 DEF EnsureFails
    <2>3. CASE LoadToken(p) BY <2>3 DEF LoadToken
    <2>4. CASE Connect(p) BY <2>4 DEF Connect
    <2>5. CASE NoToken(p) BY <2>5 DEF NoToken
    <2>6. CASE Reuse(p) \/ Bind(p)
      <3>1. want' = [want EXCEPT ![p] = foreground]
        BY <2>6 DEF Reuse, Bind
      <3>2. \A q \in Procs : want'[q] = IF q = p THEN foreground ELSE want[q]
        BY <3>1, Zenon DEF Switches
      <3>3. CASE Reuse(p) BY <3>2, <3>3 DEF Reuse
      <3>4. CASE Bind(p) BY <3>2, <3>4 DEF Bind
      <3> QED BY ONLY <2>6, <3>3, <3>4
    <2> QED BY ONLY <1>1, <2>1, <2>2, <2>3, <2>4, <2>5, <2>6
        DEF EnsureStep
  <1>2. CASE LaneStep
    <2>1. CASE Synchronised BY <2>1 DEF Synchronised
    <2>2. CASE SynchroniseFails BY <2>2 DEF SynchroniseFails
    <2>3. CASE Drop \/ Dropped BY <2>3 DEF Drop, Dropped
    <2>4. CASE Leave \/ Left BY <2>4 DEF Leave, Left
    <2>5. CASE Install BY <2>5 DEF Install
    <2>10. CASE Welcome BY <2>10 DEF Welcome
    <2>11. CASE LoginFails BY <2>11 DEF LoginFails
    <2>6. CASE Forget \/ ForgetFails BY <2>6 DEF Forget, ForgetFails
    <2>7. CASE Cancelled \/ Store BY <2>7 DEF Cancelled, Store
    <2>12. CASE LoginBind BY <2>12 DEF LoginBind
    <2>8. ASSUME NEW a \in Accounts, Approve(a) PROVE Clearing'
      BY <2>8 DEF Approve
    <2>9. CASE \/ TakeSession("work", "working")
               \/ TakeSession("again", "workingAgain")
      BY <2>9 DEF TakeSession
    <2> QED
      BY ONLY <1>1, <1>2, <2>1, <2>2, <2>3, <2>4, <2>5, <2>6, <2>7, <2>8, <2>9,
              <2>10, <2>11, <2>12
      DEF LaneStep, Procs
  <1>3. ASSUME NEW t \in Tasks, Clear(t) PROVE Clearing'
    BY <1>3 DEF Clear
  <1>4. ASSUME NEW t \in Tasks, EnterForeground(t) \/ EnterBackground(t)
        PROVE  Clearing'
    BY <1>4 DEF EnterForeground, EnterBackground
  <1>5. ASSUME NEW k \in Ops, Start(k) PROVE Clearing'
    BY <1>5 DEF Start
  <1>6. CASE ConnectionCloses \/ Relaunch \/ UNCHANGED vars
    BY <1>6 DEF ConnectionCloses, Relaunch, vars
  <1> QED BY ONLY [Next]_vars, <1>1, <1>2, <1>3, <1>4, <1>5, <1>6
          DEF Next, TaskStep, Procs

\* When nothing runs in the background, no session made by ensure_session
\* shows the game.
THEOREM PresenceIsCleared == Spec => []ClearedInBackground
  <1>1. Init => Clearing
    BY DEF Init, Clearing
  <1>2. Clearing => ClearedInBackground
    BY DEF Clearing, ClearedInBackground, Quiet
  <1> QED BY <1>1, <1>2, NextKeepsClearing, BooleanInvariant, Invariant,
          PTL DEF Spec
=============================================================================
