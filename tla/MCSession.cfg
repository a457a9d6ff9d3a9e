SPECIFICATION FairSpec
CONSTANTS
  Accounts = {a1, a2}
  Tasks = {t1, t2}
  None = None
INVARIANTS TypeOK AccountsNeverMix StatusIsTrue ClearedInBackground
PROPERTIES TasksEnd
