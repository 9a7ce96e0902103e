\* A limit, a window, changes of the policy, crashes, kills and timeouts.
SPECIFICATION FairEnforceSpec
CONSTANTS
  a = a
  b = b
  p = p
  q = q
  v = v
  w = w
  Apps = {a}
  Pids = {p, q}
  Wrappers = {v, w}
  MaxTime = 2
  MaxLaunches = 2
  Faults = {"crash", "kill", "timeout"}
  PerMinute = 1
  DailyLimit = {0}
  AppLimit <- LimitOfA
  Blocked = {2}
INVARIANTS
  CheckFits
  BudgetHeld
  WindowHeld
PROPERTIES
  NothingStartsBlind
  CutOff
\* When time is up and every app has ended, nothing need happen.
CHECK_DEADLOCK FALSE
