\* Pids that come again while a row from before a restart is still open.
SPECIFICATION AuditSpec
CONSTANTS
  a = a
  p = p
  q = q
  v = v
  w = w
  Apps = {a}
  Pids = {p}
  Wrappers = {w}
  MaxTime = 1
  MaxLaunches = 2
  Faults = {"crash", "reuse"}
PROPERTIES
  StopClosesOne
\* With no app left to launch the child may leave the computer alone.
CHECK_DEADLOCK FALSE
