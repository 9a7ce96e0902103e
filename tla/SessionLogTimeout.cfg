\* Reports that agentd handles after their wrapper gave up on them.
SPECIFICATION AuditSpec
CONSTANTS
  a = a
  p = p
  q = q
  v = v
  w = w
  Apps = {a}
  Pids = {p}
  Wrappers = {w}
  MaxTime = 1
  MaxLaunches = 1
  Faults = {"timeout"}
INVARIANTS
  OutageUndercounts
\* With no app left to launch the child may leave the computer alone.
CHECK_DEADLOCK FALSE
