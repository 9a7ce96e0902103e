\* A client's question while the ticker waits for a shell that never answers.
SPECIFICATION FairSpec
CONSTANTS
  a = a
  b = b
  o = o
  app1 = app1
  app2 = app2
  Attempts = {a}
  Others = {o}
  Apps = {app1}
  SEVERE_OVERRIDE_FAILURE_THRESHOLD = 1
  Window = 0
  Cap = 2
  MaxTime = 0
  MaxWarnings = 1
  Faults = {}
PROPERTIES
  ShellNeverBlocks
\* Every attempt may be done.
CHECK_DEADLOCK FALSE
