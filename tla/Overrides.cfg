\* Two overrides, of one app or of two, another client, every fault.
SPECIFICATION FairSpec
CONSTANTS
  a = a
  b = b
  o = o
  app1 = app1
  app2 = app2
  Attempts = {a, b}
  Others = {o}
  Apps = {app1, app2}
  SEVERE_OVERRIDE_FAILURE_THRESHOLD = 2
  Window = 0
  Cap = 2
  MaxTime = 1
  MaxWarnings = 1
  Faults = {"db", "panic", "crash"}
INVARIANTS
  SlotsExact
  SevereIffRepeated
  OncePerAttempt
PROPERTIES
  ConnectionEnds
\* Every attempt may be done.
CHECK_DEADLOCK FALSE
