\* Every fault at once, under fair wrappers: reordered, lost and failing
\* reports, outages, reused pids.
SPECIFICATION FairAuditSpec
CONSTANTS
  a = a
  p = p
  q = q
  v = v
  w = w
  Apps = {a}
  Pids = {p, q}
  Wrappers = {v, w}
  MaxTime = 2
  MaxLaunches = 2
  Faults = {"timeout", "crash", "kill", "db", "reuse", "race"}
INVARIANTS
  TypeOK
  ActiveBacked
  UsageExact
  NeverOvercounts
PROPERTIES
  UsedNeverDrops
  NoPhantom
\* With no app left to launch the child may leave the computer alone.
CHECK_DEADLOCK FALSE
