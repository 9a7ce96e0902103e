\* Two attempts, a stray connection, every fault; names that share a key file.
SPECIFICATION FairSpec
CONSTANTS
  a = a
  b = b
  s = s
  h = h
  g = g
  m = m
  n = n
  p = p
  Attempts = {a, b}
  Strays = {s}
  Helpers = {h}
  Names = {m, n}
  Paths = {p}
  PathOf <- OnePath
  MaxWindows = 2
  Faults = {"kill", "disk", "ufw", "net"}
INVARIANTS
  TypeOK
  KeyOnlyConfirmed
  OneKeyPerWindow
  RegistryMatchesChild
  RuleScoped
PROPERTIES
  TurnKept
  WindowEnds
  PromiseKept
\* Every attempt may be over and every window closed.
CHECK_DEADLOCK FALSE
