\* A child that is already registered is paired again.
SPECIFICATION Spec
CONSTANTS
  a = a
  b = b
  s = s
  h = h
  g = g
  m = m
  n = n
  p = p
  Attempts = {a, b}
  Strays = {s}
  Helpers = {h}
  Names = {n}
  Paths = {p}
  PathOf <- OnePath
  MaxWindows = 2
  Faults = {}
INVARIANTS
  RegisteredKeyKept
\* Every attempt may be over and every window closed.
CHECK_DEADLOCK FALSE
