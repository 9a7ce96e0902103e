\* One app; saves, renders and inserts that fail, crashes at every step.
SPECIFICATION FairSpec
CONSTANTS
  a = a
  Apps = {a}
  Installed = {a}
  Minutes = {1, 2}
  MaxTime = 2
  MaxWaiting = 1
  MaxRows = 2
  Faults = {"save", "render", "log", "crash"}
INVARIANTS
  TypeOK
  CopiesAgree
  AckedGrantDurable
  OneEntryPerApp
  HandlerInv
  OverrideAccounted
PROPERTIES
  ExpiredForgotten
  TileWithdrawn
  PromiseKept
