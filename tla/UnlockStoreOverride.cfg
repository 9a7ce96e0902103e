\* An override whose save or render fails.
SPECIFICATION Spec
CONSTANTS
  a = a
  Apps = {a}
  Installed = {a}
  Minutes = {1}
  MaxTime = 1
  MaxWaiting = 1
  MaxRows = 1
  Faults = {"render"}
INVARIANTS
  OverrideLogged

