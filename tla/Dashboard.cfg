\* Two children, two polls at a time, clocks set back, the window reopened.
SPECIFICATION FairSpec
CONSTANTS
  h = h
  k = k
  v = v
  w = w
  None = None
  Hosts = {h, k}
  Workers = {v, w}
  MaxEvents = 2
  Faults = {"ssh", "clock", "close"}
INVARIANTS
  
  SelectedShown

  
CHECK_DEADLOCK FALSE
