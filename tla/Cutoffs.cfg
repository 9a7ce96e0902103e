\* Two days of a week and the start of the third, four minutes a day, half minutes.
SPECIFICATION Spec
CONSTANTS
  p = p
  q = q
  app1 = app1
  app2 = app2
  Weeklong = 3
  DayMinutes = 4
  PerMinute = 2
  Pids = {p, q}
  Apps = {app1, app2}
  Calendars <- SomeCalendars
  Budgets <- SomeBudgets
  AppLimit <- LimitOfApp1
  LeadMinutes = 1
  NoMidnight = {0}
  MaxTime = 17
  Faults = {"crash"}
SYMMETRY WrappersAlike
INVARIANTS
  BlockedExact
  WarnedBeforeCut
  WarningHonest
  DayHeld
\* The clock stops at MaxTime.
CHECK_DEADLOCK FALSE
