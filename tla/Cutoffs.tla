------------------------------- MODULE Cutoffs -------------------------------
(***************************************************************************)
(* Days, their budgets and windows, and the ticker's warning before an app *)
(* is cut off.  Where Enforcement has one day and every gap between two    *)
(* requests, this has days of their own limits, a ticker that passes every *)
(* TICK_INTERVAL, and launches, polls and stops in one step each.          *)
(*                                                                         *)
(* The clock's unit is a tick, no shorter than TICK_INTERVAL: in each the  *)
(* ticker passes once, and every wrapper polls, in any order.  The limits  *)
(* lie below u32::MAX - 1.                                                 *)
(***************************************************************************)
EXTENDS Calendar, FiniteSetsExt, Functions

CONSTANTS
  Pids,
  Apps,
  Calendars,   \* time_windows the config may hold
  Budgets,     \* daily_total_minutes the config may hold: per day, one or none
  AppLimit,    \* per_app_minutes: per app and day, one or none
  LeadMinutes, \* lead_minutes of the tier
  NoMidnight,  \* days without a midnight, or with two (clock changes)
  MaxTime,     \* bound: the clock stops here
  Faults       \* {"crash"} or {}

ASSUME CutoffsAssumption ==
  /\ IsFiniteSet(Pids)
  /\ IsFiniteSet(Apps)
  /\ Calendars \subseteq [Weekdays -> SUBSET Window]
  /\ Budgets \subseteq [Weekdays -> SUBSET Nat]
  /\ AppLimit \in [Apps -> [Weekdays -> SUBSET Nat]]
  /\ LeadMinutes \in Nat
  /\ NoMidnight \subseteq Weekdays
  /\ MaxTime \in Nat
  /\ Faults \subseteq {"crash"}

VARIABLES
  now,      \* ticks since the first day's midnight
  windows,  \* config.time_windows
  daily,    \* config.time_budget.daily_total_minutes
  running,  \* wrappers whose child runs
  session,  \* per running wrapper: its session
  booked,   \* per app: ticks of the ended sessions that began today
  ticked,   \* the ticker has passed in this tick
  polled,   \* wrappers that have polled, or begun, in this tick
  ran,      \* history: ticks that sessions begun today have run
  steady    \* history: agentd has not been restarted today

config  == <<windows, daily>>
history == <<ran, steady>>
vars == <<now, config, running, session, booked, ticked, polled, history>>

GRACE_MINUTES == 1

(* `known` as an ActiveSession; the last three are of its warning: whether *)
(* it has had it, until when that said it may run, and whether it might    *)
(* run when it had it and has been alone since, still on that day.         *)
Session ==
  [app : Apps, start : Nat, known : BOOLEAN,
   warned : BOOLEAN, until : Nat, alone : BOOLEAN]

TypeOK ==
  /\ now \in Nat
  /\ windows \in Calendars
  /\ daily \in Budgets
  /\ running \in SUBSET Pids
  /\ session \in [running -> Session]
  /\ booked \in [Apps -> Nat]
  /\ ticked \in BOOLEAN
  /\ polled \in SUBSET running
  /\ ran \in Nat
  /\ steady \in BOOLEAN

Init ==
  /\ now = 0
  /\ windows \in Calendars
  /\ daily \in Budgets
  /\ running = {}
  /\ session = [p \in {} |-> 0]
  /\ booked = [app \in Apps |-> 0]
  /\ ticked = FALSE
  /\ polled = {}
  /\ ran = 0
  /\ steady = TRUE

Date    == now \div DayTicks
Weekday == Date % Weeklong
Time    == now % DayTicks

(* local_midnight_utc: now, when there is no single one.                   *)
Midnight == IF Weekday \in NoMidnight THEN now ELSE Date * DayTicks

(* Mutant of UsedMinutes: a session counts once it has ended. *)
UsedOfEnded(apps) ==
  (IF Midnight = now THEN 0 ELSE SumFunctionOnSet(booked, apps)) \div PerMinute

(* Used minutes of the apps: what ended sessions took (a row that began at *)
(* `now` took nothing) and what the active ones have taken so far.         *)
UsedMinutes(apps) ==
  LET completed == IF Midnight = now THEN 0 ELSE SumFunctionOnSet(booked, apps)
      live == SumFunctionOnSet([p \in running |-> now - session[p].start],
                {p \in running : /\ session[p].known
                                 /\ session[p].app \in apps
                                 /\ session[p].start >= Midnight})
  IN  (completed + live) \div PerMinute

(* The two budgets of an app today, and what is used of each.              *)
Limits(app) ==
  {<<limit, UsedMinutes(Apps)>> : limit \in daily[Weekday]}
    \cup {<<limit, UsedMinutes({app})>> : limit \in AppLimit[app][Weekday]}

(* Mutant of CheckAllowed: no grace, and the limit itself is too much. *)
CheckAllowedNoGrace(app) ==
  /\ ~InBlockedWindow(windows, Weekday, Time)
  /\ \A b \in Limits(app) : b[2] < b[1]

(* check_allowed, for an app that the policy allows.                       *)
CheckAllowed(app) ==
  /\ ~InBlockedWindow(windows, Weekday, Time)
  /\ \A b \in Limits(app) : b[2] <= b[1] + GRACE_MINUTES

-----------------------------------------------------------------------------
(* A launch that is authorized, with its start report.                     *)
Launch(p, app) ==
  /\ p \notin running
  /\ CheckAllowed(app)
  /\ running' = running \cup {p}
  /\ session' = [q \in running \cup {p} |->
       IF q = p THEN [app |-> app, start |-> now, known |-> TRUE,
                      warned |-> FALSE, until |-> 0, alone |-> TRUE]
                ELSE session[q]]
  /\ polled' = polled \cup {p}
  /\ UNCHANGED <<now, config, booked, ticked, history>>

(* The child is gone, and its stop is handled; agentd finds its open row   *)
(* also when it has been restarted.                                        *)
Stops(p) ==
  /\ running' = running \ {p}
  /\ session' = [q \in running \ {p} |-> session[q]]
  /\ polled' = polled \ {p}
  /\ booked' = [booked EXCEPT ![session[p].app] =
       @ + (IF session[p].start >= Date * DayTicks THEN now - session[p].start ELSE 0)]
  /\ UNCHANGED <<now, config, ticked, history>>

Quit(p) == p \in running /\ Stops(p)

Poll(p) ==
  /\ p \in running
  /\ p \notin polled
  /\ IF CheckAllowed(session[p].app)
       THEN /\ polled' = polled \cup {p}
            /\ UNCHANGED <<now, config, running, session, booked, ticked, history>>
       ELSE Stops(p)

(* The minutes a session has left by its budgets and by today's windows.   *)
Left(app) ==
  {b[1] - b[2] : b \in Limits(app)} \cup MinutesUntilWindowStarts(windows, Weekday, Time)

(* Mutant of Warning: the most of the values counts, not the least. *)
WarningOfMost(p) ==
  LET left == Left(session[p].app) IN
  IF left # {} /\ Max(left) <= LeadMinutes
    THEN {IF Max(left) > 0 THEN Max(left) ELSE 0} ELSE {}

(* The minutes that pre-warning promises a session, if it is due.          *)
Warning(p) ==
  LET left == Left(session[p].app) IN
  IF left # {} /\ Min(left) <= LeadMinutes
    THEN {IF Min(left) > 0 THEN Min(left) ELSE 0} ELSE {}

(* tick, but for the expired unlocks. *)
Tick ==
  /\ ~ticked
  /\ ticked' = TRUE
  /\ session' = [p \in running |->
       IF session[p].known /\ ~session[p].warned /\ Warning(p) # {}
         THEN [session[p] EXCEPT !.warned = TRUE,
                 !.until = now + PerMinute * (CHOOSE m \in Warning(p) : TRUE),
                 !.alone = CheckAllowed(session[p].app)]
         ELSE session[p]]
  /\ UNCHANGED <<now, config, running, booked, polled, history>>

(* Dies and is restarted: it knows of no session any more. *)
Restart ==
  /\ "crash" \in Faults
  /\ session' = [p \in running |-> [session[p] EXCEPT !.known = FALSE]]
  /\ steady' = FALSE
  /\ UNCHANGED <<now, config, running, booked, ticked, polled, ran>>

(* A tick ends once the ticker has passed and every wrapper has polled.    *)
Advance ==
  /\ now < MaxTime
  /\ ticked
  /\ polled = running
  /\ now' = now + 1
  /\ ticked' = FALSE
  /\ polled' = {}
  /\ session' = [p \in running |->
       [session[p] EXCEPT !.alone =
          @ /\ (session[p].warned => running = {p} /\ now' % DayTicks # 0)]]
  /\ IF now' % DayTicks = 0
       THEN booked' = [app \in Apps |-> 0] /\ ran' = 0 /\ steady' = TRUE
       ELSE /\ ran' = ran + Cardinality({p \in running : session[p].start >= Date * DayTicks})
            /\ UNCHANGED <<booked, steady>>
  /\ UNCHANGED <<config, running>>

Next ==
  \/ \E p \in Pids, app \in Apps : Launch(p, app)
  \/ \E p \in Pids : Quit(p) \/ Poll(p)
  \/ Tick
  \/ Restart
  \/ Advance

Spec == Init /\ [][Next]_vars

-----------------------------------------------------------------------------
(* A tick is blocked exactly when a window covers it, taken as a stretch   *)
(* of the week: over midnight, over the week's end, or empty.              *)
BlockedExact ==
  InBlockedWindow(windows, Weekday, Time) <=>
    BlockedAt(windows, now % (Weeklong * DayTicks))

(* No session that has run for two ticks is cut off, by a budget or by a   *)
(* window, without its warning, whatever day it is - but for a window that *)
(* starts at midnight, for which the ticker does not look ahead, and for   *)
(* restarts: agentd forgets sessions, and counts their minutes at once     *)
(* when they end.  More than (LeadMinutes + 2) * PerMinute sessions could  *)
(* use up lead, grace and the dropped minute between two of its passes.    *)
WarnedBeforeCut ==
  steady =>
    \A p \in {r \in running : session[r].known /\ now - session[r].start > 1} :
      \/ CheckAllowed(session[p].app)
      \/ session[p].warned
      \/ Time = 0 /\ \E w \in windows[Weekday] : w.start = 0

(* Who runs alone from its warning on is not cut off earlier, that day,    *)
(* than the warning said: the promise is the least of all that may end it  *)
(* that day, and the grace makes up for the parts of minutes that are      *)
(* dropped.  What a window of the next day does to it, nobody looked at.   *)
WarningHonest ==
  steady =>
    \A p \in {r \in running : session[r].warned /\ session[r].alone} :
      \/ CheckAllowed(session[p].app)
      \/ now >= session[p].until

(* The sessions that began on a day run no longer on it than its own       *)
(* limit, the grace, the minute that is dropped and a tick each, if the    *)
(* day has a midnight and agentd was not restarted on it.                  *)
DayHeld ==
  /\ TypeOK
  /\ steady /\ Weekday \notin NoMidnight =>
       \A limit \in daily[Weekday] :
         ran < (limit + GRACE_MINUTES + 1) * PerMinute + Cardinality(Pids)
=============================================================================
