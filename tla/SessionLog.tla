----------------------------- MODULE SessionLog -----------------------------
(***************************************************************************)
(* What agentd knows of running apps: the in-memory map `active` and the   *)
(* usage_sessions table, fed by the WrapperStart and WrapperStop that each *)
(* omarchy-kids-run process sends around its child.                        *)
(*                                                                         *)
(* A wrapper gives each report 800 ms and then goes on without the answer. *)
(* agentd still handles a request whose sender gave up: its thread sits on *)
(* the state mutex, which is not first-come-first-served, so late requests *)
(* are a set.  A handler runs under the mutex and is one step.             *)
(*                                                                         *)
(* Abstracted: time is in minutes and a request takes none of it (the      *)
(* clock waits while one is unanswered), so that what a run counts too     *)
(* much or too little comes from lost and reordered requests, never from   *)
(* latency.  Authorize and Poll read this state without changing it.       *)
(***************************************************************************)
EXTENDS Integers, Sequences, FiniteSets, Functions

CONSTANTS
  Apps,         \* desktop ids
  Pids,         \* process ids of the wrapped apps
  Wrappers,     \* omarchy-kids-run processes that may exist at once
  MaxTime,      \* bound: the clock stops here
  MaxLaunches,  \* bound: apps launched in a behaviour
  Faults        \* any of "timeout", "crash", "kill", "db", "reuse", "race"

ASSUME LogAssumption ==
  /\ Apps # {}
  /\ Pids # {}
  /\ IsFiniteSet(Wrappers)
  /\ MaxTime \in Nat
  /\ MaxLaunches \in Nat
  /\ Faults \subseteq {"timeout", "crash", "kill", "db", "reuse", "race"}

VARIABLES
  now,       \* Utc::now()
  midnight,  \* local_midnight_utc: when the current day began
  up,        \* agentd is running
  active,    \* State.active; a pid has one session
  rows,      \* usage_sessions in the order of their ids
  events,    \* apps with a wrapper_started_disallowed_app event
  wrapper,   \* per wrapper: where it is, its app, its child's pid
  net,       \* reports sent and not handled yet
  (* history, read by properties only *)
  seenPids,  \* pids given out so far
  ran,       \* minutes the children have really run
  ranToday,  \* the same since midnight
  launches   \* apps launched so far

agentd == <<active, rows, events>>
history == <<seenPids, ran, ranToday, launches>>
vars == <<now, midnight, up, agentd, wrapper, net, history>>

(* Nothing begins in the future: no duration is negative. *)
Session == [pid : Pids, app : Apps, start : 0..now]
Row     == [pid : Pids, app : Apps, start : 0..now, open : BOOLEAN, duration : Nat]
Report  == [type : {"start", "stop"}, from : Wrappers]

(* "idle": no such process.  "starting" and "stopping": it waits for the   *)
(* answer to its report.  alive says whether its child still runs; until   *)
(* the wrapper has reaped it ("stopping") the child keeps its pid.         *)
Wrapper == [pc : {"idle", "starting", "running", "stopping"},
            app : Apps, pid : Pids, alive : BOOLEAN]

TypeOK ==
  /\ now \in Nat
  /\ midnight \in Nat
  /\ up \in BOOLEAN
  /\ active \in SUBSET Session
  /\ rows \in Seq(Row)
  /\ events \in SUBSET Apps
  /\ wrapper \in [Wrappers -> Wrapper]
  /\ net \in SUBSET Report
  /\ seenPids \in SUBSET Pids
  /\ ran \in Nat
  /\ ranToday \in Nat
  /\ launches \in Nat

HasPid(w) == wrapper[w].pc \in {"starting", "running"}

(* Mutant of OpenRows: the pid is not asked for. *)
OpenRowsOfApp(app, pid) == {i \in DOMAIN rows : rows[i].open /\ rows[i].app = app}

OpenRows(app, pid) ==
  {i \in DOMAIN rows : rows[i].open /\ rows[i].app = app /\ rows[i].pid = pid}

(* ORDER BY id DESC LIMIT 1. *)
IsLatest(i, S) == i \in S /\ \A j \in S : j <= i

(* db::used_seconds_since: completed sessions that began at `since` or     *)
(* later.                                                                  *)
Completed(since) ==
  SumFunctionOnSet([i \in DOMAIN rows |-> rows[i].duration],
                   {i \in DOMAIN rows : ~rows[i].open /\ rows[i].start >= since})

(* compute_daily_used_minutes: plus the live time of active ones. *)
Used(since) ==
  Completed(since) + SumFunctionOnSet([s \in active |-> now - s.start],
                                      {s \in active : s.start >= since})

NoProcess == [pc |-> "idle", app |-> CHOOSE app \in Apps : TRUE,
              pid |-> CHOOSE p \in Pids : TRUE, alive |-> FALSE]

-----------------------------------------------------------------------------
Init ==
  /\ now = 0
  /\ midnight = 0
  /\ up = TRUE
  /\ active = {}
  /\ rows = << >>
  /\ events = {}
  /\ wrapper = [w \in Wrappers |-> NoProcess]
  /\ net = {}
  /\ seenPids = {}
  /\ ran = 0
  /\ ranToday = 0
  /\ launches = 0

(* A minute passes once every report is handled or lost. *)
Settled ==
  /\ net = {}
  /\ \A w \in Wrappers : wrapper[w].pc \in {"idle", "running"}
  /\ \A w \in Wrappers : wrapper[w].pc = "running" => wrapper[w].alive

Advance ==
  LET living == Cardinality({w \in Wrappers : wrapper[w].alive}) IN
  /\ Settled
  /\ now < MaxTime
  /\ now' = now + 1
  /\ ran' = ran + living
  /\ ranToday' = ranToday + living
  /\ UNCHANGED <<midnight, up, agentd, wrapper, net, seenPids, launches>>

NewDay ==
  /\ midnight < now
  /\ midnight' = now
  /\ ranToday' = 0
  /\ UNCHANGED <<now, up, agentd, wrapper, net, seenPids, ran, launches>>

-----------------------------------------------------------------------------
(* report(): the connection fails at once when agentd is down, and the     *)
(* wrapper goes on as if it had been answered.                             *)
Send(w, type, waiting, after, fields) ==
  IF up
    THEN /\ wrapper' = [wrapper EXCEPT ![w] = [fields EXCEPT !.pc = waiting]]
         /\ net' = net \cup {[type |-> type, from |-> w]}
    ELSE /\ wrapper' = [wrapper EXCEPT ![w] = [fields EXCEPT !.pc = after]]
         /\ net' = net

(* "reuse": the kernel may give out a pid again once it was reaped;        *)
(* "race": even while the report of that process's stop is on its way.     *)
Reused(p) ==
  {f \in {"reuse"} : p \in seenPids}
    \cup {f \in {"race"} : \E v \in Wrappers : wrapper[v].pc = "stopping" /\ wrapper[v].pid = p}

(* omarchy-kids-run, authorized (agentd may have died since), spawns the   *)
(* app and reports the start.                                              *)
Launch(w, app, p) ==
  /\ wrapper[w].pc = "idle"
  /\ \A m \in net : m.from # w
  /\ launches < MaxLaunches
  /\ \A v \in Wrappers : HasPid(v) => wrapper[v].pid # p
  /\ Reused(p) \subseteq Faults
  /\ launches' = launches + 1
  /\ seenPids' = seenPids \cup {p}
  /\ Send(w, "start", "starting", "running",
          [pc |-> "idle", app |-> app, pid |-> p, alive |-> TRUE])
  /\ UNCHANGED <<now, midnight, up, agentd, ran, ranToday>>

(* The app quits, or a refused poll terminated it. *)
ChildExits(w) ==
  /\ wrapper[w].alive
  /\ wrapper' = [wrapper EXCEPT ![w].alive = FALSE]
  /\ UNCHANGED <<now, midnight, up, agentd, net, history>>

(* The loop's try_wait reaps the child; the wrapper reports the stop. *)
Reap(w) ==
  /\ wrapper[w].pc = "running"
  /\ ~wrapper[w].alive
  /\ Send(w, "stop", "stopping", "idle", wrapper[w])
  /\ UNCHANGED <<now, midnight, up, agentd, history>>

GoOn(record) ==
  [record EXCEPT !.pc = CASE record.pc = "starting" -> "running"
                          [] record.pc = "stopping" -> "idle"
                          [] OTHER -> record.pc]

(* 800 ms are over; the request stays behind. *)
Timeout(w) ==
  /\ "timeout" \in Faults
  /\ wrapper[w].pc \in {"starting", "stopping"}
  /\ wrapper' = [wrapper EXCEPT ![w] = GoOn(wrapper[w])]
  /\ UNCHANGED <<now, midnight, up, agentd, net, history>>

(* The wrapper and its child are killed together (logout, out of memory). *)
Kill(w) ==
  /\ "kill" \in Faults
  /\ wrapper[w].pc # "idle"
  /\ wrapper' = [wrapper EXCEPT ![w].pc = "idle", ![w].alive = FALSE]
  /\ UNCHANGED <<now, midnight, up, agentd, net, history>>

-----------------------------------------------------------------------------
(* agentd takes m from the socket; its sender, if it still waits for this  *)
(* very answer, goes on.                                                   *)
Answer(m) ==
  /\ up
  /\ m \in net
  /\ net' = net \ {m}
  /\ wrapper' =
       IF \/ m.type = "start" /\ wrapper[m.from].pc = "starting"
          \/ m.type = "stop"  /\ wrapper[m.from].pc = "stopping"
         THEN [wrapper EXCEPT ![m.from] = GoOn(wrapper[m.from])]
         ELSE wrapper
  /\ UNCHANGED <<now, midnight, up, history>>

(* The event of an app that is not allowed now, which is for the policy to *)
(* say (Enforcement does); a failing insert is ignored.                    *)
LogDisallowed(app) ==
  \/ events' = events \cup {app}
  \/ events' = events

(* handle_wrapper_start: an app that is not allowed is logged, and its     *)
(* session recorded all the same.                                          *)
WrapperStart(w) ==
  LET app == wrapper[w].app
      pid == wrapper[w].pid
  IN  /\ Answer([type |-> "start", from |-> w])
      /\ LogDisallowed(app)
      /\ rows' = Append(rows, [pid |-> pid, app |-> app, start |-> now,
                               open |-> TRUE, duration |-> 0])
      /\ active' = {s \in active : s.pid # pid}
                     \cup {[pid |-> pid, app |-> app, start |-> now]}

(* start_session fails: an error is answered, active is not touched. *)
WrapperStartFails(w) ==
  /\ "db" \in Faults
  /\ Answer([type |-> "start", from |-> w])
  /\ LogDisallowed(wrapper[w].app)
  /\ UNCHANGED <<active, rows>>

(* Mutant of CloseRows: the difference the wrong way round. *)
CloseRowsNegative(open, newest) ==
  [i \in DOMAIN rows |->
     IF i \in open
       THEN [rows[i] EXCEPT !.open = FALSE, !.duration = rows[newest].start - now]
       ELSE rows[i]]

(* The UPDATE of end_session: every row of `open` gets the duration of the *)
(* newest of them.                                                         *)
CloseRows(open, newest) ==
  [i \in DOMAIN rows |->
     IF i \in open
       THEN [rows[i] EXCEPT !.open = FALSE, !.duration = now - rows[newest].start]
       ELSE rows[i]]

(* end_session; with no open row an empty session is recorded. *)
EndSession(app, pid) ==
  LET open == OpenRows(app, pid) IN
  \/ /\ open = {}
     /\ rows' = Append(rows, [pid |-> pid, app |-> app, start |-> now,
                              open |-> FALSE, duration |-> 0])
  \/ \E newest \in open :
       /\ IsLatest(newest, open)
       /\ rows' = CloseRows(open, newest)

(* Mutants of WrapperStop: one leaves the pid in active, one leaves the    *)
(* table alone.                                                            *)
WrapperStopKeeps(w) ==
  /\ Answer([type |-> "stop", from |-> w])
  /\ EndSession(wrapper[w].app, wrapper[w].pid)
  /\ UNCHANGED <<active, events>>

WrapperStopUnbooked(w) ==
  /\ Answer([type |-> "stop", from |-> w])
  /\ active' = {s \in active : s.pid # wrapper[w].pid}
  /\ UNCHANGED <<rows, events>>

(* handle_wrapper_stop: the pid leaves active first, then the table is     *)
(* updated.                                                                *)
WrapperStop(w) ==
  /\ Answer([type |-> "stop", from |-> w])
  /\ active' = {s \in active : s.pid # wrapper[w].pid}
  /\ EndSession(wrapper[w].app, wrapper[w].pid)
  /\ events' = events

(* Mutant of WrapperStopFails: the table first, then active. *)
WrapperStopFailsEarly(w) ==
  /\ "db" \in Faults
  /\ Answer([type |-> "stop", from |-> w])
  /\ UNCHANGED agentd

(* end_session fails: the pid has left active all the same. *)
WrapperStopFails(w) ==
  /\ "db" \in Faults
  /\ Answer([type |-> "stop", from |-> w])
  /\ active' = {s \in active : s.pid # wrapper[w].pid}
  /\ UNCHANGED <<rows, events>>

(* agentd dies: the map is gone, the table is not; connections break and   *)
(* their wrappers go on.                                                   *)
Crash ==
  /\ "crash" \in Faults
  /\ up
  /\ up' = FALSE
  /\ active' = {}
  /\ net' = {}
  /\ wrapper' = [w \in Wrappers |-> GoOn(wrapper[w])]
  /\ UNCHANGED <<now, midnight, rows, events, history>>

Restart ==
  /\ ~up
  /\ up' = TRUE
  /\ UNCHANGED <<now, midnight, agentd, wrapper, net, history>>

Handle(w) ==
  \/ WrapperStart(w) \/ WrapperStartFails(w)
  \/ WrapperStop(w)  \/ WrapperStopFails(w)

Next ==
  \/ Advance
  \/ NewDay
  \/ \E w \in Wrappers, app \in Apps, p \in Pids : Launch(w, app, p)
  \/ \E w \in Wrappers : ChildExits(w) \/ Reap(w) \/ Timeout(w) \/ Kill(w)
  \/ \E w \in Wrappers : Handle(w)
  \/ Crash
  \/ Restart

Spec == Init /\ [][Next]_vars

-----------------------------------------------------------------------------
(* An active session is the newest open row of its app and pid, with the   *)
(* same start: its time is counted once while it lives, since no completed *)
(* row holds it, and it is the row its stop takes the duration from.  (A   *)
(* row from before a restart may be open beside it: see StopClosesOne.)    *)
ActiveBacked ==
  \A s \in active : \E i \in DOMAIN rows :
    /\ IsLatest(i, OpenRows(s.app, s.pid))
    /\ rows[i].start = s.start

(* docs/agent-protocol.md, of an agentd that a report does not reach: "a   *)
(* short outage just under-counts that session's usage".  Violated: a      *)
(* start that is handled after its stop is a session that nothing ends.    *)
OutageUndercounts == Settled => Used(0) <= ran

(* db.rs, of end_session: "Closes the most recent still-open session for   *)
(* (app, pid)".  Violated: the UPDATE closes every open row of the two,    *)
(* and gives each the duration of the newest.                              *)
StopClosesOne ==
  [][Cardinality({i \in DOMAIN rows : rows[i].open /\ ~rows'[i].open}) <= 1]_vars
=============================================================================
