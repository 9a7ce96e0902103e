----------------------------- MODULE Enforcement -----------------------------
(***************************************************************************)
(* Who may run: omarchy-kids-run asks agentd before it spawns an app and   *)
(* every POLL_INTERVAL afterwards, and agentd answers from the launch      *)
(* policy, the blocked windows and the usage that SessionLog counts.       *)
(*                                                                         *)
(* Composes with SessionLog: its actions are conjuncts of the ones here.   *)
(* The clock's unit is a tick, a PerMinute-th of a minute and no shorter   *)
(* than POLL_INTERVAL, so that a wrapper that keeps up polls in every tick *)
(* after the one it began in, and has done by its end what agentd's answer *)
(* told it to.  Nothing makes a wrapper keep up: a tick may also end       *)
(* between the answer and the spawn, the poll or the SIGTERM.              *)
(*                                                                         *)
(* Abstracted: the policy is the set of apps is_app_allowed accepts (who   *)
(* changes it is UnlockStore's subject), limits and windows are those of   *)
(* the days modelled, a limit that is not set is the empty set.            *)
(***************************************************************************)
EXTENDS SessionLog

CONSTANTS
  PerMinute,   \* ticks in a minute
  DailyLimit,  \* daily_total_minutes_today: at most one number of minutes
  AppLimit,    \* per_app_minutes_today: the same for each app
  Blocked      \* ticks that lie in a blocked window

ASSUME EnforceAssumption ==
  /\ PerMinute \in Nat \ {0}
  /\ DailyLimit \in SUBSET Nat
  /\ AppLimit \in [Apps -> SUBSET Nat]
  /\ Blocked \in SUBSET Nat

VARIABLES
  policy,   \* apps that is_app_allowed accepts
  check,    \* per wrapper: what agentd's answer makes it do next
  wanted,   \* per wrapper: the app it may spawn
  polled,   \* wrappers that need not poll again before the next tick
  (* history, read by properties only *)
  entitled,  \* per granted wrapper: its app, if that might run when it asked
  steady     \* every request was answered in time, every wrapper kept up,
             \* none was killed

gate == <<policy, check, wanted, polled, entitled, steady>>
enforceVars == <<vars, gate>>

GRACE_MINUTES == 1

EnforceTypeOK ==
  /\ policy \in SUBSET Apps
  /\ check \in [Wrappers -> {"none", "granted", "terminate"}]
  /\ wanted \in [Wrappers -> SUBSET Apps]
  /\ polled \in SUBSET Wrappers
  /\ entitled \in [Wrappers -> SUBSET Apps]
  /\ steady \in BOOLEAN

Minutes(ticks) == ticks \div PerMinute

(* compute_app_used_minutes, before its division. *)
AppUsed(app, since) ==
  SumFunctionOnSet([i \in DOMAIN rows |-> rows[i].duration],
                   {i \in DOMAIN rows : ~rows[i].open /\ rows[i].app = app
                                                      /\ rows[i].start >= since})
    + SumFunctionOnSet([s \in active |-> now - s.start],
                       {s \in active : s.app = app /\ s.start >= since})

(* Mutant of Admitted: the windows get a grace as well. *)
AdmittedWithGrace(app) == app \in policy /\ (now \notin Blocked \/ now - 1 \notin Blocked)

(* check_allowed up to the budgets: the windows get no grace. *)
Admitted(app) == app \in policy /\ now \notin Blocked

(* Mutant of WithinBudget: the grace is given twice. *)
WithinBudgetTwice(app) ==
  /\ \A limit \in DailyLimit : Minutes(Used(midnight)) <= limit + 2 * GRACE_MINUTES
  /\ \A limit \in AppLimit[app] :
       Minutes(AppUsed(app, midnight)) <= limit + 2 * GRACE_MINUTES

(* check_allowed from the budgets on: both get the grace. *)
WithinBudget(app) ==
  /\ \A limit \in DailyLimit : Minutes(Used(midnight)) <= limit + GRACE_MINUTES
  /\ \A limit \in AppLimit[app] :
       Minutes(AppUsed(app, midnight)) <= limit + GRACE_MINUTES

CheckAllowed(app) == Admitted(app) /\ WithinBudget(app)

(* A sum that cannot be read counts as 0 (unwrap_or). *)
Verdict(app, ok) ==
  \/ ok = CheckAllowed(app) /\ steady' = steady
  \/ "db" \in Faults /\ ok = Admitted(app) /\ steady' = FALSE

-----------------------------------------------------------------------------
EnforceInit ==
  /\ Init
  /\ policy \in SUBSET Apps
  /\ check = [w \in Wrappers |-> "none"]
  /\ wanted = [w \in Wrappers |-> {}]
  /\ polled = {}
  /\ entitled = [w \in Wrappers |-> {}]
  /\ steady = TRUE

(* An unlock, an expiry or another tier. *)
PolicyChanges ==
  /\ up
  /\ policy' \in SUBSET Apps
  /\ UNCHANGED <<vars, check, wanted, polled, entitled, steady>>

(* Every wrapper has acted on its answer, and polled if it had to. *)
KeptUp ==
  \A w \in Wrappers :
    check[w] = "none" /\ (wrapper[w].pc = "running" => w \in polled)

(* Time passes, whether or not the wrappers keep up with it. *)
Tick ==
  /\ Advance
  /\ polled' = {}
  /\ steady' = (steady /\ KeptUp)
  /\ UNCHANGED <<policy, check, wanted, entitled>>

Midnight == NewDay /\ UNCHANGED gate

(* The answer that lets a wrapper spawn its app, until it has. *)
Grant(w, app) ==
  /\ check' = [check EXCEPT ![w] = "granted"]
  /\ wanted' = [wanted EXCEPT ![w] = {app}]
  /\ entitled' = [entitled EXCEPT ![w] = {granted \in {app} : Admitted(granted)}]

GiveUp(w) ==
  /\ check' = [check EXCEPT ![w] = "none"]
  /\ wanted' = [wanted EXCEPT ![w] = {}]
  /\ entitled' = [entitled EXCEPT ![w] = {}]

MayAsk(w) == wrapper[w].pc = "idle" /\ check[w] = "none"

(* The launcher starts omarchy-kids-run for an app, which asks; agentd     *)
(* answers under its mutex, and a wrapper that is refused exits.           *)
Authorize(w, app) ==
  /\ up
  /\ MayAsk(w)
  /\ \E ok \in BOOLEAN :
       /\ Verdict(app, ok)
       /\ IF ok THEN Grant(w, app) ELSE UNCHANGED <<check, wanted, entitled>>
  /\ UNCHANGED <<vars, policy, polled>>

(* Mutant of AuthorizeFails: fail-open. *)
AuthorizeFailsOpen(w, app) ==
  /\ ~up \/ "timeout" \in Faults
  /\ MayAsk(w)
  /\ Grant(w, app)
  /\ UNCHANGED <<vars, policy, polled, steady>>

(* No answer: the wrapper exits (fail-closed). *)
AuthorizeFails(w, app) ==
  /\ ~up \/ "timeout" \in Faults
  /\ MayAsk(w)
  /\ steady' = FALSE
  /\ UNCHANGED <<vars, policy, check, wanted, polled, entitled>>

(* Its first poll is due a POLL_INTERVAL from now. *)
Spawn(w, p) ==
  /\ check[w] = "granted"
  /\ \E app \in wanted[w] : Launch(w, app, p)
  /\ GiveUp(w)
  /\ polled' = polled \cup {w}
  /\ UNCHANGED <<policy, steady>>

(* No .desktop entry, an empty Exec, or the spawn fails. *)
SpawnFails(w) ==
  /\ check[w] = "granted"
  /\ GiveUp(w)
  /\ UNCHANGED <<vars, policy, polled, steady>>

(* Mutant of Poll: a pid without an active session is let be. *)
PollByPid(w) ==
  /\ up
  /\ wrapper[w].pc = "running"
  /\ check[w] = "none"
  /\ \E ok \in BOOLEAN :
       /\ Verdict(wrapper[w].app, ok)
       /\ check' = [check EXCEPT ![w] =
            IF ok \/ \A s \in active : s.pid # wrapper[w].pid
              THEN "none" ELSE "terminate"]
  /\ polled' = polled \cup {w}
  /\ UNCHANGED <<vars, policy, wanted, entitled>>

(* handle_wrapper_poll, and still_allowed in the wrapper. *)
Poll(w) ==
  /\ up
  /\ wrapper[w].pc = "running"
  /\ check[w] = "none"
  /\ \E ok \in BOOLEAN :
       /\ Verdict(wrapper[w].app, ok)
       /\ check' = [check EXCEPT ![w] = IF ok THEN "none" ELSE "terminate"]
  /\ polled' = polled \cup {w}
  /\ UNCHANGED <<vars, policy, wanted, entitled>>

(* No answer: the app keeps running (fail-open). *)
PollFails(w) ==
  /\ ~up \/ "timeout" \in Faults
  /\ wrapper[w].pc = "running"
  /\ check[w] = "none"
  /\ polled' = polled \cup {w}
  /\ steady' = FALSE
  /\ UNCHANGED <<vars, policy, check, wanted, entitled>>

(* SIGTERM, or SIGKILL after KILL_GRACE; the child may have exited before. *)
Terminate(w) ==
  /\ check[w] = "terminate"
  /\ wrapper' = [wrapper EXCEPT ![w].alive = FALSE]
  /\ check' = [check EXCEPT ![w] = "none"]
  /\ UNCHANGED <<now, midnight, up, agentd, net, history>>
  /\ UNCHANGED <<policy, wanted, polled, entitled, steady>>

Quit(w) == ChildExits(w) /\ UNCHANGED gate

(* Mutant of ReportStop: reaped and reported beside a poll, not after it. *)
ReportStopBeside(w) == Reap(w) /\ UNCHANGED gate

ReportStop(w) == check[w] = "none" /\ Reap(w) /\ UNCHANGED gate

ReportTimeout(w) ==
  /\ Timeout(w)
  /\ steady' = FALSE
  /\ UNCHANGED <<policy, check, wanted, polled, entitled>>

KillBoth(w) ==
  /\ Kill(w)
  /\ check' = [check EXCEPT ![w] = "none"]
  /\ steady' = FALSE
  /\ UNCHANGED <<policy, wanted, polled, entitled>>

(* The event of handle_wrapper_start, for an app that is not allowed. *)
EventFor(app) ==
  \/ events' = events \cup ({app} \ policy)
  \/ "db" \in Faults /\ events' = events

HandleStart(w) ==
  /\ \/ WrapperStart(w) /\ steady' = steady
     \/ WrapperStartFails(w) /\ steady' = FALSE
  /\ EventFor(wrapper[w].app)
  /\ UNCHANGED <<policy, check, wanted, polled, entitled>>

HandleStop(w) ==
  /\ \/ WrapperStop(w) /\ steady' = steady
     \/ WrapperStopFails(w) /\ steady' = FALSE
  /\ UNCHANGED <<policy, check, wanted, polled, entitled>>

Die ==
  /\ Crash
  /\ steady' = FALSE
  /\ UNCHANGED <<policy, check, wanted, polled, entitled>>

ComeBack == Restart /\ UNCHANGED gate

WrapperStep(w) ==
  \/ Poll(w) \/ Terminate(w)
  \/ ReportStop(w)
  \/ HandleStart(w) \/ HandleStop(w)

EnforceNext ==
  \/ PolicyChanges
  \/ Tick
  \/ Midnight
  \/ \E w \in Wrappers, app \in Apps : Authorize(w, app) \/ AuthorizeFails(w, app)
  \/ \E w \in Wrappers, p \in Pids : Spawn(w, p)
  \/ \E w \in Wrappers : WrapperStep(w)
  \/ \E w \in Wrappers : SpawnFails(w) \/ PollFails(w)
  \/ \E w \in Wrappers : Quit(w) \/ ReportTimeout(w) \/ KillBoth(w)
  \/ Die
  \/ ComeBack

EnforceSpec == EnforceInit /\ [][EnforceNext]_enforceVars

(* systemd restarts agentd, the wrapper's loop goes on polling and acts on *)
(* the answer, agentd answers what it was sent.  Apps need not exit.       *)
FairEnforceSpec ==
  /\ EnforceSpec
  /\ WF_enforceVars(ComeBack)
  /\ \A w \in Wrappers :
       /\ WF_enforceVars(Poll(w))
       /\ WF_enforceVars(Terminate(w))
       /\ WF_enforceVars(HandleStart(w))
-----------------------------------------------------------------------------
(* What a wrapper is about to do fits where it is: a verdict on a launch   *)
(* is never carried into a running session, nor a poll's verdict into the  *)
(* next launch.                                                            *)
CheckFits ==
  /\ EnforceTypeOK
  /\ \A w \in Wrappers :
       /\ check[w] = "granted" => wrapper[w].pc = "idle"
       /\ check[w] = "terminate" => wrapper[w].pc = "running"

(* Without an outage the children run no longer in a day than the limit,   *)
(* its grace, the started minute that the division drops, and one tick for *)
(* each wrapper: live time, booked time, the refusal of new launches and   *)
(* the polls of all that run work together.  An app's own limit likewise.  *)
(* (Only a session that began today counts, so a run past midnight does    *)
(* not: hence the first day.)                                              *)
BudgetHeld ==
  steady /\ midnight = 0 =>
    LET Bound(limit) == (limit + GRACE_MINUTES + 1) * PerMinute + Cardinality(Wrappers)
    IN  /\ \A limit \in DailyLimit : ranToday < Bound(limit)
        /\ \A app \in Apps : \A limit \in AppLimit[app] :
             AppUsed(app, midnight) < Bound(limit)

(* WrapperAuthorize is fail-closed (issue #35): a child starts only of the *)
(* app its own omarchy-kids-run asked for, and only if that app was in the *)
(* policy and outside the windows at that moment, whatever agentd's        *)
(* outages, the answers to earlier launches, and the time until the spawn. *)
NothingStartsBlind ==
  [][\A w \in Wrappers : wrapper'[w].alive /\ ~wrapper[w].alive =>
       wrapper'[w].app \in entitled[w]]_enforceVars

(* Without an outage no child runs on in a blocked window: once every      *)
(* wrapper has polled in a tick of it and acted on the answer, none does,  *)
(* also none that was let start just before the window began.              *)
WindowHeld ==
  steady /\ now \in Blocked /\ Settled /\ KeptUp =>
    \A w \in Wrappers : ~wrapper[w].alive

(* Once agentd stays up, a running app that may not run ends, or may run   *)
(* again: also one whose session agentd forgot in a restart, or never      *)
(* heard of.                                                               *)
CutOff ==
  \A w \in Wrappers :
    LET Barred == wrapper[w].alive /\ ~CheckAllowed(wrapper[w].app)
    IN  <>[]up => (Barred ~> ~Barred)
=============================================================================
