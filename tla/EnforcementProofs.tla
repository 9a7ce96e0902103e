-------------------------- MODULE EnforcementProofs --------------------------
(***************************************************************************)
(* Safety of Enforcement for every policy, limit, window, number of        *)
(* wrappers and set of faults.  Only the budget needs one fault excluded:  *)
(* a pid given out again while its last stop is on its way.                *)
(***************************************************************************)
EXTENDS Enforcement, SessionLogProofs

(* The gate keeps its types. *)
LEMMA GateType == EnforceTypeOK /\ [EnforceNext]_enforceVars => EnforceTypeOK'
<1> SUFFICES ASSUME EnforceTypeOK, [EnforceNext]_enforceVars PROVE EnforceTypeOK'
  OBVIOUS
<1> USE DEF EnforceTypeOK
<1>1. \A app, ok : Verdict(app, ok) => steady' \in BOOLEAN
  BY Zenon DEF Verdict
<1>2. CASE PolicyChanges
  BY <1>2 DEF PolicyChanges
<1>3. CASE Tick \/ Midnight
  BY <1>3 DEF Tick, Midnight, gate
<1>4. ASSUME NEW w \in Wrappers, NEW app \in Apps, Authorize(w, app) PROVE EnforceTypeOK'
  BY <1>1, <1>4 DEF Authorize, Grant
<1>5. ASSUME NEW w \in Wrappers, NEW app \in Apps, AuthorizeFails(w, app) PROVE EnforceTypeOK'
  BY <1>5 DEF AuthorizeFails
<1>6. ASSUME NEW w \in Wrappers, NEW p \in Pids, Spawn(w, p) PROVE EnforceTypeOK'
  BY <1>6 DEF Spawn, GiveUp
<1>7. ASSUME NEW w \in Wrappers, WrapperStep(w) PROVE EnforceTypeOK'
  <2>1. CASE Poll(w)
    BY <1>1, <2>1 DEF Poll
  <2>2. CASE Terminate(w)
    BY <2>2 DEF Terminate
  <2>3. CASE ReportStop(w)
    BY <2>3 DEF ReportStop, gate
  <2>4. CASE HandleStart(w)
    BY <2>4 DEF HandleStart
  <2>5. CASE HandleStop(w)
    BY <2>5 DEF HandleStop
  <2> QED BY <1>7, <2>1, <2>2, <2>3, <2>4, <2>5 DEF WrapperStep
<1>8. ASSUME NEW w \in Wrappers, SpawnFails(w) \/ PollFails(w) PROVE EnforceTypeOK'
  BY <1>8 DEF SpawnFails, PollFails, GiveUp
<1>9. ASSUME NEW w \in Wrappers, Quit(w) \/ ReportTimeout(w) \/ KillBoth(w)
      PROVE  EnforceTypeOK'
  BY <1>9 DEF Quit, ReportTimeout, KillBoth, gate
<1>10. CASE Die \/ ComeBack
  BY <1>10 DEF Die, ComeBack, gate
<1>11. CASE UNCHANGED enforceVars
  BY <1>11 DEF enforceVars, gate
<1> QED BY <1>2, <1>3, <1>4, <1>5, <1>6, <1>7, <1>8, <1>9, <1>10, <1>11 DEF EnforceNext

(* A terminated child is one that exits, if it had not. *)
LEMMA TerminateIsExit ==
  ASSUME TypeOK, NEW w \in Wrappers, Terminate(w)
  PROVE  ChildExits(w) \/ UNCHANGED vars
<1>1. CASE wrapper[w].alive
  BY <1>1 DEF Terminate, ChildExits
<1>2. CASE ~wrapper[w].alive
  <2>1. wrapper' = [wrapper EXCEPT ![w].alive = FALSE]
    BY DEF Terminate
  <2>2. wrapper[w] \in Wrapper /\ wrapper[w].alive = FALSE
    BY <1>2 DEF TypeOK, Wrapper
  <2>3. [wrapper[w] EXCEPT !.alive = FALSE] = wrapper[w]
    BY <2>2 DEF Wrapper
  <2>4. wrapper' = wrapper
    BY <2>1, <2>3 DEF TypeOK
  <2> QED BY <2>4 DEF Terminate, vars
<1> QED BY <1>1, <1>2

(* Each step of Enforcement is a step of the session log or leaves it as   *)
(* it is: a terminated child is one that exits.                            *)
LEMMA StepIsLogStep ==
  TypeOK /\ EnforceTypeOK /\ [EnforceNext]_enforceVars => [Next]_vars
<1> SUFFICES ASSUME TypeOK, EnforceTypeOK, [EnforceNext]_enforceVars PROVE [Next]_vars
  OBVIOUS
<1>1. CASE PolicyChanges
  BY <1>1 DEF PolicyChanges
<1>2. CASE Tick \/ Midnight
  BY <1>2 DEF Tick, Midnight, Next
<1>3. ASSUME NEW w \in Wrappers, NEW app \in Apps, Authorize(w, app) \/ AuthorizeFails(w, app)
      PROVE  [Next]_vars
  BY <1>3 DEF Authorize, AuthorizeFails
<1>4. ASSUME NEW w \in Wrappers, NEW p \in Pids, Spawn(w, p) PROVE [Next]_vars
  <2>1. PICK app \in wanted[w] : Launch(w, app, p)
    BY <1>4 DEF Spawn
  <2>2. app \in Apps
    BY DEF EnforceTypeOK
  <2> QED BY <2>1, <2>2 DEF Next
<1>5. ASSUME NEW w \in Wrappers, WrapperStep(w) PROVE [Next]_vars
  <2>1. CASE Poll(w)
    BY <2>1 DEF Poll
  <2>2. CASE Terminate(w)
    BY <2>2, TerminateIsExit DEF Next
  <2>3. CASE ReportStop(w)
    BY <2>3 DEF ReportStop, Next
  <2>4. CASE HandleStart(w)
    BY <2>4 DEF HandleStart, Handle, Next
  <2>5. CASE HandleStop(w)
    BY <2>5 DEF HandleStop, Handle, Next
  <2> QED BY <1>5, <2>1, <2>2, <2>3, <2>4, <2>5 DEF WrapperStep
<1>6. ASSUME NEW w \in Wrappers, SpawnFails(w) \/ PollFails(w) PROVE [Next]_vars
  BY <1>6 DEF SpawnFails, PollFails
<1>7. ASSUME NEW w \in Wrappers, Quit(w) \/ ReportTimeout(w) \/ KillBoth(w)
      PROVE  [Next]_vars
  BY <1>7 DEF Quit, ReportTimeout, KillBoth, Next
<1>8. CASE Die \/ ComeBack
  BY <1>8 DEF Die, ComeBack, Next
<1>9. CASE UNCHANGED enforceVars
  BY <1>9 DEF enforceVars
<1> QED BY <1>1, <1>2, <1>3, <1>4, <1>5, <1>6, <1>7, <1>8, <1>9 DEF EnforceNext

(* Every variable, the session log's too, keeps its type.                  *)
THEOREM EnforceTypeCorrect == EnforceSpec => [](TypeOK /\ EnforceTypeOK)
<1>1. EnforceInit => TypeOK /\ EnforceTypeOK
  <2> SUFFICES ASSUME EnforceInit PROVE TypeOK /\ EnforceTypeOK
    OBVIOUS
  <2>1. TypeOK
    BY InitType DEF EnforceInit
  <2>2. steady \in BOOLEAN
    BY Zenon DEF EnforceInit
  <2> QED BY <2>1, <2>2 DEF EnforceInit, EnforceTypeOK
<1>2. TypeOK /\ EnforceTypeOK /\ [EnforceNext]_enforceVars => TypeOK' /\ EnforceTypeOK'
  BY StepIsLogStep, NextType, GateType
<1> QED BY <1>1, <1>2, PTL DEF EnforceSpec

(* Enforcement implements SessionLog: gating launches by agentd's answer   *)
(* adds no behaviour to the reports and the table.                         *)
THEOREM EnforceImplementsLog == EnforceSpec => Spec
<1>1. EnforceInit => Init
  BY DEF EnforceInit
<1> QED BY <1>1, EnforceTypeCorrect, StepIsLogStep, PTL DEF EnforceSpec, Spec

(* So what is proved of the session log holds here: live time is backed by *)
(* its open row (ActiveBacked).                                            *)
THEOREM EnforceActiveBacked == EnforceSpec => []ActiveBacked
BY EnforceImplementsLog, ActiveBackedHolds, PTL

-----------------------------------------------------------------------------
(* The answer to a report moves only a wrapper that waits for one.         *)
LEMMA AnswerMoves ==
  ASSUME TypeOK, NEW m \in Report, Answer(m), NEW w \in Wrappers,
         wrapper[w].pc \in {"idle", "running"}
  PROVE  wrapper'[w] = wrapper[w]
BY DEF Answer, Report, TypeOK

(* A handler moves no wrapper that is idle or running. *)
LEMMA HandlerMoves ==
  ASSUME TypeOK, NEW v \in Wrappers, HandleStart(v) \/ HandleStop(v), NEW w \in Wrappers,
         wrapper[w].pc \in {"idle", "running"}
  PROVE  wrapper'[w] = wrapper[w]
<1>1. PICK m \in Report : Answer(m)
  BY ReportType DEF HandleStart, HandleStop, WrapperStart, WrapperStartFails,
                    WrapperStop, WrapperStopFails
<1> QED BY <1>1, AnswerMoves

(* Where each verdict may be waiting, what CheckFits says of wrapper w. *)
Fits(w) ==
  /\ check[w] = "granted" => wrapper[w].pc = "idle"
  /\ check[w] = "terminate" => wrapper[w].pc = "running"

(* A verdict fits its wrapper (CheckFits): neither a crash nor a kill nor  *)
(* a late answer carries it over into the next session.                    *)
THEOREM CheckFitsHolds == EnforceSpec => []CheckFits
<1>1. EnforceInit => \A w \in Wrappers : Fits(w)
  BY DEF EnforceInit, Fits
<1>2. TypeOK /\ EnforceTypeOK /\ (\A w \in Wrappers : Fits(w)) /\ [EnforceNext]_enforceVars
      => (\A w \in Wrappers : Fits(w))'
  <2> SUFFICES ASSUME TypeOK, EnforceTypeOK, \A w \in Wrappers : Fits(w),
                      [EnforceNext]_enforceVars, NEW w \in Wrappers
               PROVE  Fits(w)'
    OBVIOUS
  <2> USE DEF Fits
  <2>1. wrapper[w].pc \in {"idle", "starting", "running", "stopping"} /\ wrapper[w] \in Wrapper
    BY DEF TypeOK, Wrapper
  <2>2. CASE check'[w] = check[w] /\ wrapper'[w].pc = wrapper[w].pc
    BY <2>2
  <2>3. CASE PolicyChanges \/ Tick \/ Midnight
    BY <2>2, <2>3 DEF PolicyChanges, vars, Tick, Advance, Midnight, NewDay, gate
  <2>4. ASSUME NEW v \in Wrappers, NEW app \in Apps, Authorize(v, app) \/ AuthorizeFails(v, app)
        PROVE  Fits(w)'
    BY <2>4 DEF Authorize, AuthorizeFails, MayAsk, Grant, vars, EnforceTypeOK
  <2>5. ASSUME NEW v \in Wrappers, NEW p \in Pids, Spawn(v, p) PROVE Fits(w)'
    <3>1. CASE v = w
      BY <2>5, <3>1 DEF Spawn, GiveUp, EnforceTypeOK
    <3>2. CASE v # w
      BY <2>5, <3>2 DEF Spawn, GiveUp, Launch, Send, EnforceTypeOK, TypeOK
    <3> QED BY <3>1, <3>2
  <2>6. ASSUME NEW v \in Wrappers, WrapperStep(v) PROVE Fits(w)'
    <3>1. CASE Poll(v)
      BY <3>1 DEF Poll, vars, EnforceTypeOK
    <3>2. CASE Terminate(v)
      BY <2>1, <3>2 DEF Terminate, EnforceTypeOK, TypeOK, Wrapper
    <3>3. CASE ReportStop(v)
      BY <2>1, <3>3 DEF ReportStop, Reap, Send, gate, TypeOK
    <3>4. CASE HandleStart(v) \/ HandleStop(v)
      <4>1. check' = check
        BY <3>4 DEF HandleStart, HandleStop
      <4>2. CASE wrapper[w].pc \in {"idle", "running"}
        BY <2>2, <3>4, <4>1, <4>2, HandlerMoves
      <4>3. CASE wrapper[w].pc \notin {"idle", "running"}
        BY <4>1, <4>3
      <4> QED BY <4>2, <4>3
    <3> QED BY <2>6, <3>1, <3>2, <3>3, <3>4 DEF WrapperStep
  <2>7. ASSUME NEW v \in Wrappers, SpawnFails(v) \/ PollFails(v) PROVE Fits(w)'
    BY <2>7 DEF SpawnFails, PollFails, GiveUp, vars, EnforceTypeOK
  <2>8. ASSUME NEW v \in Wrappers, Quit(v) \/ ReportTimeout(v) PROVE Fits(w)'
    BY <2>1, <2>8 DEF Quit, ReportTimeout, ChildExits, Timeout, gate, TypeOK, Wrapper
  <2>9. ASSUME NEW v \in Wrappers, KillBoth(v) PROVE Fits(w)'
    BY <2>1, <2>9 DEF KillBoth, Kill, EnforceTypeOK, TypeOK, Wrapper
  <2>10. CASE Die
    <3>1. check' = check /\ wrapper' = [u \in Wrappers |-> GoOn(wrapper[u])]
      BY <2>10 DEF Die, Crash
    <3>2. wrapper[w].pc \in {"idle", "running"} => wrapper'[w].pc = wrapper[w].pc
      BY <2>1, <3>1 DEF GoOn, Wrapper
    <3> QED BY <3>1, <3>2
  <2>11. CASE ComeBack
    BY <2>2, <2>11 DEF ComeBack, Restart, gate
  <2>12. CASE UNCHANGED enforceVars
    BY <2>2, <2>12 DEF enforceVars, gate, vars
  <2> QED
    BY <2>3, <2>4, <2>5, <2>6, <2>7, <2>8, <2>9, <2>10, <2>11, <2>12 DEF EnforceNext
<1>3. EnforceTypeOK /\ (\A w \in Wrappers : Fits(w)) => CheckFits
  BY DEF Fits, CheckFits
<1> QED BY <1>1, <1>2, <1>3, EnforceTypeCorrect, PTL DEF EnforceSpec

-----------------------------------------------------------------------------
(* A grant that waits to be used is of an app that might run when its      *)
(* wrapper asked.                                                          *)
GrantValid ==
  \A w \in Wrappers : check[w] = "granted" => wanted[w] \subseteq entitled[w]

(* Every step keeps the waiting grants valid. *)
LEMMA GrantValidStep ==
  EnforceTypeOK /\ GrantValid /\ [EnforceNext]_enforceVars => GrantValid'
<1> SUFFICES ASSUME EnforceTypeOK, GrantValid, [EnforceNext]_enforceVars PROVE GrantValid'
  OBVIOUS
<1> USE DEF GrantValid, EnforceTypeOK
<1>1. CASE PolicyChanges
  BY <1>1 DEF PolicyChanges
<1>2. CASE Tick \/ Midnight
  BY <1>2 DEF Tick, Midnight, gate
<1>3. ASSUME NEW v \in Wrappers, NEW app \in Apps, Authorize(v, app) PROVE GrantValid'
  <2>1. PICK ok \in BOOLEAN :
          /\ Verdict(app, ok)
          /\ IF ok THEN Grant(v, app) ELSE UNCHANGED <<check, wanted, entitled>>
    BY <1>3 DEF Authorize
  <2>2. CASE ok
    <3>1. Admitted(app)
      BY <2>1, <2>2, Zenon DEF Verdict, CheckAllowed
    <3>2. /\ check' = [check EXCEPT ![v] = "granted"]
          /\ wanted' = [wanted EXCEPT ![v] = {app}]
          /\ entitled' = [entitled EXCEPT ![v] = {granted \in {app} : Admitted(granted)}]
      BY <2>1, <2>2 DEF Grant
    <3> QED BY <3>1, <3>2
  <2>3. CASE ~ok
    BY <2>1, <2>3
  <2> QED BY <2>2, <2>3
<1>4. ASSUME NEW v \in Wrappers, NEW app \in Apps, AuthorizeFails(v, app) PROVE GrantValid'
  BY <1>4 DEF AuthorizeFails
<1>5. ASSUME NEW v \in Wrappers, NEW p \in Pids, Spawn(v, p) PROVE GrantValid'
  BY <1>5 DEF Spawn, GiveUp
<1>6. ASSUME NEW v \in Wrappers, WrapperStep(v) PROVE GrantValid'
  <2>1. CASE Poll(v)
    BY <2>1 DEF Poll
  <2>2. CASE Terminate(v)
    BY <2>2 DEF Terminate
  <2>3. CASE ReportStop(v)
    BY <2>3 DEF ReportStop, gate
  <2>4. CASE HandleStart(v)
    BY <2>4 DEF HandleStart
  <2>5. CASE HandleStop(v)
    BY <2>5 DEF HandleStop
  <2> QED BY <1>6, <2>1, <2>2, <2>3, <2>4, <2>5 DEF WrapperStep
<1>7. ASSUME NEW v \in Wrappers, SpawnFails(v) \/ PollFails(v) PROVE GrantValid'
  BY <1>7 DEF SpawnFails, PollFails, GiveUp
<1>8. ASSUME NEW v \in Wrappers, Quit(v) \/ ReportTimeout(v) \/ KillBoth(v)
      PROVE  GrantValid'
  BY <1>8 DEF Quit, ReportTimeout, KillBoth, gate
<1>9. CASE Die \/ ComeBack
  BY <1>9 DEF Die, ComeBack, gate
<1>10. CASE UNCHANGED enforceVars
  BY <1>10 DEF enforceVars, gate
<1> QED BY <1>1, <1>2, <1>3, <1>4, <1>5, <1>6, <1>7, <1>8, <1>9, <1>10 DEF EnforceNext

(* What a step must be if a child begins to live in it. *)
StartsPermitted ==
  \A w \in Wrappers : wrapper'[w].alive /\ ~wrapper[w].alive =>
    wrapper'[w].app \in entitled[w]

(* GoOn and the answers revive no child. *)
LEMMA NoRevival ==
  ASSUME TypeOK, NEW w \in Wrappers
  PROVE  GoOn(wrapper[w]).alive = wrapper[w].alive
BY DEF GoOn, TypeOK, Wrapper

(* A child begins to live in Spawn only, on a valid grant. *)
LEMMA StartStep ==
  TypeOK /\ EnforceTypeOK /\ GrantValid /\ [EnforceNext]_enforceVars => StartsPermitted
<1> SUFFICES ASSUME TypeOK, EnforceTypeOK, GrantValid, [EnforceNext]_enforceVars,
                    NEW w \in Wrappers, wrapper'[w].alive, ~wrapper[w].alive
             PROVE  wrapper'[w].app \in entitled[w]
  BY DEF StartsPermitted
<1>1. wrapper' # wrapper
  OBVIOUS
<1>2. ASSUME NEW v \in Wrappers, NEW p \in Pids, Spawn(v, p)
      PROVE  wrapper'[w].app \in entitled[w]
  <2>1. PICK app \in wanted[v] : Launch(v, app, p)
    BY <1>2 DEF Spawn
  <2>2. v = w
    BY <2>1 DEF Launch, Send, TypeOK
  <2>3. wrapper'[w].app = app
    BY <2>1, <2>2 DEF Launch, Send, TypeOK
  <2> QED BY <1>2, <2>1, <2>2, <2>3 DEF Spawn, GrantValid
<1>3. ASSUME NEW v \in Wrappers, WrapperStep(v) PROVE FALSE
  <2>1. CASE Poll(v)
    BY <1>1, <2>1 DEF Poll, vars
  <2>2. CASE Terminate(v)
    BY <2>2 DEF Terminate, TypeOK, Wrapper
  <2>3. CASE ReportStop(v)
    BY <2>3 DEF ReportStop, Reap, Send, TypeOK, Wrapper
  <2>4. CASE HandleStart(v) \/ HandleStop(v)
    <3>1. PICK m \in Report : Answer(m)
      BY <2>4, ReportType DEF HandleStart, HandleStop, WrapperStart, WrapperStartFails,
                              WrapperStop, WrapperStopFails
    <3>2. wrapper'[w] = wrapper[w] \/ wrapper'[w] = GoOn(wrapper[w])
      BY <3>1 DEF Answer, Report, TypeOK
    <3> QED BY <3>2, NoRevival
  <2> QED BY <1>3, <2>1, <2>2, <2>3, <2>4 DEF WrapperStep
<1>4. ASSUME NEW v \in Wrappers, Quit(v) \/ ReportTimeout(v) \/ KillBoth(v) PROVE FALSE
  <2>1. CASE ReportTimeout(v)
    <3>1. wrapper' = [wrapper EXCEPT ![v] = GoOn(wrapper[v])]
      BY <2>1 DEF ReportTimeout, Timeout
    <3> QED BY <3>1, NoRevival DEF TypeOK
  <2>2. CASE Quit(v)
    BY <2>2 DEF Quit, ChildExits, TypeOK, Wrapper
  <2>3. CASE KillBoth(v)
    BY <2>3 DEF KillBoth, Kill, TypeOK, Wrapper
  <2> QED BY <1>4, <2>1, <2>2, <2>3
<1>5. CASE Die
  <2>1. wrapper'[w] = GoOn(wrapper[w])
    BY <1>5 DEF Die, Crash
  <2> QED BY <2>1, NoRevival
<1>6. CASE PolicyChanges \/ Tick \/ Midnight \/ ComeBack \/ UNCHANGED enforceVars
  BY <1>1, <1>6 DEF PolicyChanges, Tick, Advance, Midnight, NewDay, ComeBack, Restart,
                    enforceVars, vars
<1>7. ASSUME NEW v \in Wrappers, NEW app \in Apps, Authorize(v, app) \/ AuthorizeFails(v, app)
      PROVE  FALSE
  BY <1>1, <1>7 DEF Authorize, AuthorizeFails, vars
<1>8. ASSUME NEW v \in Wrappers, SpawnFails(v) \/ PollFails(v) PROVE FALSE
  BY <1>1, <1>8 DEF SpawnFails, PollFails, vars
<1> QED BY <1>2, <1>3, <1>4, <1>5, <1>6, <1>7, <1>8 DEF EnforceNext

(* Nothing starts unasked (NothingStartsBlind): what starts is the app its *)
(* own wrapper asked for, and that might run then.  How much time passes   *)
(* before the spawn, and what becomes of the policy and of agentd in it,   *)
(* is left open.                                                           *)
THEOREM NothingStartsBlindHolds == EnforceSpec => NothingStartsBlind
<1>1. EnforceInit => GrantValid
  BY DEF EnforceInit, GrantValid
<1>2. EnforceSpec => [][StartsPermitted]_enforceVars
  BY <1>1, GrantValidStep, StartStep, EnforceTypeCorrect, PTL DEF EnforceSpec
<1> QED BY <1>2, PTL DEF NothingStartsBlind, StartsPermitted

-----------------------------------------------------------------------------
(* What is said of UsedOf is said of an app's own minutes. *)
LEMMA AppUsedIsUsedOf ==
  ASSUME TypeOK, NEW app \in Apps, NEW since \in Nat
  PROVE  AppUsed(app, since) = UsedOf({app}, since)
<1>1. (\A i \in DOMAIN rows : rows[i] \in Row) /\ (\A s \in active : s \in Session)
  BY DEF TypeOK
<1>2. {i \in DOMAIN rows : ~rows[i].open /\ rows[i].app = app /\ rows[i].start >= since}
        = Ended(rows, {app}, since)
  BY DEF Ended
<1>3. {s \in active : s.app = app /\ s.start >= since} = Begun(active, {app}, since)
  BY DEF Begun
<1> QED BY <1>2, <1>3 DEF AppUsed, UsedOf, CompletedIn, LiveIn, Durations, LiveTimes

(* Below which the ticks of a limit, its grace and the minute that the     *)
(* division drops, an app is let run.                                      *)
Top(limit) == (limit + GRACE_MINUTES + 1) * PerMinute

LEMMA TopPositive == \A limit \in Nat : Top(limit) \in Nat /\ Top(limit) > 0
<1> SUFFICES ASSUME NEW limit \in Nat PROVE Top(limit) \in Nat /\ Top(limit) > 0
  OBVIOUS
<1> DEFINE k == limit + GRACE_MINUTES + 1
<1>1. k \in Nat /\ k > 0 /\ PerMinute \in Nat /\ PerMinute > 0
  BY EnforceAssumption DEF GRACE_MINUTES
<1> HIDE DEF k
<1>2. k * PerMinute \in Nat /\ k * PerMinute > 0
  BY <1>1
<1> QED BY <1>2 DEF Top, k

(* The comparison of whole minutes keeps ticks below it. *)
LEMMA BelowTop ==
  ASSUME NEW used \in Int, NEW limit \in Nat, Minutes(used) <= limit + GRACE_MINUTES
  PROVE  used < Top(limit)
<1> DEFINE q == used \div PerMinute
           k == limit + GRACE_MINUTES
<1>1. PerMinute \in Nat /\ PerMinute > 0 /\ k \in Nat
  BY EnforceAssumption DEF GRACE_MINUTES
<1>2. q \in Int /\ q <= k /\ used % PerMinute < PerMinute /\ used % PerMinute \in Int
  BY <1>1 DEF Minutes
<1>3. used = PerMinute * q + (used % PerMinute)
  BY <1>1, Z3
<1> HIDE DEF q, k
<1>4. PerMinute * q <= PerMinute * k
  BY <1>1, <1>2
<1>5. PerMinute * k + PerMinute = (k + 1) * PerMinute
  BY <1>1
<1>6. used < (k + 1) * PerMinute
  BY <1>1, <1>2, <1>3, <1>4, <1>5
<1> QED BY <1>6 DEF Top, k

(* App app runs in wrapper w on a verdict of this tick, or is granted.     *)
MayGo(w, app) ==
  \/ /\ wrapper[w].alive
     /\ w \in polled
     /\ check[w] = "none"
     /\ wrapper[w].app = app
  \/ check[w] = "granted" /\ app \in wanted[w]

(* A limit on the apps of A is kept: those that go on were below it.       *)
Kept(A, limit) ==
  /\ UsedOf(A, 0) < Top(limit) + Cardinality(Wrappers)
  /\ \A w \in Wrappers, app \in A : MayGo(w, app) => UsedOf(A, 0) < Top(limit)

AllKept ==
  /\ \A limit \in DailyLimit : Kept(Apps, limit)
  /\ \A app \in Apps : \A limit \in AppLimit[app] : Kept({app}, limit)

(* While every request is answered in time, nothing disturbs the log. *)
LEMMA SteadyIsClean ==
  ASSUME TypeOK, EnforceTypeOK, [EnforceNext]_enforceVars, steady'
  PROVE  steady /\ (up => CleanStep)
<1> USE DEF EnforceTypeOK
<1>1. \A app, ok : Verdict(app, ok) => steady
  BY Zenon DEF Verdict
<1>2. CASE PolicyChanges
  BY <1>2 DEF PolicyChanges, CleanStep
<1>3. CASE Tick \/ Midnight
  BY <1>3 DEF Tick, Midnight, gate, CleanStep
<1>4. ASSUME NEW w \in Wrappers, NEW app \in Apps, Authorize(w, app) \/ AuthorizeFails(w, app)
      PROVE  steady /\ CleanStep
  BY <1>1, <1>4, Zenon DEF Authorize, AuthorizeFails, CleanStep
<1>5. ASSUME NEW w \in Wrappers, NEW p \in Pids, Spawn(w, p) PROVE steady /\ CleanStep
  <2>1. PICK app \in wanted[w] : Launch(w, app, p)
    BY <1>5 DEF Spawn
  <2>2. app \in Apps /\ steady
    BY <1>5 DEF Spawn
  <2> QED BY <2>1, <2>2 DEF CleanStep
<1>6. ASSUME NEW w \in Wrappers, WrapperStep(w) PROVE steady /\ CleanStep
  <2>1. CASE Poll(w)
    BY <1>1, <2>1, Zenon DEF Poll, CleanStep
  <2>2. CASE Terminate(w)
    <3>1. ChildExits(w) \/ UNCHANGED vars
      BY <2>2, TerminateIsExit
    <3> QED BY <2>2, <3>1 DEF Terminate, CleanStep
  <2>3. CASE ReportStop(w)
    BY <2>3 DEF ReportStop, gate, CleanStep
  <2>4. CASE HandleStart(w)
    BY <2>4, Zenon DEF HandleStart, CleanStep
  <2>5. CASE HandleStop(w)
    BY <2>5, Zenon DEF HandleStop, CleanStep
  <2> QED BY <1>6, <2>1, <2>2, <2>3, <2>4, <2>5 DEF WrapperStep
<1>7. ASSUME NEW w \in Wrappers, SpawnFails(w) \/ PollFails(w) PROVE steady /\ CleanStep
  BY <1>7, Zenon DEF SpawnFails, PollFails, CleanStep
<1>8. ASSUME NEW w \in Wrappers, Quit(w) \/ ReportTimeout(w) \/ KillBoth(w)
      PROVE  steady /\ CleanStep
  BY <1>8, Zenon DEF Quit, ReportTimeout, KillBoth, gate, CleanStep
<1>9. CASE Die \/ ComeBack
  BY <1>9, Zenon DEF Die, ComeBack, Restart, gate
<1>10. CASE UNCHANGED enforceVars
  BY <1>10 DEF enforceVars, gate, CleanStep
<1> QED BY <1>2, <1>3, <1>4, <1>5, <1>6, <1>7, <1>8, <1>9, <1>10 DEF EnforceNext

(* Between two ticks no sum moves. *)
LEMMA SumsStill ==
  ASSUME TypeOK, Undisturbed, ActiveBacked, CleanStep, now' = now, NEW A
  PROVE  UsedOf(A, 0)' = UsedOf(A, 0)
<1>1. ~Advance
  BY DEF Advance, TypeOK
<1>2. ASSUME NEW w \in Wrappers, WrapperStart(w) PROVE UsedOf(A, 0)' = UsedOf(A, 0)
  BY <1>2, StartUsed DEF Undisturbed
<1>3. ASSUME NEW w \in Wrappers, WrapperStop(w) PROVE UsedOf(A, 0)' = UsedOf(A, 0)
  <2>1. Answer([type |-> "stop", from |-> w]) /\ InStep(w)
    BY <1>3 DEF Undisturbed, Lockstep, WrapperStop
  <2>2. wrapper[w].pc = "stopping"
    BY <2>1 DEF InStep, Answer
  <2>3. \E s \in active : s.pid = wrapper[w].pid
    BY <2>2 DEF Undisturbed, Tracked, Counted
  <2> QED BY <1>3, <2>3, StopUsed DEF Undisturbed
<1>4. CASE UNCHANGED <<now, active, rows>>
  BY <1>4, QuietUsed
<1> QED
  BY <1>1, <1>2, <1>3, <1>4 DEF CleanStep, NewDay, Launch, ChildExits, Reap, vars, agentd

-----------------------------------------------------------------------------
(* Who goes on in a tick did already, or has just passed check_allowed. *)
LEMMA MayGoStep ==
  ASSUME TypeOK, EnforceTypeOK, Lockstep, \A w \in Wrappers : Fits(w),
         [EnforceNext]_enforceVars, CleanStep, steady', now' = now,
         NEW w \in Wrappers, NEW app \in Apps, MayGo(w, app)'
  PROVE  MayGo(w, app) \/ CheckAllowed(app)
<1> USE DEF MayGo
<1>0. /\ wrapper[w] \in Wrapper
      /\ check[w] = "granted" => ~wrapper[w].alive
      /\ InStep(w) /\ Fits(w)
  BY DEF TypeOK, Fits, Lockstep, InStep
<1>1. ASSUME check' = check, wanted' = wanted, polled' = polled,
             wrapper'[w].alive => wrapper[w].alive, wrapper'[w].app = wrapper[w].app
      PROVE  MayGo(w, app)
  BY <1>1
<1>2. CASE PolicyChanges \/ Midnight \/ ComeBack \/ UNCHANGED enforceVars
  <2>1. check' = check /\ wanted' = wanted /\ polled' = polled /\ wrapper' = wrapper
    BY <1>2 DEF PolicyChanges, Midnight, NewDay, ComeBack, Restart, gate, enforceVars, vars
  <2> QED BY <1>1, <2>1
<1>3. CASE Tick
  BY <1>3 DEF Tick, Advance, TypeOK
<1>4. ASSUME NEW v \in Wrappers, NEW a \in Apps, Authorize(v, a)
      PROVE  MayGo(w, app) \/ CheckAllowed(app)
  <2>1. PICK ok \in BOOLEAN :
          /\ Verdict(a, ok)
          /\ IF ok THEN Grant(v, a) ELSE UNCHANGED <<check, wanted>>
    BY <1>4 DEF Authorize
  <2>2. wrapper' = wrapper /\ polled' = polled
    BY <1>4 DEF Authorize, vars
  <2>3. CASE ok
    <3>1. CheckAllowed(a)
      BY <2>1, <2>3, Zenon DEF Verdict
    <3>2. /\ check' = [check EXCEPT ![v] = "granted"]
          /\ wanted' = [wanted EXCEPT ![v] = {a}]
      BY <2>1, <2>3 DEF Grant
    <3> QED BY <2>2, <3>1, <3>2 DEF EnforceTypeOK
  <2>4. CASE ~ok
    BY <1>1, <2>1, <2>2, <2>4
  <2> QED BY <2>3, <2>4
<1>5. ASSUME NEW v \in Wrappers, NEW p \in Pids, Spawn(v, p) PROVE MayGo(w, app)
  <2>1. PICK a \in wanted[v] : Launch(v, a, p)
    BY <1>5 DEF Spawn
  <2>2. CASE v = w
    <3>1. check'[w] = "none" /\ wrapper'[w].app = a /\ check[w] = "granted"
      BY <1>5, <2>1, <2>2 DEF Spawn, GiveUp, Launch, Send, TypeOK, EnforceTypeOK
    <3> QED BY <2>1, <2>2, <3>1
  <2>3. CASE v # w
    <3>1. /\ check'[w] = check[w] /\ wanted'[w] = wanted[w] /\ wrapper'[w] = wrapper[w]
          /\ w \in polled' => w \in polled
      BY <1>5, <2>1, <2>3 DEF Spawn, GiveUp, Launch, Send, TypeOK, EnforceTypeOK
    <3> QED BY <3>1
  <2> QED BY <2>2, <2>3
<1>6. ASSUME NEW v \in Wrappers, Poll(v) PROVE MayGo(w, app) \/ CheckAllowed(app)
  <2>1. PICK ok \in BOOLEAN :
          /\ Verdict(wrapper[v].app, ok)
          /\ check' = [check EXCEPT ![v] = IF ok THEN "none" ELSE "terminate"]
    BY <1>6 DEF Poll
  <2>2. wrapper' = wrapper /\ polled' = polled \cup {v} /\ wanted' = wanted
    BY <1>6 DEF Poll, vars
  <2>3. CASE v # w
    BY <2>1, <2>2, <2>3 DEF EnforceTypeOK
  <2>4. CASE v = w /\ ok
    <3>1. CheckAllowed(wrapper[w].app)
      BY <2>1, <2>4, Zenon DEF Verdict
    <3>2. check'[w] = "none"
      BY <2>1, <2>4 DEF EnforceTypeOK
    <3> QED BY <2>2, <3>1, <3>2
  <2>5. CASE v = w /\ ~ok
    <3>1. check'[w] = "terminate"
      BY <2>1, <2>5 DEF EnforceTypeOK
    <3> QED BY <3>1
  <2> QED BY <2>3, <2>4, <2>5
<1>7. ASSUME NEW v \in Wrappers, Terminate(v) PROVE MayGo(w, app)
  <2>1. wanted' = wanted /\ polled' = polled
    BY <1>7 DEF Terminate
  <2>2. CASE v = w
    <3>1. check'[w] = "none" /\ ~wrapper'[w].alive
      BY <1>0, <1>7, <2>2 DEF Terminate, EnforceTypeOK, TypeOK, Wrapper
    <3> QED BY <3>1
  <2>3. CASE v # w
    BY <1>7, <2>1, <2>3 DEF Terminate, EnforceTypeOK, TypeOK
  <2> QED BY <2>2, <2>3
<1>8. ASSUME NEW v \in Wrappers, Quit(v) \/ ReportStop(v) \/ HandleStart(v) \/ HandleStop(v)
      PROVE  MayGo(w, app)
  <2>1. check' = check /\ wanted' = wanted /\ polled' = polled
    BY <1>8 DEF Quit, ReportStop, HandleStart, HandleStop, gate
  <2>2. (wrapper'[w].alive => wrapper[w].alive) /\ wrapper'[w].app = wrapper[w].app
    <3>1. CASE Quit(v)
      BY <1>0, <3>1 DEF Quit, ChildExits, TypeOK, Wrapper
    <3>2. CASE ReportStop(v)
      BY <1>0, <3>2 DEF ReportStop, Reap, Send, TypeOK, Wrapper
    <3>3. CASE HandleStart(v) \/ HandleStop(v)
      <4>1. PICK m \in Report : Answer(m)
        BY <3>3, ReportType DEF HandleStart, HandleStop, WrapperStart, WrapperStartFails,
                                WrapperStop, WrapperStopFails
      <4> QED BY <4>1, AnswerShrinks
    <3> QED BY <1>8, <3>1, <3>2, <3>3
  <2> QED BY <1>1, <2>1, <2>2
<1>9. ASSUME NEW v \in Wrappers, SpawnFails(v) PROVE MayGo(w, app)
  <2>1. wrapper' = wrapper /\ polled' = polled /\ check[v] = "granted"
        /\ check' = [check EXCEPT ![v] = "none"] /\ wanted' = [wanted EXCEPT ![v] = {}]
    BY <1>9 DEF SpawnFails, GiveUp, vars
  <2> QED BY <1>0, <2>1 DEF EnforceTypeOK
<1>10. ASSUME NEW v \in Wrappers, NEW a \in Apps,
              AuthorizeFails(v, a) \/ PollFails(v) \/ ReportTimeout(v) \/ KillBoth(v) \/ Die
       PROVE  FALSE
  BY <1>10, Zenon DEF AuthorizeFails, PollFails, ReportTimeout, KillBoth, Die
<1> QED
  BY <1>2, <1>3, <1>4, <1>5, <1>6, <1>7, <1>8, <1>9, <1>10 DEF EnforceNext, WrapperStep

(* After a tick that all kept up with nobody has a verdict. *)
LEMMA TickEndsAll ==
  ASSUME Tick, steady', NEW w \in Wrappers, NEW app
  PROVE  ~MayGo(w, app)'
BY DEF Tick, KeptUp, MayGo

(* A tick adds one for each session of these apps, all of which go on. *)
LEMMA TickKeeps ==
  ASSUME TypeOK, EnforceTypeOK, Undisturbed, Tick, steady', NEW A \in SUBSET Apps,
         NEW limit \in Nat, Kept(A, limit)
  PROVE  Kept(A, limit)'
<1> DEFINE N == Cardinality(Wrappers)
           B == Begun(active, A, 0)
           T == {w \in Wrappers : Counted(w)}
<1>1. Advance /\ Distinct /\ Lockstep
  BY DEF Tick, Undisturbed
<1>2. /\ UsedOf(A, 0)' = UsedOf(A, 0) + Cardinality(B)
      /\ Cardinality(B) \in Nat
      /\ Cardinality(B) <= Cardinality(active)
      /\ Cardinality(active) \in Nat
  BY <1>1, AdvanceUsed
<1>3. N \in Nat /\ Cardinality(T) \in Nat /\ Cardinality(T) <= N
  BY FS_Subset, FS_CardinalityType, LogAssumption
<1>4. Cardinality(active) <= Cardinality(T)
  BY <1>1, SessionsFit
<1>5. UsedOf(A, 0) \in Int /\ Top(limit) \in Nat
  BY <1>1, SumsTyped, TopPositive DEF UsedOf
<1>6. UsedOf(A, 0)' < Top(limit) + N
  <2>1. CASE B = {}
    <3>1. Cardinality(B) = 0
      BY <2>1, FS_EmptySet
    <3> QED BY <1>2, <1>5, <3>1 DEF Kept
  <2>2. CASE B # {}
    <3>1. PICK s \in active : s.app \in A
      BY <2>2 DEF Begun
    <3>2. PICK w \in Wrappers : Counted(w) /\ s.pid = wrapper[w].pid
      BY <1>1 DEF Lockstep
    <3>3. s.app = wrapper[w].app
      BY <1>1, <3>2 DEF Distinct, Pending, Counted
    <3>4. wrapper[w].pc = "running" /\ wrapper[w].alive /\ w \in polled /\ check[w] = "none"
      BY <3>2 DEF Tick, KeptUp, Advance, Settled, Counted
    <3>5. UsedOf(A, 0) < Top(limit)
      BY <3>1, <3>3, <3>4 DEF Kept, MayGo
    <3> HIDE DEF N, B, T
    <3> QED BY <1>2, <1>3, <1>4, <1>5, <3>5
  <2> QED BY <2>1, <2>2
<1>7. \A w \in Wrappers, app \in A : ~MayGo(w, app)'
  BY TickEndsAll
<1> QED BY <1>6, <1>7 DEF Kept

(* The clock moves in a tick only. *)
LEMMA OnlyTickMoves ==
  ASSUME [EnforceNext]_enforceVars, now' # now
  PROVE  Tick
<1>1. ASSUME NEW w \in Wrappers PROVE ~WrapperStep(w)
  BY DEF WrapperStep, Poll, Terminate, ReportStop, Reap, HandleStart, HandleStop,
         WrapperStart, WrapperStartFails, WrapperStop, WrapperStopFails, Answer, vars
<1>2. ASSUME NEW w \in Wrappers, NEW app \in Apps
      PROVE  ~(Authorize(w, app) \/ AuthorizeFails(w, app))
  BY DEF Authorize, AuthorizeFails, vars
<1>4. ASSUME NEW w \in Wrappers, NEW p \in Pids PROVE ~Spawn(w, p)
  BY DEF Spawn, Launch
<1>5. ASSUME NEW w \in Wrappers
      PROVE  ~(SpawnFails(w) \/ PollFails(w) \/ Quit(w) \/ ReportTimeout(w) \/ KillBoth(w))
  BY DEF SpawnFails, PollFails, Quit, ChildExits, ReportTimeout, Timeout, KillBoth, Kill, vars
<1>3. ~(PolicyChanges \/ Midnight \/ Die \/ ComeBack \/ UNCHANGED enforceVars)
  BY DEF PolicyChanges, Midnight, NewDay, Die, Crash, ComeBack, Restart, enforceVars, vars
<1> QED BY <1>1, <1>2, <1>3, <1>4, <1>5 DEF EnforceNext

(* Every step keeps a limit that check_allowed asks of these apps. *)
LEMMA KeptStep ==
  ASSUME TypeOK, EnforceTypeOK, Undisturbed, ActiveBacked, \A w \in Wrappers : Fits(w),
         [EnforceNext]_enforceVars, CleanStep, steady',
         NEW A \in SUBSET Apps, NEW limit \in Nat, Kept(A, limit),
         \A app \in A : CheckAllowed(app) => UsedOf(A, 0) < Top(limit)
  PROVE  Kept(A, limit)'
<1>1. CASE now' = now
  <2>1. UsedOf(A, 0)' = UsedOf(A, 0)
    BY <1>1, SumsStill
  <2>2. \A w \in Wrappers, app \in A : MayGo(w, app)' => MayGo(w, app) \/ CheckAllowed(app)
    BY <1>1, MayGoStep DEF Undisturbed
  <2>3. UsedOf(A, 0) < Top(limit) + Cardinality(Wrappers)
    BY DEF Kept
  <2>4. \A w \in Wrappers, app \in A : MayGo(w, app)' => UsedOf(A, 0) < Top(limit)
    BY <2>2 DEF Kept
  <2> QED BY <2>1, <2>3, <2>4 DEF Kept
<1>2. CASE now' # now
  <2>1. Tick
    BY <1>2, OnlyTickMoves
  <2> QED BY <2>1, TickKeeps
<1> QED BY <1>1, <1>2

-----------------------------------------------------------------------------
(* While nothing fails and all keep up, agentd runs, the reports are in    *)
(* step, and who goes on in a tick does so outside the windows.            *)
WindowInv ==
  steady => /\ up
            /\ Lockstep
            /\ \A w \in Wrappers, app \in Apps : MayGo(w, app) => now \notin Blocked

(* No child runs on in a blocked window (WindowHeld), whatever the         *)
(* windows and whoever was let in before one began: whoever goes on in a   *)
(* tick has asked in it.                                                   *)
THEOREM WindowHeldHolds == EnforceSpec => []WindowHeld
<1>1. EnforceInit => WindowInv
  <2> SUFFICES ASSUME EnforceInit PROVE WindowInv
    OBVIOUS
  <2>1. up /\ Lockstep
    BY InitUndisturbed DEF EnforceInit, Undisturbed, Tracked
  <2>2. \A w \in Wrappers : w \notin polled /\ check[w] = "none"
    BY DEF EnforceInit
  <2> QED BY <2>1, <2>2 DEF WindowInv, MayGo
<1>2. TypeOK /\ EnforceTypeOK /\ CheckFits /\ WindowInv /\ [EnforceNext]_enforceVars
        => WindowInv'
  <2> SUFFICES ASSUME TypeOK, EnforceTypeOK, CheckFits, WindowInv,
                      [EnforceNext]_enforceVars, steady'
               PROVE  /\ up' /\ Lockstep'
                      /\ \A w \in Wrappers, app \in Apps :
                           MayGo(w, app)' => now' \notin Blocked
    BY DEF WindowInv
  <2>1. steady /\ CleanStep /\ up /\ Lockstep
    BY SteadyIsClean DEF WindowInv
  <2>2. Lockstep'
    BY <2>1, LockstepStep
  <2>3. up'
    BY <2>1 DEF CleanStep, Advance, NewDay, Launch, ChildExits, Reap, WrapperStart,
                WrapperStop, Answer, vars
  <2>4. ASSUME NEW w \in Wrappers, NEW app \in Apps, MayGo(w, app)'
        PROVE  now' \notin Blocked
    <3>1. CASE now' # now
      BY <2>4, <3>1, OnlyTickMoves, TickEndsAll
    <3>2. CASE now' = now
      <4>1. \A v \in Wrappers : Fits(v)
        BY DEF CheckFits, Fits
      <4>2. MayGo(w, app) \/ CheckAllowed(app)
        BY <2>1, <2>4, <3>2, <4>1, MayGoStep
      <4> QED BY <2>1, <3>2, <4>2 DEF WindowInv, CheckAllowed, Admitted
    <3> QED BY <3>1, <3>2
  <2> QED BY <2>2, <2>3, <2>4
<1>3. TypeOK /\ WindowInv => WindowHeld
  <2> SUFFICES ASSUME TypeOK, WindowInv, steady, now \in Blocked, Settled, KeptUp,
                      NEW w \in Wrappers
               PROVE  ~wrapper[w].alive
    BY DEF WindowHeld
  <2>1. wrapper[w].pc \in {"idle", "running"} /\ InStep(w)
    BY DEF WindowInv, Lockstep, Settled
  <2>2. wrapper[w].app \in Apps
    BY DEF TypeOK, Wrapper
  <2>3. wrapper[w].pc = "running" => w \in polled /\ check[w] = "none"
    BY DEF KeptUp
  <2> QED BY <2>1, <2>2, <2>3 DEF WindowInv, MayGo, InStep
<1> QED BY <1>1, <1>2, <1>3, EnforceTypeCorrect, CheckFitsHolds, PTL DEF EnforceSpec

-----------------------------------------------------------------------------
(* On the first day all that has run has run today. *)
LEMMA RanTodayStep ==
  ASSUME TypeOK, [Next]_vars, midnight = 0 => ranToday = ran
  PROVE  midnight' = 0 => midnight = 0 /\ ranToday' = ran'
<1>1. CASE Advance
  BY <1>1 DEF Advance
<1>2. CASE NewDay
  BY <1>2 DEF NewDay, TypeOK
<1>3. CASE UNCHANGED <<midnight, ran, ranToday>>
  BY <1>3
<1>4. ASSUME NEW w \in Wrappers, Handle(w) PROVE UNCHANGED <<midnight, ran, ranToday>>
  BY <1>4 DEF Handle, WrapperStart, WrapperStartFails, WrapperStop, WrapperStopFails,
              Answer, history
<1> QED
  BY <1>1, <1>2, <1>3, <1>4 DEF Next, Launch, ChildExits, Reap, Timeout, Kill, Crash,
                                Restart, history, vars

(* What the answers, the sums and the children of a day keep in step. *)
Budgeted ==
  /\ steady => Undisturbed /\ UsedOf(Apps, 0) = ran
  /\ midnight = 0 => ranToday = ran
  /\ steady /\ midnight = 0 => AllKept

LEMMA BudgetedInit == EnforceInit => Budgeted
<1> SUFFICES ASSUME EnforceInit PROVE Budgeted
  OBVIOUS
<1>1. Undisturbed /\ UsedOf(Apps, 0) = ran
  BY InitUndisturbed DEF EnforceInit
<1>2. rows = << >> /\ active = {} /\ ran = 0 /\ ranToday = 0
  BY DEF EnforceInit, Init
<1>3. \A w \in Wrappers : ~wrapper[w].alive /\ check[w] = "none"
  <2>1. NoProcess.alive = FALSE
    BY DEF NoProcess
  <2> QED BY <2>1 DEF EnforceInit, Init
<1>4. ASSUME NEW A, NEW limit \in Nat PROVE Kept(A, limit)
  <2>1. Ended(rows, A, 0) = {} /\ Begun(active, A, 0) = {}
    BY <1>2 DEF Ended, Begun
  <2>2. UsedOf(A, 0) = 0
    BY <2>1, SumEmpty DEF UsedOf, CompletedIn, LiveIn
  <2>3. Cardinality(Wrappers) \in Nat
    BY FS_CardinalityType, LogAssumption
  <2>4. \A w \in Wrappers, app \in A : ~MayGo(w, app)
    BY <1>3 DEF MayGo
  <2> QED BY <2>2, <2>3, <2>4, TopPositive DEF Kept
<1>5. DailyLimit \subseteq Nat /\ \A app \in Apps : AppLimit[app] \subseteq Nat
  BY EnforceAssumption
<1> QED BY <1>1, <1>2, <1>4, <1>5 DEF Budgeted, AllKept

(* The children's minutes of a day stay within its budget (BudgetHeld),    *)
(* for any number of wrappers and any limits, also when pids come again -  *)
(* but not before the stop of the process before was handled ("race"),     *)
(* which would take the new session from active.                           *)
THEOREM BudgetHeldHolds ==
  ASSUME "race" \notin Faults
  PROVE  EnforceSpec => []BudgetHeld
<1>1. TypeOK /\ EnforceTypeOK /\ ActiveBacked /\ CheckFits /\ Budgeted
        /\ [EnforceNext]_enforceVars => Budgeted'
  <2> SUFFICES ASSUME TypeOK, EnforceTypeOK, ActiveBacked, CheckFits, Budgeted,
                      [EnforceNext]_enforceVars
               PROVE  Budgeted'
    OBVIOUS
  <2>1. midnight' = 0 => midnight = 0 /\ ranToday' = ran'
    <3>1. [Next]_vars /\ (midnight = 0 => ranToday = ran)
      BY StepIsLogStep DEF Budgeted
    <3> QED BY <3>1, RanTodayStep
  <2>2. ASSUME steady' PROVE steady /\ Undisturbed /\ CleanStep /\ UsedOf(Apps, 0) = ran
    BY <2>2, SteadyIsClean DEF Budgeted, Undisturbed, Tracked
  <2>3. ASSUME steady' PROVE Undisturbed' /\ UsedOf(Apps, 0)' = ran'
    <3>1. \A w \in Wrappers, app \in Apps, p \in Pids :
            Launch(w, app, p) => "race" \notin Reused(p)
      BY DEF Launch
    <3> QED BY <2>2, <2>3, <3>1, UndisturbedStep, CleanCounts
  <2>4. ASSUME steady', midnight' = 0 PROVE AllKept'
    <3>1. steady /\ Undisturbed /\ CleanStep /\ AllKept /\ midnight = 0
      BY <2>1, <2>2, <2>4 DEF Budgeted
    <3>2. \A w \in Wrappers : Fits(w)
      BY DEF CheckFits, Fits
    <3>3. \A A : UsedOf(A, 0) \in Int
      BY <3>1, SumsTyped DEF UsedOf, Undisturbed
    <3>4. ASSUME NEW limit \in DailyLimit PROVE Kept(Apps, limit)'
      <4>1. limit \in Nat /\ Kept(Apps, limit)
        BY <3>1, EnforceAssumption DEF AllKept
      <4>2. Used(0) = UsedOf(Apps, 0)
        BY UsedIsUsedOf
      <4>3. ASSUME NEW app \in Apps, CheckAllowed(app) PROVE UsedOf(Apps, 0) < Top(limit)
        <5>1. Minutes(UsedOf(Apps, 0)) <= limit + GRACE_MINUTES
          BY <3>1, <4>2, <4>3 DEF CheckAllowed, WithinBudget
        <5> QED BY <3>3, <4>1, <5>1, BelowTop
      <4> QED BY <2>4, <3>1, <3>2, <4>1, <4>3, KeptStep
    <3>5. ASSUME NEW app \in Apps, NEW limit \in AppLimit[app] PROVE Kept({app}, limit)'
      <4>1. limit \in Nat /\ Kept({app}, limit)
        BY <3>1, EnforceAssumption DEF AllKept
      <4>2. AppUsed(app, 0) = UsedOf({app}, 0)
        BY AppUsedIsUsedOf
      <4>3. ASSUME CheckAllowed(app) PROVE UsedOf({app}, 0) < Top(limit)
        <5>1. Minutes(UsedOf({app}, 0)) <= limit + GRACE_MINUTES
          BY <3>1, <4>2, <4>3 DEF CheckAllowed, WithinBudget
        <5> QED BY <3>3, <4>1, <5>1, BelowTop
      <4>4. {app} \in SUBSET Apps
            /\ \A a \in {app} : CheckAllowed(a) => UsedOf({app}, 0) < Top(limit)
        BY <4>3
      <4> QED BY <2>4, <3>1, <3>2, <4>1, <4>4, KeptStep
    <3> QED BY <3>4, <3>5 DEF AllKept
  <2> QED BY <2>1, <2>3, <2>4 DEF Budgeted
<1>2. TypeOK /\ Budgeted => BudgetHeld
  <2> SUFFICES ASSUME TypeOK, Budgeted, steady, midnight = 0 PROVE BudgetHeld
    BY DEF BudgetHeld
  <2>1. AllKept /\ ranToday = UsedOf(Apps, 0)
    BY DEF Budgeted
  <2>2. \A app \in Apps : AppUsed(app, midnight) = UsedOf({app}, 0)
    BY AppUsedIsUsedOf
  <2> QED BY <2>1, <2>2 DEF AllKept, Kept, Top, BudgetHeld
<1> QED
  BY <1>1, <1>2, BudgetedInit, EnforceTypeCorrect, EnforceActiveBacked, CheckFitsHolds, PTL
     DEF EnforceSpec
=============================================================================
