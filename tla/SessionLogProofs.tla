--------------------------- MODULE SessionLogProofs ---------------------------
(***************************************************************************)
(* Safety of SessionLog for every number of wrappers, pids and launches,   *)
(* and every set of faults, reordered reports and reused pids included:    *)
(* types, and that active sessions are backed by open rows.                *)
(*                                                                         *)
(* What is counted depends on what has gone wrong, so the theorems on used *)
(* minutes are about SessionAudit, which remembers it.  TLC finds          *)
(* UsageExact broken by a crash, a kill, a late report or a pid given out  *)
(* while its stop is on its way, UsedNeverDrops by a failing database or   *)
(* by pids that come again among late reports, NeverOvercounts by late     *)
(* reports or by pids that come again after a crash.                       *)
(***************************************************************************)
EXTENDS SessionAudit, SumTheorems

(* The agentd part of TypeOK, which the handlers must keep. *)
AgentdOK == active \in SUBSET Session /\ rows \in Seq(Row) /\ events \in SUBSET Apps

(* An idle wrapper is a wrapper. *)
LEMMA NoProcessType == NoProcess \in Wrapper
<1>1. (CHOOSE app \in Apps : TRUE) \in Apps /\ (CHOOSE p \in Pids : TRUE) \in Pids
  BY LogAssumption
<1> QED BY <1>1 DEF NoProcess, Wrapper

(* A wrapper that goes on is still a wrapper. *)
LEMMA GoOnType == \A record \in Wrapper : GoOn(record) \in Wrapper
<1> SUFFICES ASSUME NEW record \in Wrapper PROVE GoOn(record) \in Wrapper
  OBVIOUS
<1>1. record.pc \in {"idle", "starting", "running", "stopping"}
  BY DEF Wrapper
<1> DEFINE pc == CASE record.pc = "starting" -> "running"
                   [] record.pc = "stopping" -> "idle"
                   [] OTHER -> record.pc
<1>2. pc \in {"idle", "starting", "running", "stopping"}
  BY <1>1
<1>3. GoOn(record) = [record EXCEPT !.pc = pc]
  BY DEF GoOn
<1> HIDE DEF pc
<1> QED BY <1>2, <1>3 DEF Wrapper

(* Answering a request changes nothing but who waits for what. *)
LEMMA AnswerType ==
  ASSUME TypeOK, NEW m \in Report, Answer(m)
  PROVE  /\ UNCHANGED <<now, midnight, up, history>>
         /\ wrapper' \in [Wrappers -> Wrapper]
         /\ net' \in SUBSET Report
<1>1. m.from \in Wrappers /\ wrapper[m.from] \in Wrapper
  BY DEF Report, TypeOK
<1>2. GoOn(wrapper[m.from]) \in Wrapper
  BY <1>1, GoOnType
<1> QED BY <1>1, <1>2 DEF Answer, TypeOK

(* Every wrapper's two reports are reports. *)
LEMMA ReportType ==
  \A w \in Wrappers : /\ [type |-> "start", from |-> w] \in Report
                      /\ [type |-> "stop", from |-> w] \in Report
BY DEF Report

(* Time only makes room: what began by now has begun by a later now. *)
LEMMA StartsKept ==
  ASSUME TypeOK, now' \in Nat, now <= now', active' = active, rows' = rows
  PROVE  active' \in SUBSET Session' /\ rows' \in Seq(Row')
<1>1. 0..now \subseteq 0..now'
  BY DEF TypeOK
<1>2. Session \subseteq Session' /\ Row \subseteq Row'
  BY <1>1 DEF Session, Row
<1>3. Seq(Row) \subseteq Seq(Row')
  BY <1>2
<1> QED BY <1>2, <1>3 DEF TypeOK

(* The UPDATE of end_session yields rows again. *)
LEMMA CloseRowsType ==
  ASSUME TypeOK, NEW open \in SUBSET (DOMAIN rows), NEW newest \in open
  PROVE  CloseRows(open, newest) \in Seq(Row) /\ Len(CloseRows(open, newest)) = Len(rows)
<1>1. rows \in Seq(Row) /\ DOMAIN rows = 1..Len(rows) /\ Len(rows) \in Nat
  BY DEF TypeOK
<1>2. \A i \in DOMAIN rows : rows[i] \in Row
  BY <1>1
<1>3. now - rows[newest].start \in Nat
  BY <1>2 DEF Row, TypeOK
<1> DEFINE d == now - rows[newest].start
<1>4. \A i \in DOMAIN rows : [rows[i] EXCEPT !.open = FALSE, !.duration = d] \in Row
  BY <1>2, <1>3 DEF Row
<1>5. \A i \in 1..Len(rows) : CloseRows(open, newest)[i] \in Row
  BY <1>1, <1>2, <1>4 DEF CloseRows
<1>6. DOMAIN CloseRows(open, newest) = 1..Len(rows)
  BY <1>1 DEF CloseRows
<1>7. CloseRows(open, newest) = [i \in 1..Len(rows) |-> CloseRows(open, newest)[i]]
  BY <1>1 DEF CloseRows
<1> QED BY <1>1, <1>5, <1>6, <1>7

(* end_session leaves rows, whether it closes some or records an empty one. *)
LEMMA EndSessionType ==
  ASSUME TypeOK, NEW app \in Apps, NEW pid \in Pids, EndSession(app, pid)
  PROVE  rows' \in Seq(Row)
<1>1. CASE OpenRows(app, pid) = {}
  <2>1. [pid |-> pid, app |-> app, start |-> now, open |-> FALSE, duration |-> 0] \in Row
    BY DEF Row, TypeOK
  <2> QED BY <1>1, <2>1 DEF EndSession, TypeOK
<1>2. CASE OpenRows(app, pid) # {}
  <2>1. PICK newest \in OpenRows(app, pid) : rows' = CloseRows(OpenRows(app, pid), newest)
    BY <1>2 DEF EndSession
  <2> QED BY <2>1, CloseRowsType DEF OpenRows
<1> QED BY <1>1, <1>2

(* No handler, failing or not, breaks a type. *)
LEMMA HandleType ==
  ASSUME TypeOK, NEW w \in Wrappers, Handle(w)
  PROVE  TypeOK'
<1> DEFINE app == wrapper[w].app
           pid == wrapper[w].pid
<1>1. app \in Apps /\ pid \in Pids
  BY DEF TypeOK, Wrapper
<1>2. CASE WrapperStart(w)
  <2>1. Answer([type |-> "start", from |-> w])
    BY <1>2 DEF WrapperStart
  <2>2. UNCHANGED <<now, midnight, up, history>> /\ wrapper' \in [Wrappers -> Wrapper]
        /\ net' \in SUBSET Report
    BY <2>1, AnswerType, ReportType
  <2>3. /\ [pid |-> pid, app |-> app, start |-> now, open |-> TRUE, duration |-> 0] \in Row
        /\ [pid |-> pid, app |-> app, start |-> now] \in Session
    BY <1>1 DEF Row, Session, TypeOK
  <2>4. AgentdOK'
    BY <1>1, <1>2, <2>2, <2>3 DEF WrapperStart, LogDisallowed, AgentdOK, TypeOK, Row, Session
  <2> QED BY <2>2, <2>4 DEF TypeOK, AgentdOK, history
<1>3. CASE WrapperStartFails(w)
  <2>1. Answer([type |-> "start", from |-> w])
    BY <1>3 DEF WrapperStartFails
  <2>2. UNCHANGED <<now, midnight, up, history>> /\ wrapper' \in [Wrappers -> Wrapper]
        /\ net' \in SUBSET Report
    BY <2>1, AnswerType, ReportType
  <2>3. AgentdOK'
    BY <1>1, <1>3, <2>2
       DEF WrapperStartFails, LogDisallowed, AgentdOK, TypeOK, Row, Session
  <2> QED BY <2>2, <2>3 DEF TypeOK, AgentdOK, history
<1>4. CASE WrapperStop(w)
  <2>1. Answer([type |-> "stop", from |-> w])
    BY <1>4 DEF WrapperStop
  <2>2. UNCHANGED <<now, midnight, up, history>> /\ wrapper' \in [Wrappers -> Wrapper]
        /\ net' \in SUBSET Report
    BY <2>1, AnswerType, ReportType
  <2>3. rows' \in Seq(Row)
    BY <1>1, <1>4, EndSessionType DEF WrapperStop
  <2>4. AgentdOK'
    BY <1>4, <2>2, <2>3 DEF WrapperStop, AgentdOK, TypeOK, Row, Session
  <2> QED BY <2>2, <2>4 DEF TypeOK, AgentdOK, history
<1>5. CASE WrapperStopFails(w)
  <2>1. Answer([type |-> "stop", from |-> w])
    BY <1>5 DEF WrapperStopFails
  <2>2. UNCHANGED <<now, midnight, up, history>> /\ wrapper' \in [Wrappers -> Wrapper]
        /\ net' \in SUBSET Report
    BY <2>1, AnswerType, ReportType
  <2>3. AgentdOK'
    BY <1>5, <2>2 DEF WrapperStopFails, AgentdOK, TypeOK, Row, Session
  <2> QED BY <2>2, <2>3 DEF TypeOK, AgentdOK, history
<1> QED BY <1>2, <1>3, <1>4, <1>5 DEF Handle

(* A report: the wrapper moves, its record keeps its shape. *)
LEMMA SendType ==
  ASSUME TypeOK, NEW w \in Wrappers, NEW type \in {"start", "stop"},
         NEW fields \in Wrapper,
         NEW waiting \in {"starting", "stopping"}, NEW after \in {"running", "idle"},
         Send(w, type, waiting, after, fields)
  PROVE  wrapper' \in [Wrappers -> Wrapper] /\ net' \in SUBSET Report
<1>1. [fields EXCEPT !.pc = waiting] \in Wrapper /\ [fields EXCEPT !.pc = after] \in Wrapper
  BY DEF Wrapper
<1>2. [type |-> type, from |-> w] \in Report
  BY DEF Report
<1> QED BY <1>1, <1>2 DEF Send, TypeOK

(* Every initial state has its types. *)
LEMMA InitType == Init => TypeOK
<1> SUFFICES ASSUME Init PROVE TypeOK
  OBVIOUS
<1>1. wrapper \in [Wrappers -> Wrapper]
  BY NoProcessType DEF Init
<1>2. rows \in Seq(Row)
  BY DEF Init
<1>3. up \in BOOLEAN
  BY Zenon DEF Init
<1> QED BY <1>1, <1>2, <1>3 DEF Init, TypeOK

(* Every step keeps them. *)
LEMMA NextType == TypeOK /\ [Next]_vars => TypeOK'
<1> SUFFICES ASSUME TypeOK, [Next]_vars PROVE TypeOK'
  OBVIOUS
<1>1. CASE Advance
  <2> DEFINE living == Cardinality({w \in Wrappers : wrapper[w].alive})
  <2>1. living \in Nat
    BY FS_Subset, FS_CardinalityType, LogAssumption
  <2>2. now' \in Nat /\ now <= now' /\ ran' \in Nat /\ ranToday' \in Nat
    BY <1>1, <2>1 DEF Advance, TypeOK
  <2>3. active' \in SUBSET Session' /\ rows' \in Seq(Row')
    BY <1>1, <2>2, StartsKept DEF Advance, agentd
  <2> QED BY <1>1, <2>2, <2>3 DEF Advance, TypeOK, agentd
<1>2. CASE NewDay
  BY <1>2 DEF NewDay, TypeOK, agentd, Session, Row
<1>3. ASSUME NEW w \in Wrappers, NEW app \in Apps, NEW p \in Pids, Launch(w, app, p)
      PROVE  TypeOK'
  <2>1. [pc |-> "idle", app |-> app, pid |-> p, alive |-> TRUE] \in Wrapper
    BY DEF Wrapper
  <2>2. wrapper' \in [Wrappers -> Wrapper] /\ net' \in SUBSET Report
    BY <1>3, <2>1, SendType DEF Launch
  <2> QED BY <1>3, <2>2 DEF Launch, TypeOK, agentd, Session, Row
<1>4. ASSUME NEW w \in Wrappers, ChildExits(w) PROVE TypeOK'
  BY <1>4 DEF ChildExits, TypeOK, Wrapper, agentd, history, Session, Row
<1>5. ASSUME NEW w \in Wrappers, Reap(w) PROVE TypeOK'
  <2>1. wrapper[w] \in Wrapper
    BY DEF TypeOK
  <2>2. wrapper' \in [Wrappers -> Wrapper] /\ net' \in SUBSET Report
    BY <1>5, <2>1, SendType DEF Reap
  <2> QED BY <1>5, <2>2 DEF Reap, TypeOK, agentd, history, Session, Row
<1>6. ASSUME NEW w \in Wrappers, Timeout(w) PROVE TypeOK'
  <2>1. GoOn(wrapper[w]) \in Wrapper
    BY GoOnType DEF TypeOK
  <2> QED BY <1>6, <2>1 DEF Timeout, TypeOK, agentd, history, Session, Row
<1>7. ASSUME NEW w \in Wrappers, Kill(w) PROVE TypeOK'
  BY <1>7 DEF Kill, TypeOK, Wrapper, agentd, history, Session, Row
<1>8. ASSUME NEW w \in Wrappers, Handle(w) PROVE TypeOK'
  BY <1>8, HandleType
<1>9. CASE Crash
  <2>1. \A w \in Wrappers : GoOn(wrapper[w]) \in Wrapper
    BY GoOnType DEF TypeOK
  <2> QED BY <1>9, <2>1 DEF Crash, TypeOK, history, Session, Row
<1>10. CASE Restart
  BY <1>10 DEF Restart, TypeOK, agentd, history, Session, Row
<1>11. CASE UNCHANGED vars
  BY <1>11 DEF vars, TypeOK, agentd, history, Session, Row
<1> QED
  BY <1>1, <1>2, <1>3, <1>4, <1>5, <1>6, <1>7, <1>8, <1>9, <1>10, <1>11 DEF Next

(* Every variable keeps its type, and no session begins after now. *)
THEOREM TypeCorrect == Spec => []TypeOK
BY InitType, NextType, PTL DEF Spec

-----------------------------------------------------------------------------
(* A session that no step touches stays backed: its open rows are the same *)
(* and keep their starts.                                                  *)
LEMMA StillBacked ==
  ASSUME NEW s, NEW i \in DOMAIN rows, IsLatest(i, OpenRows(s.app, s.pid)),
         rows[i].start = s.start,
         OpenRows(s.app, s.pid)' = OpenRows(s.app, s.pid),
         i \in DOMAIN rows', rows'[i].start = rows[i].start
  PROVE  \E k \in DOMAIN rows' : /\ IsLatest(k, OpenRows(s.app, s.pid)')
                                  /\ rows'[k].start = s.start
BY DEF IsLatest

(* A new row of another pid leaves the open rows of (app, pid) alone.      *)
LEMMA AppendOther ==
  ASSUME rows \in Seq(Row), NEW row \in Row, rows' = Append(rows, row),
         NEW app, NEW pid, ~(row.open /\ row.app = app /\ row.pid = pid)
  PROVE  OpenRows(app, pid)' = OpenRows(app, pid)
<1>1. /\ DOMAIN rows = 1..Len(rows) /\ Len(rows) \in Nat
      /\ DOMAIN rows' = 1..(Len(rows) + 1)
      /\ rows'[Len(rows) + 1] = row
      /\ \A i \in 1..Len(rows) : rows'[i] = rows[i]
  OBVIOUS
<1> QED BY <1>1 DEF OpenRows

(* Every step keeps each active session backed by its row. *)
LEMMA ActiveBackedStep == TypeOK /\ ActiveBacked /\ [Next]_vars => ActiveBacked'
<1> SUFFICES ASSUME TypeOK, ActiveBacked, [Next]_vars PROVE ActiveBacked'
  OBVIOUS
<1> USE DEF ActiveBacked
<1>1. CASE active' \subseteq active /\ rows' = rows
  BY <1>1 DEF OpenRows, IsLatest
<1>2. ASSUME NEW w \in Wrappers, WrapperStart(w) PROVE ActiveBacked'
  <2> DEFINE app == wrapper[w].app
             pid == wrapper[w].pid
             row == [pid |-> pid, app |-> app, start |-> now, open |-> TRUE, duration |-> 0]
  <2>1. app \in Apps /\ pid \in Pids /\ row \in Row /\ rows \in Seq(Row)
    BY DEF TypeOK, Wrapper, Row
  <2>2. rows' = Append(rows, row)
    BY <1>2 DEF WrapperStart
  <2>3. active' = {s \in active : s.pid # pid} \cup {[pid |-> pid, app |-> app, start |-> now]}
    BY <1>2 DEF WrapperStart
  <2>4. /\ DOMAIN rows = 1..Len(rows) /\ Len(rows) \in Nat
        /\ DOMAIN rows' = 1..(Len(rows) + 1)
        /\ rows'[Len(rows) + 1] = row
        /\ \A i \in 1..Len(rows) : rows'[i] = rows[i]
    BY <2>1, <2>2
  <2> SUFFICES ASSUME NEW s \in active'
               PROVE  \E i \in DOMAIN rows' : /\ IsLatest(i, OpenRows(s.app, s.pid)')
                                               /\ rows'[i].start = s.start
    OBVIOUS
  <2>6. CASE s = [pid |-> pid, app |-> app, start |-> now]
    <3>1. s.app = app /\ s.pid = pid /\ s.start = now
      BY <2>6
    <3>2. row.open /\ row.app = s.app /\ row.pid = s.pid /\ row.start = s.start
      BY <3>1
    <3> HIDE DEF row, app, pid, ActiveBacked
    <3>3. OpenRows(s.app, s.pid)'
            = {k \in DOMAIN rows' : rows'[k].open /\ rows'[k].app = s.app /\ rows'[k].pid = s.pid}
      BY DEF OpenRows
    <3>4. Len(rows) + 1 \in OpenRows(s.app, s.pid)'
      BY <2>4, <3>2, <3>3
    <3>5. \A k \in OpenRows(s.app, s.pid)' : k <= Len(rows) + 1
      BY <2>4, <3>3
    <3>6. IsLatest(Len(rows) + 1, OpenRows(s.app, s.pid)')
      BY <3>4, <3>5 DEF IsLatest
    <3>7. Len(rows) + 1 \in DOMAIN rows' /\ rows'[Len(rows) + 1].start = s.start
      BY <2>4, <3>2
    <3> QED BY <3>6, <3>7
  <2>7. CASE s \in active /\ s.pid # pid
    <3>1. PICK i \in DOMAIN rows : IsLatest(i, OpenRows(s.app, s.pid)) /\ rows[i].start = s.start
      BY <2>7
    <3>2. OpenRows(s.app, s.pid)' = OpenRows(s.app, s.pid)
      BY <2>1, <2>2, <2>7, AppendOther
    <3> QED BY <2>4, <3>1, <3>2, StillBacked
  <2> QED BY <2>3, <2>6, <2>7
<1>3. ASSUME NEW w \in Wrappers, WrapperStop(w) PROVE ActiveBacked'
  <2> DEFINE app == wrapper[w].app
             pid == wrapper[w].pid
  <2>1. app \in Apps /\ pid \in Pids /\ rows \in Seq(Row)
    BY DEF TypeOK, Wrapper
  <2> SUFFICES ASSUME NEW s \in active'
               PROVE  \E i \in DOMAIN rows' : /\ IsLatest(i, OpenRows(s.app, s.pid)')
                                               /\ rows'[i].start = s.start
    OBVIOUS
  <2>2. s \in active /\ s.pid # pid
    BY <1>3 DEF WrapperStop
  <2>3. PICK i \in DOMAIN rows : IsLatest(i, OpenRows(s.app, s.pid)) /\ rows[i].start = s.start
    BY <2>2
  <2>4. CASE rows' = Append(rows, [pid |-> pid, app |-> app, start |-> now,
                                   open |-> FALSE, duration |-> 0])
    <3>1. [pid |-> pid, app |-> app, start |-> now, open |-> FALSE, duration |-> 0] \in Row
      BY <2>1 DEF Row, TypeOK
    <3>2. OpenRows(s.app, s.pid)' = OpenRows(s.app, s.pid)
      BY <2>1, <2>4, <3>1, AppendOther
    <3>3. i \in DOMAIN rows' /\ rows'[i] = rows[i]
      BY <2>1, <2>4, <3>1
    <3> QED BY <2>3, <3>2, <3>3, StillBacked
  <2>5. CASE \E newest \in OpenRows(app, pid) : rows' = CloseRows(OpenRows(app, pid), newest)
    <3>1. PICK newest \in OpenRows(app, pid) : rows' = CloseRows(OpenRows(app, pid), newest)
      BY <2>5
    <3>2. DOMAIN rows' = DOMAIN rows
      BY <3>1 DEF CloseRows
    <3>3. \A k \in DOMAIN rows : k \notin OpenRows(app, pid) => rows'[k] = rows[k]
      BY <3>1 DEF CloseRows
    <3>4. \A k \in OpenRows(app, pid) : rows[k].pid = pid /\ ~rows'[k].open /\ rows'[k].pid = pid
      <4> TAKE k \in OpenRows(app, pid)
      <4>1. k \in DOMAIN rows /\ rows[k].pid = pid /\ rows[k] \in Row
        BY <2>1 DEF OpenRows
      <4> QED BY <3>1, <4>1 DEF CloseRows, Row
    <3>5. OpenRows(s.app, s.pid)' = OpenRows(s.app, s.pid)
      BY <2>2, <3>2, <3>3, <3>4 DEF OpenRows
    <3>6. i \notin OpenRows(app, pid)
      BY <2>2, <2>3, <3>4 DEF IsLatest, OpenRows
    <3> QED BY <2>3, <3>2, <3>3, <3>5, <3>6, StillBacked
  <2> QED BY <1>3, <2>4, <2>5 DEF WrapperStop, EndSession
<1>4. ASSUME NEW w \in Wrappers, Handle(w) PROVE ActiveBacked'
  BY <1>1, <1>2, <1>3, <1>4 DEF Handle, WrapperStartFails, WrapperStopFails
<1> QED
  BY <1>1, <1>4 DEF Next, Advance, NewDay, Launch, ChildExits, Reap, Timeout, Kill,
                    Crash, Restart, vars, agentd

(* ActiveBacked: what live time agentd counts, the next stop will book.    *)
THEOREM ActiveBackedHolds == Spec => []ActiveBacked
<1>1. Init => ActiveBacked
  BY DEF Init, ActiveBacked
<1> QED BY <1>1, ActiveBackedStep, TypeCorrect, PTL DEF Spec

-----------------------------------------------------------------------------
(* Whose report is still to be heard or answered. *)
Pending(w) == wrapper[w].pc # "idle" \/ \E m \in net : m.from = w

OpenIds == {i \in DOMAIN rows : rows[i].open}

(* The pids that a wrapper, a session or an open row stands for. *)
InUse(p) ==
  \/ \E w \in Wrappers : Pending(w) /\ wrapper[w].pid = p
  \/ \E s \in active : s.pid = p
  \/ \E i \in OpenIds : rows[i].pid = p

(* The sessions are finitely many, and a pid is one process: it has one    *)
(* wrapper with something to report, one session and one open row, all of  *)
(* the same app, and neither session nor row before its start was handled. *)
Distinct ==
  /\ IsFiniteSet(active)
  /\ \A v, w \in Wrappers :
       Pending(v) /\ Pending(w) /\ wrapper[v].pid = wrapper[w].pid => v = w
  /\ \A s, t \in active : s.pid = t.pid => s = t
  /\ \A i, j \in OpenIds : rows[i].pid = rows[j].pid => i = j
  /\ \A w \in Wrappers : [type |-> "start", from |-> w] \in net =>
       /\ \A s \in active : s.pid # wrapper[w].pid
       /\ \A i \in OpenIds : rows[i].pid # wrapper[w].pid
  /\ \A w \in Wrappers : Pending(w) =>
       /\ \A s \in active : s.pid = wrapper[w].pid => s.app = wrapper[w].app
       /\ \A i \in OpenIds : rows[i].pid = wrapper[w].pid => rows[i].app = wrapper[w].app

(* A wrapper that goes on has the same child. *)
LEMMA GoOnKeeps ==
  \A record \in Wrapper : /\ GoOn(record).pid = record.pid
                          /\ GoOn(record).app = record.app
                          /\ GoOn(record).alive = record.alive
                          /\ GoOn(record).pc # "idle" => record.pc # "idle"
BY DEF GoOn, Wrapper

(* A step that adds no pending wrapper, start, session or open row. *)
Shrinks ==
  /\ \A w \in Wrappers : /\ wrapper'[w].pid = wrapper[w].pid
                         /\ wrapper'[w].app = wrapper[w].app
                         /\ Pending(w)' => Pending(w)
                         /\ [type |-> "start", from |-> w] \in net'
                              => [type |-> "start", from |-> w] \in net
  /\ active' \subseteq active
  /\ OpenIds' \subseteq OpenIds
  /\ \A i \in OpenIds' : rows'[i].pid = rows[i].pid /\ rows'[i].app = rows[i].app

LEMMA ShrinkDistinct == Distinct /\ Shrinks => Distinct'
<1> SUFFICES ASSUME Distinct, Shrinks PROVE Distinct'
  OBVIOUS
<1>0. IsFiniteSet(active')
  BY FS_Subset DEF Distinct, Shrinks
<1>1. \A v, w \in Wrappers : Pending(v)' /\ Pending(w)' /\ wrapper'[v].pid = wrapper'[w].pid
                             => v = w
  <2>1. \A w \in Wrappers : (Pending(w)' => Pending(w)) /\ wrapper'[w].pid = wrapper[w].pid
    BY DEF Shrinks
  <2> QED BY <2>1, Zenon DEF Distinct
<1>2. \A s, t \in active' : s.pid = t.pid => s = t
  BY DEF Distinct, Shrinks
<1>3. \A i, j \in OpenIds' : rows'[i].pid = rows'[j].pid => i = j
  BY DEF Distinct, Shrinks
<1>4. \A w \in Wrappers : [type |-> "start", from |-> w] \in net' =>
        /\ \A s \in active' : s.pid # wrapper'[w].pid
        /\ \A i \in OpenIds' : rows'[i].pid # wrapper'[w].pid
  BY DEF Distinct, Shrinks
<1>5. ASSUME NEW w \in Wrappers, Pending(w)'
      PROVE  /\ \A s \in active' : s.pid = wrapper'[w].pid => s.app = wrapper'[w].app
             /\ \A i \in OpenIds' : rows'[i].pid = wrapper'[w].pid
                                      => rows'[i].app = wrapper'[w].app
  <2>1. Pending(w) /\ wrapper'[w].pid = wrapper[w].pid /\ wrapper'[w].app = wrapper[w].app
    BY <1>5 DEF Shrinks
  <2>2. /\ \A s \in active : s.pid = wrapper[w].pid => s.app = wrapper[w].app
        /\ \A i \in OpenIds : rows[i].pid = wrapper[w].pid => rows[i].app = wrapper[w].app
    BY <2>1 DEF Distinct
  <2> QED BY <2>1, <2>2 DEF Shrinks
<1> QED BY <1>0, <1>1, <1>2, <1>3, <1>4, <1>5 DEF Distinct

(* The answer to a report. *)
LEMMA AnswerShrinks ==
  ASSUME TypeOK, NEW m \in Report, Answer(m), NEW w \in Wrappers
  PROVE  /\ wrapper'[w].pid = wrapper[w].pid
         /\ wrapper'[w].app = wrapper[w].app
         /\ wrapper'[w].alive = wrapper[w].alive
         /\ Pending(w)' => Pending(w)
         /\ net' = net \ {m}
<1>1. wrapper[w] \in Wrapper /\ wrapper[m.from] \in Wrapper /\ m.from \in Wrappers
  BY DEF TypeOK, Report
<1>2. wrapper'[w] = wrapper[w] \/ wrapper'[w] = GoOn(wrapper[w])
  BY <1>1 DEF Answer, TypeOK
<1>3. net' = net \ {m}
  BY DEF Answer
<1> QED BY <1>1, <1>2, <1>3, GoOnKeeps DEF Pending

(* What the UPDATE of end_session leaves open: the rows it does not close. *)
LEMMA EndSessionOpen ==
  ASSUME TypeOK, NEW app \in Apps, NEW pid \in Pids, EndSession(app, pid)
  PROVE  /\ OpenIds' = OpenIds \ OpenRows(app, pid)
         /\ \A i \in OpenIds' : rows'[i] = rows[i]
<1>1. rows \in Seq(Row) /\ DOMAIN rows = 1..Len(rows) /\ Len(rows) \in Nat
  BY DEF TypeOK
<1>2. CASE OpenRows(app, pid) = {}
  <2> DEFINE row == [pid |-> pid, app |-> app, start |-> now, open |-> FALSE, duration |-> 0]
  <2>1. row \in Row /\ ~row.open
    BY DEF Row, TypeOK
  <2>2. rows' = Append(rows, row)
    BY <1>2 DEF EndSession
  <2> HIDE DEF row
  <2>3. /\ DOMAIN rows' = 1..(Len(rows) + 1)
        /\ rows'[Len(rows) + 1] = row
        /\ \A i \in 1..Len(rows) : rows'[i] = rows[i]
    BY <1>1, <2>1, <2>2
  <2> QED BY <1>1, <1>2, <2>1, <2>3 DEF OpenIds
<1>3. CASE OpenRows(app, pid) # {}
  <2>1. PICK newest \in OpenRows(app, pid) : rows' = CloseRows(OpenRows(app, pid), newest)
    BY <1>3 DEF EndSession
  <2>2. /\ DOMAIN rows' = DOMAIN rows
        /\ \A i \in DOMAIN rows : i \notin OpenRows(app, pid) => rows'[i] = rows[i]
    BY <2>1 DEF CloseRows
  <2>3. \A i \in OpenRows(app, pid) : i \in DOMAIN rows /\ ~rows'[i].open
    <3> TAKE i \in OpenRows(app, pid)
    <3>1. i \in DOMAIN rows /\ rows[i] \in Row
      BY <1>1 DEF OpenRows
    <3> QED BY <2>1, <3>1 DEF CloseRows, Row
  <2> QED BY <2>2, <2>3 DEF OpenIds
<1> QED BY <1>2, <1>3

(* A handled stop. *)
LEMMA StopShrinks ==
  ASSUME TypeOK, NEW w \in Wrappers, WrapperStop(w)
  PROVE  Shrinks
<1> DEFINE app == wrapper[w].app
           pid == wrapper[w].pid
<1>1. Answer([type |-> "stop", from |-> w]) /\ app \in Apps /\ pid \in Pids
  BY DEF WrapperStop, TypeOK, Wrapper
<1>2. \A v \in Wrappers : /\ wrapper'[v].pid = wrapper[v].pid
                          /\ wrapper'[v].app = wrapper[v].app
                          /\ Pending(v)' => Pending(v)
  BY <1>1, ReportType, AnswerShrinks
<1>3. net' \subseteq net
  BY <1>1 DEF Answer
<1>4. active' \subseteq active /\ EndSession(app, pid)
  BY DEF WrapperStop
<1>5. OpenIds' \subseteq OpenIds /\ \A i \in OpenIds' : rows'[i] = rows[i]
  BY <1>1, <1>4, EndSessionOpen
<1> QED BY <1>2, <1>3, <1>4, <1>5 DEF Shrinks

(* A handled start: its pid has nothing yet. *)
LEMMA StartDistinct ==
  ASSUME TypeOK, Distinct, NEW w \in Wrappers, WrapperStart(w)
  PROVE  Distinct'
<1> DEFINE m == [type |-> "start", from |-> w]
           app == wrapper[w].app
           pid == wrapper[w].pid
           row == [pid |-> pid, app |-> app, start |-> now, open |-> TRUE, duration |-> 0]
           s0 == [pid |-> pid, app |-> app, start |-> now]
           n == Len(rows) + 1
<1>1. m \in Report /\ Answer(m) /\ m \in net
  BY ReportType DEF WrapperStart, Answer
<1>2. \A v \in Wrappers : /\ wrapper'[v].pid = wrapper[v].pid
                          /\ wrapper'[v].app = wrapper[v].app
                          /\ Pending(v)' => Pending(v)
  BY <1>1, AnswerShrinks
<1>3. net' = net \ {m} /\ Pending(w)
  BY <1>1, AnswerShrinks DEF Pending
<1>4. row \in Row /\ rows' = Append(rows, row)
  BY DEF TypeOK, Wrapper, Row, WrapperStart
<1>5. row.pid = pid /\ row.app = app /\ row.open
  OBVIOUS
<1>6. s0.pid = pid /\ s0.app = app
  OBVIOUS
<1>7. active' \subseteq active \cup {s0}
  BY DEF WrapperStart
<1>8. (\A s \in active : s.pid # pid) /\ (\A i \in OpenIds : rows[i].pid # pid)
  BY <1>1 DEF Distinct
<1>9. \A v \in Wrappers : Pending(v) /\ wrapper[v].pid = pid => v = w
  BY <1>3 DEF Distinct
<1>10. \A v \in Wrappers : v # w => [type |-> "start", from |-> v] # m
  OBVIOUS
<1>11. [type |-> "start", from |-> w] \notin net'
  BY <1>3
<1> HIDE DEF row, s0, m
<1>12. /\ DOMAIN rows = 1..Len(rows) /\ DOMAIN rows' = 1..n /\ Len(rows) \in Nat
       /\ rows'[n] = row /\ \A i \in 1..Len(rows) : rows'[i] = rows[i]
  BY <1>4 DEF TypeOK
<1>13. /\ OpenIds' \subseteq OpenIds \cup {n}
       /\ \A i \in OpenIds : rows'[i] = rows[i]
       /\ rows'[n].pid = pid /\ rows'[n].app = app
  BY <1>5, <1>12 DEF OpenIds
<1> HIDE DEF app, pid, n
<1>19. IsFiniteSet(active')
  BY <1>7, FS_AddElement, FS_Subset DEF Distinct
<1>14. \A v, u \in Wrappers : Pending(v)' /\ Pending(u)' /\ wrapper'[v].pid = wrapper'[u].pid
                              => v = u
  BY <1>2 DEF Distinct
<1>15. \A s, t \in active' : s.pid = t.pid => s = t
  BY <1>6, <1>7, <1>8 DEF Distinct
<1>16. \A i, j \in OpenIds' : rows'[i].pid = rows'[j].pid => i = j
  BY <1>8, <1>13 DEF Distinct
<1>17. ASSUME NEW v \in Wrappers, [type |-> "start", from |-> v] \in net'
       PROVE  /\ \A s \in active' : s.pid # wrapper'[v].pid
              /\ \A i \in OpenIds' : rows'[i].pid # wrapper'[v].pid
  <2>1. v # w /\ [type |-> "start", from |-> v] \in net
    BY <1>3, <1>11, <1>17
  <2>2. Pending(v)
    BY <2>1 DEF Pending
  <2>3. wrapper'[v].pid = wrapper[v].pid /\ wrapper[v].pid # pid
    BY <1>2, <1>9, <2>1, <2>2
  <2> QED BY <1>6, <1>7, <1>13, <2>1, <2>3 DEF Distinct
<1>18. ASSUME NEW v \in Wrappers, Pending(v)'
       PROVE  /\ \A s \in active' : s.pid = wrapper'[v].pid => s.app = wrapper'[v].app
              /\ \A i \in OpenIds' : rows'[i].pid = wrapper'[v].pid
                                       => rows'[i].app = wrapper'[v].app
  <2>1. Pending(v) /\ wrapper'[v].pid = wrapper[v].pid /\ wrapper'[v].app = wrapper[v].app
    BY <1>2, <1>18
  <2>2. wrapper[v].pid = pid => wrapper[v].app = app
    BY <1>9, <2>1 DEF app
  <2> QED BY <1>6, <1>7, <1>13, <2>1, <2>2 DEF Distinct
<1> QED BY <1>19, <1>14, <1>15, <1>16, <1>17, <1>18 DEF Distinct

(* A launch: its pid is free. *)
LEMMA LaunchDistinct ==
  ASSUME TypeOK, Distinct, NEW w \in Wrappers, NEW app \in Apps, NEW p \in Pids,
         Launch(w, app, p), ~InUse(p)
  PROVE  Distinct'
<1>1. /\ active' = active /\ rows' = rows /\ OpenIds' = OpenIds
      /\ net' \subseteq net \cup {[type |-> "start", from |-> w]}
  BY DEF Launch, Send, agentd, OpenIds
<1>2. /\ \A v \in Wrappers \ {w} : wrapper'[v] = wrapper[v]
      /\ wrapper'[w].pid = p
  BY DEF Launch, Send, TypeOK
<1>3. \A v \in Wrappers \ {w} : Pending(v)' => Pending(v)
  BY <1>1, <1>2 DEF Pending
<1>4. \A v \in Wrappers \ {w} : [type |-> "start", from |-> v] \in net'
        => [type |-> "start", from |-> v] \in net
  BY <1>1
<1>5. /\ \A v \in Wrappers : Pending(v) => wrapper[v].pid # p
      /\ \A s \in active : s.pid # p
      /\ \A i \in OpenIds : rows[i].pid # p
  BY DEF InUse
<1> QED BY <1>1, <1>2, <1>3, <1>4, <1>5 DEF Distinct

(* Only a launch and a handled start add something that stands for a pid. *)
LEMMA OtherShrinks ==
  ASSUME TypeOK, [Next]_vars,
         \A w \in Wrappers : ~WrapperStart(w),
         \A w \in Wrappers, app \in Apps, p \in Pids : ~Launch(w, app, p)
  PROVE  Shrinks
<1>1. \A w \in Wrappers : wrapper[w] \in Wrapper
  BY DEF TypeOK
<1>2. CASE Advance \/ NewDay \/ Restart \/ UNCHANGED vars
  <2>1. wrapper' = wrapper /\ net' = net /\ active' = active /\ rows' = rows
    BY <1>2 DEF Advance, NewDay, Restart, vars, agentd
  <2> QED BY <2>1 DEF Shrinks, Pending, OpenIds
<1>4. ASSUME NEW w \in Wrappers, ChildExits(w) \/ Kill(w) \/ Timeout(w) PROVE Shrinks
  <2>1. net' = net /\ active' = active /\ rows' = rows
    BY <1>4 DEF ChildExits, Kill, Timeout, agentd
  <2>2. ASSUME NEW v \in Wrappers
        PROVE  /\ wrapper'[v].pid = wrapper[v].pid
               /\ wrapper'[v].app = wrapper[v].app
               /\ wrapper'[v].pc # "idle" => wrapper[v].pc # "idle"
    <3>1. CASE ChildExits(w) \/ Kill(w)
      BY <1>1, <3>1 DEF ChildExits, Kill, TypeOK, Wrapper
    <3>2. CASE Timeout(w)
      BY <1>1, <3>2, GoOnKeeps DEF Timeout, TypeOK
    <3> QED BY <1>4, <3>1, <3>2
  <2> QED BY <2>1, <2>2 DEF Shrinks, Pending, OpenIds
<1>5. ASSUME NEW w \in Wrappers, Reap(w) PROVE Shrinks
  <2>1. active' = active /\ rows' = rows /\ Pending(w)
    BY <1>5 DEF Reap, agentd, Pending
  <2>2. net' \subseteq net \cup {[type |-> "stop", from |-> w]}
    BY <1>5 DEF Reap, Send
  <2>3. \A v \in Wrappers : v # w => wrapper'[v] = wrapper[v]
    BY <1>5 DEF Reap, Send, TypeOK
  <2>4. wrapper'[w].pid = wrapper[w].pid /\ wrapper'[w].app = wrapper[w].app
    BY <1>1, <1>5 DEF Reap, Send, TypeOK, Wrapper
  <2>5. \A v \in Wrappers : Pending(v)' => Pending(v)
    BY <2>1, <2>2, <2>3 DEF Pending
  <2>6. \A v \in Wrappers : [type |-> "start", from |-> v] # [type |-> "stop", from |-> w]
    OBVIOUS
  <2> QED BY <2>1, <2>2, <2>3, <2>4, <2>5, <2>6 DEF Shrinks, OpenIds
<1>6. ASSUME NEW w \in Wrappers, Handle(w) PROVE Shrinks
  <2>2. CASE WrapperStop(w)
    BY <2>2, StopShrinks
  <2>3. CASE WrapperStartFails(w) \/ WrapperStopFails(w)
    <3>1. active' \subseteq active /\ rows' = rows
      BY <2>3 DEF WrapperStartFails, WrapperStopFails
    <3>2. PICK m \in Report : Answer(m)
      BY <2>3, ReportType DEF WrapperStartFails, WrapperStopFails
    <3>3. \A v \in Wrappers : /\ wrapper'[v].pid = wrapper[v].pid
                              /\ wrapper'[v].app = wrapper[v].app
                              /\ Pending(v)' => Pending(v)
      BY <3>2, AnswerShrinks
    <3>4. net' \subseteq net
      BY <3>2 DEF Answer
    <3> QED BY <3>1, <3>3, <3>4 DEF Shrinks, OpenIds
  <2> QED BY <1>6, <2>2, <2>3 DEF Handle
<1>7. CASE Crash
  <2>1. active' = {} /\ rows' = rows /\ net' = {}
    BY <1>7 DEF Crash
  <2>2. \A v \in Wrappers : wrapper'[v] = GoOn(wrapper[v])
    BY <1>7 DEF Crash
  <2>3. \A v \in Wrappers : /\ wrapper'[v].pid = wrapper[v].pid
                            /\ wrapper'[v].app = wrapper[v].app
                            /\ Pending(v)' => Pending(v)
    BY <1>1, <2>1, <2>2, GoOnKeeps DEF Pending
  <2> QED BY <2>1, <2>3 DEF Shrinks, OpenIds
<1> QED BY <1>2, <1>4, <1>5, <1>6, <1>7 DEF Next

(* Every step that launches free pids only keeps them apart. *)
LEMMA DistinctStep ==
  ASSUME TypeOK, Distinct, [Next]_vars,
         \A w \in Wrappers, app \in Apps, p \in Pids : Launch(w, app, p) => ~InUse(p)
  PROVE  Distinct'
BY LaunchDistinct, StartDistinct, OtherShrinks, ShrinkDistinct

(* While no pid comes twice, those in use have been seen. *)
Seen == \A p : InUse(p) => p \in seenPids

LEMMA ShrinkUse == ASSUME Shrinks, NEW p, InUse(p)' PROVE InUse(p)
<1>1. \A w \in Wrappers : Pending(w)' /\ wrapper'[w].pid = p => Pending(w) /\ wrapper[w].pid = p
  BY DEF Shrinks
<1>2. \A s \in active' : s \in active
  BY DEF Shrinks
<1>3. \A i \in OpenIds' : i \in OpenIds /\ rows'[i].pid = rows[i].pid
  BY DEF Shrinks
<1> QED BY <1>1, <1>2, <1>3 DEF InUse

LEMMA SeenStep ==
  ASSUME TypeOK, Seen, [Next]_vars
  PROVE  Seen'
<1> SUFFICES ASSUME NEW p, InUse(p)' PROVE p \in seenPids'
  BY DEF Seen
<1>1. ASSUME NEW w \in Wrappers, NEW app \in Apps, NEW q \in Pids, Launch(w, app, q)
      PROVE  p \in seenPids'
  <2>1. /\ active' = active /\ rows' = rows /\ OpenIds' = OpenIds
        /\ net' \subseteq net \cup {[type |-> "start", from |-> w]}
        /\ seenPids' = seenPids \cup {q}
    BY <1>1 DEF Launch, Send, agentd, OpenIds
  <2>2. /\ \A v \in Wrappers \ {w} : wrapper'[v] = wrapper[v]
        /\ wrapper'[w].pid = q
    BY <1>1 DEF Launch, Send, TypeOK
  <2>3. \A v \in Wrappers \ {w} : Pending(v)' => Pending(v)
    BY <2>1, <2>2 DEF Pending
  <2>4. InUse(p) \/ p = q
    BY <2>1, <2>2, <2>3 DEF InUse
  <2> QED BY <2>1, <2>4 DEF Seen
<1>2. ASSUME NEW w \in Wrappers, WrapperStart(w) PROVE p \in seenPids'
  <2> DEFINE m == [type |-> "start", from |-> w]
             row == [pid |-> wrapper[w].pid, app |-> wrapper[w].app, start |-> now,
                     open |-> TRUE, duration |-> 0]
  <2>1. m \in Report /\ Answer(m) /\ m \in net /\ m.from = w
    BY <1>2, ReportType DEF WrapperStart, Answer
  <2>2. \A v \in Wrappers : wrapper'[v].pid = wrapper[v].pid /\ (Pending(v)' => Pending(v))
    BY <2>1, AnswerShrinks
  <2>3. Pending(w) /\ seenPids' = seenPids
    BY <2>1 DEF Pending, Answer, history
  <2>4. \A s \in active' : s \in active \/ s.pid = wrapper[w].pid
    BY <1>2 DEF WrapperStart
  <2>5. row \in Row /\ rows' = Append(rows, row) /\ row.pid = wrapper[w].pid
    BY <1>2 DEF TypeOK, Wrapper, Row, WrapperStart
  <2> HIDE DEF row, m
  <2>6. \A i \in OpenIds' : (i \in OpenIds /\ rows'[i] = rows[i]) \/ rows'[i].pid = wrapper[w].pid
    BY <2>5 DEF OpenIds, TypeOK
  <2>7. InUse(p)
    BY <2>2, <2>3, <2>4, <2>6 DEF InUse
  <2> QED BY <2>3, <2>7 DEF Seen
<1>3. CASE /\ \A w \in Wrappers : ~WrapperStart(w)
           /\ \A w \in Wrappers, app \in Apps, q \in Pids : ~Launch(w, app, q)
  <2>1. InUse(p)
    BY <1>3, OtherShrinks, ShrinkUse
  <2>2. seenPids' = seenPids
    BY <1>3 DEF Next, Advance, NewDay, ChildExits, Reap, Timeout, Kill, Handle, WrapperStop,
                WrapperStartFails, WrapperStopFails, Answer, Crash, Restart, history, vars
  <2> QED BY <2>1, <2>2 DEF Seen
<1> QED BY <1>1, <1>2, <1>3

-----------------------------------------------------------------------------
(* The minutes of ended and of active sessions, of some apps. *)
AnyRow == [pid : Pids, app : Apps, start : Nat, open : BOOLEAN, duration : Nat]

Durations(r) == [i \in DOMAIN r |-> r[i].duration]

Ended(r, A, since) ==
  {i \in DOMAIN r : ~r[i].open /\ r[i].app \in A /\ r[i].start >= since}

CompletedIn(r, A, since) ==
  SumFunctionOnSet(Durations(r), Ended(r, A, since))

LiveTimes(a, t) == [s \in a |-> t - s.start]

Begun(a, A, since) == {s \in a : s.app \in A /\ s.start >= since}

LiveIn(a, t, A, since) ==
  SumFunctionOnSet(LiveTimes(a, t), Begun(a, A, since))

(* The time from the start of a row or session to t, if it is asked for. *)
Share(e, t, A, since) == IF e.app \in A /\ e.start >= since THEN t - e.start ELSE 0

UsedOf(A, since) == CompletedIn(rows, A, since) + LiveIn(active, now, A, since)

(* What is said of UsedOf is said of Used. *)
LEMMA UsedIsUsedOf == TypeOK => \A since \in Nat : Used(since) = UsedOf(Apps, since)
<1> SUFFICES ASSUME TypeOK, NEW since \in Nat PROVE Used(since) = UsedOf(Apps, since)
  OBVIOUS
<1>1. (\A i \in DOMAIN rows : rows[i] \in Row) /\ (\A s \in active : s \in Session)
  BY DEF TypeOK
<1>2. {i \in DOMAIN rows : ~rows[i].open /\ rows[i].start >= since} = Ended(rows, Apps, since)
  BY <1>1 DEF Ended, Row
<1>3. {s \in active : s.start >= since} = Begun(active, Apps, since)
  BY <1>1 DEF Begun, Session
<1> QED BY <1>2, <1>3 DEF Used, UsedOf, Completed, CompletedIn, LiveIn, Durations, LiveTimes

(* Rows are finitely many, and durations are natural numbers. *)
LEMMA RowsAre ==
  ASSUME NEW r \in Seq(AnyRow)
  PROVE  /\ DOMAIN r = 1..Len(r) /\ Len(r) \in Nat
         /\ \A i \in DOMAIN r : /\ r[i] \in AnyRow
                               /\ r[i].start \in Nat
                               /\ Durations(r)[i] = r[i].duration
                               /\ Durations(r)[i] \in Nat
         /\ \A S \in SUBSET (DOMAIN r) : IsFiniteSet(S)
<1>1. DOMAIN r = 1..Len(r) /\ Len(r) \in Nat
  OBVIOUS
<1>2. ASSUME NEW i \in DOMAIN r
      PROVE  /\ r[i] \in AnyRow
             /\ r[i].start \in Nat
             /\ Durations(r)[i] = r[i].duration
             /\ Durations(r)[i] \in Nat
  <2>1. r[i] \in AnyRow
    BY <1>1
  <2>2. r[i].start \in Nat /\ r[i].duration \in Nat
    BY <2>1 DEF AnyRow
  <2> QED BY <2>1, <2>2 DEF Durations
<1>3. IsFiniteSet(DOMAIN r)
  BY <1>1, FS_Interval
<1> QED BY <1>1, <1>2, <1>3, FS_Subset

(* What has ended adds up to a natural number. *)
LEMMA EndedAre ==
  ASSUME NEW r \in Seq(AnyRow), NEW A, NEW since
  PROVE  /\ Ended(r, A, since) \subseteq DOMAIN r
         /\ IsFiniteSet(Ended(r, A, since))
         /\ CompletedIn(r, A, since) \in Nat
<1>1. Ended(r, A, since) \subseteq DOMAIN r
  BY DEF Ended
<1>2. IsFiniteSet(Ended(r, A, since))
  BY <1>1, RowsAre
<1>3. \A i \in Ended(r, A, since) : Durations(r)[i] \in Nat
  BY <1>1, RowsAre
<1> QED BY <1>1, <1>2, <1>3, SumNat DEF CompletedIn

LEMMA RowsTyped == TypeOK => rows \in Seq(AnyRow)
<1> SUFFICES ASSUME TypeOK PROVE rows \in Seq(AnyRow)
  OBVIOUS
<1>1. Row \subseteq AnyRow
  BY DEF Row, AnyRow, TypeOK
<1>2. Seq(Row) \subseteq Seq(AnyRow)
  BY <1>1
<1> QED BY <1>2 DEF TypeOK

(* A new row that is open, or took no time, adds nothing. *)
LEMMA AppendAdds ==
  ASSUME NEW r \in Seq(AnyRow), NEW row \in AnyRow, row.open \/ row.duration = 0,
         NEW A, NEW since
  PROVE  CompletedIn(Append(r, row), A, since) = CompletedIn(r, A, since)
<1> DEFINE q == Append(r, row)
           n == Len(r) + 1
           S == Ended(r, A, since)
<1>1. q \in Seq(AnyRow) /\ DOMAIN q = DOMAIN r \cup {n} /\ n \notin DOMAIN r
  <2>1. DOMAIN q = 1..n /\ DOMAIN r = 1..Len(r) /\ Len(r) \in Nat
    OBVIOUS
  <2> QED BY <2>1
<1>2. q[n] = row /\ \A i \in DOMAIN r : q[i] = r[i]
  OBVIOUS
<1> HIDE DEF q, n, S
<1>3. IsFiniteSet(S) /\ S \subseteq DOMAIN r /\ n \notin S
  BY <1>1, EndedAre DEF S
<1>4. \A i \in S : Durations(r)[i] \in Int /\ Durations(q)[i] = Durations(r)[i]
  BY <1>1, <1>2, <1>3, RowsAre
<1>5. SumFunctionOnSet(Durations(q), S) = SumFunctionOnSet(Durations(r), S)
  BY <1>3, <1>4, SumEqual
<1>6. SumFunctionOnSet(Durations(q), S) \in Int
  BY <1>3, <1>4, SumInt
<1>7. CASE row.open
  <2>1. Ended(q, A, since) = S
    BY <1>1, <1>2, <1>7 DEF Ended, S
  <2> QED BY <1>5, <2>1 DEF CompletedIn, q, S
<1>8. CASE ~row.open
  <2>1. Durations(q)[n] = 0
    BY <1>1, <1>2, <1>8, RowsAre
  <2>2. Ended(q, A, since) = S \/ Ended(q, A, since) = S \cup {n}
    BY <1>1, <1>2 DEF Ended, S
  <2>3. SumFunctionOnSet(Durations(q), S \cup {n})
          = Durations(q)[n] + SumFunctionOnSet(Durations(q), S)
    BY <1>3, <1>4, <2>1, SumAdd
  <2>4. SumFunctionOnSet(Durations(q), S \cup {n}) = SumFunctionOnSet(Durations(q), S)
    BY <1>6, <2>1, <2>3
  <2> QED BY <1>5, <2>2, <2>4 DEF CompletedIn, q, S
<1> QED BY <1>7, <1>8

(* Closing the only open row of a process books the time since its start. *)
LEMMA CloseBooks ==
  ASSUME NEW r \in Seq(AnyRow), NEW i \in DOMAIN r, r[i].open, NEW t \in Int,
         NEW q \in Seq(AnyRow), DOMAIN q = DOMAIN r,
         \A k \in DOMAIN r : k # i => q[k] = r[k],
         ~q[i].open, q[i].duration = t - r[i].start, q[i].app = r[i].app,
         q[i].start = r[i].start,
         NEW A, NEW since
  PROVE  CompletedIn(q, A, since) = CompletedIn(r, A, since) + Share(r[i], t, A, since)
<1> DEFINE S == Ended(r, A, since)
<1>1. IsFiniteSet(S) /\ S \subseteq DOMAIN r /\ i \notin S
  BY EndedAre DEF Ended
<1>2. Ended(q, A, since) = IF r[i].app \in A /\ r[i].start >= since THEN S \cup {i} ELSE S
  BY DEF Ended
<1> HIDE DEF S
<1>3. \A k \in S : Durations(r)[k] \in Int /\ Durations(q)[k] = Durations(r)[k]
  <2> SUFFICES ASSUME NEW k \in S
               PROVE  Durations(r)[k] \in Int /\ Durations(q)[k] = Durations(r)[k]
    OBVIOUS
  <2>1. k \in DOMAIN r /\ k \in DOMAIN q /\ q[k] = r[k]
    BY <1>1
  <2>2. Durations(r)[k] = r[k].duration /\ r[k].duration \in Int
    BY <2>1, RowsAre
  <2>3. Durations(q)[k] = q[k].duration
    BY <2>1, RowsAre
  <2> QED BY <2>1, <2>2, <2>3
<1> DEFINE d == t - r[i].start
<1>4. Durations(q)[i] = d /\ d \in Int
  BY RowsAre
<1> HIDE DEF d
<1>5. SumFunctionOnSet(Durations(q), S) = SumFunctionOnSet(Durations(r), S)
  BY <1>1, <1>3, SumEqual
<1>6. SumFunctionOnSet(Durations(q), S) \in Int
  BY <1>1, <1>3, SumInt
<1>7. SumFunctionOnSet(Durations(q), S \cup {i}) = d + SumFunctionOnSet(Durations(q), S)
  BY <1>1, <1>3, <1>4, SumAdd
<1>8. CompletedIn(r, A, since) = SumFunctionOnSet(Durations(q), S)
  BY <1>5 DEF CompletedIn, S
<1>9. CompletedIn(q, A, since) = SumFunctionOnSet(Durations(q), Ended(q, A, since))
  BY DEF CompletedIn
<1>10. CASE r[i].app \in A /\ r[i].start >= since
  BY <1>2, <1>4, <1>6, <1>7, <1>8, <1>9, <1>10 DEF Share, d
<1>11. CASE ~(r[i].app \in A /\ r[i].start >= since)
  BY <1>2, <1>6, <1>8, <1>9, <1>11 DEF Share
<1> QED BY <1>10, <1>11

-----------------------------------------------------------------------------
(* Live times add up to an integer. *)
LEMMA BegunAre ==
  ASSUME NEW a, IsFiniteSet(a), NEW t \in Int, \A s \in a : s.start \in Int, NEW A, NEW since
  PROVE  /\ Begun(a, A, since) \subseteq a
         /\ IsFiniteSet(Begun(a, A, since))
         /\ \A s \in a : LiveTimes(a, t)[s] = t - s.start /\ LiveTimes(a, t)[s] \in Int
         /\ LiveIn(a, t, A, since) \in Int
<1>1. Begun(a, A, since) \subseteq a
  BY DEF Begun
<1>2. IsFiniteSet(Begun(a, A, since))
  BY <1>1, FS_Subset
<1>3. \A s \in a : LiveTimes(a, t)[s] = t - s.start /\ LiveTimes(a, t)[s] \in Int
  BY DEF LiveTimes
<1>4. \A s \in Begun(a, A, since) : LiveTimes(a, t)[s] \in Int
  BY <1>1, <1>3
<1> QED BY <1>1, <1>2, <1>3, <1>4, SumInt DEF LiveIn

(* A session that ends takes its live time with it; one that begins has    *)
(* none yet.                                                               *)
LEMMA OneLess ==
  ASSUME NEW a, IsFiniteSet(a), NEW t \in Int, \A s \in a : s.start \in Int, NEW A, NEW since,
         NEW e \in a
  PROVE  LiveIn(a, t, A, since) = LiveIn(a \ {e}, t, A, since) + Share(e, t, A, since)
<1> DEFINE b == a \ {e}
           S == Begun(b, A, since)
<1>1. IsFiniteSet(b) /\ (\A s \in b : s.start \in Int)
  BY FS_Subset
<1>2. /\ S \subseteq b /\ IsFiniteSet(S) /\ LiveIn(b, t, A, since) \in Int
      /\ \A s \in b : LiveTimes(b, t)[s] = t - s.start
  <2> HIDE DEF b
  <2> QED BY <1>1, BegunAre
<1>3. \A s \in a : LiveTimes(a, t)[s] = t - s.start /\ LiveTimes(a, t)[s] \in Int
  BY BegunAre
<1>4. Begun(a, A, since) = IF e.app \in A /\ e.start >= since THEN S \cup {e} ELSE S
  BY DEF Begun
<1>5. e \notin S /\ b \subseteq a
  BY <1>2
<1> HIDE DEF b, S
<1>6. \A s \in S : LiveTimes(b, t)[s] \in Int /\ LiveTimes(a, t)[s] = LiveTimes(b, t)[s]
  BY <1>2, <1>3, <1>5
<1>7. SumFunctionOnSet(LiveTimes(a, t), S) = SumFunctionOnSet(LiveTimes(b, t), S)
  BY <1>2, <1>6, SumEqual
<1>8. SumFunctionOnSet(LiveTimes(a, t), S \cup {e})
        = LiveTimes(a, t)[e] + SumFunctionOnSet(LiveTimes(a, t), S)
  BY <1>2, <1>3, <1>5, <1>6, SumAdd
<1>9. LiveIn(b, t, A, since) = SumFunctionOnSet(LiveTimes(a, t), S)
  BY <1>7 DEF LiveIn, S
<1>10. LiveIn(a, t, A, since) = SumFunctionOnSet(LiveTimes(a, t), Begun(a, A, since))
  BY DEF LiveIn
<1>11. LiveTimes(a, t)[e] = t - e.start /\ t - e.start \in Int
  BY <1>3
<1>12. CASE e.app \in A /\ e.start >= since
  BY <1>2, <1>4, <1>8, <1>9, <1>10, <1>11, <1>12 DEF b, Share
<1>13. CASE ~(e.app \in A /\ e.start >= since)
  BY <1>2, <1>4, <1>9, <1>10, <1>13 DEF b, Share
<1> QED BY <1>12, <1>13

LEMMA OneMore ==
  ASSUME NEW a, IsFiniteSet(a), NEW t \in Int, \A s \in a : s.start \in Int, NEW A, NEW since,
         NEW e, e \notin a, e.start = t
  PROVE  LiveIn(a \cup {e}, t, A, since) = LiveIn(a, t, A, since)
<1> DEFINE b == a \cup {e}
<1>1. IsFiniteSet(b) /\ (\A s \in b : s.start \in Int) /\ e \in b
  BY FS_AddElement
<1>4. b \ {e} = a
  OBVIOUS
<1>2. LiveIn(a, t, A, since) \in Int
  BY BegunAre
<1> HIDE DEF b
<1>3. LiveIn(b, t, A, since) = LiveIn(b \ {e}, t, A, since) + Share(e, t, A, since)
  BY <1>1, OneLess
<1>5. Share(e, t, A, since) = 0
  BY DEF Share
<1> QED BY <1>2, <1>3, <1>4, <1>5 DEF b

(* A minute adds one to every session's live time. *)
LEMMA MinuteAdds ==
  ASSUME NEW a, IsFiniteSet(a), NEW t \in Int, \A s \in a : s.start \in Int, NEW A, NEW since
  PROVE  LiveIn(a, t + 1, A, since)
           = LiveIn(a, t, A, since) + Cardinality(Begun(a, A, since))
<1> DEFINE S == Begun(a, A, since)
           f == LiveTimes(a, t + 1)
           g == LiveTimes(a, t)
<1>1. IsFiniteSet(S) /\ S \subseteq a
  BY BegunAre
<1>2. \A s \in a : g[s] = t - s.start /\ g[s] \in Int
  BY BegunAre
<1>3. \A s \in a : f[s] = t + 1 - s.start
  BY DEF LiveTimes
<1>4. \A s \in S : g[s] \in Int /\ f[s] = g[s] + 1
  BY <1>1, <1>2, <1>3
<1> HIDE DEF S, f, g
<1>5. SumFunctionOnSet(f, S) = SumFunctionOnSet(g, S) + 1 * Cardinality(S)
  BY <1>1, <1>4, SumPlus
<1>6. Cardinality(S) \in Nat
  BY <1>1, FS_CardinalityType
<1> QED BY <1>5, <1>6 DEF LiveIn, S, f, g

(* What the types say of the sessions. *)
LEMMA SessionsTyped ==
  TypeOK => \A s \in active : s.start \in Nat /\ s.start <= now /\ s.app \in Apps /\ s.pid \in Pids
BY DEF TypeOK, Session

(* The handled start of a fresh pid moves no sum. *)
LEMMA StartUsed ==
  ASSUME TypeOK, Distinct, NEW w \in Wrappers, WrapperStart(w), NEW A, NEW since
  PROVE  UsedOf(A, since)' = UsedOf(A, since)
<1> DEFINE m == [type |-> "start", from |-> w]
           pid == wrapper[w].pid
           app == wrapper[w].app
           row == [pid |-> pid, app |-> app, start |-> now, open |-> TRUE, duration |-> 0]
           s0 == [pid |-> pid, app |-> app, start |-> now]
<1>1. m \in net /\ now' = now /\ pid \in Pids /\ app \in Apps /\ now \in Nat
  BY DEF WrapperStart, Answer, TypeOK, Wrapper
<1>2. \A s \in active : s.pid # pid
  BY <1>1 DEF Distinct
<1>3. active' = {s \in active : s.pid # pid} \cup {s0} /\ rows' = Append(rows, row)
  BY DEF WrapperStart
<1>4. row \in AnyRow /\ row.open
  BY <1>1 DEF AnyRow
<1>5. s0.pid = pid /\ s0.start = now
  OBVIOUS
<1> HIDE DEF m, row, s0, pid, app
<1>6. CompletedIn(rows', A, since) = CompletedIn(rows, A, since)
  BY <1>3, <1>4, AppendAdds, RowsTyped
<1>7. active' = active \cup {s0} /\ s0 \notin active
  BY <1>2, <1>3, <1>5
<1>8. IsFiniteSet(active) /\ (\A s \in active : s.start \in Int) /\ now \in Int
  BY <1>1, SessionsTyped DEF Distinct
<1>12. LiveIn(active \cup {s0}, now, A, since) = LiveIn(active, now, A, since)
  BY <1>5, <1>7, <1>8, OneMore
<1> QED BY <1>1, <1>6, <1>7, <1>12 DEF UsedOf

(* The sums of a state are integers. *)
LEMMA SumsTyped ==
  ASSUME TypeOK, Distinct, NEW A, NEW since
  PROVE  /\ CompletedIn(rows, A, since) \in Nat
         /\ LiveIn(active, now, A, since) \in Int
         /\ IsFiniteSet(active) /\ \A s \in active : s.start \in Int
<1>1. IsFiniteSet(active) /\ now \in Int
  BY DEF Distinct, TypeOK
<1>2. \A s \in active : s.start \in Int
  BY SessionsTyped
<1> QED BY <1>1, <1>2, BegunAre, RowsTyped, EndedAre

(* The one open row of a process, closed by the stop, and the time booked. *)
LEMMA StopBooks ==
  ASSUME TypeOK, Distinct, NEW app \in Apps, NEW pid \in Pids, EndSession(app, pid),
         NEW i \in OpenRows(app, pid), NEW A, NEW since
  PROVE  CompletedIn(rows', A, since)
           = CompletedIn(rows, A, since) + Share(rows[i], now, A, since)
<1>1. rows \in Seq(Row) /\ rows \in Seq(AnyRow) /\ now \in Nat
  BY RowsTyped DEF TypeOK
<1>2. i \in DOMAIN rows /\ rows[i].open /\ rows[i].app = app /\ rows[i].pid = pid
  BY DEF OpenRows
<1>3. \A j \in OpenRows(app, pid) : j = i
  BY DEF OpenRows, OpenIds, Distinct
<1>4. PICK newest \in OpenRows(app, pid) : rows' = CloseRows(OpenRows(app, pid), newest)
  BY DEF EndSession
<1>5. newest = i
  BY <1>3
<1> DEFINE d == now - rows[i].start
<1>6. rows[i] \in Row /\ d \in Nat
  <2>1. rows[i] \in Row
    BY <1>1, <1>2
  <2> QED BY <1>1, <2>1 DEF Row
<1>7. rows' \in Seq(AnyRow)
  <2>1. rows' \in Seq(Row)
    BY <1>4, CloseRowsType DEF OpenRows
  <2>2. Row \subseteq AnyRow
    BY <1>1 DEF Row, AnyRow
  <2> QED BY <2>1, <2>2
<1>8. DOMAIN rows' = DOMAIN rows /\ \A k \in DOMAIN rows : k # i => rows'[k] = rows[k]
  BY <1>3, <1>4 DEF CloseRows
<1>9. rows'[i] = [rows[i] EXCEPT !.open = FALSE, !.duration = d]
  BY <1>2, <1>4, <1>5 DEF CloseRows
<1> HIDE DEF d
<1>10. ~rows'[i].open /\ rows'[i].duration = d /\ rows'[i].app = rows[i].app
       /\ rows'[i].start = rows[i].start
  BY <1>6, <1>9 DEF Row
<1> QED BY <1>1, <1>2, <1>6, <1>7, <1>8, <1>10, CloseBooks DEF d

(* A handled stop gives no minute back, and moves no sum of a session that *)
(* agentd knew: the time it lived is the time booked.                      *)
LEMMA StopUsed ==
  ASSUME TypeOK, Distinct, ActiveBacked, NEW w \in Wrappers, WrapperStop(w), NEW A, NEW since
  PROVE  /\ UsedOf(A, since)' >= UsedOf(A, since)
         /\ (\E s \in active : s.pid = wrapper[w].pid)
              => UsedOf(A, since)' = UsedOf(A, since)
<1> DEFINE pid == wrapper[w].pid
           app == wrapper[w].app
           Book(t) == IF app \in A /\ t >= since THEN now - t ELSE 0
<1>1. Pending(w) /\ now' = now /\ pid \in Pids /\ app \in Apps /\ now \in Nat
  BY DEF WrapperStop, Answer, TypeOK, Wrapper, Pending
<1>2. active' = {s \in active : s.pid # pid} /\ EndSession(app, pid)
  BY DEF WrapperStop
<1>3. /\ CompletedIn(rows, A, since) \in Nat
      /\ LiveIn(active, now, A, since) \in Int
      /\ IsFiniteSet(active) /\ \A s \in active : s.start \in Int
  BY SumsTyped
<1>4. ASSUME NEW s \in active, s.pid = pid
      PROVE  /\ active' = active \ {s}
             /\ \E i \in OpenRows(app, pid) : rows[i].start = s.start
             /\ LiveIn(active, now, A, since) = LiveIn(active', now, A, since) + Book(s.start)
  <2>1. active' = active \ {s}
    BY <1>2, <1>4 DEF Distinct
  <2>2. s.app = app
    BY <1>1, <1>4 DEF Distinct
  <2>3. \E i \in OpenRows(app, pid) : rows[i].start = s.start
    BY <1>4, <2>2 DEF ActiveBacked, IsLatest
  <2>4. LiveIn(active, now, A, since)
          = LiveIn(active \ {s}, now, A, since) + Share(s, now, A, since)
    BY <1>1, <1>3, OneLess
  <2>5. Share(s, now, A, since) = Book(s.start)
    BY <2>2 DEF Share
  <2> QED BY <2>1, <2>2, <2>3, <2>4, <2>5
<1>5. \A i \in OpenRows(app, pid) :
        CompletedIn(rows', A, since) = CompletedIn(rows, A, since) + Book(rows[i].start)
  <2> TAKE i \in OpenRows(app, pid)
  <2>1. CompletedIn(rows', A, since) = CompletedIn(rows, A, since) + Share(rows[i], now, A, since)
    BY <1>1, <1>2, StopBooks
  <2>2. Share(rows[i], now, A, since) = Book(rows[i].start)
    BY DEF Share, OpenRows
  <2> QED BY <2>1, <2>2
<1>6. \A i \in OpenRows(app, pid) : Book(rows[i].start) \in Nat
  <2> TAKE i \in OpenRows(app, pid)
  <2>1. rows[i] \in Row
    BY DEF OpenRows, TypeOK
  <2>2. rows[i].start \in 0..now
    BY <2>1 DEF Row
  <2> QED BY <1>1, <2>2
<1>7. UsedOf(A, since)' = CompletedIn(rows', A, since) + LiveIn(active', now, A, since)
  BY <1>1 DEF UsedOf
<1>8. UsedOf(A, since) = CompletedIn(rows, A, since) + LiveIn(active, now, A, since)
  BY DEF UsedOf
<1>9. CASE \E s \in active : s.pid = pid
  <2>1. PICK s \in active : s.pid = pid
    BY <1>9
  <2>2. PICK i \in OpenRows(app, pid) : rows[i].start = s.start
    BY <1>4, <2>1
  <2>3. LiveIn(active', now, A, since) \in Int
    <3>1. IsFiniteSet(active') /\ active' \subseteq active
      BY <1>2, <1>3, FS_Subset
    <3>2. \A e \in active' : e.start \in Int
      BY <1>3, <3>1
    <3> QED BY <1>1, <3>1, <3>2, BegunAre
  <2>4. LiveIn(active, now, A, since) = LiveIn(active', now, A, since) + Book(rows[i].start)
    BY <1>4, <2>1, <2>2
  <2>5. CompletedIn(rows', A, since) = CompletedIn(rows, A, since) + Book(rows[i].start)
    BY <1>5
  <2>6. Book(rows[i].start) \in Nat
    BY <1>6
  <2> HIDE DEF Book
  <2> QED BY <1>3, <1>7, <1>8, <2>3, <2>4, <2>5, <2>6
<1>10. CASE ~\E s \in active : s.pid = pid
  <2>1. active' = active
    BY <1>2, <1>10
  <2>2. CASE OpenRows(app, pid) # {}
    <3>1. PICK i \in OpenRows(app, pid) : TRUE
      BY <2>2
    <3>2. /\ CompletedIn(rows', A, since) = CompletedIn(rows, A, since) + Book(rows[i].start)
          /\ Book(rows[i].start) \in Nat
      BY <1>5, <1>6
    <3> HIDE DEF Book
    <3> QED BY <1>3, <1>7, <1>8, <1>10, <2>1, <3>2
  <2>3. CASE OpenRows(app, pid) = {}
    <3> DEFINE row == [pid |-> pid, app |-> app, start |-> now, open |-> FALSE, duration |-> 0]
    <3>1. rows' = Append(rows, row) /\ row \in AnyRow /\ row.duration = 0
      BY <1>1, <1>2, <2>3 DEF EndSession, AnyRow
    <3> HIDE DEF row
    <3>2. CompletedIn(rows', A, since) = CompletedIn(rows, A, since)
      BY <3>1, AppendAdds, RowsTyped
    <3> QED BY <1>3, <1>7, <1>8, <1>10, <2>1, <3>2
  <2> QED BY <2>2, <2>3
<1> QED BY <1>9, <1>10

-----------------------------------------------------------------------------
(* Its start was handled, or lost; its stop was not.                       *)
Counted(w) == wrapper[w].pc \in {"running", "stopping"}

(* Without timeouts and kills a wrapper waits exactly as long as its       *)
(* report is on its way.                                                   *)
InStep(w) ==
  /\ [type |-> "start", from |-> w] \in net <=> wrapper[w].pc = "starting"
  /\ [type |-> "stop", from |-> w] \in net <=> wrapper[w].pc = "stopping"
  /\ wrapper[w].alive => wrapper[w].pc \in {"starting", "running"}

Lockstep ==
  /\ \A w \in Wrappers : InStep(w)
  /\ \A s \in active : \E w \in Wrappers : Counted(w) /\ s.pid = wrapper[w].pid
  /\ up \/ active = {}

(* The report that is answered, and the wrapper that goes on. *)
LEMMA AnswerEffect ==
  ASSUME TypeOK, NEW w \in Wrappers, InStep(w), NEW type \in {"start", "stop"},
         Answer([type |-> type, from |-> w])
  PROVE  /\ up /\ up' = up
         /\ wrapper[w].pc = IF type = "start" THEN "starting" ELSE "stopping"
         /\ wrapper'[w].pc = IF type = "start" THEN "running" ELSE "idle"
         /\ wrapper'[w].pid = wrapper[w].pid /\ wrapper'[w].alive = wrapper[w].alive
         /\ \A v \in Wrappers \ {w} : wrapper'[v] = wrapper[v]
         /\ net' = net \ {[type |-> type, from |-> w]}
<1> DEFINE m == [type |-> type, from |-> w]
<1>1. m \in net /\ m.type = type /\ m.from = w
  BY DEF Answer
<1>2. wrapper[w].pc = IF type = "start" THEN "starting" ELSE "stopping"
  BY <1>1 DEF InStep
<1>3. wrapper' = [wrapper EXCEPT ![w] = GoOn(wrapper[w])] /\ up /\ up' = up /\ net' = net \ {m}
  BY <1>1, <1>2 DEF Answer
<1>4. wrapper[w] \in Wrapper /\ wrapper'[w] = GoOn(wrapper[w])
  BY <1>3 DEF TypeOK
<1>5. wrapper'[w].pc = IF type = "start" THEN "running" ELSE "idle"
  BY <1>2, <1>4 DEF GoOn, Wrapper
<1>6. wrapper'[w].pid = wrapper[w].pid /\ wrapper'[w].alive = wrapper[w].alive
  BY <1>4, GoOnKeeps
<1>7. \A v \in Wrappers \ {w} : wrapper'[v] = wrapper[v]
  BY <1>3 DEF TypeOK
<1> QED BY <1>2, <1>3, <1>5, <1>6, <1>7

(* Reports of others, and the other report of its own, are not that one. *)
LEMMA ReportsDiffer ==
  \A v, w : /\ [type |-> "start", from |-> v] # [type |-> "stop", from |-> w]
            /\ v # w => /\ [type |-> "start", from |-> v] # [type |-> "start", from |-> w]
                        /\ [type |-> "stop", from |-> v] # [type |-> "stop", from |-> w]
OBVIOUS

(* A handler, failing or not, keeps the wrappers in step. *)
LEMMA HandleLockstep ==
  ASSUME TypeOK, Lockstep, NEW w \in Wrappers, Handle(w)
  PROVE  Lockstep'
<1>1. \A v \in Wrappers : InStep(v)
  BY DEF Lockstep
<1>2. CASE WrapperStart(w) \/ WrapperStartFails(w)
  <2>1. Answer([type |-> "start", from |-> w])
    BY <1>2 DEF WrapperStart, WrapperStartFails
  <2>2. /\ up /\ up' = up
        /\ wrapper[w].pc = "starting" /\ wrapper'[w].pc = "running"
        /\ wrapper'[w].pid = wrapper[w].pid /\ wrapper'[w].alive = wrapper[w].alive
        /\ \A v \in Wrappers \ {w} : wrapper'[v] = wrapper[v]
        /\ net' = net \ {[type |-> "start", from |-> w]}
    BY <1>1, <2>1, AnswerEffect
  <2>3. \A v \in Wrappers : InStep(v)'
    BY <1>1, <2>2, ReportsDiffer DEF InStep
  <2>4. \A s \in active' : s \in active \/ s.pid = wrapper[w].pid
    BY <1>2 DEF WrapperStart, WrapperStartFails
  <2>5. \A s \in active' : \E v \in Wrappers : Counted(v)' /\ s.pid = wrapper'[v].pid
    BY <2>2, <2>4 DEF Lockstep, Counted
  <2> QED BY <2>2, <2>3, <2>5 DEF Lockstep
<1>3. CASE WrapperStop(w) \/ WrapperStopFails(w)
  <2>1. Answer([type |-> "stop", from |-> w])
    BY <1>3 DEF WrapperStop, WrapperStopFails
  <2>2. /\ up /\ up' = up
        /\ wrapper[w].pc = "stopping" /\ wrapper'[w].pc = "idle"
        /\ wrapper'[w].pid = wrapper[w].pid /\ wrapper'[w].alive = wrapper[w].alive
        /\ \A v \in Wrappers \ {w} : wrapper'[v] = wrapper[v]
        /\ net' = net \ {[type |-> "stop", from |-> w]}
    BY <1>1, <2>1, AnswerEffect
  <2>3. \A v \in Wrappers : InStep(v)'
    BY <1>1, <2>2, ReportsDiffer DEF InStep
  <2>4. active' = {s \in active : s.pid # wrapper[w].pid}
    BY <1>3 DEF WrapperStop, WrapperStopFails
  <2>5. \A s \in active' : \E v \in Wrappers : Counted(v)' /\ s.pid = wrapper'[v].pid
    BY <2>2, <2>4 DEF Lockstep, Counted
  <2> QED BY <2>2, <2>3, <2>5 DEF Lockstep
<1> QED BY <1>2, <1>3 DEF Handle

(* The steps of a run that nothing disturbs. *)
CleanStep ==
  \/ Advance
  \/ NewDay
  \/ \E w \in Wrappers, app \in Apps, p \in Pids : Launch(w, app, p)
  \/ \E w \in Wrappers : ChildExits(w) \/ Reap(w) \/ WrapperStart(w) \/ WrapperStop(w)
  \/ UNCHANGED vars

(* agentd's outages keep them in step too, only timeouts and kills do not. *)
LEMMA LockstepStep ==
  ASSUME TypeOK, Lockstep,
         CleanStep \/ Crash \/ Restart \/ \E w \in Wrappers : Handle(w)
  PROVE  Lockstep'
<1>1. \A w \in Wrappers : InStep(w) /\ wrapper[w] \in Wrapper
  BY DEF Lockstep, TypeOK
<1>2. CASE Advance \/ NewDay \/ Restart \/ UNCHANGED vars
  <2>1. wrapper' = wrapper /\ net' = net /\ active' = active /\ (up => up')
    BY <1>2 DEF Advance, NewDay, Restart, vars, agentd
  <2> QED BY <2>1 DEF Lockstep, InStep, Counted
<1>3. ASSUME NEW w \in Wrappers, NEW app \in Apps, NEW p \in Pids, Launch(w, app, p)
      PROVE  Lockstep'
  <2> DEFINE fields == [pc |-> "idle", app |-> app, pid |-> p, alive |-> TRUE]
  <2>1. /\ wrapper[w].pc = "idle" /\ (\A m \in net : m.from # w)
        /\ active' = active /\ up' = up
        /\ Send(w, "start", "starting", "running", fields)
    BY <1>3 DEF Launch, agentd
  <2>2. \A v \in Wrappers \ {w} : wrapper'[v] = wrapper[v]
    BY <2>1 DEF Send, TypeOK
  <2>3. \/ wrapper'[w].pc = "starting" /\ net' = net \cup {[type |-> "start", from |-> w]}
        \/ wrapper'[w].pc = "running" /\ net' = net
    BY <2>1 DEF Send, TypeOK
  <2>4. /\ [type |-> "start", from |-> w] \notin net
        /\ [type |-> "stop", from |-> w] \notin net
    BY <2>1
  <2>5. \A v \in Wrappers : InStep(v)'
    <3>1. ASSUME NEW v \in Wrappers \ {w} PROVE InStep(v)'
      <4>1. \A type \in {"start", "stop"} :
              [type |-> type, from |-> v] \in net' <=> [type |-> type, from |-> v] \in net
        BY <2>3
      <4> QED BY <1>1, <2>2, <4>1 DEF InStep
    <3>2. /\ [type |-> "stop", from |-> w] \notin net'
          /\ [type |-> "start", from |-> w] \in net' <=> wrapper'[w].pc = "starting"
          /\ wrapper'[w].pc \in {"starting", "running"}
      BY <2>3, <2>4, ReportsDiffer
    <3>3. InStep(w)'
      BY <3>2 DEF InStep
    <3> QED BY <3>1, <3>3
  <2>6. \A s \in active' : \E v \in Wrappers : Counted(v)' /\ s.pid = wrapper'[v].pid
    BY <2>1, <2>2 DEF Lockstep, Counted
  <2> QED BY <2>1, <2>5, <2>6 DEF Lockstep
<1>4. ASSUME NEW w \in Wrappers, ChildExits(w) PROVE Lockstep'
  <2>1. net' = net /\ active' = active /\ up' = up
    BY <1>4 DEF ChildExits, agentd
  <2>2. \A v \in Wrappers : /\ wrapper'[v].pc = wrapper[v].pc
                            /\ wrapper'[v].pid = wrapper[v].pid
                            /\ wrapper'[v].alive => wrapper[v].alive
    BY <1>1, <1>4 DEF ChildExits, TypeOK, Wrapper
  <2> QED BY <2>1, <2>2 DEF Lockstep, InStep, Counted
<1>5. ASSUME NEW w \in Wrappers, Reap(w) PROVE Lockstep'
  <2>1. /\ wrapper[w].pc = "running" /\ ~wrapper[w].alive
        /\ active' = active /\ up' = up
        /\ Send(w, "stop", "stopping", "idle", wrapper[w])
    BY <1>5 DEF Reap, agentd
  <2>2. \A v \in Wrappers \ {w} : wrapper'[v] = wrapper[v]
    BY <2>1 DEF Send, TypeOK
  <2>3. wrapper'[w].pid = wrapper[w].pid /\ ~wrapper'[w].alive
    BY <1>1, <2>1 DEF Send, TypeOK, Wrapper
  <2>4. \/ up /\ wrapper'[w].pc = "stopping" /\ net' = net \cup {[type |-> "stop", from |-> w]}
        \/ ~up /\ wrapper'[w].pc = "idle" /\ net' = net
    BY <1>1, <2>1 DEF Send, TypeOK, Wrapper
  <2>5. \A v \in Wrappers : InStep(v)'
    <3>1. ASSUME NEW v \in Wrappers \ {w} PROVE InStep(v)'
      <4>1. \A type \in {"start", "stop"} :
              [type |-> type, from |-> v] \in net' <=> [type |-> type, from |-> v] \in net
        BY <2>4
      <4> QED BY <1>1, <2>2, <4>1 DEF InStep
    <3>2. /\ [type |-> "start", from |-> w] \notin net
          /\ [type |-> "stop", from |-> w] \notin net
      BY <1>1, <2>1 DEF InStep
    <3>3. /\ [type |-> "start", from |-> w] \notin net'
          /\ [type |-> "stop", from |-> w] \in net' <=> wrapper'[w].pc = "stopping"
          /\ wrapper'[w].pc # "starting"
      BY <2>4, <3>2, ReportsDiffer
    <3>4. InStep(w)'
      BY <2>3, <3>3 DEF InStep
    <3> QED BY <3>1, <3>4
  <2>6. \A s \in active' : \E v \in Wrappers : Counted(v)' /\ s.pid = wrapper'[v].pid
    BY <2>1, <2>2, <2>3, <2>4 DEF Lockstep, Counted
  <2> QED BY <2>1, <2>5, <2>6 DEF Lockstep
<1>6. ASSUME NEW w \in Wrappers, Handle(w) PROVE Lockstep'
  BY <1>6, HandleLockstep
<1>7. CASE Crash
  <2>1. active' = {} /\ net' = {}
    BY <1>7 DEF Crash
  <2>2. \A v \in Wrappers : wrapper'[v] = GoOn(wrapper[v])
    BY <1>7 DEF Crash
  <2>3. \A v \in Wrappers : /\ wrapper'[v].pc \in {"idle", "running"}
                            /\ wrapper[v].pc \in {"starting", "running"}
                                 => wrapper'[v].pc = "running"
                            /\ wrapper'[v].alive = wrapper[v].alive
    <3> SUFFICES ASSUME NEW record \in Wrapper
                 PROVE  /\ GoOn(record).pc \in {"idle", "running"}
                        /\ record.pc \in {"starting", "running"} => GoOn(record).pc = "running"
                        /\ GoOn(record).alive = record.alive
      BY <1>1, <2>2
    <3>1. record.pc \in {"idle", "starting", "running", "stopping"}
      BY DEF Wrapper
    <3>2. /\ GoOn(record).alive = record.alive
          /\ GoOn(record).pc = CASE record.pc = "starting" -> "running"
                                 [] record.pc = "stopping" -> "idle"
                                 [] OTHER -> record.pc
      BY DEF GoOn, Wrapper
    <3> QED BY <3>1, <3>2
  <2>4. ASSUME NEW v \in Wrappers PROVE InStep(v)'
    BY <1>1, <2>1, <2>3 DEF InStep
  <2> QED BY <2>1, <2>4 DEF Lockstep
<1>8. CASE CleanStep
  BY <1>2, <1>3, <1>4, <1>5, <1>6, <1>8 DEF CleanStep, Handle
<1> QED BY <1>2, <1>6, <1>7, <1>8

-----------------------------------------------------------------------------
(* agentd has heard of every child that runs, and no row was left open.    *)
Tracked ==
  /\ up
  /\ \A w \in Wrappers : Counted(w) => \E s \in active : s.pid = wrapper[w].pid
  /\ \A i \in OpenIds : \E w \in Wrappers : Counted(w) /\ rows[i].pid = wrapper[w].pid

Undisturbed == Lockstep /\ Distinct /\ Tracked

(* Who has a report on its way is no idle wrapper. *)
LEMMA PendingInStep ==
  ASSUME TypeOK, Lockstep, NEW w \in Wrappers, Pending(w)
  PROVE  wrapper[w].pc # "idle"
<1>1. CASE \E m \in net : m.from = w
  <2>1. PICK m \in net : m.from = w
    BY <1>1
  <2>2. m \in Report
    BY DEF TypeOK
  <2>3. m = [type |-> "start", from |-> w] \/ m = [type |-> "stop", from |-> w]
    BY <2>1, <2>2 DEF Report
  <2>4. InStep(w)
    BY DEF Lockstep
  <2> QED BY <2>3, <2>4 DEF InStep
<1> QED BY <1>1 DEF Pending

(* Even a pid that comes again is free when it does. *)
LEMMA LaunchFree ==
  ASSUME TypeOK, Lockstep, Tracked,
         NEW w \in Wrappers, NEW app \in Apps, NEW p \in Pids, Launch(w, app, p),
         "race" \notin Reused(p)
  PROVE  ~InUse(p)
<1>1. \A v \in Wrappers : wrapper[v].pc # "idle" => wrapper[v].pid # p
  <2> TAKE v \in Wrappers
  <2>1. wrapper[v].pc \in {"idle", "starting", "running", "stopping"}
    BY DEF TypeOK, Wrapper
  <2>2. wrapper[v].pc = "stopping" => wrapper[v].pid # p
    BY DEF Reused
  <2> QED BY <2>1, <2>2 DEF Launch, HasPid
<1>2. \A v \in Wrappers : Pending(v) => wrapper[v].pid # p
  BY <1>1, PendingInStep
<1>3. \A s \in active : s.pid # p
  BY <1>1 DEF Lockstep, Counted
<1>4. \A i \in OpenIds : rows[i].pid # p
  BY <1>1 DEF Tracked, Counted
<1> QED BY <1>2, <1>3, <1>4 DEF InUse

(* Nothing disturbs the run, so agentd keeps track. *)
LEMMA TrackedStep ==
  ASSUME TypeOK, Undisturbed, CleanStep
  PROVE  Tracked'
<1> USE DEF Undisturbed
<1>1. up /\ \A w \in Wrappers : wrapper[w] \in Wrapper /\ InStep(w)
  BY DEF Tracked, Lockstep, TypeOK
<1>2. CASE Advance \/ NewDay \/ UNCHANGED vars
  <2>1. wrapper' = wrapper /\ active' = active /\ rows' = rows /\ up' = up
    BY <1>2 DEF Advance, NewDay, vars, agentd
  <2> QED BY <2>1 DEF Tracked, Counted, OpenIds
<1>3. ASSUME NEW w \in Wrappers, NEW app \in Apps, NEW p \in Pids, Launch(w, app, p)
      PROVE  Tracked'
  <2>1. /\ wrapper[w].pc = "idle" /\ wrapper'[w].pc = "starting"
        /\ \A v \in Wrappers \ {w} : wrapper'[v] = wrapper[v]
    BY <1>1, <1>3 DEF Launch, Send, TypeOK
  <2>2. active' = active /\ rows' = rows /\ up' = up
    BY <1>3 DEF Launch, agentd
  <2>3. \A v \in Wrappers : (Counted(v)' <=> Counted(v))
                            /\ (Counted(v) => wrapper'[v].pid = wrapper[v].pid)
    BY <2>1 DEF Counted
  <2> QED BY <1>1, <2>2, <2>3 DEF Tracked, OpenIds
<1>4. ASSUME NEW w \in Wrappers, ChildExits(w) \/ Reap(w) PROVE Tracked'
  <2>1. active' = active /\ rows' = rows /\ up' = up
    BY <1>4 DEF ChildExits, Reap, agentd
  <2>2. \A v \in Wrappers : (Counted(v)' <=> Counted(v)) /\ wrapper'[v].pid = wrapper[v].pid
    <3>1. CASE ChildExits(w)
      BY <1>1, <3>1 DEF ChildExits, Counted, TypeOK, Wrapper
    <3>2. CASE Reap(w)
      BY <1>1, <3>2 DEF Reap, Send, Counted, TypeOK, Wrapper
    <3> QED BY <1>4, <3>1, <3>2
  <2> QED BY <1>1, <2>1, <2>2 DEF Tracked, OpenIds
<1>5. ASSUME NEW w \in Wrappers, WrapperStart(w) PROVE Tracked'
  <2> DEFINE s0 == [pid |-> wrapper[w].pid, app |-> wrapper[w].app, start |-> now]
             row == [pid |-> wrapper[w].pid, app |-> wrapper[w].app, start |-> now,
                     open |-> TRUE, duration |-> 0]
  <2>1. Answer([type |-> "start", from |-> w])
    BY <1>5 DEF WrapperStart
  <2>2. /\ up' = up /\ wrapper'[w].pc = "running" /\ wrapper[w].pc = "starting"
        /\ wrapper'[w].pid = wrapper[w].pid
        /\ \A v \in Wrappers \ {w} : wrapper'[v] = wrapper[v]
    BY <1>1, <2>1, AnswerEffect
  <2>3. \A s \in active : s.pid # wrapper[w].pid
    BY <2>1 DEF Distinct, Answer
  <2>4. active' = active \cup {s0} /\ s0.pid = wrapper[w].pid
    BY <1>5, <2>3 DEF WrapperStart
  <2>5. row \in Row /\ rows' = Append(rows, row) /\ row.pid = wrapper[w].pid
    BY <1>5 DEF TypeOK, Wrapper, Row, WrapperStart
  <2> HIDE DEF row, s0
  <2>6. \A i \in OpenIds' : \/ i \in OpenIds /\ rows'[i] = rows[i]
                            \/ rows'[i].pid = wrapper[w].pid
    BY <2>5 DEF OpenIds, TypeOK
  <2>7. \A v \in Wrappers : Counted(v)' => \E s \in active' : s.pid = wrapper'[v].pid
    <3> TAKE v \in Wrappers
    <3> HAVE Counted(v)'
    <3>1. CASE v = w
      BY <2>2, <2>4, <3>1
    <3>2. CASE v # w
      <4>1. Counted(v) /\ wrapper'[v] = wrapper[v]
        BY <2>2, <3>2 DEF Counted
      <4> QED BY <2>4, <4>1 DEF Tracked
    <3> QED BY <3>1, <3>2
  <2>8. ASSUME NEW i \in OpenIds'
        PROVE  \E v \in Wrappers : Counted(v)' /\ rows'[i].pid = wrapper'[v].pid
    <3>1. CASE rows'[i].pid = wrapper[w].pid
      BY <2>2, <3>1 DEF Counted
    <3>2. CASE i \in OpenIds /\ rows'[i] = rows[i]
      <4>1. PICK v \in Wrappers : Counted(v) /\ rows[i].pid = wrapper[v].pid
        BY <3>2 DEF Tracked
      <4>2. v # w
        BY <2>2, <4>1 DEF Counted
      <4> QED BY <2>2, <3>2, <4>1, <4>2 DEF Counted
    <3> QED BY <2>6, <3>1, <3>2
  <2> QED BY <1>1, <2>2, <2>7, <2>8 DEF Tracked
<1>6. ASSUME NEW w \in Wrappers, WrapperStop(w) PROVE Tracked'
  <2> DEFINE app == wrapper[w].app
             pid == wrapper[w].pid
  <2>1. Answer([type |-> "stop", from |-> w]) /\ app \in Apps /\ pid \in Pids
    BY <1>1, <1>6 DEF WrapperStop, Wrapper
  <2>2. /\ up' = up /\ wrapper'[w].pc = "idle" /\ wrapper[w].pc = "stopping"
        /\ \A v \in Wrappers \ {w} : wrapper'[v] = wrapper[v]
    BY <1>1, <2>1, AnswerEffect
  <2>3. active' = {s \in active : s.pid # pid} /\ EndSession(app, pid)
    BY <1>6 DEF WrapperStop
  <2>4. OpenIds' = OpenIds \ OpenRows(app, pid) /\ \A i \in OpenIds' : rows'[i] = rows[i]
    BY <2>1, <2>3, EndSessionOpen
  <2>5. \A v \in Wrappers : v # w /\ Counted(v) => wrapper[v].pid # pid
    BY <2>2 DEF Distinct, Pending, Counted
  <2>6. \A v \in Wrappers : Counted(v)' => v # w /\ Counted(v) /\ wrapper'[v] = wrapper[v]
    BY <2>2 DEF Counted
  <2>7. \A i \in OpenIds' : i \in OpenIds /\ rows[i].pid # pid
    <3> TAKE i \in OpenIds'
    <3>1. i \in OpenIds /\ i \notin OpenRows(app, pid)
      BY <2>4
    <3>2. Pending(w)
      BY <2>2 DEF Pending
    <3>3. rows[i].pid = pid => rows[i].app = app
      BY <3>1, <3>2 DEF Distinct
    <3> QED BY <3>1, <3>3 DEF OpenRows, OpenIds
  <2>8. \A v \in Wrappers : Counted(v)' => \E s \in active' : s.pid = wrapper'[v].pid
    BY <2>3, <2>5, <2>6 DEF Tracked
  <2>9. ASSUME NEW i \in OpenIds'
        PROVE  \E v \in Wrappers : Counted(v)' /\ rows'[i].pid = wrapper'[v].pid
    <3>1. PICK v \in Wrappers : Counted(v) /\ rows[i].pid = wrapper[v].pid
      BY <2>7 DEF Tracked
    <3>2. v # w
      BY <2>7, <3>1
    <3> QED BY <2>2, <2>4, <3>1, <3>2 DEF Counted
  <2> QED BY <1>1, <2>2, <2>8, <2>9 DEF Tracked
<1> QED BY <1>2, <1>3, <1>4, <1>5, <1>6 DEF CleanStep

(* And so the run stays undisturbed. *)
LEMMA UndisturbedStep ==
  ASSUME TypeOK, Undisturbed, CleanStep,
         \A w \in Wrappers, app \in Apps, p \in Pids :
           Launch(w, app, p) => "race" \notin Reused(p)
  PROVE  Undisturbed'
<1>1. Lockstep'
  BY LockstepStep DEF Undisturbed
<1>2. Tracked'
  BY TrackedStep
<1>3. [Next]_vars
  BY DEF CleanStep, Next, Handle
<1>4. Distinct'
  BY <1>3, DistinctStep, LaunchFree DEF Undisturbed
<1> QED BY <1>1, <1>2, <1>4 DEF Undisturbed

-----------------------------------------------------------------------------
(* One-to-one into a finite set: finite, and no larger. *)
LEMMA NoLarger ==
  ASSUME NEW S, NEW T, IsFiniteSet(T), NEW h, \A x \in S : h[x] \in T,
         \A x, y \in S : h[x] = h[y] => x = y
  PROVE  IsFiniteSet(S) /\ Cardinality(S) <= Cardinality(T)
<1> DEFINE f == [x \in S |-> h[x]]
<1>1. f \in Injection(S, T)
  BY DEF Injection, IsInjective
<1> HIDE DEF f
<1> QED BY <1>1, FS_Injection

(* As many sessions as there are wrappers they belong to, at most. *)
LEMMA SessionsFit ==
  ASSUME TypeOK, Lockstep, Distinct
  PROVE  Cardinality(active) <= Cardinality({w \in Wrappers : Counted(w)})
<1> DEFINE T == {w \in Wrappers : Counted(w)}
           h == [s \in active |-> CHOOSE w \in T : s.pid = wrapper[w].pid]
<1>1. IsFiniteSet(T)
  BY FS_Subset, LogAssumption
<1>2. \A s \in active : h[s] \in T /\ s.pid = wrapper[h[s]].pid
  BY DEF Lockstep
<1>3. \A s, t \in active : h[s] = h[t] => s = t
  <2> HIDE DEF h
  <2> QED BY <1>2 DEF Distinct
<1> HIDE DEF T, h
<1>4. Cardinality(active) <= Cardinality(T)
  BY <1>1, <1>2, <1>3, NoLarger
<1> QED BY <1>4 DEF T

(* As many sessions as living children, when every report was answered. *)
LEMMA SessionsAreLiving ==
  ASSUME TypeOK, Undisturbed, Settled
  PROVE  Cardinality(active) = Cardinality({w \in Wrappers : wrapper[w].alive})
<1> DEFINE T == {w \in Wrappers : Counted(w)}
           g == [w \in T |-> CHOOSE s \in active : s.pid = wrapper[w].pid]
<1>1. T = {w \in Wrappers : wrapper[w].alive}
  BY DEF Undisturbed, Lockstep, InStep, Settled, Counted
<1>2. \A w \in T : g[w] \in active /\ g[w].pid = wrapper[w].pid
  BY DEF Undisturbed, Tracked
<1>3. \A v, w \in T : g[v] = g[w] => v = w
  <2>1. \A w \in T : w \in Wrappers /\ Pending(w)
    BY DEF Counted, Pending
  <2> HIDE DEF g, T
  <2> QED BY <1>2, <2>1 DEF Undisturbed, Distinct
<1>4. IsFiniteSet(active) /\ Cardinality(active) <= Cardinality(T)
  BY SessionsFit DEF Undisturbed, Distinct
<1>5. IsFiniteSet(T)
  BY FS_Subset, LogAssumption
<1> HIDE DEF T, g
<1>6. Cardinality(T) <= Cardinality(active)
  BY <1>2, <1>3, <1>4, NoLarger
<1>7. Cardinality(T) \in Nat /\ Cardinality(active) \in Nat
  BY <1>4, <1>5, FS_CardinalityType
<1>8. Cardinality(active) = Cardinality(T)
  BY <1>4, <1>6, <1>7
<1> QED BY <1>1, <1>8

(* A minute adds to a sum at most one for each session. *)
LEMMA AdvanceUsed ==
  ASSUME TypeOK, Distinct, Advance, NEW A, NEW since
  PROVE  /\ UsedOf(A, since)' = UsedOf(A, since) + Cardinality(Begun(active, A, since))
         /\ Cardinality(Begun(active, A, since)) \in Nat
         /\ Cardinality(Begun(active, A, since)) <= Cardinality(active)
         /\ Cardinality(active) \in Nat
<1>1. now' = now + 1 /\ active' = active /\ rows' = rows /\ now \in Int
  BY DEF Advance, agentd, TypeOK
<1>2. /\ CompletedIn(rows, A, since) \in Nat
      /\ LiveIn(active, now, A, since) \in Int
      /\ IsFiniteSet(active) /\ \A s \in active : s.start \in Int
  BY SumsTyped
<1>3. LiveIn(active, now + 1, A, since)
        = LiveIn(active, now, A, since) + Cardinality(Begun(active, A, since))
  BY <1>1, <1>2, MinuteAdds
<1>4. Begun(active, A, since) \in SUBSET active
  BY DEF Begun
<1>5. /\ Cardinality(Begun(active, A, since)) \in Nat
      /\ Cardinality(Begun(active, A, since)) <= Cardinality(active)
      /\ Cardinality(active) \in Nat
  BY <1>2, <1>4, FS_Subset, FS_CardinalityType
<1> QED BY <1>1, <1>2, <1>3, <1>5 DEF UsedOf

(* The other steps without an outage move no session and no row. *)
LEMMA QuietUsed ==
  ASSUME UNCHANGED <<now, active, rows>>, NEW A, NEW since
  PROVE  UsedOf(A, since)' = UsedOf(A, since)
BY DEF UsedOf

(* A step that neither fails to write nor loses the map takes no minutes   *)
(* back.                                                                   *)
LEMMA UsedStep ==
  ASSUME TypeOK, Distinct, ActiveBacked, NEW A, NEW since,
         \/ Advance
         \/ \E w \in Wrappers : WrapperStart(w) \/ WrapperStop(w)
         \/ UNCHANGED <<now, active, rows>>
  PROVE  UsedOf(A, since)' >= UsedOf(A, since)
<1>1. UsedOf(A, since) \in Int
  BY SumsTyped DEF UsedOf
<1>2. CASE Advance
  BY <1>1, <1>2, AdvanceUsed
<1>3. ASSUME NEW w \in Wrappers, WrapperStart(w) PROVE UsedOf(A, since)' >= UsedOf(A, since)
  BY <1>1, <1>3, StartUsed
<1>4. ASSUME NEW w \in Wrappers, WrapperStop(w) PROVE UsedOf(A, since)' >= UsedOf(A, since)
  BY <1>4, StopUsed
<1>5. CASE UNCHANGED <<now, active, rows>>
  BY <1>1, <1>5, QuietUsed
<1> QED BY <1>2, <1>3, <1>4, <1>5

(* Initially nothing runs. *)
LEMMA InitUndisturbed == Init => Undisturbed /\ Seen /\ UsedOf(Apps, 0) = ran
<1> SUFFICES ASSUME Init PROVE Undisturbed /\ Seen /\ UsedOf(Apps, 0) = ran
  OBVIOUS
<1>1. /\ active = {} /\ net = {} /\ up /\ ran = 0 /\ OpenIds = {} /\ rows = << >>
      /\ \A w \in Wrappers : wrapper[w] = NoProcess
  BY DEF Init, OpenIds
<1>2. NoProcess.pc = "idle" /\ NoProcess.alive = FALSE
  BY DEF NoProcess
<1>3. \A w \in Wrappers : ~Pending(w) /\ ~Counted(w) /\ InStep(w)
  BY <1>1, <1>2 DEF Pending, Counted, InStep
<1>4. Lockstep
  BY <1>1, <1>3 DEF Lockstep
<1>5. Distinct
  BY <1>1, <1>3, FS_EmptySet DEF Distinct
<1>6. Tracked
  BY <1>1, <1>3 DEF Tracked
<1>7. Seen
  BY <1>1, <1>3 DEF Seen, InUse
<1>8. CompletedIn(rows, Apps, 0) = 0
  <2>1. Ended(rows, Apps, 0) = {}
    BY <1>1 DEF Ended
  <2> QED BY <2>1, SumEmpty DEF CompletedIn
<1>9. LiveIn(active, now, Apps, 0) = 0
  <2>1. Begun(active, Apps, 0) = {}
    BY <1>1 DEF Begun
  <2> QED BY <2>1, SumEmpty DEF LiveIn
<1> QED BY <1>1, <1>4, <1>5, <1>6, <1>7, <1>8, <1>9 DEF Undisturbed, UsedOf

(* A clean step counts the minutes that pass, and nothing else. *)
LEMMA CleanCounts ==
  ASSUME TypeOK, Undisturbed, ActiveBacked, CleanStep, UsedOf(Apps, 0) = ran
  PROVE  UsedOf(Apps, 0)' = ran'
<1>1. CASE Advance
  <2>1. Cardinality(active) = Cardinality({w \in Wrappers : wrapper[w].alive})
    BY <1>1, SessionsAreLiving DEF Advance
  <2>2. Begun(active, Apps, 0) = active
    BY SessionsTyped DEF Begun
  <2>3. UsedOf(Apps, 0)' = UsedOf(Apps, 0) + Cardinality(active)
    BY <1>1, <2>2, AdvanceUsed DEF Undisturbed
  <2>4. ran' = ran + Cardinality({w \in Wrappers : wrapper[w].alive})
    BY <1>1 DEF Advance
  <2> QED BY <2>1, <2>3, <2>4
<1>2. ASSUME NEW w \in Wrappers, WrapperStart(w) PROVE UsedOf(Apps, 0)' = ran'
  BY <1>2, StartUsed DEF Undisturbed, WrapperStart, Answer, history
<1>3. ASSUME NEW w \in Wrappers, WrapperStop(w) PROVE UsedOf(Apps, 0)' = ran'
  <2>1. InStep(w) /\ Answer([type |-> "stop", from |-> w])
    BY <1>3 DEF Undisturbed, Lockstep, WrapperStop
  <2>2. wrapper[w].pc = "stopping" /\ ran' = ran
    BY <2>1 DEF InStep, Answer, history
  <2>3. \E s \in active : s.pid = wrapper[w].pid
    BY <2>2 DEF Undisturbed, Tracked, Counted
  <2>4. UsedOf(Apps, 0)' = UsedOf(Apps, 0)
    BY <1>3, <2>3, StopUsed DEF Undisturbed
  <2> QED BY <2>2, <2>4
<1>4. CASE UNCHANGED <<now, active, rows, ran>>
  BY <1>4, QuietUsed
<1> QED
  BY <1>1, <1>2, <1>3, <1>4 DEF CleanStep, NewDay, Launch, ChildExits, Reap, vars, agentd, history

-----------------------------------------------------------------------------
(* The history reads the steps and takes part in none. *)
THEOREM AuditImplementsLog == AuditSpec => Spec
<1>1. AuditInit => Init
  BY DEF AuditInit
<1>2. [AuditNext]_auditVars => [Next]_vars
  BY DEF AuditNext, Next, Handle, auditVars
<1> QED BY <1>1, <1>2, PTL DEF AuditSpec, Spec

(* Nothing that happened is forgotten. *)
LEMMA Remembered == [AuditNext]_auditVars => mishaps \subseteq mishaps'
BY DEF AuditNext, Marks, auditVars

(* The history tells how the pid of a launch was come by. *)
LEMMA LaunchMarks ==
  ASSUME TypeOK, [AuditNext]_auditVars,
         NEW w \in Wrappers, NEW app \in Apps, NEW p \in Pids, Launch(w, app, p)
  PROVE  Reused(p) \subseteq mishaps'
<1>1. launches' # launches
  BY DEF Launch, TypeOK
<1>2. \A v \in Wrappers : ~Handle(v)
  BY <1>1 DEF Handle, WrapperStart, WrapperStartFails, WrapperStop, WrapperStopFails,
              Answer, history
<1>3. PICK v \in Wrappers, other \in Apps, q \in Pids :
        Launch(v, other, q) /\ Marks(Reused(q))
  BY <1>1, <1>2 DEF AuditNext, Handle, Advance, NewDay, ChildExits, Reap, Timeout, Kill,
                    Crash, Restart, history, vars, auditVars
<1>4. wrapper[w].pc = "idle" /\ wrapper'[w].pc # "idle" /\ wrapper'[w].pid = p
  BY DEF Launch, Send, TypeOK
<1>5. v = w /\ wrapper'[v].pid = q
  BY <1>3, <1>4 DEF Launch, Send, TypeOK
<1> QED BY <1>3, <1>4, <1>5 DEF Marks

(* While no pid came again, the next one is free. *)
LEMMA FreshPid ==
  ASSUME TypeOK, Seen, [AuditNext]_auditVars, "reuse" \notin mishaps',
         NEW w \in Wrappers, NEW app \in Apps, NEW p \in Pids, Launch(w, app, p)
  PROVE  ~InUse(p)
<1>1. "reuse" \notin Reused(p)
  BY LaunchMarks
<1> QED BY <1>1 DEF Reused, Seen

(* Where nothing went wrong, pids that come again aside, every step of a   *)
(* running agentd is clean.                                                *)
LEMMA AuditClean ==
  ASSUME [AuditNext]_auditVars, mishaps' \subseteq {"reuse"}, up
  PROVE  CleanStep
BY DEF AuditNext, CleanStep, Marks, Restart, auditVars

(* What has run undisturbed still does. *)
LEMMA AuditUndisturbed ==
  ASSUME TypeOK, Undisturbed, [AuditNext]_auditVars, mishaps' \subseteq {"reuse"}
  PROVE  CleanStep /\ Undisturbed'
<1>1. CleanStep
  BY AuditClean DEF Undisturbed, Tracked
<1>2. \A w \in Wrappers, app \in Apps, p \in Pids :
        Launch(w, app, p) => "race" \notin Reused(p)
  BY LaunchMarks
<1> QED BY <1>1, <1>2, UndisturbedStep

(* What is counted is what has run (UsageExact), as long as no report is   *)
(* lost or late and agentd and its database stay up, also when pids come   *)
(* again.                                                                  *)
THEOREM UsageExactHolds == AuditSpec => []UsageExact
<1> DEFINE Inv == mishaps \subseteq {"reuse"} => Undisturbed /\ UsedOf(Apps, 0) = ran
<1>1. AuditInit => Inv
  BY InitUndisturbed DEF AuditInit
<1>2. TypeOK /\ ActiveBacked /\ Inv /\ [AuditNext]_auditVars => Inv'
  <2> SUFFICES ASSUME TypeOK, ActiveBacked, Inv, [AuditNext]_auditVars,
                      mishaps' \subseteq {"reuse"}
               PROVE  Undisturbed' /\ UsedOf(Apps, 0)' = ran'
    OBVIOUS
  <2>1. Undisturbed /\ UsedOf(Apps, 0) = ran
    BY Remembered
  <2>2. CleanStep /\ Undisturbed'
    BY <2>1, AuditUndisturbed
  <2> QED BY <2>1, <2>2, CleanCounts
<1>3. TypeOK /\ Inv => UsageExact
  BY UsedIsUsedOf DEF UsageExact
<1> QED
  BY <1>1, <1>2, <1>3, AuditImplementsLog, TypeCorrect, ActiveBackedHolds, PTL DEF AuditSpec

(* The minutes used never go down while agentd is up, within a day         *)
(* (UsedNeverDrops): either pids come again and nothing else goes wrong,   *)
(* or they do not and all may but the database.                            *)
THEOREM UsedNeverDropsHolds == AuditSpec => UsedNeverDrops
<1> DEFINE Inv == /\ mishaps \subseteq {"reuse"} => Undisturbed
                  /\ mishaps \cap {"reuse", "race", "db"} = {} => Distinct
                  /\ Seen
           NoDrop == Harmless(mishaps') /\ up /\ up' /\ midnight' = midnight
                       => Used(midnight)' >= Used(midnight)
       Same == Used(midnight) = UsedOf(Apps, midnight)
<1>1. AuditInit => Inv
  BY InitUndisturbed DEF Undisturbed, AuditInit
<1>2. TypeOK /\ Inv /\ [AuditNext]_auditVars /\ [Next]_vars => Inv'
  <2> SUFFICES ASSUME TypeOK, Inv, [AuditNext]_auditVars, [Next]_vars PROVE Inv'
    OBVIOUS
  <2>1. ASSUME mishaps' \subseteq {"reuse"} PROVE Undisturbed'
    BY <2>1, Remembered, AuditUndisturbed
  <2>2. ASSUME mishaps' \cap {"reuse", "race", "db"} = {} PROVE Distinct'
    <3>1. mishaps \cap {"reuse", "race", "db"} = {} /\ "reuse" \notin mishaps'
      BY <2>2, Remembered
    <3>2. \A w \in Wrappers, app \in Apps, p \in Pids : Launch(w, app, p) => ~InUse(p)
      BY <3>1, FreshPid
    <3> QED BY <3>1, <3>2, DistinctStep
  <2>3. Seen'
    BY SeenStep
  <2> QED BY <2>1, <2>2, <2>3
<1>3. TypeOK => Same
  BY UsedIsUsedOf DEF TypeOK
<1>4. TypeOK /\ ActiveBacked /\ Inv /\ Same /\ Same' /\ [AuditNext]_auditVars => NoDrop
  <2> SUFFICES ASSUME TypeOK, ActiveBacked, Inv, Same, Same', [AuditNext]_auditVars,
                      Harmless(mishaps'), up, up', midnight' = midnight
               PROVE  Used(midnight)' >= Used(midnight)
    OBVIOUS
  <2>1. midnight \in Nat /\ Distinct /\ "db" \notin mishaps'
    BY Remembered DEF TypeOK, Undisturbed, Harmless
  <2>2. \/ Advance
        \/ \E w \in Wrappers : WrapperStart(w) \/ WrapperStop(w)
        \/ UNCHANGED <<now, active, rows>>
    BY <2>1 DEF AuditNext, Marks, NewDay, Launch, ChildExits, Reap, Timeout, Kill, Crash,
                Restart, vars, agentd, auditVars
  <2>3. UsedOf(Apps, midnight)' >= UsedOf(Apps, midnight)
    <3> DEFINE since == midnight
    <3>1. UsedOf(Apps, since)'
            = CompletedIn(rows', Apps, midnight) + LiveIn(active', now', Apps, midnight)
      BY DEF UsedOf
    <3> QED BY <2>1, <2>2, <3>1, UsedStep DEF UsedOf
  <2> QED BY <2>3
<1>5. [AuditNext]_auditVars => [Next]_vars
  BY DEF AuditNext, Next, Handle, auditVars
<1> QED
  BY <1>1, <1>2, <1>3, <1>4, <1>5, AuditImplementsLog, TypeCorrect, ActiveBackedHolds, PTL
     DEF AuditSpec, UsedNeverDrops

-----------------------------------------------------------------------------
(* The sessions whose open rows a stop may still close: of a wrapper that  *)
(* has its child, or has its stop to report.                               *)
Owing ==
  {s \in [pid : Pids, app : Apps, start : Nat] :
     /\ \E i \in OpenIds : /\ rows[i].pid = s.pid
                           /\ rows[i].app = s.app
                           /\ rows[i].start = s.start
     /\ \E w \in Wrappers : Counted(w) /\ wrapper[w].pid = s.pid}

(* The minutes booked, and those the stops to come would book. *)
Owed == CompletedIn(rows, Apps, 0) + LiveIn(Owing, now, Apps, 0)

(* Each of them has a wrapper of its own. *)
LEMMA OwingFits ==
  ASSUME TypeOK, Distinct
  PROVE  /\ IsFiniteSet(Owing)
         /\ Cardinality(Owing) <= Cardinality({w \in Wrappers : Counted(w)})
         /\ \A s \in Owing : s.start \in Nat /\ s.start <= now
         /\ \A s, t \in Owing : s.pid = t.pid => s = t
<1> DEFINE T == {w \in Wrappers : Counted(w)}
           h == [s \in Owing |-> CHOOSE w \in T : wrapper[w].pid = s.pid]
<1>1. IsFiniteSet(T)
  BY FS_Subset, LogAssumption
<1>2. \A s \in Owing : h[s] \in T /\ wrapper[h[s]].pid = s.pid
  BY DEF Owing
<1>3. \A s \in Owing : \E i \in OpenIds : /\ rows[i].pid = s.pid
                                          /\ rows[i].app = s.app
                                          /\ rows[i].start = s.start
  BY DEF Owing
<1>4. \A i \in OpenIds : rows[i].start \in Nat /\ rows[i].start <= now
  <2> TAKE i \in OpenIds
  <2>1. rows[i] \in Row /\ now \in Nat
    BY DEF TypeOK, OpenIds
  <2> QED BY <2>1 DEF Row
<1>5. \A s \in Owing : s.start \in Nat /\ s.start <= now
  BY <1>3, <1>4
<1>6. \A s, t \in Owing : s.pid = t.pid => s = t
  <2> TAKE s, t \in Owing
  <2> HAVE s.pid = t.pid
  <2>1. s.app = t.app /\ s.start = t.start
    BY <1>3 DEF Distinct
  <2> QED BY <2>1 DEF Owing
<1>7. \A s, t \in Owing : h[s] = h[t] => s = t
  <2> HIDE DEF h
  <2> QED BY <1>2, <1>6
<1> HIDE DEF T, h
<1>8. IsFiniteSet(Owing) /\ Cardinality(Owing) <= Cardinality(T)
  BY <1>1, <1>2, <1>7, NoLarger
<1> QED BY <1>5, <1>6, <1>8 DEF T

(* Fewer sessions have no more live time. *)
LEMMA LiveLess ==
  ASSUME NEW b, IsFiniteSet(b), NEW t \in Int, \A s \in b : s.start \in Int /\ s.start <= t,
         NEW a \in SUBSET b, NEW A, NEW since
  PROVE  /\ LiveIn(a, t, A, since) \in Int
         /\ LiveIn(b, t, A, since) \in Int
         /\ LiveIn(a, t, A, since) <= LiveIn(b, t, A, since)
<1> DEFINE S == Begun(a, A, since)
           T == Begun(b, A, since)
           f == LiveTimes(a, t)
           g == LiveTimes(b, t)
           h == [s \in S |-> s]
<1>1. IsFiniteSet(a) /\ \A s \in a : s.start \in Int
  BY FS_Subset
<1>2. /\ S \subseteq a /\ IsFiniteSet(S)
      /\ \A s \in a : f[s] = t - s.start /\ f[s] \in Int
      /\ LiveIn(a, t, A, since) \in Int
  BY <1>1, BegunAre
<1>3. /\ T \subseteq b /\ IsFiniteSet(T)
      /\ \A s \in b : g[s] = t - s.start /\ g[s] \in Int
      /\ LiveIn(b, t, A, since) \in Int
  BY BegunAre
<1>4. S \subseteq T
  BY DEF Begun
<1> HIDE DEF S, T, f, g
<1>5. \A s \in S : h[s] \in T /\ f[s] <= g[h[s]] /\ f[s] \in Int
  BY <1>2, <1>3, <1>4
<1>6. \A s \in T : g[s] \in Nat
  BY <1>3
<1>7. \A s, e \in S : h[s] = h[e] => s = e
  OBVIOUS
<1> HIDE DEF h
<1>8. SumFunctionOnSet(f, S) <= SumFunctionOnSet(g, T)
  BY <1>2, <1>3, <1>5, <1>6, <1>7, SumInject
<1> QED BY <1>2, <1>3, <1>8 DEF LiveIn, S, T, f, g

LEMMA OwedTyped ==
  ASSUME TypeOK, Distinct
  PROVE  /\ CompletedIn(rows, Apps, 0) \in Nat
         /\ LiveIn(Owing, now, Apps, 0) \in Int
         /\ IsFiniteSet(Owing) /\ now \in Int
         /\ \A s \in Owing : s.start \in Int /\ s.start <= now
<1>1. now \in Int /\ IsFiniteSet(Owing) /\ \A s \in Owing : s.start \in Int /\ s.start <= now
  BY OwingFits DEF TypeOK
<1> QED BY <1>1, BegunAre, SumsTyped

(* An outage only forgets what it owes. *)
LEMMA OwingShrinks ==
  ASSUME TypeOK, Distinct, UNCHANGED <<now, rows>>, ran' = ran,
         \A w \in Wrappers : Counted(w)' =>
            \/ Counted(w) /\ wrapper'[w].pid = wrapper[w].pid
            \/ \A i \in OpenIds : rows[i].pid # wrapper'[w].pid
  PROVE  Owed' \in Int /\ Owed' <= Owed
<1>1. OpenIds' = OpenIds
  BY DEF OpenIds
<1>2. Owing' \subseteq Owing
  BY <1>1 DEF Owing
<1>3. LiveIn(Owing', now, Apps, 0) <= LiveIn(Owing, now, Apps, 0)
      /\ LiveIn(Owing', now, Apps, 0) \in Int
  BY <1>2, OwedTyped, LiveLess
<1>4. Owed' = CompletedIn(rows, Apps, 0) + LiveIn(Owing', now, Apps, 0)
  BY DEF Owed
<1> QED BY <1>3, <1>4, OwedTyped DEF Owed
(* The handled start of a fresh pid owes nothing yet. *)
LEMMA StartOwed ==
  ASSUME TypeOK, Lockstep, Distinct, NEW w \in Wrappers, WrapperStart(w)
  PROVE  Owed' = Owed
<1> DEFINE pid == wrapper[w].pid
           app == wrapper[w].app
           row == [pid |-> pid, app |-> app, start |-> now, open |-> TRUE, duration |-> 0]
           s0 == [pid |-> pid, app |-> app, start |-> now]
           n == Len(rows) + 1
<1>1. InStep(w) /\ Answer([type |-> "start", from |-> w])
  BY DEF WrapperStart, Lockstep
<1>2. /\ wrapper[w].pc = "starting" /\ wrapper'[w].pc = "running"
      /\ wrapper'[w].pid = pid
      /\ \A v \in Wrappers \ {w} : wrapper'[v] = wrapper[v]
  BY <1>1, AnswerEffect
<1>3. now' = now /\ now \in Nat /\ pid \in Pids /\ app \in Apps
  BY <1>1 DEF Answer, TypeOK, Wrapper
<1>4. \A i \in OpenIds : rows[i].pid # pid
  BY <1>1 DEF Answer, Distinct
<1>5. row \in AnyRow /\ row \in Row /\ row.open /\ rows' = Append(rows, row)
  BY <1>3 DEF AnyRow, Row, WrapperStart
<1>6. row.pid = pid /\ row.app = app /\ row.start = now
  OBVIOUS
<1>7. s0.pid = pid /\ s0.app = app /\ s0.start = now
      /\ s0 \in [pid : Pids, app : Apps, start : Nat]
  BY <1>3
<1>17. \A s \in [pid : Pids, app : Apps, start : Nat] :
         s.pid = pid /\ s.app = app /\ s.start = now => s = s0
  OBVIOUS
<1> HIDE DEF row, s0, app
<1>8. /\ DOMAIN rows = 1..Len(rows) /\ DOMAIN rows' = 1..n /\ Len(rows) \in Nat
      /\ rows'[n] = row /\ \A i \in 1..Len(rows) : rows'[i] = rows[i]
  BY <1>5 DEF TypeOK
<1>9. OpenIds' = OpenIds \cup {n} /\ \A i \in OpenIds : rows'[i] = rows[i]
  BY <1>5, <1>8 DEF OpenIds
<1> HIDE DEF n
<1>10. Owing' = Owing \cup {s0}
  <2>1. ASSUME NEW s \in Owing PROVE s \in Owing'
    <3>1. PICK i \in OpenIds : rows[i].pid = s.pid /\ rows[i].app = s.app
                                                  /\ rows[i].start = s.start
      BY DEF Owing
    <3>2. PICK v \in Wrappers : Counted(v) /\ wrapper[v].pid = s.pid
      BY DEF Owing
    <3>3. v # w
      BY <1>2, <3>2 DEF Counted
    <3>4. Counted(v)' /\ wrapper'[v].pid = s.pid
      BY <1>2, <3>2, <3>3 DEF Counted
    <3>5. i \in OpenIds' /\ rows'[i] = rows[i]
      BY <1>9
    <3> QED BY <3>1, <3>4, <3>5 DEF Owing
  <2>2. s0 \in Owing'
    <3>1. Counted(w)'
      BY <1>2 DEF Counted
    <3> QED BY <1>2, <1>6, <1>7, <1>8, <1>9, <3>1 DEF Owing
  <2>3. ASSUME NEW s \in Owing', s \notin Owing PROVE s = s0
    <3>1. s \in [pid : Pids, app : Apps, start : Nat]
      BY DEF Owing
    <3>2. PICK i \in OpenIds' : rows'[i].pid = s.pid /\ rows'[i].app = s.app
                                                     /\ rows'[i].start = s.start
      BY DEF Owing
    <3>3. PICK v \in Wrappers : Counted(v)' /\ wrapper'[v].pid = s.pid
      BY DEF Owing
    <3>4. CASE i = n
      BY <1>6, <1>8, <1>17, <3>1, <3>2, <3>4
    <3>5. CASE i # n
      <4>1. i \in OpenIds /\ rows[i].pid = s.pid /\ rows[i].app = s.app
                         /\ rows[i].start = s.start
        BY <1>9, <3>2, <3>5
      <4>2. v # w
        BY <1>2, <1>4, <3>3, <4>1
      <4>3. Counted(v) /\ wrapper[v].pid = s.pid
        BY <1>2, <3>3, <4>2 DEF Counted
      <4> QED BY <2>3, <3>1, <4>1, <4>3 DEF Owing
    <3> QED BY <3>4, <3>5
  <2> QED BY <2>1, <2>2, <2>3
<1>11. s0 \notin Owing
  BY <1>4, <1>7 DEF Owing
<1>12. CompletedIn(rows', Apps, 0) = CompletedIn(rows, Apps, 0)
  BY <1>5, AppendAdds, RowsTyped
<1>13. LiveIn(Owing \cup {s0}, now, Apps, 0) = LiveIn(Owing, now, Apps, 0)
  BY <1>7, <1>11, OwedTyped, OneMore
<1> QED BY <1>3, <1>10, <1>12, <1>13 DEF Owed

(* A handled stop books what it owed, and no more. *)
LEMMA StopOwed ==
  ASSUME TypeOK, Lockstep, Distinct, NEW w \in Wrappers, WrapperStop(w)
  PROVE  Owed' = Owed
<1> DEFINE pid == wrapper[w].pid
           app == wrapper[w].app
<1>1. InStep(w) /\ Answer([type |-> "stop", from |-> w])
  BY DEF WrapperStop, Lockstep
<1>2. /\ wrapper[w].pc = "stopping" /\ wrapper'[w].pc = "idle"
      /\ \A v \in Wrappers \ {w} : wrapper'[v] = wrapper[v]
  BY <1>1, AnswerEffect
<1>3. now' = now /\ now \in Nat /\ pid \in Pids /\ app \in Apps
  BY <1>1 DEF Answer, TypeOK, Wrapper
<1>4. EndSession(app, pid)
  BY DEF WrapperStop
<1>5. OpenIds' = OpenIds \ OpenRows(app, pid) /\ \A i \in OpenIds' : rows'[i] = rows[i]
  BY <1>3, <1>4, EndSessionOpen
<1>6. Pending(w) /\ Counted(w)
  BY <1>2 DEF Pending, Counted
<1>7. \A i \in OpenIds : rows[i].pid = pid => i \in OpenRows(app, pid)
  BY <1>6 DEF Distinct, OpenRows, OpenIds
<1>8. \A i \in OpenRows(app, pid) : i \in OpenIds /\ rows[i].pid = pid /\ rows[i].app = app
  BY DEF OpenRows, OpenIds
<1>9. \A v \in Wrappers : v # w /\ Counted(v) => wrapper[v].pid # pid
  BY <1>6 DEF Distinct, Pending, Counted
<1> HIDE DEF pid, app
<1>10. Owing' = {s \in Owing : s.pid # pid}
  <2>1. ASSUME NEW s \in Owing, s.pid # pid PROVE s \in Owing'
    <3>1. PICK i \in OpenIds : rows[i].pid = s.pid /\ rows[i].app = s.app
                                                  /\ rows[i].start = s.start
      BY DEF Owing
    <3>2. PICK v \in Wrappers : Counted(v) /\ wrapper[v].pid = s.pid
      BY DEF Owing
    <3>3. v # w
      BY <2>1, <3>2 DEF pid
    <3>4. Counted(v)' /\ wrapper'[v].pid = s.pid
      BY <1>2, <3>2, <3>3 DEF Counted
    <3>5. i \in OpenIds' /\ rows'[i] = rows[i]
      BY <1>5, <1>8, <2>1, <3>1
    <3> QED BY <3>1, <3>4, <3>5 DEF Owing
  <2>2. ASSUME NEW s \in Owing' PROVE s \in Owing /\ s.pid # pid
    <3>1. PICK i \in OpenIds' : rows'[i].pid = s.pid /\ rows'[i].app = s.app
                                                     /\ rows'[i].start = s.start
      BY DEF Owing
    <3>2. PICK v \in Wrappers : Counted(v)' /\ wrapper'[v].pid = s.pid
      BY DEF Owing
    <3>3. v # w
      BY <1>2, <3>2 DEF Counted
    <3>4. Counted(v) /\ wrapper[v].pid = s.pid
      BY <1>2, <3>2, <3>3 DEF Counted
    <3>5. i \in OpenIds /\ rows'[i] = rows[i]
      BY <1>5
    <3> QED BY <1>9, <3>1, <3>3, <3>4, <3>5 DEF Owing
  <2> QED BY <2>1, <2>2
<1>11. CASE \E i \in OpenRows(app, pid) : TRUE
  <2>1. PICK i \in OpenRows(app, pid) : TRUE
    BY <1>11
  <2> DEFINE e == [pid |-> pid, app |-> app, start |-> rows[i].start]
  <2>2. rows[i] \in Row
    BY DEF TypeOK, OpenRows
  <2>3. e \in [pid : Pids, app : Apps, start : Nat]
        /\ e.pid = pid /\ e.app = app /\ e.start = rows[i].start
    BY <1>3, <2>2 DEF Row
  <2> HIDE DEF e
  <2>4. e \in Owing
    BY <1>6, <1>8, <2>3 DEF Owing, pid
  <2>5. Owing' = Owing \ {e}
    BY <1>10, <2>3, <2>4, OwingFits
  <2>6. CompletedIn(rows', Apps, 0) = CompletedIn(rows, Apps, 0) + Share(rows[i], now, Apps, 0)
    BY <1>3, <1>4, StopBooks
  <2>7. LiveIn(Owing, now, Apps, 0) = LiveIn(Owing \ {e}, now, Apps, 0) + Share(e, now, Apps, 0)
    BY <2>4, OwedTyped, OneLess
  <2>8. Share(e, now, Apps, 0) = Share(rows[i], now, Apps, 0)
    BY <1>8, <2>3 DEF Share
  <2>9. Share(e, now, Apps, 0) \in Int
    BY <1>3, <2>2, <2>3 DEF Share, Row
  <2>10. LiveIn(Owing \ {e}, now, Apps, 0) \in Int
    BY OwedTyped, LiveLess
  <2> QED BY <1>3, <2>5, <2>6, <2>7, <2>8, <2>9, <2>10, OwedTyped DEF Owed
<1>12. CASE OpenRows(app, pid) = {}
  <2> DEFINE row == [pid |-> pid, app |-> app, start |-> now, open |-> FALSE, duration |-> 0]
  <2>1. rows' = Append(rows, row) /\ row \in AnyRow /\ row.duration = 0
    BY <1>3, <1>4, <1>12 DEF EndSession, AnyRow
  <2> HIDE DEF row
  <2>2. CompletedIn(rows', Apps, 0) = CompletedIn(rows, Apps, 0)
    BY <2>1, AppendAdds, RowsTyped
  <2>3. \A s \in Owing : s.pid # pid
    BY <1>7, <1>12 DEF Owing
  <2>4. Owing' = Owing
    BY <1>10, <2>3
  <2> QED BY <1>3, <2>2, <2>4 DEF Owed
<1> QED BY <1>11, <1>12

(* A minute adds one for each child that runs, at most. *)
LEMMA AdvanceOwed ==
  ASSUME TypeOK, Lockstep, Distinct, Advance, Owed <= ran
  PROVE  Owed' <= ran'
<1> DEFINE T == {w \in Wrappers : wrapper[w].alive}
<1>1. /\ now' = now + 1 /\ rows' = rows /\ ran' = ran + Cardinality(T)
      /\ wrapper' = wrapper /\ now \in Int /\ ran \in Nat
  BY DEF Advance, agentd, TypeOK
<1>2. T = {w \in Wrappers : Counted(w)}
  BY DEF Advance, Settled, Counted, Lockstep, InStep
<1>3. Owing' = Owing
  BY <1>1 DEF Owing, OpenIds, Counted
<1>4. LiveIn(Owing, now + 1, Apps, 0)
        = LiveIn(Owing, now, Apps, 0) + Cardinality(Begun(Owing, Apps, 0))
  BY OwedTyped, MinuteAdds
<1>5. Begun(Owing, Apps, 0) \in SUBSET Owing
  BY DEF Begun
<1>6. IsFiniteSet(Owing) /\ Cardinality(Owing) <= Cardinality(T)
  BY <1>2, OwingFits
<1>7. /\ Cardinality(Begun(Owing, Apps, 0)) \in Nat
      /\ Cardinality(Begun(Owing, Apps, 0)) <= Cardinality(Owing)
      /\ Cardinality(Owing) \in Nat
  BY <1>5, <1>6, FS_Subset, FS_CardinalityType
<1>8. Cardinality(T) \in Nat
  BY FS_Subset, FS_CardinalityType, LogAssumption
<1> HIDE DEF T
<1> QED BY <1>1, <1>3, <1>4, <1>6, <1>7, <1>8, OwedTyped DEF Owed
(* Where nothing is late and nobody is killed, what agentd has booked and  *)
(* may still book never outgrows what has run: neither its outages nor its *)
(* database's make it.                                                     *)
LEMMA OwedStep ==
  ASSUME TypeOK, Lockstep, Distinct, Owed <= ran,
         CleanStep \/ Crash \/ Restart \/ \E w \in Wrappers : Handle(w),
         \A w \in Wrappers, app \in Apps, p \in Pids : Launch(w, app, p) => ~InUse(p)
  PROVE  Owed' <= ran'
<1>1. \A w \in Wrappers : InStep(w) /\ wrapper[w] \in Wrapper
  BY DEF Lockstep, TypeOK
<1>3. Owed \in Int /\ ran \in Nat
  BY OwedTyped DEF Owed, TypeOK
<1>4. ASSUME UNCHANGED <<now, rows>>, ran' = ran,
             \A w \in Wrappers : Counted(w)' =>
               \/ Counted(w) /\ wrapper'[w].pid = wrapper[w].pid
               \/ \A i \in OpenIds : rows[i].pid # wrapper'[w].pid
      PROVE  Owed' <= ran'
  <2>1. Owed' <= Owed /\ Owed' \in Int
    BY <1>4, OwingShrinks
  <2> QED BY <1>3, <1>4, <2>1
<1>5. CASE Advance
  BY <1>5, AdvanceOwed
<1>6. CASE NewDay \/ Restart \/ UNCHANGED vars
  <2>1. UNCHANGED <<now, rows>> /\ ran' = ran /\ wrapper' = wrapper
    BY <1>6 DEF NewDay, Restart, vars, agentd, history
  <2> QED BY <1>4, <2>1 DEF Counted
<1>7. ASSUME NEW w \in Wrappers, NEW app \in Apps, NEW p \in Pids, Launch(w, app, p)
      PROVE  Owed' <= ran'
  <2>1. UNCHANGED <<now, rows>> /\ ran' = ran
    BY <1>7 DEF Launch, agentd
  <2>2. /\ \A v \in Wrappers \ {w} : wrapper'[v] = wrapper[v]
        /\ wrapper'[w].pid = p
    BY <1>7 DEF Launch, Send, TypeOK
  <2>3. \A i \in OpenIds : rows[i].pid # p
    BY <1>7 DEF InUse
  <2> QED BY <1>4, <2>1, <2>2, <2>3 DEF Counted
<1>8. ASSUME NEW w \in Wrappers, ChildExits(w) \/ Reap(w) PROVE Owed' <= ran'
  <2>1. UNCHANGED <<now, rows>> /\ ran' = ran
    BY <1>8 DEF ChildExits, Reap, agentd, history
  <2>2. \A v \in Wrappers : Counted(v)' => Counted(v) /\ wrapper'[v].pid = wrapper[v].pid
    <3>1. CASE ChildExits(w)
      BY <1>1, <3>1 DEF ChildExits, Counted, TypeOK, Wrapper
    <3>2. CASE Reap(w)
      BY <1>1, <3>2 DEF Reap, Send, Counted, TypeOK, Wrapper
    <3> QED BY <1>8, <3>1, <3>2
  <2> QED BY <1>4, <2>1, <2>2
<1>9. ASSUME NEW w \in Wrappers, Handle(w) PROVE Owed' <= ran'
  <2>1. CASE WrapperStart(w)
    BY <1>3, <2>1, StartOwed DEF WrapperStart, Answer, history
  <2>2. CASE WrapperStop(w)
    BY <1>3, <2>2, StopOwed DEF WrapperStop, Answer, history
  <2>3. CASE WrapperStartFails(w)
    <3>1. Answer([type |-> "start", from |-> w]) /\ rows' = rows
      BY <2>3 DEF WrapperStartFails
    <3>2. now' = now /\ ran' = ran /\ [type |-> "start", from |-> w] \in net
      BY <3>1 DEF Answer, history
    <3>3. wrapper'[w].pid = wrapper[w].pid /\ \A v \in Wrappers \ {w} : wrapper'[v] = wrapper[v]
      BY <1>1, <3>1, AnswerEffect
    <3>4. \A i \in OpenIds : rows[i].pid # wrapper'[w].pid
      BY <3>2, <3>3 DEF Distinct
    <3> QED BY <1>4, <3>1, <3>2, <3>3, <3>4 DEF Counted
  <2>4. CASE WrapperStopFails(w)
    <3>1. Answer([type |-> "stop", from |-> w]) /\ rows' = rows
      BY <2>4 DEF WrapperStopFails
    <3>2. now' = now /\ ran' = ran
      BY <3>1 DEF Answer, history
    <3>3. wrapper'[w].pc = "idle" /\ \A v \in Wrappers \ {w} : wrapper'[v] = wrapper[v]
      BY <1>1, <3>1, AnswerEffect
    <3> QED BY <1>4, <3>1, <3>2, <3>3 DEF Counted
  <2> QED BY <1>9, <2>1, <2>2, <2>3, <2>4 DEF Handle
<1>10. CASE Crash
  <2>1. UNCHANGED <<now, rows>> /\ ran' = ran
    BY <1>10 DEF Crash, history
  <2>2. \A v \in Wrappers : wrapper'[v] = GoOn(wrapper[v])
    BY <1>10 DEF Crash
  <2>3. \A v \in Wrappers : /\ wrapper'[v].pid = wrapper[v].pid
                            /\ Counted(v)' => Counted(v) \/ wrapper[v].pc = "starting"
    <3> TAKE v \in Wrappers
    <3>1. wrapper'[v].pid = wrapper[v].pid
      BY <1>1, <2>2, GoOnKeeps
    <3>2. Counted(v)' => Counted(v) \/ wrapper[v].pc = "starting"
      BY <1>1, <2>2 DEF GoOn, Counted, Wrapper
    <3> QED BY <3>1, <3>2
  <2>4. \A v \in Wrappers : wrapper[v].pc = "starting" =>
          \A i \in OpenIds : rows[i].pid # wrapper[v].pid
    BY <1>1 DEF InStep, Distinct
  <2> QED BY <1>4, <2>1, <2>3, <2>4
<1> QED
  BY <1>5, <1>6, <1>7, <1>8, <1>9, <1>10 DEF CleanStep, Handle

(* agentd never counts minutes that no child ran (NeverOvercounts), as     *)
(* long as no report is late, nobody is killed and no pid comes again: its *)
(* outages, and those of its database, only lose minutes.                  *)
THEOREM NeverOvercountsHolds == AuditSpec => []NeverOvercounts
<1> DEFINE Kept == Lockstep /\ Distinct /\ Seen /\ Owed <= ran
           Inv == mishaps \subseteq {"crash", "db"} => Kept
<1>1. AuditInit => Inv
  <2> SUFFICES ASSUME Init PROVE Kept
    BY DEF AuditInit
  <2>1. Undisturbed /\ Seen /\ UsedOf(Apps, 0) = ran
    BY InitUndisturbed
  <2>2. Owing = {} /\ active = {}
    BY DEF Init, Owing, OpenIds
  <2>3. Owed = ran
    BY <2>1, <2>2 DEF Owed, UsedOf
  <2>4. ran \in Int
    BY DEF Init
  <2> QED BY <2>1, <2>3, <2>4 DEF Undisturbed
<1>2. TypeOK /\ Inv /\ [AuditNext]_auditVars /\ [Next]_vars => Inv'
  <2> SUFFICES ASSUME TypeOK, Inv, [AuditNext]_auditVars, [Next]_vars,
                      mishaps' \subseteq {"crash", "db"}
               PROVE  Kept'
    OBVIOUS
  <2>1. Kept /\ "reuse" \notin mishaps'
    BY Remembered
  <2>2. CleanStep \/ Crash \/ Restart \/ \E w \in Wrappers : Handle(w)
    BY DEF AuditNext, CleanStep, Handle, Marks, auditVars
  <2>3. \A w \in Wrappers, app \in Apps, p \in Pids : Launch(w, app, p) => ~InUse(p)
    BY <2>1, FreshPid
  <2> QED BY <2>1, <2>2, <2>3, LockstepStep, DistinctStep, SeenStep, OwedStep
<1>3. TypeOK /\ ActiveBacked /\ Inv => NeverOvercounts
  <2> SUFFICES ASSUME TypeOK, ActiveBacked, Kept PROVE Used(0) <= ran
    BY DEF NeverOvercounts
  <2>1. active \subseteq Owing
    <3> SUFFICES ASSUME NEW s \in active PROVE s \in Owing
      OBVIOUS
    <3>1. s \in Session /\ Session \subseteq [pid : Pids, app : Apps, start : Nat]
      BY DEF TypeOK, Session
    <3>2. PICK i \in OpenRows(s.app, s.pid) : rows[i].start = s.start
      BY DEF ActiveBacked, IsLatest
    <3>3. \E w \in Wrappers : Counted(w) /\ wrapper[w].pid = s.pid
      BY DEF Lockstep
    <3> QED BY <3>1, <3>2, <3>3 DEF Owing, OpenRows, OpenIds
  <2>2. LiveIn(active, now, Apps, 0) <= LiveIn(Owing, now, Apps, 0)
        /\ LiveIn(active, now, Apps, 0) \in Int
    BY <2>1, OwedTyped, LiveLess
  <2>3. Used(0) = CompletedIn(rows, Apps, 0) + LiveIn(active, now, Apps, 0)
    BY UsedIsUsedOf DEF UsedOf
  <2>4. ran \in Nat
    BY DEF TypeOK
  <2> QED BY <2>2, <2>3, <2>4, OwedTyped DEF Owed
<1>4. [AuditNext]_auditVars => [Next]_vars
  BY DEF AuditNext, Next, Handle, auditVars
<1> QED
  BY <1>1, <1>2, <1>3, <1>4, AuditImplementsLog, TypeCorrect, ActiveBackedHolds, PTL
     DEF AuditSpec
=============================================================================
