------------------------------ MODULE Dashboard ------------------------------
(***************************************************************************)
(* The Control Center's window on the parent's computer: it polls the      *)
(* selected child over SSH from worker threads, shows what comes back and  *)
(* notifies the severe events in it.                                       *)
(*                                                                         *)
(* An answer's contents are left out but for the severe events a report    *)
(* names; a child's log is the sequence of their times.  How a child gets  *)
(* to be paired is Pairing's subject.                                      *)
(***************************************************************************)
EXTENDS Integers, Sequences, FiniteSets

CONSTANTS
  Hosts,      \* the names of the paired children
  Workers,    \* bound: polls in flight at a time
  None,       \* no row selected, nothing shown, no mark
  MaxEvents,  \* bound: severe events of all children
  Faults      \* any of "ssh", "clock", "close"

ASSUME DashboardAssumption ==
  /\ IsFiniteSet(Hosts)
  /\ IsFiniteSet(Workers)
  /\ None \notin Hosts \cup Nat
  /\ MaxEvents \in Nat
  /\ Faults \subseteq {"ssh", "clock", "close"}

VARIABLES
  log,       \* per child: times of its severe events, as they happened
  selected,  \* the row of hostList_
  shown,     \* the child that statusLabel_ speaks of
  listed,    \* the child whose events eventsList_ shows
  poll,      \* per worker: what its thread has
  unlock,    \* the child of the unlock that disables the button
  mark,      \* lastNotifiedAt_
  (* history, read by properties only *)
  baseline,  \* per child: events in the session's first report
  notified,  \* events that notify-send was started for
  twice      \* one of them again

window  == <<selected, shown, listed>>
notices == <<mark, baseline, notified, twice>>
vars == <<log, window, poll, unlock, notices>>

Idle == [at |-> "idle", host |-> None, ok |-> FALSE, events |-> 0]

Happened == UNION {{h} \X DOMAIN log[h] : h \in Hosts}

TypeOK ==
  /\ log \in [Hosts -> Seq(Nat)]
  /\ selected \in Hosts \cup {None}
  /\ shown \in Hosts \cup {None}
  /\ listed \in Hosts \cup {None}
  /\ poll \in [Workers -> [at : {"idle", "asking", "done"}, host : Hosts \cup {None},
                           ok : BOOLEAN, events : Nat]]
  /\ unlock \in Hosts \cup {None}
  /\ mark \in [Hosts -> Nat \cup {None}]
  /\ baseline \in [Hosts -> Nat \cup {None}]
  /\ notified \in SUBSET Happened
  /\ twice \in BOOLEAN

Init ==
  /\ log = [h \in Hosts |-> <<>>]
  /\ selected = None
  /\ shown = None
  /\ listed = None
  /\ poll = [w \in Workers |-> Idle]
  /\ unlock = None
  /\ mark = [h \in Hosts |-> None]
  /\ baseline = [h \in Hosts |-> None]
  /\ notified = {}
  /\ twice = FALSE

-----------------------------------------------------------------------------
(* A severe event is logged: later than all before, unless the child's     *)
(* clock has been set back.                                                *)
Event(h) ==
  /\ Cardinality(Happened) < MaxEvents
  /\ \E t \in 1..MaxEvents :
       /\ "clock" \in Faults \/ t = Len(log[h]) + 1
       /\ log' = [log EXCEPT ![h] = Append(@, t)]
  /\ UNCHANGED <<window, poll, unlock, notices>>

(* startPoll: the label says "Checking", a worker gets a copy of the host. *)
StartPoll(h) ==
  /\ shown' = h
  /\ \E w \in Workers :
       /\ poll[w] = Idle
       /\ poll' = [poll EXCEPT ![w] = [Idle EXCEPT !.at = "asking", !.host = h]]

(* Another row: currentRowChanged polls it. *)
Select(h) ==
  /\ h # selected
  /\ selected' = h
  /\ StartPoll(h)
  /\ UNCHANGED <<log, listed, unlock, notices>>

(* refreshHostList after a pairing: no row is selected. *)
Paired ==
  /\ selected # None
  /\ selected' = None
  /\ UNCHANGED <<log, shown, listed, poll, unlock, notices>>

(* pollSelectedHost, by pollTimer_ or Refresh. *)
PollSelectedHost ==
  /\ selected # None
  /\ StartPoll(selected)
  /\ UNCHANGED <<log, selected, listed, unlock, notices>>

(* The worker: `report` is run after `status`, each may fail by itself.    *)
Answer(w) ==
  /\ poll[w].at = "asking"
  /\ poll' = [poll EXCEPT ![w] = [@ EXCEPT !.at = "done", !.ok = TRUE,
                                           !.events = Len(log[poll[w].host])]]
  /\ UNCHANGED <<log, window, unlock, notices>>

NoAnswer(w) ==
  /\ "ssh" \in Faults
  /\ poll[w].at = "asking"
  /\ poll' = [poll EXCEPT ![w].at = "done"]
  /\ UNCHANGED <<log, window, unlock, notices>>

Latest(times) == CHOOSE t \in times : \A u \in times : u <= t

(* Mutant of NewestThisPoll: the newest of this report alone. *)
NewestOfReport(h, times) == Latest({0} \cup times)

(* The newest mark so far, "" (0) before the first. *)
NewestThisPoll(h, times) == Latest({IF mark[h] = None THEN 0 ELSE mark[h]} \cup times)

(* Mutant of FirstPoll: a report without events does not count as one. *)
FirstPollSoFar(h) == mark[h] \in {None, 0}

FirstPoll(h) == mark[h] = None

(* notifySevereEvents, for a report of h's first n events. *)
NotifySevereEvents(h, n) ==
  LET new == {<<h, i>> : i \in {j \in 1..n : ~FirstPoll(h) /\ log[h][j] > mark[h]}}
  IN  /\ mark' = [mark EXCEPT ![h] = NewestThisPoll(h, {log[h][i] : i \in 1..n})]
      /\ baseline' = [baseline EXCEPT ![h] = IF @ = None THEN n ELSE @]
      /\ notified' = notified \cup new
      /\ twice' = (twice \/ new \cap notified # {})

(* Mutant of Display: whatever answer comes is shown. *)
DisplayAny(h) == shown' = h /\ listed' = h

(* The label, and the list of events, of the selected child only. *)
Display(h) ==
  IF h = selected THEN shown' = h /\ listed' = h ELSE UNCHANGED <<shown, listed>>

(* applyPollResult, on the window's thread, in whatever order they come.   *)
ApplyPollResult(w) ==
  /\ poll[w].at = "done"
  /\ Display(poll[w].host)
  /\ IF poll[w].ok
       THEN NotifySevereEvents(poll[w].host, poll[w].events)
       ELSE UNCHANGED notices
  /\ poll' = [poll EXCEPT ![w] = Idle]
  /\ UNCHANGED <<log, selected, unlock>>

(* The button is disabled until the answer is applied. *)
UnlockSelectedApp ==
  /\ selected # None
  /\ unlock = None
  /\ unlock' = selected
  /\ shown' = selected
  /\ UNCHANGED <<log, selected, listed, poll, notices>>

(* applyUnlockResult: another child's answer only frees the button; a      *)
(* success polls anew, a failure is shown.                                 *)
ApplyUnlockResult ==
  /\ unlock # None
  /\ unlock' = None
  /\ \/ unlock # selected /\ UNCHANGED <<shown, poll>>
     \/ unlock = selected /\ StartPoll(selected)
     \/ unlock = selected /\ shown' = selected /\ poll' = poll
  /\ UNCHANGED <<log, selected, listed, notices>>

(* The window is closed and opened again: it remembers nothing, and what   *)
(* its workers still bring is dropped.                                     *)
Reopen ==
  /\ "close" \in Faults
  /\ selected' = None
  /\ shown' = None
  /\ listed' = None
  /\ poll' = [w \in Workers |-> Idle]
  /\ unlock' = None
  /\ mark' = [h \in Hosts |-> None]
  /\ baseline' = [h \in Hosts |-> None]
  /\ UNCHANGED <<log, notified, twice>>

-----------------------------------------------------------------------------
Ssh(w) == Answer(w) \/ NoAnswer(w)

Next ==
  \/ \E h \in Hosts : Event(h) \/ Select(h)
  \/ Paired
  \/ PollSelectedHost
  \/ \E w \in Workers : Ssh(w) \/ ApplyPollResult(w)
  \/ UnlockSelectedApp \/ ApplyUnlockResult
  \/ Reopen

Spec == Init /\ [][Next]_vars

(* The timer fires, ssh answers or is killed after its timeout, and the    *)
(* window's event loop gets to each result.                                *)
FairSpec ==
  /\ Spec
  /\ WF_vars(PollSelectedHost)
  /\ \A w \in Workers : WF_vars(Ssh(w)) /\ WF_vars(ApplyPollResult(w))

-----------------------------------------------------------------------------
(* No severe event is notified twice, in whatever order the answers of two *)
(* polls come, whichever child is selected meanwhile, if the window is     *)
(* opened anew, and if the child's clock is set back.                      *)
NotifiedOnce == TypeOK /\ ~twice

(* What the window says is of the selected child: the label at once, the   *)
(* events from the first answer on.  Until then a poll of it is on its     *)
(* way, and the events may be those of the child that was selected before. *)
SelectedShown ==
  selected # None =>
    /\ shown = selected
    /\ \/ listed \in {selected, None}
       \/ \E w \in Workers : poll[w].host = selected

(* A severe event that the session's first report did not name is notified *)
(* if its child stays selected and answers now and then - unless it is     *)
(* dated before an earlier one, by a clock that was set back.              *)
SevereSurfaces ==
  \A h \in Hosts : \A i \in 1..MaxEvents :
    LET New == /\ i \in DOMAIN log[h]
               /\ \A j \in 1..(i - 1) : log[h][j] < log[h][i]
               /\ baseline[h] # None /\ baseline[h] < i
        Heard == \E w \in Workers : poll[w].host = h /\ poll[w].ok
    IN  <>[](selected = h) /\ []<>Heard => []<>(New => <<h, i>> \in notified)
=============================================================================
