------------------------------ MODULE Overrides ------------------------------
(***************************************************************************)
(* The way of an override and of its failure: the CLI has pkexec           *)
(* authenticate the parent, the helper asks agentd, and whatever goes      *)
(* wrong is reported as a failed override, which agentd counts and, when   *)
(* it repeats, makes severe and notifies.  With it agentd's socket: the    *)
(* accept loop, its cap, a thread per connection, and the state mutex that *)
(* a handler and the ticker hold while they wait for another program.      *)
(*                                                                         *)
(* Clients give up after a timeout (3 s the helper, AGENTD_TIMEOUT the     *)
(* CLI); a request that was sent is handled all the same.  The grant       *)
(* itself, its saves and its audit row, is UnlockStore's subject; what the *)
(* other requests do under the mutex, Enforcement's.                       *)
(***************************************************************************)
EXTENDS Integers, Sequences, FiniteSets

CONSTANTS
  Attempts,   \* runs of `omarchy-kids-agent override`
  Others,     \* other clients, wrappers and silent ones
  Apps,       \* what they may ask for
  SEVERE_OVERRIDE_FAILURE_THRESHOLD,  \* 3 in the code
  Window,     \* clock steps in OVERRIDE_FAILURE_WINDOW_MINUTES
  Cap,        \* MAX_CONCURRENT_CONNECTIONS
  MaxTime,    \* bound: the clock stops here
  MaxWarnings,  \* bound: warnings of the ticker (one per session it knows)
  Faults      \* any of "db", "panic", "crash"

ASSUME OverridesAssumption ==
  /\ IsFiniteSet(Attempts)
  /\ IsFiniteSet(Others)
  /\ Apps # {}
  /\ SEVERE_OVERRIDE_FAILURE_THRESHOLD \in Nat \ {0}
  /\ Window \in Nat
  /\ Cap \in Nat \ {0}
  /\ MaxTime \in Nat
  /\ MaxWarnings \in Nat
  /\ Faults \subseteq {"db", "panic", "crash"}

(* An attempt may have a connection for each of its two requests. *)
Grants  == Attempts \X {"override"}
Reports == Attempts \X {"failed"}
Conns   == Grants \cup Reports \cup (Others \X {"other"})

VARIABLES
  now,       \* Utc::now()
  up,        \* agentd is running
  poisoned,  \* a thread has panicked with the state mutex
  pending,   \* connections the listener has not accepted
  count,     \* active_connections
  thread,    \* per connection: where its thread is
  ticker,    \* the ticker: asleep, or waiting for omarchy-shell
  warnings,  \* warnings it has given
  rows,      \* override_failed rows of security_events
  asks,      \* per attempt: the app it is for
  cli        \* per attempt: where its processes are

socket == <<poisoned, pending, count, thread>>
warning == <<ticker, warnings>>
vars == <<now, up, socket, warning, rows, asks, cli>>

(* "notifying" and "warning" hold the mutex for another program. *)
Row == [attempt : Attempts, at : Nat, severity : {"routine", "severe"}, blind : BOOLEAN]

Live == {c \in Conns : thread[c] # "none"}

TypeOK ==
  /\ now \in Nat
  /\ up \in BOOLEAN
  /\ poisoned \in BOOLEAN
  /\ pending \in SUBSET Conns
  /\ count \in Nat
  /\ thread \in [Conns -> {"none", "reading", "waiting", "notifying"}]
  /\ ticker \in {"asleep", "warning"}
  /\ warnings \in Nat
  /\ rows \in Seq(Row)
  /\ asks \in [Attempts -> Apps]
  /\ cli \in [Attempts -> {"idle", "asking", "failed", "reporting", "told", "done"}]

Init ==
  /\ now = 0
  /\ up = TRUE
  /\ poisoned = FALSE
  /\ pending = {}
  /\ count = 0
  /\ thread = [c \in Conns |-> "none"]
  /\ ticker = "asleep"
  /\ warnings = 0
  /\ rows = <<>>
  /\ asks \in [Attempts -> Apps]
  /\ cli = [a \in Attempts |-> "idle"]

MutexFree ==
  /\ ~poisoned
  /\ ticker = "asleep"
  /\ \A c \in Conns : thread[c] # "notifying"

-----------------------------------------------------------------------------
(* The CLI and its helper. *)

(* transport::send up to the answer. *)
Connect(c) ==
  /\ up
  /\ pending' = pending \cup {c}
  /\ UNCHANGED <<poisoned, count, thread>>

(* The parent authenticates: the helper sends Override, if there is a      *)
(* socket to connect to.                                                   *)
Authenticate(a) ==
  /\ cli[a] = "idle"
  /\ \/ Connect(<<a, "override">>) /\ cli' = [cli EXCEPT ![a] = "asking"]
     \/ ~up /\ cli' = [cli EXCEPT ![a] = "failed"] /\ UNCHANGED socket
  /\ UNCHANGED <<now, up, warning, rows, asks>>

(* pkexec exits 126 or 127. *)
Cancel(a) ==
  /\ cli[a] = "idle"
  /\ cli' = [cli EXCEPT ![a] = "failed"]
  /\ UNCHANGED <<now, up, socket, warning, rows, asks>>

(* The helper's timeout: an error for the CLI; agentd is not told. *)
HelperTimeout(a) ==
  /\ cli[a] = "asking"
  /\ cli' = [cli EXCEPT ![a] = "failed"]
  /\ UNCHANGED <<now, up, socket, warning, rows, asks>>

(* run_override after any failure of the helper; best-effort. *)
ReportFailed(a) ==
  /\ cli[a] = "failed"
  /\ \/ Connect(<<a, "failed">>) /\ cli' = [cli EXCEPT ![a] = "reporting"]
     \/ ~up /\ cli' = [cli EXCEPT ![a] = "done"] /\ UNCHANGED socket
  /\ UNCHANGED <<now, up, warning, rows, asks>>

(* Mutant of ReportTimeout: the report is sent again. *)
ReportTimeoutRetries(a) ==
  /\ cli[a] = "reporting"
  /\ cli' = [cli EXCEPT ![a] = "failed"]
  /\ UNCHANGED <<now, up, socket, warning, rows, asks>>

(* AGENTD_TIMEOUT; the report may still be handled. *)
ReportTimeout(a) ==
  /\ cli[a] = "reporting"
  /\ cli' = [cli EXCEPT ![a] = "done"]
  /\ UNCHANGED <<now, up, socket, warning, rows, asks>>

(* What a client does when its connection c is answered, or breaks. *)
After(c, ok) ==
  cli' = [a \in Attempts |->
    CASE c = <<a, "override">> /\ cli[a] = "asking" -> IF ok THEN "told" ELSE "failed"
      [] c = <<a, "failed">> /\ cli[a] = "reporting" -> "done"
      [] OTHER -> cli[a]]

-----------------------------------------------------------------------------
(* The socket. *)

(* A wrapper's request, or a client that says nothing; one at a time. *)
OtherConnects(o) ==
  /\ <<o, "other">> \notin pending
  /\ thread[<<o, "other">>] = "none"
  /\ Connect(<<o, "other">>)
  /\ UNCHANGED <<now, up, warning, rows, asks, cli>>

(* The accept loop: a connection beyond the cap is closed at once.  A      *)
(* client of ours has sent its line by then, any other may stay silent.    *)
Accept(c) ==
  /\ c \in pending
  /\ pending' = pending \ {c}
  /\ IF count >= Cap
       THEN After(c, FALSE) /\ UNCHANGED <<count, thread>>
       ELSE /\ count' = count + 1
            /\ thread' = [thread EXCEPT ![c] =
                 IF c \in Grants \cup Reports THEN "waiting" ELSE "reading"]
            /\ cli' = cli
  /\ UNCHANGED <<now, up, poisoned, warning, rows, asks>>

(* handle_connection returns, and its closure gives the slot back. *)
Ends(c) ==
  /\ thread' = [thread EXCEPT ![c] = "none"]
  /\ count' = count - 1

Receive(o) ==
  /\ thread[<<o, "other">>] = "reading"
  /\ thread' = [thread EXCEPT ![<<o, "other">>] = "waiting"]
  /\ UNCHANGED <<now, up, poisoned, pending, count, warning, rows, asks, cli>>

(* Mutants of Silent: the slot is not given back on the early return; the  *)
(* connection has no idle timeout.                                         *)
SilentKeepsSlot(o) ==
  /\ thread[<<o, "other">>] = "reading"
  /\ thread' = [thread EXCEPT ![<<o, "other">>] = "none"]
  /\ UNCHANGED <<now, up, poisoned, pending, count, warning, rows, asks, cli>>

SilentForEver(o) == FALSE /\ UNCHANGED vars

(* No request: closed, malformed, or CONNECTION_IDLE_TIMEOUT. *)
Silent(o) ==
  /\ thread[<<o, "other">>] = "reading"
  /\ Ends(<<o, "other">>)
  /\ UNCHANGED <<now, up, poisoned, pending, warning, rows, asks, cli>>

(* A thread that gets the mutex. *)
Locks(c) == thread[c] = "waiting" /\ MutexFree

HandleOther(o) ==
  /\ Locks(<<o, "other">>)
  /\ Ends(<<o, "other">>)
  /\ UNCHANGED <<now, up, poisoned, pending, warning, rows, asks, cli>>

(* Answered ok or with an error.  What handle_unlock does with the mutex   *)
(* before it answers, and what of it stays when a step fails, is           *)
(* UnlockStore's subject; that thread waits for no other program.          *)
HandleOverride(a) ==
  /\ Locks(<<a, "override">>)
  /\ Ends(<<a, "override">>)
  /\ \E ok \in BOOLEAN : After(<<a, "override">>, ok)
  /\ UNCHANGED <<now, up, poisoned, pending, warning, rows, asks>>

(* recent_override_failure_count. *)
RecentFailures(app) ==
  Cardinality({i \in DOMAIN rows :
                 asks[rows[i].attempt] = app /\ rows[i].at >= now - Window})

(* Mutant of SeverityFor: one failure too late. *)
SeverityForLate(recent) ==
  IF recent >= SEVERE_OVERRIDE_FAILURE_THRESHOLD THEN "severe" ELSE "routine"

SeverityFor(recent) ==
  IF recent + 1 >= SEVERE_OVERRIDE_FAILURE_THRESHOLD THEN "severe" ELSE "routine"

(* handle_override_failed; a count that cannot be read is 0.  Severe, the  *)
(* handler stays in notify-send with the mutex.                            *)
HandleFailed(a) ==
  LET c == <<a, "failed">> IN
  /\ Locks(c)
  /\ \E blind \in {FALSE} \cup {"db" \in Faults} :
       LET severity == SeverityFor(IF blind THEN 0 ELSE RecentFailures(asks[a]))
       IN  /\ rows' = Append(rows, [attempt |-> a, at |-> now,
                                    severity |-> severity, blind |-> blind])
           /\ IF severity = "severe"
                THEN thread' = [thread EXCEPT ![c] = "notifying"] /\ UNCHANGED <<count, asks, cli>>
                ELSE Ends(c) /\ After(c, TRUE)
  /\ UNCHANGED <<now, up, poisoned, pending, warning, asks>>

(* The insert fails: an error, and no notification. *)
HandleFailedFails(a) ==
  /\ "db" \in Faults
  /\ Locks(<<a, "failed">>)
  /\ Ends(<<a, "failed">>)
  /\ After(<<a, "failed">>, FALSE)
  /\ UNCHANGED <<now, up, poisoned, pending, warning, rows, asks>>

(* notify_severe: notify-send has exited. *)
NotifyReturns(a) ==
  /\ thread[<<a, "failed">>] = "notifying"
  /\ Ends(<<a, "failed">>)
  /\ After(<<a, "failed">>, TRUE)
  /\ UNCHANGED <<now, up, poisoned, pending, warning, rows, asks>>

(* tick finds a session to warn, and waits for omarchy-shell. *)
TickWarns ==
  /\ up
  /\ MutexFree
  /\ warnings < MaxWarnings
  /\ ticker' = "warning"
  /\ warnings' = warnings + 1
  /\ UNCHANGED <<now, up, socket, rows, asks, cli>>

TriggerReturns ==
  /\ ticker = "warning"
  /\ ticker' = "asleep"
  /\ UNCHANGED <<now, up, socket, warnings, rows, asks, cli>>

(* A thread panics with the mutex; from then on every thread that wants it *)
(* does.  The slot is not given back, the client sees a closed connection. *)
Panic(c) ==
  /\ thread[c] = "waiting"
  /\ poisoned \/ ("panic" \in Faults /\ MutexFree)
  /\ poisoned' = TRUE
  /\ thread' = [thread EXCEPT ![c] = "none"]
  /\ After(c, FALSE)
  /\ UNCHANGED <<now, up, pending, count, warning, rows, asks>>

(* The process dies and is started anew. *)
Crash ==
  /\ "crash" \in Faults
  /\ up
  /\ up' = FALSE
  /\ poisoned' = FALSE
  /\ pending' = {}
  /\ count' = 0
  /\ thread' = [c \in Conns |-> "none"]
  /\ ticker' = "asleep"
  /\ cli' = [a \in Attempts |->
       CASE cli[a] = "asking" -> "failed"
         [] cli[a] = "reporting" -> "done"
         [] OTHER -> cli[a]]
  /\ UNCHANGED <<now, warnings, rows, asks>>

Restart ==
  /\ ~up
  /\ up' = TRUE
  /\ UNCHANGED <<now, socket, warning, rows, asks, cli>>

Advance ==
  /\ now < MaxTime
  /\ now' = now + 1
  /\ UNCHANGED <<up, socket, warning, rows, asks, cli>>

-----------------------------------------------------------------------------
Override(a) ==
  \/ Authenticate(a) \/ Cancel(a) \/ HelperTimeout(a)
  \/ ReportFailed(a) \/ ReportTimeout(a)

Handle(c) ==
  \/ \E a \in Attempts :
       /\ c \in {<<a, "override">>, <<a, "failed">>}
       /\ \/ c[2] = "override" /\ HandleOverride(a)
          \/ c[2] = "failed" /\ (HandleFailed(a) \/ HandleFailedFails(a))
  \/ \E o \in Others : c = <<o, "other">> /\ HandleOther(o)

Next ==
  \/ Advance
  \/ \E a \in Attempts : Override(a)
  \/ \E o \in Others : OtherConnects(o) \/ Receive(o) \/ Silent(o)
  \/ \E c \in Conns : Accept(c) \/ Handle(c) \/ Panic(c)
  \/ \E a \in Attempts : NotifyReturns(a)
  \/ TickWarns \/ TriggerReturns
  \/ Crash \/ Restart

Spec == Init /\ [][Next]_vars

(* The accept loop runs, threads are scheduled, a silent connection times  *)
(* out, systemd restarts agentd.  That omarchy-shell and notify-send exit  *)
(* is not assumed: agentd waits for both without a limit.                  *)
FairSpec ==
  /\ Spec
  /\ WF_vars(Restart)
  /\ \A o \in Others : WF_vars(Silent(o))
  /\ \A c \in Conns : WF_vars(Accept(c) \/ Handle(c) \/ Panic(c))

-----------------------------------------------------------------------------
(* The counter is the threads that run, never more than the cap: a slot is *)
(* given back on every way out of a handler but a panic, after which it    *)
(* only counts too many.                                                   *)
SlotsExact ==
  /\ TypeOK
  /\ Cardinality(Live) <= count
  /\ count <= Cap
  /\ ~poisoned => count = Cardinality(Live)

(* A failed override is severe exactly if, with those of its app within    *)
(* the window before it, it makes the threshold - in whatever order the    *)
(* threads got the mutex - unless they could not be counted.               *)
Preceding(k) ==
  {i \in 1..(k - 1) : /\ asks[rows[i].attempt] = asks[rows[k].attempt]
                      /\ rows[k].at - rows[i].at <= Window}

SevereIffRepeated ==
  \A k \in DOMAIN rows :
    rows[k].severity = "severe" <=>
      Cardinality(IF rows[k].blind THEN {} ELSE Preceding(k)) + 1
        >= SEVERE_OVERRIDE_FAILURE_THRESHOLD

(* An attempt counts as one failure at most, also when its report timed    *)
(* out; none that the CLI called a success does.                           *)
OncePerAttempt ==
  \A i, j \in DOMAIN rows :
    /\ rows[i].attempt = rows[j].attempt => i = j
    /\ cli[rows[i].attempt] # "told"

(* What agentd waits for with the mutex comes back every time.             *)
NotifySendExits == \A a \in Attempts : []<>(thread[<<a, "failed">>] # "notifying")
ShellExits == []<>(ticker = "asleep")

(* If both other programs exit whenever they are started, a connection     *)
(* that agentd holds is over some day, whoever is silent, panics or        *)
(* crashes: then weak fairness is enough, the mutex being kept over a wait *)
(* once per session warned of and per severe failure.                      *)
ConnectionEnds ==
  ShellExits /\ NotifySendExits =>
    \A c \in Conns : (c \in pending \/ thread[c] # "none") ~>
                     (c \notin pending /\ thread[c] = "none")

(* What prewarning.rs says of the pre-warning: an unresponsive shell never *)
(* blocks agentd - what a wrapper asks is handled however long the shell   *)
(* takes.  It is not: the ticker waits for it, and has the mutex.          *)
ShellNeverBlocks ==
  NotifySendExits =>
    \A o \in Others : thread[<<o, "other">>] = "waiting" ~> thread[<<o, "other">>] # "waiting"
=============================================================================
