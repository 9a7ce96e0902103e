---------------------------- MODULE SessionAudit ----------------------------
(***************************************************************************)
(* What the counting of SessionLog may be relied on for, by what has gone  *)
(* wrong so far: SessionLog with a history of its faults.  The history     *)
(* reads the steps and takes part in none.                                 *)
(***************************************************************************)
EXTENDS SessionLog

VARIABLE mishaps  \* the faults that have happened

auditVars == <<vars, mishaps>>

Marks(faults) == mishaps' = mishaps \cup faults

AuditInit == Init /\ mishaps = {}

AuditNext ==
  \/ Advance /\ Marks({})
  \/ NewDay /\ Marks({})
  \/ \E w \in Wrappers, app \in Apps, p \in Pids :
       Launch(w, app, p) /\ Marks(Reused(p))
  \/ \E w \in Wrappers : (ChildExits(w) \/ Reap(w)) /\ Marks({})
  \/ \E w \in Wrappers : Timeout(w) /\ Marks({"timeout"})
  \/ \E w \in Wrappers : Kill(w) /\ Marks({"kill"})
  \/ \E w \in Wrappers : (WrapperStart(w) \/ WrapperStop(w)) /\ Marks({})
  \/ \E w \in Wrappers : (WrapperStartFails(w) \/ WrapperStopFails(w)) /\ Marks({"db"})
  \/ Crash /\ Marks({"crash"})
  \/ Restart /\ Marks({})

AuditSpec == AuditInit /\ [][AuditNext]_auditVars

(* The wrapper's loop runs, agentd answers what it was sent, systemd       *)
(* restarts it.  Apps need not exit and nothing need be launched.          *)
FairAuditSpec ==
  /\ AuditSpec
  /\ WF_vars(Restart)
  /\ \A w \in Wrappers : WF_vars(Reap(w)) /\ WF_vars(Handle(w))

-----------------------------------------------------------------------------
(* If nothing has failed so far, also when pids come again, the time       *)
(* booked and the live time together are the minutes the children really   *)
(* ran.                                                                    *)
UsageExact == Settled /\ mishaps \subseteq {"reuse"} => Used(0) = ran

(* Outages of agentd and of its database only lose minutes: in whatever    *)
(* order they come, agentd counts none that no child ran.                  *)
NeverOvercounts == Settled /\ mishaps \subseteq {"crash", "db"} => Used(0) <= ran

(* What leaves the count of a day growing: either pids come again and      *)
(* nothing else has gone wrong, or they do not and all may but the         *)
(* database.                                                               *)
Harmless(faults) ==
  \/ faults \subseteq {"reuse"}
  \/ faults \cap {"reuse", "race", "db"} = {}

(* While agentd stays up within a day, the minutes it counts as used never *)
(* go down, on no step of a launch, a stop or their reports: a session     *)
(* that ends, or that a second one overlaps, gives back no budget.         *)
UsedNeverDrops ==
  [][Harmless(mishaps') /\ up /\ up' /\ midnight' = midnight
       => Used(midnight)' >= Used(midnight)]_auditVars

(* A session whose process is gone does not stay in active: the stop takes *)
(* it out even if the table cannot be written, and a stop lost in a crash  *)
(* means that agentd lost the map with it.  (Of a stop that its wrapper    *)
(* gave up on, or did not live to send, see OutageUndercounts.)            *)
NoPhantom ==
  \A p \in Pids :
    LET Phantom == /\ \E s \in active : s.pid = p
                   /\ \A w \in Wrappers : HasPid(w) => wrapper[w].pid # p
    IN  []({"timeout", "kill"} \cap mishaps = {}) => (Phantom ~> ~Phantom)
=============================================================================
