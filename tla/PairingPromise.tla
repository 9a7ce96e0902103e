--------------------------- MODULE PairingPromise ---------------------------
(***************************************************************************)
(* What pairing promises, without windows, messages or codes: the parent   *)
(* says yes or no to an attempt, once; only a key the parent said yes to   *)
(* is installed on the child computer, and only such a key is ever in the  *)
(* registry of the Control Center.  An installed key stays.                *)
(***************************************************************************)
CONSTANT Attempts   \* runs of `pair`, each with a key of its own

VARIABLES
  verdict,    \* what the parent said to each attempt
  installed,  \* keys in the child's authorized_keys
  known       \* keys of the hosts in the registry

promise == <<verdict, installed, known>>

Init ==
  /\ verdict = [a \in Attempts |-> "none"]
  /\ installed = {}
  /\ known = {}

Decide(a) ==
  /\ verdict[a] = "none"
  /\ \E answer \in {"yes", "no"} : verdict' = [verdict EXCEPT ![a] = answer]
  /\ UNCHANGED <<installed, known>>

Install(a) ==
  /\ verdict[a] = "yes"
  /\ installed' = installed \cup {a}
  /\ UNCHANGED <<verdict, known>>

(* Registering a host again replaces its key. *)
Register(a) ==
  /\ verdict[a] = "yes"
  /\ a \in known'
  /\ known' \subseteq known \cup {a}
  /\ UNCHANGED <<verdict, installed>>

Next == \E a \in Attempts : Decide(a) \/ Install(a) \/ Register(a)

Spec == Init /\ [][Next]_promise
=============================================================================
