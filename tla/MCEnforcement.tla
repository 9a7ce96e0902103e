---------------------------- MODULE MCEnforcement ----------------------------
(* TLC instances of Enforcement: who may run, and for how long. *)
EXTENDS Enforcement

CONSTANTS a, b, p, q, v, w

(* a has a limit of its own, b none. *)
LimitOfA == [app \in Apps |-> IF app = a THEN {0} ELSE {}]
NoLimits == [app \in Apps |-> {}]
=============================================================================
