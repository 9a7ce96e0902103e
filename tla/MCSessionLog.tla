---------------------------- MODULE MCSessionLog ----------------------------
(* TLC instances of SessionAudit: apps, pids and wrappers as model values. *)
EXTENDS SessionAudit

CONSTANTS a, p, q, v, w
=============================================================================
