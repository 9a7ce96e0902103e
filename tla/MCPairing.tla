----------------------------- MODULE MCPairing -----------------------------
(* TLC instances of Pairing: attempts, strays, helpers and names as model   *)
(* values.                                                                  *)
EXTENDS Pairing

CONSTANTS a, b, s, h, g, m, n, p

(* Both names are cleaned up to one file name. *)
OnePath == [x \in Names |-> p]
=============================================================================
