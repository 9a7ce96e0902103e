---------------------------- MODULE MCOverrides ----------------------------
(* TLC instances of Overrides: attempts and other clients as model values. *)
EXTENDS Overrides

CONSTANTS a, b, o, app1, app2

=============================================================================
