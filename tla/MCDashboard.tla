----------------------------- MODULE MCDashboard -----------------------------
(* TLC instances of Dashboard: children and worker threads as model values. *)
EXTENDS Dashboard

CONSTANTS h, k, v, w

=============================================================================
