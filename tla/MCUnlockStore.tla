---------------------------- MODULE MCUnlockStore ----------------------------
(* TLC instances of UnlockStore, with one app. *)
EXTENDS UnlockStore

CONSTANT a
=============================================================================
