---------------------------- MODULE MCManagedRun ----------------------------
(* Small instances of ManagedRun for TLC; the bounds are in the cfg files. *)
EXTENDS ReuseGate
=============================================================================
