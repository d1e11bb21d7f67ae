------------------------- MODULE MCServiceLifecycle -------------------------
(* Model checking of ServiceLifecycle.                                     *)
EXTENDS ServiceLifecycle, TLC
=============================================================================
