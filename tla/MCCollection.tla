---------------------------- MODULE MCCollection ----------------------------
(* Model checking of Collection.                                           *)
EXTENDS Collection
=============================================================================
