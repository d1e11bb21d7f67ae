------------------------------ MODULE MCConsole ------------------------------
(* Model checking of Console; requests are interchangeable.                *)
EXTENDS Console, TLC

RequestSymmetry == Permutations(Request)
=============================================================================
