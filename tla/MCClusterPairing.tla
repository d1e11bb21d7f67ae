-------------------------- MODULE MCClusterPairing --------------------------
(* Model checking of ClusterPairing.                                       *)
EXTENDS ClusterPairing, TLC
Symmetry == Permutations(Collectors)

\* A behaviour is left once every request has been in an overlap: mixed only
\* grows, and the properties say nothing of such requests.
SomeUnmixed == mixed # Id
=============================================================================
