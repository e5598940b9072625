--------------------------- MODULE MCSimulations ---------------------------
(***************************************************************************)
(* An instance of Simulations.  Limiter and runs share no state once a run *)
(* has started, so TLC need not look at every combination of the two: the  *)
(* limiter is explored at every instant while there is no run, and at the  *)
(* first instant beside the runs.                                          *)
(***************************************************************************)
EXTENDS Simulations

RunsAtFirstInstant == seq > 0 => \A i \in Instants : now <= i
=============================================================================
