---------------------------- MODULE MCStatsCache ----------------------------
(***************************************************************************)
(* Model-checking instance of StatsCache: the requests and the loads are   *)
(* interchangeable.                                                        *)
(***************************************************************************)
EXTENDS StatsCache, TLC

Symmetry == Permutations(Requests) \cup Permutations(LoadIds)

=============================================================================
