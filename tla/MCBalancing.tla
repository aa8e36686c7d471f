----------------------------- MODULE MCBalancing -----------------------------
(***************************************************************************)
(* Model-checking instance of Balancing: every algorithm, the fuzzy ones   *)
(* with a threshold of 1 (a threshold of 0 is their plain counterpart with *)
(* ties broken at random).                                                 *)
(***************************************************************************)
EXTENDS Balancing

MCRoutes ==
    {r \in [algorithm : Algorithms, fuzzyThreshold : {0, 1},
            pendingEnabled : {FALSE}, pendingWeight : {1}] :
        Fuzzy(r) <=> r.fuzzyThreshold = 1}

\* The route of the pending buffer run.
MCPendingRoutes ==
    {[algorithm |-> "least_completed", fuzzyThreshold |-> 0,
      pendingEnabled |-> TRUE, pendingWeight |-> 1]}

=============================================================================
