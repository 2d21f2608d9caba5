----------------------- MODULE MCResourceReplication -----------------------
(* Small clusters for ResourceReplication. *)
EXTENDS ResourceReplication, TLC

\* For runs that check invariants only.
Symmetry == Permutations(Nodes) \cup Permutations(Names) \cup Permutations(Requests)

\* Bound: no two callers give up; the log is what it would be if they waited on.
OneGivesUp == Cardinality({q \in Requests : pc[q] = "error"}) <= 1

=============================================================================
