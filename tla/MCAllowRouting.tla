--------------------------- MODULE MCAllowRouting ---------------------------
(* AllowRouting with the symmetries of a cluster whose nodes are alike.    *)
EXTENDS AllowRouting, TLC

Symmetry == Permutations(Nodes) \cup Permutations(Requests) \cup Permutations(Calls) \cup Permutations(Names) \cup Permutations(Commands)

=============================================================================
