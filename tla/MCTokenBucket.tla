--------------------------- MODULE MCTokenBucket ---------------------------
(* Small instances of TokenBucket. *)
EXTENDS TokenBucket, TLC

\* A bucket made by this node's clock, by one two ticks behind, one ahead.
AroundNow == {-2, 0, 2}

CallerSymmetry == Permutations(Callers)

=============================================================================
