------------------------- MODULE MCReplicaSession -------------------------
EXTENDS ReplicaSession, TLC
Interchangeable == Permutations(Commands) \cup Permutations(Paths)
                     \cup Permutations(Contents) \cup Permutations(Kinds)
=============================================================================
