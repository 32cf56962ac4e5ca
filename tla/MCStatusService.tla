--------------------------- MODULE MCStatusService ---------------------------
(* Small instances of the ingestion processes.                             *)
EXTENDS StatusService, TLC

MCSizes == {2}

\* Key "a" reverses the positions; key "b" keeps them, and its cycle walk
\* gives up on the last position.
MCIndex(k, n, c) ==
    IF k = "a" THEN n - 1 - c ELSE IF c < n - 1 THEN c ELSE Null

OneShard == [t \in Threads |-> CHOOSE s \in Shards : TRUE]

\* One collector per shard, or all the noisers in one shard.
OwnShard == [g \in Sweepers |-> g]

Replicas == [g \in Noisers |-> CHOOSE s \in Shards : TRUE]

Symmetry == Permutations(Requests) \cup Permutations(ListIDs)

NoiserSymmetry == Permutations(Noisers)
=============================================================================
