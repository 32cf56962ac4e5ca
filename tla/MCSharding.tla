----------------------------- MODULE MCSharding -----------------------------
(* Shard s2 is being decommissioned: the server assigns s1 only, and the   *)
(* tool may be run in either direction.                                    *)
EXTENDS TokenEndpoint, TLC

CONSTANTS s1, s2

MCHash == [i \in Issuers |-> 7]

MCShards == <<s1>>

MCTargets == {<<s1>>, <<s2>>}

Symmetry == Permutations(Requests) \cup Permutations(Issuers) \cup Permutations(Keys)
=============================================================================
