----------------------------- MODULE MCVerifier -----------------------------
(* One list of one entry, through its whole life, and its readers.         *)
EXTENDS Verifier, TLC

MCIndex(k, n, c) == c

OneProcess == [r \in Readers |-> CHOOSE p \in Processes : TRUE]

\* The list is full, of one credential that expires at once, and nothing has
\* been written to it.
Issued == [list_id |-> List, idx |-> 0, issuer_id |-> CHOOSE i \in Issuers : TRUE,
           shard_id |-> CHOOSE s \in Shards : TRUE, exp |-> 0]

MCInit ==
    /\ now = 0
    /\ lists = [l \in ListIDs |->
                  [size |-> 1, cursor |-> 1, fpe_key |-> "a", max_exp |-> 0,
                   state |-> "FROZEN", created_at |-> 0, archived_at |-> Null,
                   purged |-> FALSE, purged_at |-> Null, shard_id |-> Issued.shard_id]]
    /\ minted = {List}
    /\ allocations = {Issued}
    /\ issuer_usage = [i \in Issuers |-> [s \in Shards |-> 1]]
    /\ issued = {Issued}
    /\ Init
    /\ gone = FALSE /\ scripts = 0

MCSpec == MCInit /\ [][VerifierNext]_verifierVars

Symmetry == Permutations(Writers) \cup Permutations(Readers)
=============================================================================
