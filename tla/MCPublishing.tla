---------------------------- MODULE MCPublishing ----------------------------
(* One ingestion process, whose poll loop and fires share a cache.         *)
EXTENDS Publishing

OneProcess == [r \in Readers |-> CHOOSE p \in Processes : TRUE]
=============================================================================
