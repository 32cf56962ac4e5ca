------------------------------ MODULE Collector ------------------------------
(***************************************************************************)
(* Does garbage collection get anywhere?  One process's collector          *)
(* (internal/gc), tick after tick, against whatever the store's contract   *)
(* allows everybody else at any moment: request handlers and pool loops    *)
(* that create, freeze and allocate from lists, and the collectors of      *)
(* other processes.  That the processes keep to the contract is            *)
(* StatusService's KeepsContract.                                          *)
(***************************************************************************)
EXTENDS GC

CONSTANT LastArrival    \* bound: no list is created or allocated from later

collectorVars == <<metaVars, redisVars, gcVars>>

CollectorInit == MetaInit /\ RedisInit /\ GCInit

\* A statement of EnsureHealthy, of a pool loop or for a request.
EnsureHealthyStatement ==
    /\ now <= LastArrival
    /\ \E l \in ListIDs :
           \/ \E n \in Sizes, k \in Keys, s \in Shards : CreateList(l, n, k, s)
           \/ Freeze(l)

\* The transaction of an allocating request.
AllocateStatement ==
    /\ now <= LastArrival
    /\ \E l \in ListIDs, i \in Issuers, s \in Shards, exp \in 0 .. now + MaxExpiry :
           ReserveCursorAndRecord(l, i, s, exp)

\* A statement of another process's collector.
OtherCollector ==
    \E l \in ListIDs : \/ ArchiveDue(l) /\ Archive(l)
                       \/ PurgeDue(l) /\ MarkPurged(l)
                       \/ DeleteDue(l) /\ DeleteList(l)

Collect(g) ==
    \/ SweepStart(g) \/ SweepQueryArchived(g) \/ SweepMarkPurged(g)
    \/ SweepQueryPurged(g) \/ SweepDone(g) \/ SweepAbandoned(g)
    \/ \E l \in ListIDs : SweepArchive(g, l) \/ SweepPurge(g, l) \/ SweepDelete(g, l)

Environment ==
    /\ Tick \/ EnsureHealthyStatement \/ AllocateStatement \/ OtherCollector
    /\ UNCHANGED <<redisVars, gcVars>>

CollectorNext ==
    \/ Environment
    \/ \E g \in Sweepers : Collect(g)

\* The clock runs on and Run's ticker fires.  A statement of the sweep that is
\* tried again and again, tick after tick, eventually goes through, for every
\* list of its own: nothing is assumed of the other processes.
CollectorFairness ==
    /\ WF_collectorVars(Tick /\ UNCHANGED <<redisVars, gcVars>>)
    /\ \A g \in Sweepers :
        /\ WF_gcVars(SweepStart(g)) /\ WF_gcVars(SweepDone(g))
        /\ SF_gcVars(SweepQueryArchived(g)) /\ SF_gcVars(SweepQueryPurged(g))
        /\ SF_gcVars(SweepMarkPurged(g))
        /\ \A l \in ListIDs :
               SF_gcVars(SweepArchive(g, l) \/ SweepPurge(g, l) \/ SweepDelete(g, l))

CollectorSpec == CollectorInit /\ [][CollectorNext]_collectorVars /\ CollectorFairness

-----------------------------------------------------------------------------
\* A list that a sweep within the run's clock will find in its query.
Due(t) == t <= MaxTime

ToArchive(l) ==
    HasState(l, {"FROZEN"}) /\ (lists[l].max_exp # Null => Due(lists[l].max_exp + Grace))
ToPurge(l) ==
    HasState(l, {"ARCHIVED"}) /\ ~lists[l].purged /\ Due(lists[l].archived_at + Retention)
ToDelete(l) ==
    Exists(l) /\ lists[l].purged /\ Due(lists[l].purged_at + DBRetention)

\* Every list is archived, purged and deleted in the end, although each phase
\* of a sweep, and the sweep with it, is given up at its first failing
\* statement, whichever list that is for, and other collectors work on the same
\* rows (gc/sweeper.go:48-110).  A row waits for its deletion anew each time a
\* collector that had still found it unpurged marks it again
\* (postgres.go:335-336 sets purged_at unconditionally).
Collected ==
    \A l \in ListIDs : /\ ToArchive(l) ~> ~ToArchive(l)
                       /\ ToPurge(l) ~> ~ToPurge(l)
                       /\ ToDelete(l) ~> ~ToDelete(l)
=============================================================================
