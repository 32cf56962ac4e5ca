--------------------------------- MODULE GC ---------------------------------
(***************************************************************************)
(* The garbage collector (internal/gc/sweeper.go): every ingestion process *)
(* runs one, over the lists of every shard but with its own shard's Redis. *)
(* A sweep reads the clock once and works through three queries; between a *)
(* query and the statements for its rows other sweepers may run.           *)
(***************************************************************************)
EXTENDS BitmapStore

CONSTANTS
    Sweepers,       \* the ingestion processes
    SweeperShard    \* the shard whose Redis each of them is connected to

ASSUME SweepersAssumption == SweeperShard \in [Sweepers -> Shards]

VARIABLES
    phase,      \* where each process's sweeper is
    start,      \* its reading of the clock, now in Sweep
    todo,       \* the rows of its current query still to be handled
    purging     \* the list between its Purge and its MarkPurged

gcVars == <<phase, start, todo, purging>>

GCInit ==
    /\ phase = [g \in Sweepers |-> "idle"]
    /\ start = [g \in Sweepers |-> 0]
    /\ todo = [g \in Sweepers |-> {}]
    /\ purging = [g \in Sweepers |-> Null]

Step(g, from, to) == phase[g] = from /\ phase' = [phase EXCEPT ![g] = to]

\* Mutant: the cutoff is now, without the grace period.
SweepStartNoGrace(g) ==
    /\ Step(g, "idle", "archive")
    /\ start' = [start EXCEPT ![g] = now]
    /\ todo' = [todo EXCEPT ![g] = FrozenListsPastGrace(now)]
    /\ UNCHANGED <<purging, metaVars, redisVars>>

\* Run's ticker fires: time.Now and the first query.
SweepStart(g) ==
    /\ Step(g, "idle", "archive")
    /\ start' = [start EXCEPT ![g] = now]
    /\ todo' = [todo EXCEPT ![g] = FrozenListsPastGrace(now - Grace)]
    /\ UNCHANGED <<purging, metaVars, redisVars>>

Done(g, l) == todo' = [todo EXCEPT ![g] = @ \ {l}]

SweepArchive(g, l) ==
    /\ phase[g] = "archive"
    /\ l \in todo[g]
    /\ Archive(l)
    /\ Done(g, l)
    /\ UNCHANGED <<phase, start, purging, redisVars>>

\* Mutant: the cutoff is now, without the retention period.
SweepQueryArchivedNow(g) ==
    /\ Step(g, "archive", "purge")
    /\ todo[g] = {}
    /\ todo' = [todo EXCEPT ![g] = ArchivedListsPastRetention(start[g])]
    /\ UNCHANGED <<start, purging, metaVars, redisVars>>

SweepQueryArchived(g) ==
    /\ Step(g, "archive", "purge")
    /\ todo[g] = {}
    /\ todo' = [todo EXCEPT ![g] = ArchivedListsPastRetention(start[g] - Retention)]
    /\ UNCHANGED <<start, purging, metaVars, redisVars>>

\* Purge, in the sweeper's own Redis, whatever the list's shard.
SweepPurge(g, l) ==
    /\ Step(g, "purge", "mark")
    /\ l \in todo[g]
    /\ Purge(SweeperShard[g], l)
    /\ Done(g, l)
    /\ purging' = [purging EXCEPT ![g] = l]
    /\ UNCHANGED <<start, metaVars>>

SweepMarkPurged(g) ==
    /\ Step(g, "mark", "purge")
    /\ MarkPurged(purging[g])
    /\ purging' = [purging EXCEPT ![g] = Null]
    /\ UNCHANGED <<start, todo, redisVars>>

SweepQueryPurged(g) ==
    /\ DBRetention > 0
    /\ Step(g, "purge", "delete")
    /\ todo[g] = {}
    /\ todo' = [todo EXCEPT ![g] = PurgedListsPastDBRetention(start[g] - DBRetention)]
    /\ UNCHANGED <<start, purging, metaVars, redisVars>>

SweepDelete(g, l) ==
    /\ phase[g] = "delete"
    /\ l \in todo[g]
    /\ DeleteList(l)
    /\ Done(g, l)
    /\ UNCHANGED <<phase, start, purging, redisVars>>

\* Sweep returns: it is through, or a statement failed, or the process died.
SweepIdle(g) ==
    /\ phase' = [phase EXCEPT ![g] = "idle"]
    /\ start' = [start EXCEPT ![g] = 0]
    /\ todo' = [todo EXCEPT ![g] = {}]
    /\ purging' = [purging EXCEPT ![g] = Null]
    /\ UNCHANGED <<metaVars, redisVars>>

SweepDone(g) ==
    /\ phase[g] = IF DBRetention > 0 THEN "delete" ELSE "purge"
    /\ todo[g] = {}
    /\ SweepIdle(g)

SweepAbandoned(g) == phase[g] # "idle" /\ SweepIdle(g)
=============================================================================
