---------------------------- MODULE StatusService ----------------------------
(***************************************************************************)
(* The ingestion processes of the service (cmd/ingestion-service): request *)
(* handlers, pool loops, garbage collectors and decoy noisers of every     *)
(* shard, interleaved over the shared Postgres and each shard's Redis.     *)
(***************************************************************************)
EXTENDS Ingestion, GC, Decoy, StatusListToken

VARIABLE contested      \* history: the entries reserved while a noiser was writing them

vars == <<metaVars, redisVars, poolVars, ingestionVars, gcVars, decoyVars, contested>>

Init ==
    /\ MetaInit /\ RedisInit
    /\ PoolInit /\ IngestionInit /\ GCInit /\ DecoyInit
    /\ contested = {}

Indices == UNION {0 .. n - 1 : n \in Sizes}

\* A goroutine's steps inside the pool package.
PoolStep(t) ==
    /\ \/ PoolTick(t) \/ EnsureHealthyQuery(t) \/ TopUpInit(t) \/ EnsureHealthyDone(t)
       \/ PickBootstrap(t) \/ AbandonPoolTick(t)
       \/ \E l \in ListIDs :
            \/ RotateByAge(t, l) \/ PickForAllocation(t, l) \/ PickAgain(t, l)
            \/ \E key \in Keys : TopUp(t, l, key)
    /\ UNCHANGED <<ingestionVars, gcVars, decoyVars, contested>>

\* A request goroutine's steps in its handler.
RequestStep(t) ==
    /\ \/ \E i \in Issuers, exp \in 0 .. now + MaxExpiry : Allocate(t, i, exp)
       \/ \E i \in Issuers, l \in ListIDs, idx \in Indices, st \in StatusNames :
              SetStatus(t, i, l, idx, st)
       \/ Reserve(t) \/ ReserveFull(t) \/ SetStatusGetList(t)
       \/ WriteStatus(t) \/ BumpVersion(t) \/ AbandonRequest(t)
    /\ contested' = contested \cup
            ({<<a.list_id, a.idx>> : a \in allocations' \ allocations} \cap
             {<<target[g], flip[g].idx>> : g \in {n \in Noisers : nstate[n] = "write"}})
    /\ UNCHANGED <<gcVars, decoyVars>>

SweeperStep(g) ==
    /\ \/ SweepStart(g) \/ SweepQueryArchived(g) \/ SweepMarkPurged(g)
       \/ SweepQueryPurged(g) \/ SweepDone(g) \/ SweepAbandoned(g)
       \/ \E l \in ListIDs : SweepArchive(g, l) \/ SweepPurge(g, l) \/ SweepDelete(g, l)
    /\ UNCHANGED <<poolVars, ingestionVars, decoyVars, contested>>

NoiserStep(g) ==
    /\ \/ NoiseQuery(g) \/ NoiseWrite(g) \/ NoiseBump(g) \/ NoiseNextList(g) \/ NoiseDone(g)
       \/ \E l \in ListIDs, count \in 1 .. Cardinality(Indices) : NoiseSweepList(g, l, count)
       \/ \E pos \in Indices, next \in StatusNames : NoisePick(g, pos, next)
    /\ UNCHANGED <<poolVars, ingestionVars, gcVars, contested>>

ClockStep ==
    /\ Tick
    /\ UNCHANGED <<redisVars, poolVars, ingestionVars, gcVars, decoyVars, contested>>

Next ==
    \/ \E t \in Threads : PoolStep(t)
    \/ \E t \in Requests : RequestStep(t)
    \/ \E g \in Sweepers : SweeperStep(g)
    \/ \E g \in Noisers : NoiserStep(g)
    \/ ClockStep

Spec == Init /\ [][Next]_vars

-----------------------------------------------------------------------------
TypeOK ==
    /\ MetaTypeOK
    /\ \A s \in Shards, l \in ListIDs :
           bitmap[s][l] \in Seq(0 .. 255) /\ version[s][l] \in Nat
    /\ pc \in [Threads -> {"idle", "ensure", "rotate", "init", "pick", "repick",
                           "reserve", "getlist", "write", "bump"}]
    /\ \A t \in Threads : /\ DOMAIN active[t] \subseteq ListIDs /\ kept[t] \in Nat
                          /\ list[t] \in ListIDs \cup {Null}
    /\ \A t \in Requests : req[t].tries \in 0 .. MaxAttempts - 1
    /\ acked \subseteq issued
    /\ phase \in [Sweepers -> {"idle", "archive", "purge", "mark", "delete"}]
    /\ todo \in [Sweepers -> SUBSET ListIDs]
    /\ nstate \in [Noisers -> {"idle", "sweep", "pick", "write", "bump"}]

\* Every statement the processes run, whatever their interleaving and however
\* stale the query it follows from, is one the store's contract allows: the
\* garbage collector archives, purges and deletes only lists that are due at
\* that moment (gc/sweeper.go:48-94).
KeepsContract == MetaSpec

\* Once an allocation has been answered 201, a relying party that fetches the
\* list, in either form, reads in it what the owner last wrote, until the
\* bitmap may be dropped: no other request, no late creation of the bitmap, no
\* collector and no decoy changes it (ingestion/handlers.go:104-119, 191-195;
\* redis.go:85-110; token.go:146-199; cwt.go:85-151).  The one gap is the one
\* decoy.go:33-44 documents: an entry reserved after its own IsAllocated query
\* and before the decoy's write.
GrantedReadsOwnersWrite ==
    \A a \in acked \cap allocations :
        LET row == lists[a.list_id]
            e == <<a.list_id, a.idx>> IN
        e \notin contested /\ (row.state = "ARCHIVED" => now < row.archived_at + Retention) =>
            StatusesRead(a.list_id, a.idx) = {written[e]}

\* "Each retry re-queries the ACTIVE pool fresh, so a stale candidate drops
\* out immediately" (ingestion/handlers.go:34-35): a request never tries a
\* list again that has answered ErrListFull to it.
RetryNeverRepeats ==
    \A t \in Requests : pc[t] = "reserve" => list[t] \notin req[t].full

\* The pool overshoots its width, as nothing locks its count-then-create, but
\* never by more than one width per goroutine (pool.go:82-92).
PoolOvershootBounded ==
    \A s \in Shards :
        Cardinality(ActiveLists(s)) <= Width * Cardinality({t \in Threads : ShardOf[t] = s})

\* A list's bitmap is dropped from its Redis only when the list has been
\* archived for the retention period, at the time of the drop and not only
\* when the sweep queried for it (gc/sweeper.go:63-76).
BitmapKeptUntilRetention ==
    [][\A s \in Shards, l \in ListIDs :
           bitmap[s][l] # <<>> /\ bitmap'[s][l] = <<>> /\ Exists(l) =>
               /\ lists[l].state = "ARCHIVED"
               /\ lists[l].archived_at + Retention <= now]_vars

\* "Purged is true once GC has dropped this list's Redis bitmap"
\* (postgres.go:95-96).
PurgedMeansDropped ==
    \A l \in ListIDs : Exists(l) /\ lists[l].purged => bitmap[lists[l].shard_id][l] = <<>>

\* On a list that was no longer ACTIVE when the noiser read it, a decoy is
\* never written over an allocated entry, however long the sweep takes
\* (decoy.go:46-48, postgres.go:201-210).
NoDecoyRaceOnceFrozen ==
    \A g \in Noisers :
        nstate[g] = "write" /\ noise[g][target[g]].state # "ACTIVE" =>
            ~IsAllocated(target[g], flip[g].idx)

\* The list's bitmap holds INVALID at the index, and so does the snapshot of
\* every sweep of the list that is under way, in whatever replica of its shard.
Revoked(l, idx) ==
    /\ Get(Snapshot(lists[l].shard_id, l, lists[l].size), idx, Bits) = INVALID
    /\ \A g \in Noisers : target[g] = l => Get(snap[g], idx, Bits) = INVALID

\* "an INVALID one never changes again (a real revocation is permanent)"
\* (decoy.go:190-191): once no sweep is left that read another status, a decoy
\* is INVALID for good, through all later sweeps of all replicas, writes to its
\* neighbours in the byte and late creations of the bitmap, until its entry is
\* allocated or its bitmap may be dropped.  Before that it may still change:
\* every draw is judged by the snapshot taken before its sweep's first, be the
\* revocation an earlier draw of the same sweep or of another replica's.
RevokedDecoyStays ==
    [][\A l \in ListIDs : ~PurgeDue(l) =>
           \A idx \in 0 .. lists[l].size - 1 :
               ~IsAllocated(l, idx) /\ Revoked(l, idx) => Revoked(l, idx)']_vars
=============================================================================
