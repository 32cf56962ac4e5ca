------------------------- MODULE StatusServiceProofs -------------------------
(***************************************************************************)
(* The processes of the service, for any number of shards, requests and    *)
(* lists and any durations: they keep the contract of the store, the pool  *)
(* has at most a width of lists for each goroutine, no retry repeats       *)
(* a list, and what a request or a noiser remembers of a list, of its own  *)
(* writes and of the bitmap it has read stays true while others step.      *)
(***************************************************************************)
EXTENDS StatusService, MetaStoreProofs

PCs == {"idle", "ensure", "rotate", "init", "pick", "repick", "reserve", "getlist",
        "write", "bump"}

OnList == {"init", "reserve", "getlist", "write", "bump"}

Allocating == {"pick", "ensure", "rotate", "init", "repick", "reserve"}

Request == [issuer : Issuers \cup {Null}, exp : Nat, tries : Nat, full : SUBSET ListIDs,
            idx : Nat, status : StatusNames, allocating : BOOLEAN]

\* A thread that has a list knows which; an allocating request holds an issuer
\* and an expiry that are allowed.
ThreadInv ==
    /\ pc \in [Threads -> PCs]
    /\ list \in [Threads -> ListIDs \cup {Null}]
    /\ req \in [Requests -> Request]
    /\ \A t \in Threads : pc[t] \in OnList => list[t] \in ListIDs
    /\ \A t \in Requests : pc[t] \in Allocating =>
           req[t].issuer \in Issuers /\ req[t].exp <= now + MaxExpiry

ToArchive(l) ==
    Exists(l) => /\ lists[l].state # "ACTIVE"
                 /\ lists[l].max_exp # Null => lists[l].max_exp + Grace <= now

\* However stale a sweeper's rows are, what its query selected them for still
\* holds: each list is gone for good, or still due.
SweeperOK(g) ==
    /\ start[g] <= now
    /\ todo[g] \subseteq minted
    /\ phase[g] = "archive" => \A l \in todo[g] : ToArchive(l)
    /\ phase[g] \in {"purge", "mark"} => \A l \in todo[g] : PurgeDue(l)
    /\ phase[g] = "mark" =>
           purging[g] \in ListIDs /\ purging[g] \in minted /\ PurgeDue(purging[g])
    /\ phase[g] = "delete" => \A l \in todo[g] : DeleteDue(l)

Phases == {"idle", "archive", "purge", "mark", "delete"}

SweepInv ==
    /\ phase \in [Sweepers -> Phases]
    /\ start \in [Sweepers -> Nat]
    /\ todo \in [Sweepers -> SUBSET ListIDs]
    /\ purging \in [Sweepers -> ListIDs \cup {Null}]
    /\ \A g \in Sweepers : SweeperOK(g)

-----------------------------------------------------------------------------
\* The statements of the store, each on one list.
Statement(m) ==
    \/ \E n \in Sizes, k \in Keys, s \in Shards : CreateList(m, n, k, s)
    \/ Freeze(m) \/ Archive(m) \/ MarkPurged(m) \/ DeleteList(m)
    \/ \E i \in Issuers, s \in Shards, exp \in 0 .. now + MaxExpiry :
           ReserveCursorAndRecord(m, i, s, exp)

LEMMA NextIsStatement ==
    ASSUME [MetaNext]_metaVars
    PROVE  Tick \/ UNCHANGED metaVars \/ \E m \in ListIDs : Statement(m)
BY Zenon DEF MetaNext, Statement

LEMMA StatementKeeps ==
    ASSUME NEW m \in ListIDs, Statement(m)
    PROVE  now' = now /\ minted \subseteq minted'
BY Zenon
DEF Statement, CreateList, Freeze, Archive, MarkPurged, DeleteList, ReserveCursorAndRecord

LEMMA NowGrows ==
    ASSUME MetaTypeOK, [MetaNext]_metaVars
    PROVE  now \in Nat /\ now' \in Nat /\ now <= now'
<1>1. now \in Nat
  BY Zenon DEF MetaTypeOK
<1>2. now' = now \/ now' = now + 1
  BY NextIsStatement, StatementKeeps, Zenon DEF Tick, metaVars
<1>3. QED
  BY <1>1, <1>2

\* What the statements of others cannot undo, of a list that was once created.
LEMMA MintedStays ==
    ASSUME MetaTypeOK, [MetaNext]_metaVars, NEW l \in ListIDs, l \in minted
    PROVE  /\ l \in minted'
           /\ Exists(l)' => /\ Exists(l) /\ lists'[l].size = lists[l].size
                            /\ lists'[l].shard_id = lists[l].shard_id
<1>1. CASE Tick \/ UNCHANGED metaVars
  BY <1>1, Zenon DEF Tick, metaVars, Exists
<1>2. ASSUME NEW m \in ListIDs, Statement(m)
      PROVE  Exists(l)' => /\ Exists(l) /\ lists'[l].size = lists[l].size
                           /\ lists'[l].shard_id = lists[l].shard_id
  <2>1. CASE m # l
    BY <1>2, <2>1, Zenon
    DEF Statement, CreateList, Freeze, Archive, MarkPurged, DeleteList,
        ReserveCursorAndRecord, MetaTypeOK, Exists
  <2>2. CASE m = l
    <3>1. Exists(l) => lists[l] \in Row
      BY Zenon DEF MetaTypeOK, Exists
    <3>2. QED
      BY <1>2, <2>2, <3>1
      DEF Statement, CreateList, FreshID, Freeze, Archive, MarkPurged, DeleteList,
          ReserveCursorAndRecord, Reservable, HasState, MetaTypeOK, Exists, Row
  <2>3. QED
    BY <2>1, <2>2, Zenon
<1>3. QED
  BY <1>1, <1>2, NextIsStatement, StatementKeeps, Zenon

LEMMA DueStays ==
    ASSUME MetaInv, [MetaNext]_metaVars, NEW l \in ListIDs, l \in minted
    PROVE  /\ ToArchive(l) => ToArchive(l)'
           /\ PurgeDue(l) => PurgeDue(l)'
           /\ DeleteDue(l) => DeleteDue(l)'
           /\ ~HasState(l, {"ACTIVE"}) => ~HasState(l, {"ACTIVE"})'
<1>1. MetaInv'
  BY InvStep, Zenon
<1>2. now \in Nat /\ now' \in Nat /\ now <= now' /\ (Exists(l)' => Exists(l))
  BY MintedStays, NowGrows, Zenon DEF MetaInv
<1>3. CASE ~Exists(l)'
  BY <1>3, Zenon DEF ToArchive, PurgeDue, DeleteDue, HasState
<1>4. CASE Exists(l)'
  <2>1. Exists(l)
    BY <1>2, <1>4, Zenon
  <2>2. /\ lists[l] \in Row /\ lists'[l] \in Row
        /\ lists[l].max_exp \in Nat \cup {Null} /\ lists[l].archived_at \in Nat \cup {Null}
        /\ lists[l].state \in States /\ lists'[l].state \in States
    BY <1>1, <1>4, <2>1, Zenon DEF MetaInv, MetaTypeOK, Exists, Row
  <2>3. lists[l].purged \in BOOLEAN /\ lists'[l].purged \in BOOLEAN
    BY <2>2, Zenon DEF Row
  <2>4. /\ Rank(lists'[l]) >= Rank(lists[l])
        /\ Rank(lists[l]) > 0 =>
               /\ lists'[l].max_exp = lists[l].max_exp
               /\ lists[l].archived_at # Null => lists'[l].archived_at = lists[l].archived_at
    BY <1>4, <2>1, ForwardStep, Zenon DEF MovesForward, Exists
  <2>5. lists[l].state = "ARCHIVED" => lists[l].archived_at # Null
    BY <2>1, Zenon DEF MetaInv, StampsInOrder
  <2>6. lists[l].purged => lists[l].state = "ARCHIVED"
    BY <2>1, Zenon DEF MetaInv, StampsInOrder
  <2>7. lists[l].state # "ACTIVE" => Rank(lists[l]) > 0 /\ lists'[l].state # "ACTIVE"
    BY <2>2, <2>4 DEF Rank, States
  <2>8. lists[l].state = "ARCHIVED" => lists'[l].state = "ARCHIVED"
    BY <2>2, <2>4 DEF Rank, States
  <2>9. lists[l].purged => lists'[l].purged
    BY <2>2, <2>3, <2>4, <2>6 DEF Rank, States
  <2>10. ToArchive(l) => ToArchive(l)'
    BY <1>2, <2>1, <2>2, <2>4, <2>7, DurationsAssumption DEF ToArchive
  <2>11. PurgeDue(l) => PurgeDue(l)'
    BY <1>2, <2>1, <2>2, <2>4, <2>5, <2>7, <2>8, DurationsAssumption DEF PurgeDue
  <2>12. DeleteDue(l) => DeleteDue(l)'
    BY <1>2, <2>1, <2>2, <2>4, <2>5, <2>6, <2>7, <2>9, DurationsAssumption DEF DeleteDue
  <2>13. ~HasState(l, {"ACTIVE"}) => ~HasState(l, {"ACTIVE"})'
    BY <2>1, <2>7, Zenon DEF HasState
  <2>14. QED
    BY <2>10, <2>11, <2>12, <2>13, Zenon
<1>5. QED
  BY <1>3, <1>4, Zenon

-----------------------------------------------------------------------------
(* Every step of a process is a statement of the store's contract.          *)

LEMMA ServiceStep ==
    ASSUME MetaTypeOK, ThreadInv, SweepInv, [Next]_vars
    PROVE  [MetaNext]_metaVars
<1> USE PoolAssumption
<1>1. ASSUME NEW t \in Threads, PoolStep(t) PROVE [MetaNext]_metaVars
  <2>1. ASSUME NEW l \in ListIDs, RotateByAge(t, l) PROVE [MetaNext]_metaVars
    BY <2>1, Zenon DEF RotateByAge, MetaNext
  <2>2. ASSUME NEW l \in ListIDs, NEW key \in Keys, TopUp(t, l, key) PROVE MetaNext
    <3>1. CreateList(l, Capacity, key, ShardOf[t])
      BY <2>2, Zenon DEF TopUp
    <3>2. QED
      BY <3>1, Zenon DEF MetaNext
  <2>3. CASE UNCHANGED metaVars
    BY <2>3, Zenon
  <2>4. QED
    BY <1>1, <2>1, <2>2, <2>3, Zenon
    DEF PoolStep, PoolTick, EnsureHealthyQuery, TopUpInit, EnsureHealthyDone, PickBootstrap,
        AbandonPoolTick, PickForAllocation, PickAgain, Choose
<1>2. ASSUME NEW t \in Requests, RequestStep(t) PROVE [MetaNext]_metaVars
  <2>1. CASE Reserve(t)
    <3>1. ReserveCursorAndRecord(list[t], req[t].issuer, ShardOf[t], req[t].exp)
      BY <2>1, Zenon DEF Reserve
    <3>2. list[t] \in ListIDs /\ req[t].issuer \in Issuers /\ req[t].exp <= now + MaxExpiry
      BY <2>1, Zenon DEF Reserve, Goto, ThreadInv, Threads, OnList, Allocating
    <3>3. req[t].exp \in Nat /\ now \in Nat /\ ShardOf[t] \in Shards
      BY Zenon DEF ThreadInv, Request, MetaTypeOK, Threads
    <3>4. req[t].exp \in 0 .. now + MaxExpiry
      BY <3>2, <3>3, DurationsAssumption
    <3>5. QED
      BY <3>1, <3>2, <3>3, <3>4, Zenon DEF MetaNext
  <2>2. CASE UNCHANGED metaVars
    BY <2>2, Zenon
  <2>3. QED
    BY <1>2, <2>1, <2>2, Zenon
    DEF RequestStep, Allocate, SetStatus, ReserveFull, SetStatusGetList, WriteStatus,
        BumpVersion, AbandonRequest
<1>3. ASSUME NEW g \in Sweepers, SweeperStep(g) PROVE [MetaNext]_metaVars
  <2>1. ASSUME NEW l \in ListIDs, SweepArchive(g, l) PROVE MetaNext
    <3>1. ToArchive(l)
      BY <2>1, Zenon DEF SweepArchive, SweepInv, SweeperOK
    <3>2. ArchiveDue(l) /\ Archive(l)
      BY <2>1, <3>1, Zenon DEF SweepArchive, ToArchive, ArchiveDue, HasState
    <3>3. QED
      BY <3>2, Zenon DEF MetaNext
  <2>2. CASE SweepMarkPurged(g)
    <3>1. purging[g] \in ListIDs /\ PurgeDue(purging[g]) /\ MarkPurged(purging[g])
      BY <2>2, Zenon DEF SweepMarkPurged, Step, SweepInv, SweeperOK
    <3>2. QED
      BY <3>1, Zenon DEF MetaNext
  <2>3. ASSUME NEW l \in ListIDs, SweepDelete(g, l) PROVE MetaNext
    <3>1. DeleteDue(l) /\ DeleteList(l)
      BY <2>3, Zenon DEF SweepDelete, SweepInv, SweeperOK
    <3>2. QED
      BY <3>1, Zenon DEF MetaNext
  <2>4. CASE UNCHANGED metaVars
    BY <2>4, Zenon
  <2>5. QED
    BY <1>3, <2>1, <2>2, <2>3, <2>4, Zenon
    DEF SweeperStep, SweepStart, SweepQueryArchived, SweepPurge, SweepQueryPurged,
        SweepDone, SweepAbandoned, SweepIdle
<1>4. ASSUME NEW g \in Noisers, NoiserStep(g) PROVE UNCHANGED metaVars
  BY <1>4, Zenon
  DEF NoiserStep, NoiseQuery, NoiseSweepList, NoisePick, NoiseWrite, NoiseBump,
      NoiseNextList, NoiseDone
<1>5. CASE ClockStep
  BY <1>5, Zenon DEF ClockStep, MetaNext
<1>6. CASE UNCHANGED vars
  BY <1>6, Zenon DEF vars
<1>7. QED
  BY <1>1, <1>2, <1>3, <1>4, <1>5, <1>6, Zenon DEF Next

-----------------------------------------------------------------------------
(* The invariant of the threads.                                            *)

LEMMA ThreadMoves ==
    ASSUME ThreadInv, NEW t \in Threads, NEW x \in PCs, NEW y \in ListIDs \cup {Null},
           pc' = [pc EXCEPT ![t] = x], list' = [list EXCEPT ![t] = y],
           x \in OnList => y \in ListIDs,
           req' \in [Requests -> Request],
           \A q \in Requests : q # t => req'[q] = req[q],
           t \in Requests /\ x \in Allocating =>
               req'[t].issuer \in Issuers /\ req'[t].exp <= now' + MaxExpiry,
           now \in Nat, now' \in Nat, now <= now'
    PROVE  ThreadInv'
<1>1. pc' \in [Threads -> PCs] /\ list' \in [Threads -> ListIDs \cup {Null}]
  BY Zenon DEF ThreadInv
<1>2. ASSUME NEW q \in Threads, pc'[q] \in OnList PROVE list'[q] \in ListIDs
  BY <1>2, Zenon DEF ThreadInv
<1>3. ASSUME NEW q \in Requests, pc'[q] \in Allocating
      PROVE  req'[q].issuer \in Issuers /\ req'[q].exp <= now' + MaxExpiry
  <2>1. CASE q = t
    BY <1>3, <2>1, Zenon DEF ThreadInv
  <2>2. CASE q # t
    <3>1. pc[q] \in Allocating
      BY <1>3, <2>2, Zenon DEF ThreadInv, Threads
    <3>2. /\ req[q].issuer \in Issuers /\ req[q].exp <= now + MaxExpiry
          /\ req'[q] = req[q] /\ req[q].exp \in Nat
      BY <2>2, <3>1, Zenon DEF ThreadInv, Request
    <3>3. QED
      BY <3>2, DurationsAssumption
  <2>3. QED
    BY <2>1, <2>2, Zenon
<1>4. QED
  BY <1>1, <1>2, <1>3, Zenon DEF ThreadInv

LEMMA NextIndexInRange ==
    ASSUME MetaTypeOK, NEW l \in ListIDs, Reservable(l), NextIndex(l) # Null
    PROVE  NextIndex(l) \in Nat
<1>1. lists[l] \in Row /\ lists[l].cursor < lists[l].size
  BY Zenon DEF MetaTypeOK, Reservable, HasState, Exists
<1>2. lists[l].fpe_key \in Keys /\ lists[l].size \in Sizes /\ lists[l].cursor \in Nat
  BY <1>1, Zenon DEF Row
<1>3. lists[l].size \in Nat
  BY <1>2, SizesAssumption, Zenon
<1>4. lists[l].cursor \in 0 .. lists[l].size - 1
  BY <1>1, <1>2, <1>3
<1>5. NextIndex(l) \in 0 .. lists[l].size - 1
  BY <1>2, <1>4, IndexAssumption, Zenon DEF NextIndex
<1>6. QED
  BY <1>3, <1>5

LEMMA ThreadStep ==
    ASSUME MetaTypeOK, MetaTypeOK', now <= now', ThreadInv, [Next]_vars
    PROVE  ThreadInv'
<1> USE PoolAssumption
<1>1. now \in Nat /\ now' \in Nat
  BY Zenon DEF MetaTypeOK
<1>2. /\ pc \in [Threads -> PCs] /\ list \in [Threads -> ListIDs \cup {Null}]
      /\ req \in [Requests -> Request] /\ Requests \subseteq Threads
  BY Zenon DEF ThreadInv, Threads
<1>3. ASSUME UNCHANGED <<pc, list, req>> PROVE ThreadInv'
  <2>1. ASSUME NEW t \in Requests, pc[t] \in Allocating PROVE req[t].exp <= now' + MaxExpiry
    BY <1>1, <2>1, DurationsAssumption DEF ThreadInv, Request
  <2>2. QED
    BY <1>3, <2>1, Zenon DEF ThreadInv
<1>4. ASSUME NEW t \in Threads, PoolStep(t) PROVE ThreadInv'
  <2>1. req' = req
    BY <1>4, Zenon DEF PoolStep, ingestionVars
  <2>2. t \in Requests /\ pc[t] \in Allocating =>
            req'[t].issuer \in Issuers /\ req'[t].exp <= now' + MaxExpiry
    BY <1>1, <2>1, DurationsAssumption DEF ThreadInv, Request
  <2>3. ASSUME NEW l \in ListIDs, RotateByAge(t, l) PROVE ThreadInv'
    BY <1>3, <2>1, <2>3, Zenon DEF RotateByAge
  <2>4. SUFFICES ASSUME NEW x \in PCs, NEW y \in ListIDs \cup {Null},
                        pc' = [pc EXCEPT ![t] = x], list' = [list EXCEPT ![t] = y],
                        x \in OnList => y \in ListIDs,
                        t \in Requests /\ x \in Allocating => pc[t] \in Allocating
                 PROVE  ThreadInv'
    <3> DEFINE Moves == \E x \in PCs, y \in ListIDs \cup {Null} :
                            /\ pc' = [pc EXCEPT ![t] = x] /\ list' = [list EXCEPT ![t] = y]
                            /\ x \in OnList => y \in ListIDs
                            /\ t \in Requests /\ x \in Allocating => pc[t] \in Allocating
    <3> USE <1>2 DEF Goto, PCs, OnList, Allocating
    <3>1. CASE PoolTick(t)
      <4>1. pc' = [pc EXCEPT ![t] = "ensure"] /\ list' = [list EXCEPT ![t] = list[t]]
            /\ t \notin Requests
        BY <3>1, Zenon DEF PoolTick
      <4>2. QED
        BY <4>1, Zenon
    <3>2. CASE EnsureHealthyQuery(t) \/ PickBootstrap(t)
      <4>1. \E x \in {"rotate", "ensure"} : pc' = [pc EXCEPT ![t] = x]
        BY <3>2, Zenon DEF EnsureHealthyQuery, PickBootstrap
      <4>2. pc[t] \in Allocating /\ list' = [list EXCEPT ![t] = list[t]]
        BY <3>2, Zenon DEF EnsureHealthyQuery, PickBootstrap
      <4>3. QED
        BY <4>1, <4>2, Zenon
    <3>3. CASE TopUpInit(t)
      <4>1. pc' = [pc EXCEPT ![t] = "rotate"] /\ list' = [list EXCEPT ![t] = Null]
            /\ pc[t] \in Allocating
        BY <3>3, Zenon DEF TopUpInit
      <4>2. QED
        BY <4>1, Zenon
    <3>4. CASE EnsureHealthyDone(t)
      <4>1. \E x \in {"idle", "repick"} : pc' = [pc EXCEPT ![t] = x]
        BY <3>4, Zenon DEF EnsureHealthyDone
      <4>2. pc[t] \in Allocating /\ list' = [list EXCEPT ![t] = list[t]]
        BY <3>4, Zenon DEF EnsureHealthyDone
      <4>3. QED
        BY <4>1, <4>2, Zenon
    <3>5. CASE AbandonPoolTick(t)
      <4>1. pc' = [pc EXCEPT ![t] = "idle"] /\ list' = [list EXCEPT ![t] = Null]
        BY <3>5, Zenon DEF AbandonPoolTick, ThreadIdle
      <4>2. QED
        BY <4>1, Zenon
    <3>6. ASSUME NEW l \in ListIDs, PickForAllocation(t, l) \/ PickAgain(t, l) PROVE Moves
      <4>1. pc' = [pc EXCEPT ![t] = "reserve"] /\ list' = [list EXCEPT ![t] = l]
            /\ pc[t] \in Allocating
        BY <3>6, Zenon DEF PickForAllocation, PickAgain, Choose
      <4>2. QED
        BY <4>1, Zenon
    <3>7. ASSUME NEW l \in ListIDs, NEW key \in Keys, TopUp(t, l, key) PROVE Moves
      <4>1. pc' = [pc EXCEPT ![t] = "init"] /\ list' = [list EXCEPT ![t] = l]
            /\ pc[t] \in Allocating
        BY <3>7, Zenon DEF TopUp
      <4>2. QED
        BY <4>1, Zenon
    <3>8. QED
      BY <1>4, <2>3, <3>1, <3>2, <3>3, <3>4, <3>5, <3>6, <3>7, Zenon DEF PoolStep
  <2>5. QED
    BY <1>1, <1>2, <2>1, <2>2, <2>4, ThreadMoves, Zenon
<1>5. ASSUME NEW t \in Requests, RequestStep(t) PROVE ThreadInv'
  <2> USE <1>1, <1>2 DEF Goto, PCs, OnList, Allocating
  <2>1. NoRequest \in Request
    BY Zenon DEF NoRequest, Request, StatusNames
  <2>2. ASSUME Respond(t) PROVE ThreadInv'
    <3>1. pc' = [pc EXCEPT ![t] = "idle"] /\ list' = [list EXCEPT ![t] = Null]
      BY <2>2, Zenon DEF Respond, ThreadIdle
    <3>2. req' = [req EXCEPT ![t] = NoRequest]
      BY <2>2, Zenon DEF Respond
    <3>3. req' \in [Requests -> Request] /\ \A q \in Requests : q # t => req'[q] = req[q]
      BY <2>1, <3>2, Zenon
    <3>4. QED
      BY <3>1, <3>3, ThreadMoves, Zenon
  <2>3. ASSUME NEW i \in Issuers, NEW exp \in 0 .. now + MaxExpiry, Allocate(t, i, exp)
        PROVE  ThreadInv'
    <3>1. pc' = [pc EXCEPT ![t] = "pick"] /\ list' = [list EXCEPT ![t] = list[t]]
      BY <2>3, Zenon DEF Allocate
    <3> DEFINE r == [NoRequest EXCEPT !.issuer = i, !.exp = exp, !.allocating = TRUE]
    <3>2. exp \in Nat /\ exp <= now' + MaxExpiry
      <4>1. now + MaxExpiry \in Nat
        BY DurationsAssumption
      <4>2. exp \in Nat /\ exp <= now + MaxExpiry
        BY <2>3, <4>1
      <4>3. now' = now
        BY <2>3, Zenon DEF Allocate, metaVars
      <4>4. QED
        BY <4>2, <4>3, Zenon
    <3>3. r \in Request /\ r.issuer = i /\ r.exp = exp
      BY <3>2, Zenon DEF NoRequest, Request, StatusNames
    <3>4. req' = [req EXCEPT ![t] = r]
      BY <2>3, Zenon DEF Allocate
    <3> HIDE DEF r
    <3>5. /\ req' \in [Requests -> Request] /\ \A q \in Requests : q # t => req'[q] = req[q]
          /\ req'[t].issuer \in Issuers /\ req'[t].exp <= now' + MaxExpiry
      BY <3>2, <3>3, <3>4, Zenon
    <3>6. QED
      BY <3>1, <3>5, ThreadMoves, Zenon
  <2>4. ASSUME NEW i \in Issuers, NEW l \in ListIDs, NEW idx \in Indices,
               NEW st \in StatusNames, SetStatus(t, i, l, idx, st)
        PROVE  ThreadInv'
    <3>1. pc' = [pc EXCEPT ![t] = "getlist"] /\ list' = [list EXCEPT ![t] = l]
      BY <2>4, Zenon DEF SetStatus
    <3> DEFINE r == [NoRequest EXCEPT !.issuer = i, !.idx = idx, !.status = st]
    <3>2. idx \in Nat
      BY SizesAssumption DEF Indices
    <3>3. r \in Request
      BY <3>2, Zenon DEF NoRequest, Request, StatusNames
    <3>4. req' = [req EXCEPT ![t] = r]
      BY <2>4, Zenon DEF SetStatus
    <3> HIDE DEF r
    <3>5. req' \in [Requests -> Request] /\ \A q \in Requests : q # t => req'[q] = req[q]
      BY <3>3, <3>4, Zenon
    <3>6. QED
      BY <3>1, <3>5, ThreadMoves, Zenon
  <2>5. CASE Reserve(t)
    <3>1. pc' = [pc EXCEPT ![t] = "write"] /\ list' = [list EXCEPT ![t] = list[t]]
          /\ list[t] \in ListIDs
      BY <2>5, Zenon DEF Reserve, ThreadInv
    <3>2. /\ Reservable(list[t]) /\ NextIndex(list[t]) # Null
          /\ req' = [req EXCEPT ![t].idx = NextIndex(list[t])]
      BY <2>5, Zenon DEF Reserve, ReserveCursorAndRecord, ReserveFails
    <3>3. NextIndex(list[t]) \in Nat
      BY <3>1, <3>2, NextIndexInRange, Zenon
    <3>4. [req[t] EXCEPT !.idx = NextIndex(list[t])] \in Request
      BY <3>3, Zenon DEF Request
    <3>5. req' \in [Requests -> Request] /\ \A q \in Requests : q # t => req'[q] = req[q]
      BY <3>2, <3>4, Zenon
    <3>6. QED
      BY <3>1, <3>5, ThreadMoves, Zenon
  <2>6. CASE ReserveFull(t) /\ ~Respond(t)
    <3>1. /\ pc' = [pc EXCEPT ![t] = "pick"] /\ list' = [list EXCEPT ![t] = Null]
          /\ pc[t] = "reserve" /\ list[t] \in ListIDs
          /\ req' = [req EXCEPT ![t].tries = @ + 1, ![t].full = @ \cup {list[t]}]
      BY <2>6, Zenon DEF ReserveFull, ThreadInv
    <3> DEFINE r == [req[t] EXCEPT !.tries = @ + 1, !.full = @ \cup {list[t]}]
    <3>2. r \in Request /\ r.issuer = req[t].issuer /\ r.exp = req[t].exp
      <4>1. req[t] \in Request /\ req[t].tries + 1 \in Nat
            /\ req[t].full \cup {list[t]} \in SUBSET ListIDs
        BY <3>1 DEF Request
      <4>2. QED
        BY <4>1, Zenon DEF Request
    <3>3. req' = [req EXCEPT ![t] = r]
      BY <3>1, Zenon
    <3>4. /\ req[t].issuer \in Issuers /\ req[t].exp <= now' + MaxExpiry
      BY <3>1, DurationsAssumption DEF ThreadInv, Request
    <3> HIDE DEF r
    <3>5. /\ req' \in [Requests -> Request] /\ \A q \in Requests : q # t => req'[q] = req[q]
          /\ req'[t].issuer \in Issuers /\ req'[t].exp <= now' + MaxExpiry
      BY <3>2, <3>3, <3>4, Zenon
    <3>6. QED
      BY <3>1, <3>5, ThreadMoves, Zenon
  <2>7. CASE WriteStatus(t) \/ (SetStatusGetList(t) /\ ~Respond(t))
    <3>1. /\ \E x \in {"bump", "write"} : pc' = [pc EXCEPT ![t] = x]
          /\ list' = [list EXCEPT ![t] = list[t]] /\ req' = req
      BY <2>7, Zenon DEF WriteStatus, SetStatusGetList
    <3>2. list[t] \in ListIDs
      BY <2>7, Zenon DEF WriteStatus, SetStatusGetList, ThreadInv
    <3>3. QED
      BY <3>1, <3>2, ThreadMoves, Zenon
  <2>8. QED
    BY <1>5, <2>2, <2>3, <2>4, <2>5, <2>6, <2>7, Zenon
    DEF RequestStep, BumpVersion, AbandonRequest
<1>6. ASSUME UNCHANGED <<poolVars, ingestionVars>> PROVE ThreadInv'
  BY <1>3, <1>6, Zenon DEF poolVars, ingestionVars
<1>7. QED
  BY <1>4, <1>5, <1>6, Zenon DEF Next, vars, SweeperStep, NoiserStep, ClockStep

-----------------------------------------------------------------------------
(* The invariant of the sweepers.                                           *)

\* The three queries select lists that are due.
LEMMA QueriedIsDue ==
    ASSUME MetaInv, NEW l \in ListIDs, NEW from \in Nat, from <= now
    PROVE  /\ l \in FrozenListsPastGrace(from - Grace) => l \in minted /\ ToArchive(l)
           /\ l \in ArchivedListsPastRetention(from - Retention) => l \in minted /\ PurgeDue(l)
           /\ l \in PurgedListsPastDBRetention(from - DBRetention) => l \in minted /\ DeleteDue(l)
<1>1. now \in Nat
  BY Zenon DEF MetaInv, MetaTypeOK
<1>2. SUFFICES ASSUME Exists(l) PROVE
           /\ l \in FrozenListsPastGrace(from - Grace) => ToArchive(l)
           /\ l \in ArchivedListsPastRetention(from - Retention) => PurgeDue(l)
           /\ l \in PurgedListsPastDBRetention(from - DBRetention) => DeleteDue(l)
  BY Zenon DEF FrozenListsPastGrace, ArchivedListsPastRetention, PurgedListsPastDBRetention,
         HasState, MetaInv, KnownLists
<1>3. lists[l] \in Row
  BY <1>2, Zenon DEF MetaInv, MetaTypeOK, Exists
<1>4. /\ lists[l].max_exp \in Nat \cup {Null} /\ lists[l].archived_at \in Nat \cup {Null}
      /\ lists[l].purged_at \in Nat \cup {Null}
  BY <1>3, Zenon DEF Row
<1>5. lists[l].state = "ARCHIVED" => lists[l].archived_at # Null
  BY <1>2, Zenon DEF MetaInv, StampsInOrder
<1>6. lists[l].purged => /\ lists[l].state = "ARCHIVED" /\ lists[l].purged_at # Null
                         /\ lists[l].archived_at + Retention <= lists[l].purged_at
  BY <1>2, Zenon DEF MetaInv, StampsInOrder
<1>7. l \in FrozenListsPastGrace(from - Grace) => ToArchive(l)
  BY <1>1, <1>4, DurationsAssumption DEF FrozenListsPastGrace, HasState, ToArchive
<1>8. l \in ArchivedListsPastRetention(from - Retention) => PurgeDue(l)
  BY <1>1, <1>4, <1>5, DurationsAssumption DEF ArchivedListsPastRetention, HasState, PurgeDue
<1>9. ASSUME l \in PurgedListsPastDBRetention(from - DBRetention) PROVE DeleteDue(l)
  <2>1. lists[l].purged /\ lists[l].purged_at <= from - DBRetention
    BY <1>9, Zenon DEF PurgedListsPastDBRetention
  <2>2. lists[l].archived_at \in Nat /\ lists[l].purged_at \in Nat
    BY <1>4, <1>5, <1>6, <2>1, Zenon
  <2>3. lists[l].archived_at + Retention + DBRetention <= now
    BY <1>1, <1>6, <2>1, <2>2, DurationsAssumption
  <2>4. QED
    BY <2>1, <2>3, Zenon DEF DeleteDue
<1>10. QED
  BY <1>7, <1>8, <1>9, Zenon

LEMMA SweepStep ==
    ASSUME MetaInv, [MetaNext]_metaVars, SweepInv, [Next]_vars
    PROVE  SweepInv'
<1>1. /\ phase \in [Sweepers -> Phases] /\ start \in [Sweepers -> Nat]
      /\ todo \in [Sweepers -> SUBSET ListIDs] /\ purging \in [Sweepers -> ListIDs \cup {Null}]
      /\ \A g \in Sweepers : SweeperOK(g)
  BY Zenon DEF SweepInv
<1>2. \A l \in ListIDs : l \in minted =>
          /\ l \in minted'
          /\ ToArchive(l) => ToArchive(l)'
          /\ PurgeDue(l) => PurgeDue(l)'
          /\ DeleteDue(l) => DeleteDue(l)'
  BY MintedStays, DueStays, Zenon DEF MetaInv
<1>3. now \in Nat /\ now' \in Nat /\ now <= now'
  BY NowGrows, Zenon DEF MetaInv
<1>4. ASSUME NEW g \in Sweepers, start'[g] = start[g], phase'[g] = phase[g],
             todo'[g] \subseteq todo[g], purging'[g] = purging[g]
      PROVE  SweeperOK(g)'
  <2>1. start'[g] <= now'
    BY <1>1, <1>3, <1>4 DEF SweeperOK
  <2>2. SweeperOK(g) /\ todo[g] \subseteq ListIDs
    BY <1>1, Zenon
  <2>3. QED
    BY <1>2, <1>4, <2>1, <2>2, Zenon DEF SweeperOK
<1>5. CASE UNCHANGED gcVars
  BY <1>1, <1>4, <1>5, Zenon DEF gcVars, SweepInv
<1>6. ASSUME NEW g \in Sweepers, SweeperStep(g) PROVE SweepInv'
  <2>1. ASSUME phase' \in [Sweepers -> Phases], start' \in [Sweepers -> Nat],
               todo' \in [Sweepers -> SUBSET ListIDs],
               purging' \in [Sweepers -> ListIDs \cup {Null}],
               \A h \in Sweepers : h # g => /\ phase'[h] = phase[h] /\ start'[h] = start[h]
                                          /\ todo'[h] = todo[h] /\ purging'[h] = purging[h],
               SweeperOK(g)'
        PROVE  SweepInv'
    BY <1>4, <2>1, Zenon DEF SweepInv
  <2>2. SweeperOK(g) /\ todo[g] \subseteq ListIDs /\ start[g] \in Nat /\ start[g] <= now
    BY <1>1, Zenon DEF SweeperOK
  <2>3. CASE SweepIdle(g)
    <3>1. /\ phase'[g] = "idle" /\ start'[g] = 0 /\ todo'[g] = {}
      BY <1>1, <2>3, Zenon DEF SweepIdle
    <3>2. SweeperOK(g)'
      BY <1>3, <3>1 DEF SweeperOK
    <3>3. QED
      BY <1>1, <2>1, <2>3, <3>2, Zenon DEF SweepIdle, Phases
  <2>4. CASE SweepStart(g)
    <3>1. /\ phase'[g] = "archive" /\ start'[g] = now
          /\ todo'[g] = FrozenListsPastGrace(now - Grace)
          /\ UNCHANGED metaVars
      BY <1>1, <2>4, Zenon DEF SweepStart, Step
    <3>2. \A l \in todo'[g] : l \in ListIDs /\ l \in minted /\ ToArchive(l)
      BY <1>3, <3>1, QueriedIsDue DEF FrozenListsPastGrace
    <3>3. SweeperOK(g)'
      BY <1>2, <1>3, <3>1, <3>2, Zenon DEF SweeperOK, metaVars
    <3>4. QED
      BY <1>1, <1>3, <2>1, <2>4, <3>1, <3>2, <3>3, Zenon DEF SweepStart, Step, Phases
  <2>5. CASE SweepQueryArchived(g)
    <3>1. /\ phase'[g] = "purge" /\ start' = start
          /\ todo'[g] = ArchivedListsPastRetention(start[g] - Retention)
          /\ UNCHANGED metaVars
      BY <1>1, <2>5, Zenon DEF SweepQueryArchived, Step
    <3>2. \A l \in todo'[g] : l \in ListIDs /\ l \in minted /\ PurgeDue(l)
      BY <2>2, <3>1, QueriedIsDue, Zenon DEF ArchivedListsPastRetention
    <3>3. SweeperOK(g)'
      BY <1>2, <2>2, <3>1, <3>2, Zenon DEF SweeperOK, metaVars
    <3>4. QED
      BY <1>1, <2>1, <2>5, <3>1, <3>2, <3>3, Zenon DEF SweepQueryArchived, Step, Phases
  <2>6. CASE SweepQueryPurged(g)
    <3>1. /\ phase'[g] = "delete" /\ start' = start
          /\ todo'[g] = PurgedListsPastDBRetention(start[g] - DBRetention)
          /\ UNCHANGED metaVars
      BY <1>1, <2>6, Zenon DEF SweepQueryPurged, Step
    <3>2. \A l \in todo'[g] : l \in ListIDs /\ l \in minted /\ DeleteDue(l)
      BY <2>2, <3>1, QueriedIsDue, Zenon DEF PurgedListsPastDBRetention
    <3>3. SweeperOK(g)'
      BY <1>2, <2>2, <3>1, <3>2, Zenon DEF SweeperOK, metaVars
    <3>4. QED
      BY <1>1, <2>1, <2>6, <3>1, <3>2, <3>3, Zenon DEF SweepQueryPurged, Step, Phases
  <2>7. ASSUME NEW l \in ListIDs, SweepArchive(g, l) \/ SweepDelete(g, l) PROVE SweepInv'
    <3>1. /\ phase' = phase /\ start' = start /\ purging' = purging
          /\ todo' = [todo EXCEPT ![g] = todo[g] \ {l}]
      BY <2>7, Zenon DEF SweepArchive, SweepDelete, Done
    <3>2. SweeperOK(g)'
      BY <1>1, <1>4, <3>1, Zenon
    <3>3. QED
      BY <1>1, <2>1, <3>1, <3>2, Zenon
  <2>8. ASSUME NEW l \in ListIDs, SweepPurge(g, l) PROVE SweepInv'
    <3>1. /\ phase[g] = "purge" /\ phase'[g] = "mark" /\ start' = start
          /\ l \in todo[g] /\ todo'[g] = todo[g] \ {l} /\ purging'[g] = l
          /\ UNCHANGED metaVars
      BY <1>1, <2>8, Zenon DEF SweepPurge, Step, Done
    <3>2. SweeperOK(g)'
      BY <1>2, <2>2, <3>1, Zenon DEF SweeperOK, metaVars
    <3>3. QED
      BY <1>1, <2>1, <2>8, <3>1, <3>2, Zenon DEF SweepPurge, Step, Done, Phases
  <2>9. CASE SweepMarkPurged(g)
    <3>1. /\ phase[g] = "mark" /\ phase'[g] = "purge" /\ start' = start /\ todo' = todo
      BY <1>1, <2>9, Zenon DEF SweepMarkPurged, Step
    <3>2. start'[g] <= now'
      BY <1>3, <2>2, <3>1
    <3>3. SweeperOK(g)'
      BY <1>2, <2>2, <3>1, <3>2, Zenon DEF SweeperOK
    <3>4. QED
      BY <1>1, <2>1, <2>9, <3>1, <3>3, Zenon DEF SweepMarkPurged, Step, Phases
  <2>10. QED
    BY <1>6, <2>3, <2>4, <2>5, <2>6, <2>7, <2>8, <2>9, Zenon
    DEF SweeperStep, SweepDone, SweepAbandoned
<1>7. QED
  BY <1>5, <1>6, Zenon DEF Next, vars, PoolStep, RequestStep, NoiserStep, ClockStep

-----------------------------------------------------------------------------
(* The inductive invariant, and what follows from it.                       *)

ContractInv == MetaInv /\ ThreadInv /\ SweepInv

LEMMA ContractInit == Init => ContractInv
<1> SUFFICES ASSUME Init PROVE ContractInv
  OBVIOUS
<1>1. MetaInv
  BY InvAtFirst, Zenon DEF Init
<1>2. ThreadInv
  <2>1. NoRequest \in Request
    BY Zenon DEF NoRequest, Request, StatusNames
  <2>2. QED
    BY <2>1, Zenon
    DEF Init, PoolInit, IngestionInit, ThreadInv, Threads, PCs, OnList, Allocating
<1>3. SweepInv
  BY DEF Init, GCInit, MetaInit, SweepInv, SweeperOK, Phases
<1>4. QED
  BY <1>1, <1>2, <1>3, Zenon DEF ContractInv

LEMMA ContractStep ==
    ContractInv /\ [Next]_vars => ContractInv' /\ [MetaNext]_metaVars
<1> SUFFICES ASSUME ContractInv, [Next]_vars PROVE ContractInv' /\ [MetaNext]_metaVars
  OBVIOUS
<1>1. MetaInv /\ MetaTypeOK /\ ThreadInv /\ SweepInv
  BY Zenon DEF ContractInv, MetaInv
<1>2. [MetaNext]_metaVars
  BY <1>1, ServiceStep, Zenon
<1>3. MetaInv' /\ MetaTypeOK' /\ now <= now'
  BY <1>1, <1>2, InvStep, TypeStep, NowGrows, Zenon
<1>4. ThreadInv' /\ SweepInv'
  BY <1>1, <1>2, <1>3, ThreadStep, SweepStep, Zenon
<1>5. QED
  BY <1>2, <1>3, <1>4, Zenon DEF ContractInv

\* Whatever the requests, loops, sweepers and noisers of all shards do, in any
\* order and on rows however stale, their statements keep the contract of the
\* store, so all that is proved of the store holds of the running service
\* (cmd/ingestion-service/main.go:40-116).
THEOREM ContractKept == Spec => KeepsContract
<1>1. Init => MetaInit
  BY Zenon DEF Init
<1>2. QED
  BY <1>1, ContractInit, ContractStep, PTL DEF Spec, KeepsContract, MetaSpec

-----------------------------------------------------------------------------
(* How far the pool overshoots.  Every ACTIVE list is put down to a thread  *)
(* that created it, as its rank-th of the at most Width that the thread     *)
(* thought were missing.                                                    *)

\* What is left of a set of at most n and one more element.
LEMMA OneMore ==
    ASSUME NEW S, IsFiniteSet(S), NEW n \in Nat, Cardinality(S) <= n, NEW x,
           NEW T \in SUBSET (S \cup {x})
    PROVE  IsFiniteSet(T) /\ Cardinality(T) <= n + 1
<1>1. IsFiniteSet(S \cup {x}) /\ Cardinality(S \cup {x}) \in {Cardinality(S), Cardinality(S) + 1}
  BY FS_AddElement
<1>2. IsFiniteSet(T) /\ Cardinality(T) <= Cardinality(S \cup {x})
  BY <1>1, FS_Subset, Zenon
<1>3. Cardinality(S) \in Nat /\ Cardinality(T) \in Nat
  BY <1>2, FS_CardinalityType, Zenon
<1>4. QED
  BY <1>1, <1>2, <1>3

\* Fewer than w lists leave a rank free.
LEMMA FreeRank ==
    ASSUME NEW S, IsFiniteSet(S), NEW w \in Nat, Cardinality(S) < w, NEW r \in [S -> 1 .. w]
    PROVE  \E n \in 1 .. w : \A m \in S : r[m] # n
<1> SUFFICES ASSUME ~\E n \in 1 .. w : \A m \in S : r[m] # n PROVE FALSE
  OBVIOUS
<1>1. r \in Surjection(S, 1 .. w)
  BY Zenon DEF Surjection
<1>2. Cardinality(1 .. w) <= Cardinality(S)
  BY <1>1, FS_Surjection, Zenon
<1>3. Cardinality(1 .. w) = w
  <2>1. w > 0
    BY FS_CardinalityType
  <2>2. Cardinality(1 .. w) = IF 1 > w THEN 0 ELSE w - 1 + 1
    BY FS_Interval
  <2>3. QED
    BY <2>1, <2>2
<1>4. Cardinality(S) \in Nat
  BY FS_CardinalityType, Zenon
<1>5. QED
  BY <1>2, <1>3, <1>4

\* The ACTIVE lists put down to t.
Pooled(owner, t) == {l \in minted : HasState(l, {"ACTIVE"}) /\ owner[l] = t}

\* Those that the thread's query did not return, or that it has counted since.
Unseen(owner, t) == Pooled(owner, t) \ DOMAIN active[t]

\* They are at most the lists that EnsureHealthy has counted so far, and the
\* one it has just created (pool.go:101-120).
Counted(owner, t) ==
    /\ pc[t] = "rotate" => Cardinality(Unseen(owner, t)) <= kept[t]
    /\ pc[t] = "init" => Cardinality(Unseen(owner, t)) <= kept[t] + 1

\* Two ACTIVE lists are put down to one thread under one rank.
SameSlot(owner, rank, l, m) ==
    /\ HasState(l, {"ACTIVE"}) /\ HasState(m, {"ACTIVE"})
    /\ owner[l] = owner[m] /\ rank[l] = rank[m]

Slots(owner, rank) ==
    /\ owner \in [minted -> Threads] /\ rank \in [minted -> 1 .. Width]
    /\ \A l \in minted : HasState(l, {"ACTIVE"}) => lists[l].shard_id = ShardOf[owner[l]]
    /\ \A l, m \in minted : SameSlot(owner, rank, l, m) => l = m

\* What EnsureHealthy has queried and counted.
QueryOK ==
    /\ kept \in [Threads -> Nat]
    /\ active = [t \in Threads |-> active[t]]
    /\ \A t \in Threads : DOMAIN active[t] \subseteq ListIDs

\* Such an attribution exists.
PoolInv ==
    /\ IsFiniteSet(minted) /\ QueryOK
    /\ \E owner, rank : Slots(owner, rank) /\ \A t \in Threads : Counted(owner, t)

LEMMA SlotsStay ==
    ASSUME MetaInv, [MetaNext]_metaVars, minted' = minted, NEW owner, NEW rank, Slots(owner, rank)
    PROVE  /\ Slots(owner, rank)'
           /\ \A t \in Threads : Pooled(owner, t)' \subseteq Pooled(owner, t)
<1>1. minted \subseteq ListIDs
  BY Zenon DEF MetaInv, MetaTypeOK
<1>2. ASSUME NEW l \in minted, HasState(l, {"ACTIVE"})'
      PROVE  HasState(l, {"ACTIVE"}) /\ lists'[l].shard_id = lists[l].shard_id
  BY <1>1, <1>2, MintedStays, DueStays, Zenon DEF MetaInv, HasState
<1>3. Slots(owner, rank)'
  <2>1. owner \in [minted' -> Threads] /\ rank \in [minted' -> 1 .. Width]
    BY Zenon DEF Slots
  <2>2. \A l \in minted' : HasState(l, {"ACTIVE"})' => lists'[l].shard_id = ShardOf[owner[l]]
    BY <1>2, Zenon DEF Slots
  <2>3. ASSUME NEW l \in minted', NEW m \in minted', SameSlot(owner, rank, l, m)'
        PROVE  l = m
    <3>1. l \in minted /\ m \in minted /\ SameSlot(owner, rank, l, m)
      BY <1>2, <2>3, Zenon DEF SameSlot
    <3>2. QED
      BY <3>1, Zenon DEF Slots
  <2>4. QED
    BY <2>1, <2>2, <2>3, Zenon DEF Slots
<1>4. QED
  BY <1>2, <1>3, Zenon DEF Pooled

LEMMA PoolInvStep ==
    ASSUME MetaInv, ThreadInv, [MetaNext]_metaVars, PoolInv, [Next]_vars
    PROVE  PoolInv'
<1> USE PoolAssumption
<1>1. /\ IsFiniteSet(minted) /\ minted \subseteq ListIDs /\ pc \in [Threads -> PCs]
      /\ kept \in [Threads -> Nat] /\ active = [t \in Threads |-> active[t]]
      /\ \A t \in Threads : DOMAIN active[t] \subseteq ListIDs
      /\ Requests \subseteq Threads
  BY Zenon DEF PoolInv, QueryOK, MetaInv, MetaTypeOK, ThreadInv, Threads
<1>2. PICK owner, rank : Slots(owner, rank) /\ \A t \in Threads : Counted(owner, t)
  BY Zenon DEF PoolInv
<1>3. ASSUME NEW t \in Threads
      PROVE  /\ IsFiniteSet(Pooled(owner, t)) /\ IsFiniteSet(Unseen(owner, t))
             /\ Cardinality(Unseen(owner, t)) \in Nat /\ kept[t] \in Nat
  <2>1. Unseen(owner, t) \subseteq minted /\ Pooled(owner, t) \subseteq minted
    BY Zenon DEF Unseen, Pooled
  <2>2. QED
    BY <1>1, <2>1, FS_Subset, FS_CardinalityType, Zenon
<1>4. ASSUME minted' = minted, NEW t \in Threads, NEW T \in SUBSET Pooled(owner, t), NEW n,
             T \cap DOMAIN active[t] \subseteq {n}
      PROVE  /\ IsFiniteSet(T) /\ Cardinality(T) \in Nat
             /\ Cardinality(T) <= Cardinality(Unseen(owner, t)) + 1
             /\ T \cap DOMAIN active[t] = {} => Cardinality(T) <= Cardinality(Unseen(owner, t))
  <2>1. T \in SUBSET (Unseen(owner, t) \cup {n})
    BY <1>4, Zenon DEF Unseen
  <2>2. T \cap DOMAIN active[t] = {} => T \in SUBSET Unseen(owner, t)
    BY <1>4, Zenon DEF Unseen
  <2>3. Cardinality(Unseen(owner, t)) <= Cardinality(Unseen(owner, t))
    BY <1>3
  <2>4. IsFiniteSet(T) /\ Cardinality(T) <= Cardinality(Unseen(owner, t)) + 1
    BY <1>3, <2>1, <2>3, OneMore, Zenon
  <2>5. QED
    BY <1>3, <2>2, <2>4, FS_Subset, FS_CardinalityType, Zenon
<1>5. ASSUME NEW q \in Threads, minted' = minted, active'[q] = active[q], kept'[q] = kept[q],
             pc'[q] \in {"rotate", "init"} => pc'[q] = pc[q]
      PROVE  Counted(owner, q)'
  <2>1. Pooled(owner, q)' \subseteq Pooled(owner, q)
    BY <1>2, <1>5, SlotsStay, Zenon
  <2>2. Unseen(owner, q)' \subseteq Unseen(owner, q)
    BY <1>5, <2>1, Zenon DEF Unseen
  <2>3. Cardinality(Unseen(owner, q)') <= Cardinality(Unseen(owner, q))
        /\ Cardinality(Unseen(owner, q)') \in Nat
    BY <1>3, <2>2, FS_Subset, FS_CardinalityType, Zenon
  <2>4. QED
    BY <1>2, <1>3, <1>5, <2>3 DEF Counted
<1>6. ASSUME minted' = minted, QueryOK', \A t \in Threads : Counted(owner, t)'
      PROVE  PoolInv'
  <2>1. Slots(owner, rank)'
    BY <1>2, <1>6, SlotsStay, Zenon
  <2>2. QED
    BY <1>1, <1>6, <2>1, Zenon DEF PoolInv
<1>7. CASE UNCHANGED poolVars /\ minted' = minted
  <2>1. QueryOK'
    BY <1>1, <1>7, Zenon DEF QueryOK, poolVars
  <2>2. QED
    BY <1>5, <1>6, <1>7, <2>1, Zenon DEF poolVars
\* A step of one thread on rows it leaves alone.
<1>8. ASSUME minted' = minted, NEW t \in Threads, NEW x, NEW k \in Nat, NEW d,
             pc' = [pc EXCEPT ![t] = x], kept' = [kept EXCEPT ![t] = k],
             active' = [active EXCEPT ![t] = d], DOMAIN d \subseteq ListIDs,
             x \in {"rotate", "init"} => Counted(owner, t)'
      PROVE  PoolInv'
  <2>1. QueryOK'
    BY <1>1, <1>8, Zenon DEF QueryOK
  <2>2. ASSUME NEW q \in Threads, q # t PROVE Counted(owner, q)'
    BY <1>1, <1>5, <1>8, <2>2, Zenon
  <2>3. Counted(owner, t)'
    BY <1>1, <1>8, Zenon DEF Counted
  <2>4. QED
    BY <1>6, <1>8, <2>1, <2>2, <2>3, Zenon
<1>9. ASSUME NEW t \in Threads, ThreadIdle(t), minted' = minted PROVE PoolInv'
  <2>1. DOMAIN <<>> \subseteq ListIDs /\ 0 \in Nat
    OBVIOUS
  <2>2. QED
    BY <1>8, <1>9, <2>1, Zenon DEF ThreadIdle
<1>10. ASSUME NEW t \in Threads, NEW x, pc' = [pc EXCEPT ![t] = x], x \notin {"rotate", "init"},
              UNCHANGED <<active, kept>>, minted' = minted
       PROVE  PoolInv'
  <2>1. QueryOK'
    BY <1>1, <1>10, Zenon DEF QueryOK
  <2>2. ASSUME NEW q \in Threads PROVE Counted(owner, q)'
    BY <1>1, <1>5, <1>10, Zenon
  <2>3. QED
    BY <1>6, <1>10, <2>1, <2>2, Zenon
<1>11. ASSUME NEW t \in Requests, RequestStep(t) PROVE PoolInv'
  <2>1. t \in Threads /\ minted' = minted
    BY <1>1, <1>11, Zenon
    DEF RequestStep, Allocate, SetStatus, Reserve, ReserveFull, SetStatusGetList, WriteStatus,
        BumpVersion, AbandonRequest, metaVars, ReserveCursorAndRecord
  <2>2. \/ ThreadIdle(t)
        \/ UNCHANGED <<active, kept>> /\ \E x \in {"pick", "write", "getlist", "bump"} :
                                             pc' = [pc EXCEPT ![t] = x]
    BY <1>11, Zenon
    DEF RequestStep, Allocate, SetStatus, Reserve, ReserveFull, SetStatusGetList, WriteStatus,
        BumpVersion, AbandonRequest, Respond, Goto
  <2>3. QED
    BY <1>9, <1>10, <2>1, <2>2, Zenon
<1>12. ASSUME NEW t \in Threads, PoolStep(t) PROVE PoolInv'
  <2>1. CASE EnsureHealthyQuery(t)
    <3> DEFINE d == [l \in ActiveLists(ShardOf[t]) |-> lists[l].created_at]
    <3>1. /\ pc' = [pc EXCEPT ![t] = "rotate"] /\ active' = [active EXCEPT ![t] = d]
          /\ kept' = [kept EXCEPT ![t] = 0] /\ UNCHANGED <<lists, minted>>
      BY <2>1, Zenon DEF EnsureHealthyQuery, Goto, metaVars
    <3>2. DOMAIN d = ActiveLists(ShardOf[t]) /\ ActiveLists(ShardOf[t]) \subseteq ListIDs
      BY Zenon DEF ActiveLists
    <3>3. active'[t] = d /\ kept'[t] = 0 /\ pc'[t] = "rotate"
      BY <1>1, <3>1, Zenon
    <3>4. Pooled(owner, t)' \subseteq ActiveLists(ShardOf[t])
      <4>1. Pooled(owner, t)' = Pooled(owner, t)
        BY <3>1, Zenon DEF Pooled, HasState, Exists
      <4>2. ASSUME NEW l \in Pooled(owner, t) PROVE l \in ActiveLists(ShardOf[t])
        BY <1>1, <1>2, <4>2, Zenon DEF Pooled, Slots, ActiveLists
      <4>3. QED
        BY <4>1, <4>2, Zenon
    <3> HIDE DEF d
    <3>5. Unseen(owner, t)' = {}
      BY <3>2, <3>3, <3>4, Zenon DEF Unseen
    <3>6. Counted(owner, t)'
      BY <3>3, <3>5, FS_EmptySet DEF Counted
    <3>7. QED
      BY <1>8, <3>1, <3>2, <3>6
  <2>2. ASSUME NEW l \in ListIDs, RotateByAge(t, l) PROVE PoolInv'
    <3> DEFINE d == Restrict(active[t], DOMAIN active[t] \ {l})
    <3>1. /\ pc[t] = "rotate" /\ pc' = [pc EXCEPT ![t] = "rotate"] /\ minted' = minted
          /\ active' = [active EXCEPT ![t] = d]
      BY <1>1, <2>2, Zenon DEF RotateByAge, Freeze, metaVars
    <3>2. DOMAIN d = DOMAIN active[t] \ {l} /\ active'[t] = d /\ pc'[t] = "rotate"
      BY <1>1, <3>1, Zenon DEF Restrict
    <3> HIDE DEF d
    <3> DEFINE T == Unseen(owner, t)'
    <3>3. T \in SUBSET Pooled(owner, t) /\ T \cap DOMAIN active[t] \subseteq {l}
      <4>1. Pooled(owner, t)' \subseteq Pooled(owner, t)
        BY <1>2, <3>1, SlotsStay, Zenon
      <4>2. QED
        BY <3>2, <4>1, Zenon DEF Unseen
    <3>4. CASE Freeze(l) /\ kept' = kept
      <4>1. ~HasState(l, {"ACTIVE"})'
        <5>1. lists \in [ListIDs -> Row \cup {Null}]
          BY Zenon DEF MetaInv, MetaTypeOK
        <5>2. QED
          BY <3>4, <5>1 DEF Freeze, HasState, Exists, Row
      <4>2. l \notin T
        BY <4>1, Zenon DEF Unseen, Pooled
      <4>3. Cardinality(T) <= Cardinality(Unseen(owner, t))
        BY <1>4, <3>1, <3>3, <4>2, Zenon
      <4>4. Cardinality(T) <= kept[t]
        <5>1. Cardinality(T) \in Nat
          BY <1>4, <3>1, <3>3, Zenon
        <5>2. Cardinality(Unseen(owner, t)) <= kept[t]
          BY <1>2, <3>1, Zenon DEF Counted
        <5> HIDE DEF T
        <5>3. QED
          BY <1>3, <4>3, <5>1, <5>2
      <4>5. Counted(owner, t)'
        BY <3>2, <3>4, <4>4, Zenon DEF Counted
      <4>6. kept' = [kept EXCEPT ![t] = kept[t]] /\ kept[t] \in Nat
        BY <1>1, <3>4, Zenon
      <4>7. DOMAIN d \subseteq ListIDs
        BY <1>1, <3>2, Zenon
      <4>8. QED
        BY <1>8, <3>1, <4>5, <4>6, <4>7, Zenon
    <3>5. CASE kept' = [kept EXCEPT ![t] = @ + 1]
      <4>1. Cardinality(T) \in Nat /\ Cardinality(T) <= Cardinality(Unseen(owner, t)) + 1
        BY <1>4, <3>1, <3>3, Zenon
      <4>2. Cardinality(Unseen(owner, t)) <= kept[t]
        BY <1>2, <3>1, Zenon DEF Counted
      <4>3. kept' = [kept EXCEPT ![t] = kept[t] + 1] /\ kept'[t] = kept[t] + 1
        BY <1>1, <3>5, Zenon
      <4> HIDE DEF T
      <4>4. Cardinality(T) <= kept[t] + 1 /\ kept[t] + 1 \in Nat
        BY <1>3, <4>1, <4>2
      <4>5. Counted(owner, t)'
        BY <3>2, <4>3, <4>4, Zenon DEF Counted, T
      <4>6. DOMAIN d \subseteq ListIDs
        BY <1>1, <3>2, Zenon
      <4>7. QED
        BY <1>8, <3>1, <4>3, <4>4, <4>5, <4>6, Zenon
    <3>6. QED
      BY <2>2, <3>4, <3>5, Zenon DEF RotateByAge
  <2>3. CASE TopUpInit(t)
    <3>1. /\ pc[t] = "init" /\ pc' = [pc EXCEPT ![t] = "rotate"]
          /\ UNCHANGED <<lists, minted, active>>
          /\ kept' = [kept EXCEPT ![t] = kept[t] + 1]
      BY <1>1, <2>3, Zenon DEF TopUpInit, Goto, metaVars
    <3>2. pc'[t] = "rotate" /\ kept'[t] = kept[t] + 1
      BY <1>1, <3>1, Zenon
    <3>3. Unseen(owner, t)' = Unseen(owner, t)
      BY <3>1, Zenon DEF Unseen, Pooled, HasState, Exists
    <3>4. Counted(owner, t)'
      BY <1>2, <3>1, <3>2, <3>3, Zenon DEF Counted
    <3>5. kept[t] + 1 \in Nat /\ active' = [active EXCEPT ![t] = active[t]]
      BY <1>3, <3>1, <1>1
    <3>6. QED
      BY <1>1, <1>8, <3>1, <3>4, <3>5, Zenon
  <2>4. CASE EnsureHealthyDone(t)
    <3>1. /\ \E x \in {"idle", "repick"} : pc' = [pc EXCEPT ![t] = x]
          /\ kept' = [kept EXCEPT ![t] = 0] /\ active' = active /\ minted' = minted
      BY <2>4, Zenon DEF EnsureHealthyDone, Goto, metaVars
    <3>2. active' = [active EXCEPT ![t] = active[t]]
      BY <1>1, <3>1, Zenon
    <3>3. 0 \in Nat
      OBVIOUS
    <3>4. QED
      BY <1>1, <1>8, <3>1, <3>2, <3>3, Zenon
  <2>5. CASE AbandonPoolTick(t)
    BY <1>9, <2>5, Zenon DEF AbandonPoolTick, metaVars
  <2>6. CASE \/ PoolTick(t) \/ PickBootstrap(t)
             \/ \E l \in ListIDs : PickForAllocation(t, l) \/ PickAgain(t, l)
    <3>1. /\ \E x \in {"ensure", "reserve"} : pc' = [pc EXCEPT ![t] = x]
          /\ UNCHANGED <<active, kept>> /\ minted' = minted
      BY <2>6, Zenon
      DEF PoolTick, PickBootstrap, PickForAllocation, PickAgain, Choose, Goto, metaVars
    <3>2. QED
      BY <1>10, <3>1, Zenon
  <2>7. ASSUME NEW l \in ListIDs, NEW key \in Keys, TopUp(t, l, key) PROVE PoolInv'
    <3> DEFINE mine == Pooled(owner, t)
    <3>1. /\ pc[t] = "rotate" /\ pc' = [pc EXCEPT ![t] = "init"] /\ DOMAIN active[t] = {}
          /\ kept[t] < Width /\ CreateList(l, Capacity, key, ShardOf[t])
          /\ UNCHANGED <<active, kept>>
      BY <2>7, Zenon DEF TopUp, Goto
    <3>2. l \notin minted /\ minted' = minted \cup {l}
      BY <3>1, Zenon DEF CreateList, FreshID
    <3>3. /\ HasState(l, {"ACTIVE"})' /\ lists'[l].shard_id = ShardOf[t]
          /\ \A m \in minted : lists'[m] = lists[m]
      <4>1. lists \in [ListIDs -> Row \cup {Null}]
        BY Zenon DEF MetaInv, MetaTypeOK
      <4> DEFINE r == [size |-> Capacity, cursor |-> 0, fpe_key |-> key, max_exp |-> Null,
                       state |-> "ACTIVE", created_at |-> now, archived_at |-> Null,
                       purged |-> FALSE, purged_at |-> Null, shard_id |-> ShardOf[t]]
      <4>2. lists' = [lists EXCEPT ![l] = r]
        BY <3>1, Zenon DEF CreateList
      <4>3. r.state = "ACTIVE" /\ r.shard_id = ShardOf[t]
        OBVIOUS
      <4>4. r \in Row
        BY <1>1, SizesAssumption DEF Row, States, MetaInv, MetaTypeOK
      <4>5. r # Null
        BY <4>4, NullAssumption, Zenon
      <4> HIDE DEF r
      <4>6. QED
        BY <1>1, <3>2, <4>1, <4>2, <4>3, <4>5, Zenon DEF HasState, Exists
    <3>4. Cardinality(mine) <= kept[t] /\ Cardinality(mine) < Width /\ Unseen(owner, t) = mine
      <4>1. Unseen(owner, t) = mine
        BY <3>1, Zenon DEF Unseen
      <4>2. Cardinality(mine) <= kept[t]
        BY <1>2, <3>1, <4>1, Zenon DEF Counted
      <4>3. Cardinality(mine) \in Nat /\ kept[t] \in Nat
        BY <1>3, <4>1, Zenon
      <4> HIDE DEF mine
      <4>4. QED
        BY <3>1, <4>1, <4>2, <4>3
    <3>5. PICK n \in 1 .. Width : \A m \in mine : rank[m] # n
      <4> DEFINE f == [m \in mine |-> rank[m]]
      <4>1. f \in [mine -> 1 .. Width] /\ \A m \in mine : f[m] = rank[m]
        BY <1>2, Zenon DEF Slots, Pooled
      <4>2. IsFiniteSet(mine)
        BY <1>3, Zenon
      <4> HIDE DEF mine, f
      <4>3. QED
        BY <3>4, <4>1, <4>2, FreeRank
    <3>6. PICK o, r : /\ o = [m \in minted \cup {l} |-> IF m = l THEN t ELSE owner[m]]
                      /\ r = [m \in minted \cup {l} |-> IF m = l THEN n ELSE rank[m]]
      BY Zenon
    <3>7. /\ o \in [minted' -> Threads] /\ r \in [minted' -> 1 .. Width]
          /\ o[l] = t /\ r[l] = n
          /\ \A m \in minted : o[m] = owner[m] /\ r[m] = rank[m]
      BY <1>2, <3>2, <3>6, Zenon DEF Slots
    <3>8. ASSUME NEW m \in minted
          PROVE  /\ HasState(m, {"ACTIVE"})' <=> HasState(m, {"ACTIVE"})
                 /\ lists'[m].shard_id = lists[m].shard_id
      BY <3>3, Zenon DEF HasState, Exists
    <3>9. ASSUME NEW i \in minted', NEW m \in minted', SameSlot(o, r, i, m)' PROVE i = m
      <4>1. CASE i \in minted /\ m \in minted
        <5>1. SameSlot(owner, rank, i, m)
          BY <3>7, <3>8, <3>9, <4>1, Zenon DEF SameSlot
        <5>2. QED
          BY <1>2, <4>1, <5>1, Zenon DEF Slots
      <4>2. ASSUME NEW j \in minted, HasState(j, {"ACTIVE"})', o[j] = t PROVE r[j] # n
        BY <3>5, <3>7, <3>8, <4>2, Zenon DEF Pooled
      <4>3. CASE i = l \/ m = l
        BY <3>2, <3>7, <3>9, <4>2, <4>3, Zenon DEF SameSlot
      <4>4. QED
        BY <3>2, <4>1, <4>3, Zenon
    <3>10. Slots(o, r)'
      <4>1. \A m \in minted' : HasState(m, {"ACTIVE"})' => lists'[m].shard_id = ShardOf[o[m]]
        BY <1>2, <3>2, <3>3, <3>7, <3>8, Zenon DEF Slots
      <4>2. QED
        BY <3>7, <3>9, <4>1, Zenon DEF Slots
    <3>11. ASSUME NEW q \in Threads, q # t PROVE Counted(o, q)'
      <4>1. Pooled(o, q)' = Pooled(owner, q)
        BY <3>2, <3>7, <3>8, <3>11, Zenon DEF Pooled
      <4>2. Unseen(o, q)' = Unseen(owner, q)
        BY <3>1, <4>1, Zenon DEF Unseen
      <4>3. pc'[q] = pc[q]
        BY <1>1, <3>1, <3>11, Zenon
      <4>4. QED
        BY <1>2, <3>1, <4>2, <4>3, Zenon DEF Counted
    <3>12. Counted(o, t)'
      <4> DEFINE T == Unseen(o, t)'
      <4>1. T \in SUBSET (mine \cup {l})
        BY <3>2, <3>7, <3>8, Zenon DEF Unseen, Pooled
      <4>2. IsFiniteSet(mine) /\ kept[t] \in Nat
        BY <1>3, Zenon
      <4> HIDE DEF mine
      <4>3. Cardinality(T) <= kept[t] + 1
        BY <3>4, <4>1, <4>2, OneMore, Zenon
      <4>4. pc'[t] = "init"
        BY <1>1, <3>1, Zenon
      <4>5. QED
        BY <3>1, <4>3, <4>4, Zenon DEF Counted
    <3>13. IsFiniteSet(minted') /\ QueryOK'
      BY <1>1, <3>1, <3>2, FS_AddElement, Zenon DEF QueryOK
    <3>14. QED
      BY <3>10, <3>11, <3>12, <3>13, Zenon DEF PoolInv
  <2>8. QED
    BY <1>12, <2>1, <2>2, <2>3, <2>4, <2>5, <2>6, <2>7, Zenon DEF PoolStep
<1>13. ASSUME NEW g \in Sweepers, SweeperStep(g) PROVE PoolInv'
  BY <1>7, <1>13, Zenon
  DEF SweeperStep, SweepStart, SweepQueryArchived, SweepMarkPurged, SweepQueryPurged, SweepDone,
      SweepAbandoned, SweepIdle, SweepArchive, SweepPurge, SweepDelete, metaVars, Archive,
      MarkPurged, DeleteList
<1>14. ASSUME NEW g \in Noisers, NoiserStep(g) PROVE PoolInv'
  BY <1>7, <1>14, Zenon
  DEF NoiserStep, NoiseQuery, NoiseSweepList, NoisePick, NoiseWrite, NoiseBump, NoiseNextList,
      NoiseDone, metaVars
<1>15. CASE ClockStep \/ UNCHANGED vars
  BY <1>7, <1>15, Zenon DEF ClockStep, Tick, vars, metaVars
<1>16. QED
  BY <1>11, <1>12, <1>13, <1>14, <1>15, Zenon DEF Next

LEMMA PoolInvInit == Init => PoolInv
<1> SUFFICES ASSUME Init PROVE PoolInv
  OBVIOUS
<1>1. /\ minted = {} /\ pc = [t \in Threads |-> "idle"]
      /\ kept = [t \in Threads |-> 0] /\ active = [t \in Threads |-> <<>>]
  BY Zenon DEF Init, MetaInit, PoolInit
<1>2. QueryOK
  <2>1. 0 \in Nat /\ DOMAIN <<>> \subseteq ListIDs
    OBVIOUS
  <2>2. QED
    BY <1>1, <2>1, Zenon DEF QueryOK
<1>3. PICK f : f = [l \in {} |-> Null]
  BY Zenon
<1>4. f \in [minted -> Threads] /\ f \in [minted -> 1 .. Width]
  BY <1>1, <1>3, Zenon
<1>5. Slots(f, f) /\ \A t \in Threads : Counted(f, t)
  BY <1>1, <1>4, Zenon DEF Slots, Counted
<1>6. QED
  BY <1>1, <1>2, <1>5, FS_EmptySet, Zenon DEF PoolInv

\* However many requests and loops find the pool short at the same time, they
\* create at most one width of lists each (pool.go:82-92).
THEOREM PoolBounded == Spec => []PoolOvershootBounded
<1>1. ContractInv /\ PoolInv => PoolOvershootBounded
  <2> SUFFICES ASSUME ContractInv, PoolInv, NEW s \in Shards
               PROVE  Cardinality(ActiveLists(s)) <=
                          Width * Cardinality({t \in Threads : ShardOf[t] = s})
    BY Zenon DEF PoolOvershootBounded
  <2> DEFINE A == ActiveLists(s)
             C == {t \in Threads : ShardOf[t] = s}
             W == 1 .. Width
  <2>1. PICK owner, rank : Slots(owner, rank)
    BY Zenon DEF PoolInv
  <2>2. ASSUME NEW l \in A
        PROVE  /\ l \in minted /\ HasState(l, {"ACTIVE"})
               /\ owner[l] \in C /\ rank[l] \in W
    <3>1. l \in minted /\ HasState(l, {"ACTIVE"}) /\ lists[l].shard_id = s
      BY <2>2, Zenon DEF ActiveLists, ContractInv, MetaInv, KnownLists, HasState
    <3>2. QED
      BY <2>1, <3>1, Zenon DEF Slots
  <2> DEFINE f == [l \in A |-> <<owner[l], rank[l]>>]
  <2>3. f \in Injection(A, C \X W)
    <3>1. f \in [A -> C \X W]
      BY <2>2, Zenon
    <3>2. ASSUME NEW l \in A, NEW m \in A, f[l] = f[m] PROVE l = m
      <4>1. owner[l] = owner[m] /\ rank[l] = rank[m]
        BY <3>2
      <4>2. QED
        BY <2>1, <2>2, <4>1, Zenon DEF Slots, SameSlot
    <3> HIDE DEF f, A, C, W
    <3>3. QED
      BY <3>1, <3>2 DEF Injection, IsInjective
  <2>4. IsFiniteSet(C) /\ Cardinality(C) \in Nat
    <3>1. C \in SUBSET Threads
      BY Zenon
    <3> HIDE DEF C
    <3>2. QED
      BY <3>1, PoolAssumption, FS_Subset, FS_CardinalityType, Zenon
  <2>5. IsFiniteSet(W) /\ Cardinality(W) = Width
    <3>1. Cardinality(W) = IF 1 > Width THEN 0 ELSE Width - 1 + 1
      BY PoolAssumption, FS_Interval
    <3>2. IsFiniteSet(W)
      BY PoolAssumption, FS_Interval
    <3>3. QED
      BY <3>1, <3>2, PoolAssumption
  <2> HIDE DEF A, C, W, f
  <2>6. IsFiniteSet(C \X W) /\ Cardinality(C \X W) = Cardinality(C) * Cardinality(W)
    BY <2>4, <2>5, FS_Product, Zenon
  <2>7. Cardinality(A) <= Cardinality(C \X W)
    BY <2>3, <2>6, FS_Injection, Zenon
  <2>8. Cardinality(A) <= Width * Cardinality(C)
    BY <2>4, <2>5, <2>6, <2>7, PoolAssumption
  <2>9. QED
    BY <2>8, Zenon DEF A, C
<1>2. ContractInv /\ PoolInv /\ [Next]_vars => (ContractInv /\ PoolInv)'
  BY ContractStep, PoolInvStep, Zenon DEF ContractInv
<1>3. QED
  BY <1>1, <1>2, ContractInit, PoolInvInit, PTL DEF Spec

-----------------------------------------------------------------------------
(* The invariant of the noisers.                                            *)

NoiseStates == {"idle", "sweep", "pick", "write", "bump"}

\* A row a noiser has read may be stale, but what had left ACTIVE stays so.
NoiserOK(g) ==
    /\ \A l \in DOMAIN noise[g] :
           /\ l \in ListIDs /\ l \in minted /\ noise[g][l] \in Row
           /\ noise[g][l].state # "ACTIVE" => ~HasState(l, {"ACTIVE"})
    /\ nstate[g] \in {"pick", "write", "bump"} => target[g] \in DOMAIN noise[g]
    /\ nstate[g] = "write" /\ noise[g][target[g]].state # "ACTIVE" =>
           ~IsAllocated(target[g], flip[g].idx)

NoiseInv ==
    /\ nstate \in [Noisers -> NoiseStates]
    /\ noise = [g \in Noisers |-> noise[g]]
    /\ target = [g \in Noisers |-> target[g]]
    /\ flip \in [Noisers -> [idx : Nat, status : StatusNames]]
    /\ \A g \in Noisers : NoiserOK(g)

\* Nothing is allocated in a list that has left ACTIVE.
LEMMA AllocatedWhileActive ==
    ASSUME MetaTypeOK, [MetaNext]_metaVars, NEW l \in ListIDs, ~HasState(l, {"ACTIVE"}), NEW i
    PROVE  ~IsAllocated(l, i) => ~IsAllocated(l, i)'
<1>1. ASSUME NEW m \in ListIDs, NEW j \in Issuers, NEW s \in Shards,
             NEW exp \in 0 .. now + MaxExpiry, ReserveCursorAndRecord(m, j, s, exp)
      PROVE  ~IsAllocated(l, i) => ~IsAllocated(l, i)'
  <2>1. m # l
    BY <1>1, Zenon DEF ReserveCursorAndRecord, Reservable
  <2>2. PICK a : a.list_id = m /\ allocations' = allocations \cup {a}
    BY <1>1, Zenon DEF ReserveCursorAndRecord
  <2>3. QED
    BY <2>1, <2>2, Zenon DEF IsAllocated
<1>2. ASSUME allocations' \subseteq allocations
      PROVE  ~IsAllocated(l, i) => ~IsAllocated(l, i)'
  BY <1>2, Zenon DEF IsAllocated
<1>3. QED
  BY <1>1, <1>2, NextIsStatement, Zenon
  DEF Statement, Tick, metaVars, CreateList, Freeze, Archive, MarkPurged, DeleteList

LEMMA NoiseStep ==
    ASSUME MetaInv, [MetaNext]_metaVars, NoiseInv, [Next]_vars
    PROVE  NoiseInv'
<1>1. /\ nstate \in [Noisers -> NoiseStates] /\ noise = [g \in Noisers |-> noise[g]]
      /\ target = [g \in Noisers |-> target[g]]
      /\ flip \in [Noisers -> [idx : Nat, status : StatusNames]]
      /\ \A g \in Noisers : NoiserOK(g)
  BY Zenon DEF NoiseInv
<1>2. MetaTypeOK
  BY Zenon DEF MetaInv
<1>3. ASSUME NEW g \in Noisers, nstate'[g] = nstate[g], noise'[g] = noise[g],
             target'[g] = target[g], flip'[g] = flip[g]
      PROVE  NoiserOK(g)'
  <2>1. ASSUME NEW l \in DOMAIN noise[g]
        PROVE  /\ l \in ListIDs /\ l \in minted' /\ noise[g][l] \in Row
               /\ noise[g][l].state # "ACTIVE" => ~HasState(l, {"ACTIVE"})'
    BY <1>1, <1>2, MintedStays, DueStays, Zenon DEF NoiserOK
  <2>2. nstate[g] \in {"pick", "write", "bump"} => target[g] \in DOMAIN noise[g]
    BY <1>1, Zenon DEF NoiserOK
  <2>3. ASSUME nstate[g] = "write", noise[g][target[g]].state # "ACTIVE"
        PROVE  ~IsAllocated(target[g], flip[g].idx)'
    <3>1. /\ target[g] \in ListIDs /\ ~HasState(target[g], {"ACTIVE"})
          /\ ~IsAllocated(target[g], flip[g].idx)
      BY <1>1, <2>2, <2>3, Zenon DEF NoiserOK
    <3>2. ASSUME NEW m \in ListIDs, NEW i, ~HasState(m, {"ACTIVE"}), ~IsAllocated(m, i)
          PROVE  ~\E a \in allocations' : a.list_id = m /\ a.idx = i
      BY <1>2, <3>2, AllocatedWhileActive, Zenon DEF IsAllocated
    <3>3. QED
      BY <1>3, <3>1, <3>2 DEF IsAllocated
  <2>4. QED
    BY <1>3, <2>1, <2>2, <2>3, Zenon DEF NoiserOK, IsAllocated
<1>4. CASE UNCHANGED decoyVars
  BY <1>1, <1>3, <1>4, Zenon DEF decoyVars, NoiseInv
<1>5. ASSUME NEW g \in Noisers, NoiserStep(g) PROVE NoiseInv'
  <2>1. ASSUME nstate' \in [Noisers -> NoiseStates],
               noise' = [h \in Noisers |-> noise'[h]],
               target' = [h \in Noisers |-> target'[h]],
               flip' \in [Noisers -> [idx : Nat, status : StatusNames]],
               \A h \in Noisers : h # g => /\ nstate'[h] = nstate[h] /\ noise'[h] = noise[h]
                                          /\ target'[h] = target[h] /\ flip'[h] = flip[h],
               NoiserOK(g)'
        PROVE  NoiseInv'
    BY <1>3, <2>1, Zenon DEF NoiseInv
  <2>2. NoiserOK(g) /\ NoFlip \in [idx : Nat, status : StatusNames]
    BY <1>1, Zenon DEF NoFlip, StatusNames
  <2>3. UNCHANGED metaVars
    BY <1>5, Zenon
    DEF NoiserStep, NoiseQuery, NoiseSweepList, NoisePick, NoiseWrite, NoiseBump,
                NoiseNextList, NoiseDone
  <2>4. ASSUME NEW l, HasState(l, {"ACTIVE"})' PROVE HasState(l, {"ACTIVE"})
    BY <2>3, <2>4, Zenon DEF metaVars, HasState, Exists
  <2>5. CASE NoiseQuery(g)
    <3> DEFINE S == {l \in NoiseLists(NoiserShard[g]) : lists[l].cursor < lists[l].size}
    <3>1. /\ nstate'[g] = "sweep" /\ noise'[g] = Restrict(lists, S)
      BY <1>1, <2>5, Zenon DEF NoiseQuery, NGoto
    <3>2. ASSUME NEW l \in DOMAIN noise'[g]
          PROVE  l \in ListIDs /\ Exists(l) /\ noise'[g][l] = lists[l]
      BY <3>1, <3>2, Zenon DEF Restrict, NoiseLists
    <3>3. ASSUME NEW l \in DOMAIN noise'[g]
          PROVE  /\ l \in ListIDs /\ l \in minted' /\ noise'[g][l] \in Row
                 /\ noise'[g][l].state # "ACTIVE" => ~HasState(l, {"ACTIVE"})'
      BY <2>3, <2>4, <3>2, Zenon
      DEF MetaInv, MetaTypeOK, KnownLists, metaVars, Exists, HasState
    <3>4. NoiserOK(g)'
      BY <3>1, <3>3, Zenon DEF NoiserOK
    <3>5. QED
      BY <1>1, <2>1, <2>5, <3>4, Zenon DEF NoiseQuery, NGoto, NoiseStates
  <2>6. ASSUME NEW l \in ListIDs, NEW count, NoiseSweepList(g, l, count) PROVE NoiseInv'
    <3>1. /\ nstate'[g] = "pick" /\ noise' = noise /\ target'[g] = l /\ l \in DOMAIN noise[g]
          /\ flip' = flip
      BY <1>1, <2>6, Zenon DEF NoiseSweepList, NGoto
    <3>2. NoiserOK(g)'
      BY <2>2, <2>3, <2>4, <3>1, Zenon DEF NoiserOK, metaVars
    <3>3. QED
      BY <1>1, <2>1, <2>6, <3>1, <3>2, Zenon DEF NoiseSweepList, NGoto, NoiseStates
  <2>7. ASSUME NEW pos \in Indices, NEW next \in StatusNames, NoisePick(g, pos, next)
        PROVE  NoiseInv'
    <3> DEFINE row == noise[g][target[g]]
               idx == Index(row.fpe_key, row.size, pos)
    <3>1. /\ nstate[g] = "pick" /\ noise' = noise /\ target' = target
          /\ pos \in row.cursor .. row.size - 1 /\ idx # Null
      BY <2>7, Zenon DEF NoisePick
    <3>2. target[g] \in DOMAIN noise[g] /\ row \in Row
      BY <2>2, <3>1, Zenon DEF NoiserOK
    <3>3. row.fpe_key \in Keys /\ row.size \in Sizes /\ row.cursor \in Nat
      BY <3>2, Zenon DEF Row
    <3>4. row.size \in Nat
      BY <3>3, SizesAssumption, Zenon
    <3>5. pos \in 0 .. row.size - 1
      BY <3>1, <3>3, <3>4
    <3>6. idx \in 0 .. row.size - 1
      BY <3>1, <3>3, <3>5, IndexAssumption, Zenon
    <3>7. [idx |-> idx, status |-> next] \in [idx : Nat, status : StatusNames]
      BY <3>4, <3>6
    <3>8. \/ nstate' = nstate /\ flip' = flip
          \/ /\ nstate' = [nstate EXCEPT ![g] = "write"]
             /\ flip' = [flip EXCEPT ![g] = [idx |-> idx, status |-> next]]
             /\ ~IsAllocated(target[g], idx)
      BY <2>7, Zenon DEF NoisePick
    <3>9. CASE nstate' = nstate /\ flip' = flip
      <4>1. NoiserOK(g)'
        BY <1>3, <3>1, <3>9, Zenon
      <4>2. QED
        BY <1>1, <2>1, <3>1, <3>9, <4>1, Zenon
    <3>10. CASE /\ nstate' = [nstate EXCEPT ![g] = "write"]
                /\ flip' = [flip EXCEPT ![g] = [idx |-> idx, status |-> next]]
                /\ ~IsAllocated(target[g], idx)
      <4>1. nstate'[g] = "write" /\ flip'[g].idx = idx
        BY <1>1, <3>10, Zenon
      <4>2. ~IsAllocated(target[g], flip[g].idx)'
        BY <2>3, <3>1, <3>10, <4>1, Zenon DEF IsAllocated, metaVars
      <4>3. NoiserOK(g)'
        BY <2>2, <2>3, <2>4, <3>1, <3>2, <4>1, <4>2, Zenon DEF NoiserOK, metaVars
      <4>4. QED
        BY <1>1, <2>1, <3>1, <3>7, <3>10, <4>3, Zenon DEF NoiseStates
    <3>11. QED
      BY <3>8, <3>9, <3>10, Zenon
  <2>8. CASE NoiseWrite(g) \/ NoiseBump(g)
    <3>1. /\ nstate[g] \in {"write", "bump"} /\ noise' = noise /\ target' = target
          /\ \E x \in {"bump", "pick"} : nstate' = [nstate EXCEPT ![g] = x]
          /\ flip' = flip \/ flip' = [flip EXCEPT ![g] = NoFlip]
      BY <2>8, Zenon DEF NoiseWrite, NoiseBump, NGoto
    <3>2. nstate'[g] \in {"bump", "pick"}
      BY <1>1, <3>1, Zenon
    <3>3. NoiserOK(g)'
      BY <2>2, <2>3, <2>4, <3>1, <3>2, Zenon DEF NoiserOK, metaVars
    <3>4. QED
      BY <1>1, <2>1, <2>2, <3>1, <3>3 DEF NoiseStates
  <2>9. CASE NoiseNextList(g)
    <3>1. /\ nstate'[g] = "sweep"
          /\ noise'[g] = Restrict(noise[g], DOMAIN noise[g] \ {target[g]})
      BY <1>1, <2>9, Zenon DEF NoiseNextList
    <3>2. \A l \in DOMAIN noise'[g] : l \in DOMAIN noise[g] /\ noise'[g][l] = noise[g][l]
      BY <3>1, Zenon DEF Restrict
    <3>3. NoiserOK(g)'
      BY <2>2, <2>3, <2>4, <3>1, <3>2, Zenon DEF NoiserOK, metaVars
    <3>4. QED
      BY <1>1, <2>1, <2>2, <2>9, <3>3, Zenon DEF NoiseNextList, NoiseStates
  <2>10. CASE NoiseDone(g)
    <3>1. nstate'[g] = "idle" /\ noise'[g] = <<>>
      BY <1>1, <2>10, Zenon DEF NoiseDone
    <3>2. NoiserOK(g)'
      BY <3>1 DEF NoiserOK
    <3>3. QED
      BY <1>1, <2>1, <2>2, <2>10, <3>2, Zenon DEF NoiseDone, NoiseStates
  <2>11. QED
    BY <1>5, <2>5, <2>6, <2>7, <2>8, <2>9, <2>10, Zenon DEF NoiserStep
<1>6. QED
  BY <1>4, <1>5, Zenon DEF Next, vars, PoolStep, RequestStep, SweeperStep, ClockStep

-----------------------------------------------------------------------------
(* The invariant of the retries.                                            *)

\* A list that has answered ErrListFull will do so for ever, or has no entries.
Full(l) == l \in minted /\ (HasState(l, {"ACTIVE"}) => lists[l].size = 0)

\* The reservation of the last slot freezes the list.
RoomWhileActive ==
    \A l \in ListIDs :
        HasState(l, {"ACTIVE"}) => lists[l].size = 0 \/ lists[l].cursor < lists[l].size

RetryOK(t) ==
    /\ \A l \in req[t].full : Full(l)
    /\ pc[t] = "reserve" => list[t] \in minted /\ list[t] \notin req[t].full

RetryInv == RoomWhileActive /\ \A t \in Requests : RetryOK(t)

LEMMA RoomStep ==
    ASSUME MetaTypeOK, [MetaNext]_metaVars, RoomWhileActive
    PROVE  RoomWhileActive'
<1>1. CASE Tick \/ UNCHANGED metaVars
  BY <1>1, Zenon DEF Tick, metaVars, RoomWhileActive, HasState, Exists
<1>2. ASSUME NEW m \in ListIDs, Statement(m), NEW l \in ListIDs, HasState(l, {"ACTIVE"})'
      PROVE  (lists[l].size = 0 \/ lists[l].cursor < lists[l].size)'
  <2>1. CASE m # l
    <3>1. lists'[l] = lists[l]
      BY <1>2, <2>1, Zenon
      DEF Statement, CreateList, Freeze, Archive, MarkPurged, DeleteList,
          ReserveCursorAndRecord, MetaTypeOK
    <3>2. QED
      BY <1>2, <3>1, Zenon DEF RoomWhileActive, HasState, Exists
  <2>2. ASSUME m = l, NEW n \in Sizes, NEW k \in Keys, NEW s \in Shards, CreateList(m, n, k, s)
        PROVE  (lists[l].size = 0 \/ lists[l].cursor < lists[l].size)'
    <3>1. lists'[l].size = n /\ lists'[l].cursor = 0
      BY <2>2, Zenon DEF CreateList, MetaTypeOK
    <3>2. n \in Nat
      BY SizesAssumption, Zenon
    <3>3. QED
      BY <3>1, <3>2
  <2>3. ASSUME m = l, Freeze(m) \/ Archive(m) \/ MarkPurged(m)
        PROVE  (lists[l].size = 0 \/ lists[l].cursor < lists[l].size)'
    <3>1. /\ lists'[l] # Null => lists[l] # Null
          /\ lists[l] # Null => lists[l] \in Row
      BY <2>3, UpdateKeepsRows, Zenon DEF MetaTypeOK
    <3>2. /\ lists'[l].state = "ACTIVE" => lists[l].state = "ACTIVE"
          /\ lists'[l].size = lists[l].size /\ lists'[l].cursor = lists[l].cursor
      BY <1>2, <2>3, <3>1
      DEF Freeze, Archive, MarkPurged, HasState, Exists, MetaTypeOK, Row
    <3>3. HasState(l, {"ACTIVE"})
      BY <1>2, <3>1, <3>2, Zenon DEF HasState, Exists
    <3>4. QED
      BY <3>2, <3>3, Zenon DEF RoomWhileActive
  <2>4. ASSUME m = l, DeleteList(m) PROVE FALSE
    BY <1>2, <2>4, Zenon DEF DeleteList, HasState, Exists, MetaTypeOK
  <2>5. ASSUME m = l, NEW i \in Issuers, NEW s \in Shards, NEW exp \in 0 .. now + MaxExpiry,
               ReserveCursorAndRecord(m, i, s, exp)
        PROVE  (lists[l].size = 0 \/ lists[l].cursor < lists[l].size)'
    <3>1. lists[l] \in Row /\ lists[l].cursor < lists[l].size
      BY <2>5, Zenon DEF ReserveCursorAndRecord, Reservable, HasState, Exists, MetaTypeOK
    <3>2. lists[l].cursor \in Nat /\ lists[l].size \in Sizes
      BY <3>1, Zenon DEF Row
    <3>3. lists[l].size \in Nat
      BY <3>2, SizesAssumption, Zenon
    <3>4. /\ lists'[l].size = lists[l].size /\ lists'[l].cursor = lists[l].cursor + 1
          /\ lists[l].cursor + 1 >= lists[l].size => lists'[l].state = "FROZEN"
      BY <2>5, <3>1, Zenon DEF ReserveCursorAndRecord, MetaTypeOK, Row
    <3>5. lists'[l].state = "ACTIVE"
      BY <1>2, Zenon DEF HasState
    <3>6. QED
      BY <3>2, <3>3, <3>4, <3>5
  <2>6. QED
    BY <1>2, <2>1, <2>2, <2>3, <2>4, <2>5, Zenon DEF Statement
<1>3. QED
  BY <1>1, <1>2, NextIsStatement, Zenon DEF RoomWhileActive

LEMMA RetryStep ==
    ASSUME MetaInv, [MetaNext]_metaVars, ThreadInv, RetryInv, [Next]_vars
    PROVE  RetryInv'
<1> USE PoolAssumption
<1>1. MetaTypeOK /\ RoomWhileActive'
  BY RoomStep, Zenon DEF MetaInv, RetryInv
<1>2. /\ pc \in [Threads -> PCs] /\ list \in [Threads -> ListIDs \cup {Null}]
      /\ req \in [Requests -> Request] /\ Requests \subseteq Threads
      /\ \A t \in Requests : req[t].full \subseteq ListIDs
  BY Zenon DEF ThreadInv, Threads, Request
<1>3. ASSUME NEW l \in ListIDs, Full(l) PROVE Full(l)'
  BY <1>1, <1>3, MintedStays, DueStays, Zenon DEF Full, HasState
<1>4. ASSUME NEW t \in Requests, req'[t].full \subseteq req[t].full,
             pc'[t] = "reserve" => /\ pc[t] = "reserve" /\ list'[t] = list[t]
      PROVE  RetryOK(t)'
  <2>1. RetryOK(t)
    BY Zenon DEF RetryInv
  <2>2. \A l \in req'[t].full : Full(l)'
    BY <1>2, <1>3, <1>4, <2>1, Zenon DEF RetryOK
  <2>3. pc'[t] = "reserve" => list'[t] \in minted' /\ list'[t] \notin req'[t].full
    <3>1. pc'[t] = "reserve" => list[t] \in ListIDs
      BY <1>2, <1>4, Zenon DEF ThreadInv, OnList
    <3>2. QED
      BY <1>1, <1>4, <2>1, <3>1, MintedStays, Zenon DEF RetryOK
  <2>4. QED
    BY <2>2, <2>3, Zenon DEF RetryOK
<1>5. ASSUME NEW t \in Threads, PoolStep(t), NEW q \in Requests PROVE RetryOK(q)'
  <2>1. req' = req
    BY <1>5, Zenon DEF PoolStep, ingestionVars
  <2>2. ASSUME NEW l \in ListIDs, PickForAllocation(t, l) \/ PickAgain(t, l), q = t
        PROVE  RetryOK(q)'
    <3>1. /\ l \in ActiveLists(ShardOf[t]) /\ lists[l].size > 0 /\ list'[t] = l
      BY <1>2, <2>2, Zenon DEF PickForAllocation, PickAgain, Choose, ChooseByPowerOfTwo
    <3>2. ~Full(l) /\ l \in minted
      BY <3>1 DEF ActiveLists, HasState, Full, MetaInv, KnownLists
    <3>3. RetryOK(t)
      BY <2>2, Zenon DEF RetryInv
    <3>4. \A m \in req'[t].full : Full(m)'
      BY <1>2, <1>3, <2>1, <2>2, <3>3, Zenon DEF RetryOK
    <3>5. l \in minted' /\ l \notin req'[t].full
      BY <1>1, <2>1, <3>2, <3>3, MintedStays, Zenon DEF RetryOK
    <3>6. QED
      BY <2>2, <3>1, <3>4, <3>5, Zenon DEF RetryOK
  <2>3. ASSUME \A l \in ListIDs : ~PickForAllocation(t, l) /\ ~PickAgain(t, l)
        PROVE  pc'[q] = "reserve" => pc[q] = "reserve" /\ list'[q] = list[q]
    BY <1>2, <1>5, <2>3, Zenon
    DEF PoolStep, PoolTick, EnsureHealthyQuery, TopUpInit, EnsureHealthyDone, PickBootstrap,
        AbandonPoolTick, ThreadIdle, RotateByAge, TopUp, Goto
  <2>4. ASSUME NEW l \in ListIDs, PickForAllocation(t, l) \/ PickAgain(t, l), q # t
        PROVE  pc'[q] = pc[q] /\ list'[q] = list[q]
    BY <1>2, <2>4, Zenon DEF PickForAllocation, PickAgain, Choose, Goto
  <2>5. QED
    BY <1>4, <2>1, <2>2, <2>3, <2>4, Zenon
<1>6. ASSUME NEW t \in Requests, RequestStep(t), NEW q \in Requests PROVE RetryOK(q)'
  <2>1. CASE ReserveFull(t) /\ ~Respond(t) /\ q = t
    <3>1. /\ pc[t] = "reserve" /\ ~Reservable(list[t]) /\ pc'[t] = "pick"
          /\ req' = [req EXCEPT ![t].tries = @ + 1, ![t].full = @ \cup {list[t]}]
      BY <1>2, <2>1, Zenon DEF ReserveFull
    <3>2. req'[t].full = req[t].full \cup {list[t]}
      BY <1>2, <3>1, Zenon DEF Request
    <3>3. RetryOK(t) /\ list[t] \in ListIDs /\ list[t] \in minted
      BY <1>2, <3>1, Zenon DEF RetryInv, RetryOK, ThreadInv, OnList
    <3>4. Full(list[t])
      BY <3>1, <3>3, Zenon DEF Full, Reservable, RetryInv, RoomWhileActive
    <3>5. \A l \in req'[t].full : Full(l)'
      BY <1>2, <1>3, <3>2, <3>3, <3>4, Zenon DEF RetryOK
    <3>6. QED
      BY <2>1, <3>1, <3>5, Zenon DEF RetryOK
  <2>2. CASE q # t
    <3>1. pc'[q] = pc[q] /\ list'[q] = list[q] /\ req'[q] = req[q]
      BY <1>2, <1>6, <2>2, Zenon
      DEF RequestStep, Allocate, SetStatus, Reserve, ReserveFull, SetStatusGetList,
          WriteStatus, BumpVersion, AbandonRequest, Respond, ThreadIdle, Goto
    <3>2. QED
      BY <1>4, <3>1, Zenon
  <2>3. ASSUME q = t, pc'[t] # "reserve", req'[t].full \subseteq req[t].full
        PROVE  RetryOK(q)'
    BY <1>4, <2>3, Zenon
  <2>4. ASSUME Respond(t) PROVE pc'[t] # "reserve" /\ req'[t].full \subseteq req[t].full
    BY <1>2, <2>4, Zenon DEF Respond, ThreadIdle, NoRequest
  <2>5. ASSUME NEW i \in Issuers, NEW exp, Allocate(t, i, exp)
        PROVE  pc'[t] # "reserve" /\ req'[t].full \subseteq req[t].full
    BY <1>2, <2>5, Zenon DEF Allocate, NoRequest, Goto
  <2>6. ASSUME NEW i \in Issuers, NEW l \in ListIDs, NEW idx, NEW st, SetStatus(t, i, l, idx, st)
        PROVE  pc'[t] # "reserve" /\ req'[t].full \subseteq req[t].full
    BY <1>2, <2>6, Zenon DEF SetStatus, NoRequest, Goto
  <2>7. CASE Reserve(t)
    <3>1. /\ pc'[t] = "write"
          /\ req'[t] = [req[t] EXCEPT !.idx = NextIndex(list[t])]
      BY <1>2, <2>7, Zenon DEF Reserve, Goto
    <3>2. req'[t].full = req[t].full
      BY <1>2, <3>1 DEF Request
    <3>3. QED
      BY <2>2, <2>3, <3>1, <3>2, Zenon
  <2>8. CASE WriteStatus(t) \/ (SetStatusGetList(t) /\ ~Respond(t))
    <3>1. pc'[t] # "reserve" /\ req' = req
      BY <1>2, <2>8, Zenon DEF WriteStatus, SetStatusGetList, Goto
    <3>2. QED
      BY <2>2, <2>3, <3>1, Zenon
  <2>9. QED
    BY <1>6, <2>1, <2>2, <2>3, <2>4, <2>5, <2>6, <2>7, <2>8, Zenon
    DEF RequestStep, BumpVersion, AbandonRequest
<1>7. ASSUME UNCHANGED <<poolVars, ingestionVars>>, NEW q \in Requests PROVE RetryOK(q)'
  BY <1>4, <1>7, Zenon DEF poolVars, ingestionVars
<1>8. QED
  BY <1>1, <1>5, <1>6, <1>7, Zenon
  DEF Next, vars, SweeperStep, NoiserStep, ClockStep, RetryInv

-----------------------------------------------------------------------------
(* The entries of a list, and what the requests have written to them.       *)

Issued(l, i) == \E a \in issued : a.list_id = l /\ a.idx = i

LEMMA StatusIsNat == StatusNames \subseteq Nat
BY DEF StatusNames, VALID, INVALID, SUSPENDED
\* An entry is allocated for the first and only time.
LEMMA EntriesStay ==
    ASSUME MetaInv, MetaInv', [MetaNext]_metaVars
    PROVE  /\ issued \subseteq issued'
           /\ \A a \in issued' : a \in issued \/ a \in allocations'
           /\ \A a \in allocations' : a \notin allocations => ~Issued(a.list_id, a.idx)
<1>1. issued \subseteq issued' /\ \A a \in issued' : a \in issued \/ a \in allocations'
  <2>1. ASSUME NEW m, NEW i, NEW s, NEW exp, ReserveCursorAndRecord(m, i, s, exp)
        PROVE  \E a : issued' = issued \cup {a} /\ allocations' = allocations \cup {a}
    BY <2>1, Zenon DEF ReserveCursorAndRecord
  <2>2. issued' = issued \/ \E a : issued' = issued \cup {a} /\ allocations' = allocations \cup {a}
    BY <2>1, NextIsStatement, Zenon
    DEF Statement, Tick, metaVars, CreateList, Freeze, Archive, MarkPurged, DeleteList
  <2>3. QED
    BY <2>2, Zenon
<1>2. ASSUME NEW a \in allocations', a \notin allocations, NEW b \in issued,
             b.list_id = a.list_id, b.idx = a.idx
      PROVE  FALSE
  <2>1. a \in issued' /\ Exists(a.list_id)'
    BY Zenon DEF MetaInv, HistoryMatches, MaxExpCovers
  <2>2. b = a
    BY <1>1, <1>2, <2>1, Zenon DEF MetaInv, NoDoubleAllocation
  <2>3. a.list_id \in ListIDs /\ a.list_id \in minted
    BY <2>2, Zenon DEF MetaInv, MetaTypeOK, KnownLists, Allocation
  <2>4. Exists(a.list_id)
    BY <2>1, <2>3, MintedStays, Zenon DEF MetaInv
  <2>5. QED
    BY <1>2, <2>2, <2>4, Zenon DEF MetaInv, HistoryMatches
<1>3. QED
  BY <1>1, <1>2, Zenon DEF Issued

\* The index of an allocation is one of its list.
LEMMA IndexInList ==
    ASSUME MetaInv, NEW a \in allocations
    PROVE  /\ a.list_id \in ListIDs /\ Exists(a.list_id) /\ lists[a.list_id] \in Row
           /\ a.idx \in 0 .. lists[a.list_id].size - 1 /\ a.idx \in Indices /\ a.idx \in Nat
<1> DEFINE l == a.list_id
<1>1. l \in ListIDs /\ Exists(l) /\ lists[l] \in Row /\ a.idx \in Nat
  BY Zenon DEF MetaInv, MetaTypeOK, MaxExpCovers, Allocation, Exists
<1>2. lists[l].fpe_key \in Keys /\ lists[l].size \in Sizes /\ lists[l].cursor \in Nat
  BY <1>1, Zenon DEF Row
<1>3. lists[l].size \in Nat /\ lists[l].cursor <= lists[l].size
  BY <1>1, <1>2, SizesAssumption, Zenon DEF MetaInv, CursorInRange
<1>4. PICK c \in 0 .. lists[l].cursor - 1 : a.idx = Index(lists[l].fpe_key, lists[l].size, c)
  <2>1. a.idx \in {b.idx : b \in {x \in allocations : x.list_id = l}}
    BY Zenon
  <2>2. a.idx \in UsedIndices(l)
    BY <1>1, <2>1, Zenon DEF MetaInv, CursorMatchesAllocations
  <2>3. QED
    BY <2>2, Zenon DEF UsedIndices
<1>5. c \in 0 .. lists[l].size - 1
  BY <1>2, <1>3
<1>6. a.idx \in 0 .. lists[l].size - 1
  BY <1>1, <1>2, <1>4, <1>5, IndexAssumption, NullAssumption, Zenon
<1>7. QED
  BY <1>1, <1>2, <1>6, Zenon DEF Indices

IndicesKnown == \A a \in allocations : a.idx \in Indices

LEMMA AllocatedInIndices == MetaInv => IndicesKnown
BY IndexInList, Zenon DEF IndicesKnown

Holding == {"reserve", "getlist", "write", "bump"}

\* A request holds a list of its own shard, and, from the ownership check or
\* its reservation on, an entry that was issued.
WriterOK(t) ==
    /\ pc[t] \in Holding => /\ list[t] \in minted
                            /\ Exists(list[t]) => lists[list[t]].shard_id = ShardOf[t]
    /\ pc[t] \in {"getlist", "write", "bump"} => Issued(list[t], req[t].idx)
    /\ pc[t] = "bump" => written[<<list[t], req[t].idx>>] # Null

\* Only issued entries have been written to.
WrittenInv ==
    /\ \A a \in issued : a.idx \in Indices
    /\ written \in [ListIDs \X Indices -> StatusNames \cup {Null}]
    /\ \A l \in ListIDs, i \in Indices : written[<<l, i>>] # Null => Issued(l, i)
    /\ acked \subseteq issued
    /\ \A a \in acked : written[<<a.list_id, a.idx>>] # Null
    /\ \A t \in Requests : WriterOK(t)

LEMMA WrittenStep ==
    ASSUME MetaInv, MetaInv', [MetaNext]_metaVars, ThreadInv, WrittenInv, [Next]_vars
    PROVE  WrittenInv'
<1> USE PoolAssumption
<1>1. /\ pc \in [Threads -> PCs] /\ list \in [Threads -> ListIDs \cup {Null}]
      /\ req \in [Requests -> Request] /\ Requests \subseteq Threads
      /\ \A t \in Requests : pc[t] \in Holding => list[t] \in ListIDs
  BY Zenon DEF ThreadInv, Threads, OnList, Holding
<1>2. issued \subseteq issued' /\ \A a \in issued' : a.idx \in Indices
  <2>1. issued \subseteq issued' /\ \A a \in issued' : a \in issued \/ a \in allocations'
    BY EntriesStay, Zenon
  <2>2. MetaInv' => IndicesKnown'
    BY AllocatedInIndices, PTL
  <2>3. QED
    BY <2>1, <2>2, Zenon DEF WrittenInv, IndicesKnown
<1>3. ASSUME NEW l, NEW i, Issued(l, i) PROVE Issued(l, i)'
  BY <1>2, <1>3, Zenon DEF Issued
<1>4. ASSUME NEW l \in ListIDs, l \in minted
      PROVE  /\ l \in minted'
             /\ Exists(l)' => Exists(l) /\ lists'[l].shard_id = lists[l].shard_id
  BY <1>4, MintedStays, Zenon DEF MetaInv
<1>5. ASSUME NEW q \in Requests, pc[q] \in Holding, WriterOK(q)
      PROVE  /\ list[q] \in minted'
             /\ lists'[list[q]] # Null => lists'[list[q]].shard_id = ShardOf[q]
  BY <1>1, <1>4, <1>5, Zenon DEF WriterOK, Exists
<1>6. ASSUME NEW q \in Requests,
             pc'[q] \in Holding => pc'[q] = pc[q] /\ list'[q] = list[q] /\ req'[q] = req[q],
             \A e \in ListIDs \X Indices : written[e] # Null => written'[e] # Null
      PROVE  WriterOK(q)'
  <2>1. WriterOK(q)
    BY Zenon DEF WrittenInv
  <2>2. CASE pc'[q] \notin Holding
    BY <2>2, Zenon DEF WriterOK, Holding
  <2>3. CASE pc'[q] \in Holding
    <3>1. pc'[q] = pc[q] /\ list'[q] = list[q] /\ req'[q] = req[q]
      BY <1>6, <2>3, Zenon
    <3>2. list[q] \in minted' /\ (lists'[list[q]] # Null => lists'[list[q]].shard_id = ShardOf[q])
      BY <1>5, <2>1, <2>3, <3>1, Zenon
    <3>3. pc[q] \in {"getlist", "write", "bump"} =>
              \E a \in issued' : a.list_id = list[q] /\ a.idx = req[q].idx
      BY <1>2, <2>1, Zenon DEF WriterOK, Issued
    <3>4. pc[q] = "bump" => written'[<<list[q], req[q].idx>>] # Null
      <4>1. pc[q] = "bump" => <<list[q], req[q].idx>> \in ListIDs \X Indices
        BY <1>1, <2>1, Zenon DEF WriterOK, Holding, Issued, WrittenInv
      <4>2. QED
        BY <1>6, <2>1, <4>1, Zenon DEF WriterOK
    <3>5. QED
      BY <3>1, <3>2, <3>3, <3>4, Zenon DEF WriterOK, Issued, Exists
  <2>4. QED
    BY <2>2, <2>3, Zenon
<1>7. ASSUME UNCHANGED <<written, acked>>, \A q \in Requests : WriterOK(q)'
      PROVE  WrittenInv'
  <2>1. acked' \subseteq issued' /\ \A a \in acked' : written'[<<a.list_id, a.idx>>] # Null
    BY <1>2, <1>7, Zenon DEF WrittenInv
  <2>2. \A l \in ListIDs, i \in Indices : written'[<<l, i>>] # Null => Issued(l, i)'
    BY <1>3, <1>7, Zenon DEF WrittenInv
  <2>3. QED
    BY <1>2, <1>7, <2>1, <2>2, Zenon DEF WrittenInv
<1>8. ASSUME NEW t \in Threads, PoolStep(t) PROVE WrittenInv'
  <2>1. UNCHANGED <<req, written, acked>>
    BY <1>8, Zenon DEF PoolStep, ingestionVars
  <2>2. ASSUME NEW q \in Requests, q = t, NEW l \in ListIDs,
               PickForAllocation(t, l) \/ PickAgain(t, l)
        PROVE  WriterOK(q)'
    <3>1. /\ pc'[q] = "reserve" /\ list'[q] = l /\ l \in ActiveLists(ShardOf[q])
          /\ UNCHANGED <<lists, minted>>
      BY <1>1, <2>2, Zenon
      DEF PickForAllocation, PickAgain, Choose, ChooseByPowerOfTwo, Goto, metaVars
    <3>2. Exists(l) /\ lists[l].shard_id = ShardOf[q] /\ l \in minted
      BY <3>1, Zenon DEF ActiveLists, HasState, MetaInv, KnownLists
    <3>3. QED
      BY <3>1, <3>2, Zenon DEF WriterOK, Exists
  <2>3. ASSUME NEW q \in Requests, q = t \/ q # t,
               \A l \in ListIDs : q = t => ~PickForAllocation(t, l) /\ ~PickAgain(t, l)
        PROVE  pc'[q] \in Holding => pc'[q] = pc[q] /\ list'[q] = list[q]
    BY <1>1, <1>8, <2>3, Zenon
    DEF PoolStep, PoolTick, EnsureHealthyQuery, TopUpInit, EnsureHealthyDone, PickBootstrap,
        AbandonPoolTick, ThreadIdle, RotateByAge, TopUp, Goto, Holding, PickForAllocation,
        PickAgain, Choose
  <2>4. ASSUME NEW q \in Requests PROVE WriterOK(q)'
    BY <1>6, <2>1, <2>2, <2>3, Zenon
  <2>5. QED
    BY <1>7, <2>1, <2>4, Zenon
<1>9. ASSUME UNCHANGED <<poolVars, ingestionVars>> PROVE WrittenInv'
  BY <1>6, <1>7, <1>9, Zenon DEF poolVars, ingestionVars
<1>10. ASSUME NEW t \in Requests, RequestStep(t) PROVE WrittenInv'
  <2>1. ASSUME NEW q \in Requests, q # t
        PROVE  pc'[q] = pc[q] /\ list'[q] = list[q] /\ req'[q] = req[q]
    BY <1>1, <1>10, <2>1, Zenon
    DEF RequestStep, Allocate, SetStatus, Reserve, ReserveFull, SetStatusGetList,
        WriteStatus, BumpVersion, AbandonRequest, Respond, ThreadIdle, Goto
  <2>2. ASSUME \A e \in ListIDs \X Indices : written[e] # Null => written'[e] # Null, WriterOK(t)',
               NEW q \in Requests
        PROVE  WriterOK(q)'
    BY <1>6, <2>1, <2>2, Zenon
  <2>3. ASSUME UNCHANGED <<written, acked>>, WriterOK(t)' PROVE WrittenInv'
    BY <1>7, <2>2, <2>3, Zenon
  <2>4. ASSUME pc'[t] \notin Holding PROVE WriterOK(t)'
    BY <2>4, Zenon DEF WriterOK, Holding
  <2>5. ASSUME Respond(t) PROVE pc'[t] \notin Holding
    BY <1>1, <2>5, Zenon DEF Respond, ThreadIdle, Holding
  <2>6. WriterOK(t)
    BY Zenon DEF WrittenInv
  <2>7. ASSUME NEW i \in Issuers, NEW exp, Allocate(t, i, exp) PROVE WrittenInv'
    <3>1. pc'[t] \notin Holding /\ UNCHANGED <<written, acked>>
      BY <1>1, <2>7, Zenon DEF Allocate, Goto, Holding
    <3>2. QED
      BY <2>3, <2>4, <3>1, Zenon
  <2>8. ASSUME NEW i \in Issuers, NEW l \in ListIDs, NEW idx \in Indices, NEW st \in StatusNames,
               SetStatus(t, i, l, idx, st)
        PROVE  WrittenInv'
    <3>1. /\ pc'[t] = "getlist" /\ list'[t] = l /\ lists[l].shard_id = ShardOf[t]
          /\ Owns(i, l, idx) /\ UNCHANGED <<written, acked, lists, minted, issued>>
      BY <1>1, <2>8, Zenon DEF SetStatus, Goto, metaVars
    <3>2. req'[t].idx = idx
      BY <1>1, <2>8, Zenon DEF SetStatus, NoRequest
    <3>3. l \in minted /\ Issued(l, idx)
      BY <3>1, Zenon DEF Owns, MetaInv, HistoryMatches, KnownLists, Issued
    <3>4. WriterOK(t)'
      BY <3>1, <3>2, <3>3, Zenon DEF WriterOK, Issued
    <3>5. QED
      BY <2>3, <3>1, <3>4, Zenon
  <2>9. CASE Reserve(t)
    <3>1. /\ pc[t] = "reserve" /\ pc'[t] = "write" /\ list'[t] = list[t]
          /\ UNCHANGED <<written, acked>>
          /\ ReserveCursorAndRecord(list[t], req[t].issuer, ShardOf[t], req[t].exp)
      BY <1>1, <2>9, Zenon DEF Reserve, Goto
    <3>2. req'[t].idx = NextIndex(list[t])
      BY <1>1, <2>9, Zenon DEF Reserve, Request
    <3> DEFINE i == NextIndex(list[t])
    <3>3. \E a \in issued' : a.list_id = list[t] /\ a.idx = i
      <4>1. PICK a : /\ a = [list_id |-> list[t], idx |-> i, issuer_id |-> req[t].issuer,
                             shard_id |-> ShardOf[t], exp |-> req[t].exp]
                     /\ issued' = issued \cup {a}
        BY <3>1, Zenon DEF ReserveCursorAndRecord
      <4> HIDE DEF i
      <4>2. a.list_id = list[t] /\ a.idx = i
        BY <4>1
      <4>3. QED
        BY <4>1, <4>2, Zenon
    <3>4. WriterOK(t)'
      <4>1. list[t] \in minted' /\ (lists'[list[t]] # Null => lists'[list[t]].shard_id = ShardOf[t])
        BY <1>5, <2>6, <3>1, Zenon DEF Holding
      <4>2. QED
        BY <3>1, <3>2, <3>3, <4>1, Zenon DEF WriterOK, Issued, Exists
    <3>5. QED
      BY <2>3, <3>1, <3>4, Zenon
  <2>10. CASE ReserveFull(t)
    <3>1. pc'[t] \notin Holding /\ UNCHANGED <<written, acked>>
      BY <1>1, <2>5, <2>10, Zenon DEF ReserveFull, Holding
    <3>2. QED
      BY <2>3, <2>4, <3>1, Zenon
  <2>11. CASE SetStatusGetList(t)
    <3>1. UNCHANGED <<written, acked>>
      BY <2>11, Zenon DEF SetStatusGetList
    <3>2. CASE Respond(t)
      BY <2>3, <2>4, <2>5, <3>1, <3>2, Zenon
    <3>3. CASE ~Respond(t)
      <4>1. /\ pc[t] = "getlist" /\ pc'[t] = "write" /\ list' = list /\ req' = req
        BY <1>1, <2>11, <3>3, Zenon DEF SetStatusGetList
      <4>2. \E a \in issued' : a.list_id = list[t] /\ a.idx = req[t].idx
        BY <1>2, <2>6, <4>1, Zenon DEF WriterOK, Issued
      <4>3. WriterOK(t)'
        BY <1>5, <2>6, <4>1, <4>2, Zenon DEF WriterOK, Holding, Exists, Issued
      <4>4. QED
        BY <2>3, <3>1, <4>3, Zenon
    <3>4. QED
      BY <3>2, <3>3, Zenon
  <2>12. CASE WriteStatus(t)
    <3> DEFINE e == <<list[t], req[t].idx>>
    <3>1. /\ pc[t] = "write" /\ pc'[t] = "bump" /\ list' = list /\ req' = req /\ acked' = acked
          /\ written' = [written EXCEPT ![e] = req[t].status]
      BY <1>1, <2>12, Zenon DEF WriteStatus, Goto
    <3>2. list[t] \in ListIDs /\ Issued(list[t], req[t].idx)
      BY <1>1, <2>6, <3>1, Zenon DEF WriterOK, Holding
    <3>3. e \in ListIDs \X Indices
      BY <3>2, Zenon DEF WrittenInv, Issued
    <3>4. req[t].status \in StatusNames /\ req[t].status # Null
      BY <1>1, StatusIsNat, NullAssumption, Zenon DEF Request
    <3>5. written \in [ListIDs \X Indices -> StatusNames \cup {Null}]
      BY Zenon DEF WrittenInv
    <3> HIDE DEF e
    <3>6. /\ written' \in [ListIDs \X Indices -> StatusNames \cup {Null}]
          /\ written'[e] # Null
          /\ \A d \in ListIDs \X Indices : d # e => written'[d] = written[d]
      BY <3>1, <3>3, <3>4, <3>5, Zenon
    <3>7. \A d \in ListIDs \X Indices : written[d] # Null => written'[d] # Null
      BY <3>1, <3>3, <3>4, <3>5, Zenon
    <3>8. WriterOK(t)'
      <4>1. list[t] \in minted' /\ (lists'[list[t]] # Null => lists'[list[t]].shard_id = ShardOf[t])
        BY <1>5, <2>6, <3>1, Zenon DEF Holding
      <4>2. \E a \in issued' : a.list_id = list[t] /\ a.idx = req[t].idx
        BY <1>2, <3>2, Zenon DEF Issued
      <4>3. QED
        BY <3>1, <3>6, <4>1, <4>2, Zenon DEF WriterOK, Issued, Exists, e
    <3>9. \A q \in Requests : WriterOK(q)'
      BY <2>2, <3>7, <3>8, Zenon
    <3>10. acked' \subseteq issued' /\ \A a \in acked' : written'[<<a.list_id, a.idx>>] # Null
      <4>1. \A a \in issued : <<a.list_id, a.idx>> \in ListIDs \X Indices
        BY Zenon DEF WrittenInv, MetaInv, MetaTypeOK, Allocation
      <4>2. QED
        BY <1>2, <3>1, <3>7, <4>1, Zenon DEF WrittenInv
    <3>11. ASSUME NEW l \in ListIDs, NEW i \in Indices, written'[<<l, i>>] # Null
           PROVE  Issued(l, i)'
      <4>1. CASE written[<<l, i>>] # Null
        BY <1>3, <4>1, Zenon DEF WrittenInv
      <4>2. CASE <<l, i>> = e
        <5>1. l = list[t] /\ i = req[t].idx
          BY <4>2 DEF e
        <5>2. QED
          BY <1>3, <3>2, <5>1, Zenon
      <4>3. QED
        BY <3>6, <3>11, <4>1, <4>2, Zenon
    <3>12. QED
      BY <1>2, <3>6, <3>9, <3>10, <3>11, Zenon DEF WrittenInv
  <2>13. CASE BumpVersion(t)
    <3>1. /\ pc[t] = "bump" /\ pc'[t] \notin Holding /\ UNCHANGED <<written, allocations>>
      BY <1>1, <2>5, <2>13, Zenon DEF BumpVersion, metaVars
    <3>2. acked' \subseteq acked \cup
              {a \in allocations : a.list_id = list[t] /\ a.idx = req[t].idx}
      BY <2>13, Zenon DEF BumpVersion
    <3>3. WriterOK(t)'
      BY <2>4, <3>1, Zenon
    <3>4. \A q \in Requests : WriterOK(q)'
      BY <2>2, <3>1, <3>3, Zenon
    <3>5. acked' \subseteq issued'
      BY <1>2, <3>2, Zenon DEF WrittenInv, MetaInv, HistoryMatches
    <3>6. ASSUME NEW a \in acked' PROVE written'[<<a.list_id, a.idx>>] # Null
      BY <2>6, <3>1, <3>2, Zenon DEF WrittenInv, WriterOK
    <3>7. \A l \in ListIDs, i \in Indices : written'[<<l, i>>] # Null => Issued(l, i)'
      BY <1>3, <3>1, Zenon DEF WrittenInv
    <3>8. QED
      BY <1>2, <3>1, <3>4, <3>5, <3>6, <3>7, Zenon DEF WrittenInv
  <2>14. CASE AbandonRequest(t)
    BY <2>3, <2>4, <2>5, <2>14, Zenon DEF AbandonRequest
  <2>15. QED
    BY <1>10, <2>7, <2>8, <2>9, <2>10, <2>11, <2>12, <2>13, <2>14, Zenon DEF RequestStep
<1>11. QED
  BY <1>8, <1>9, <1>10, Zenon DEF Next, vars, SweeperStep, NoiserStep, ClockStep

-----------------------------------------------------------------------------
(* What a noiser knows of the list it sweeps.                               *)

\* The rows a noiser holds are of its own shard.  It flips no entry that its
\* snapshot has INVALID, and an entry that was allocated since its own check
\* of the allocations is contested.
SnapOK(g) ==
    /\ \A l \in DOMAIN noise[g] :
           Exists(l) => lists[l].shard_id = NoiserShard[g] /\ lists[l].size = noise[g][l].size
    /\ nstate[g] = "write" =>
           /\ Get(snap[g], flip[g].idx, Bits) # INVALID
           /\ IsAllocated(target[g], flip[g].idx) => <<target[g], flip[g].idx>> \in contested

SnapInv == snap = [g \in Noisers |-> snap[g]] /\ \A g \in Noisers : SnapOK(g)

\* An entry reserved while a noiser is about to write it becomes contested,
\* and nothing else takes an entry of a noiser.
LEMMA TakenIsContested ==
    ASSUME [Next]_vars
    PROVE  /\ contested \subseteq contested'
           /\ \A g \in Noisers :
                  nstate[g] = "write" =>
                      \A a \in allocations' :
                          a.list_id = target[g] /\ a.idx = flip[g].idx =>
                              a \in allocations \/ <<target[g], flip[g].idx>> \in contested'
<1>1. ASSUME NEW t \in Requests, RequestStep(t)
      PROVE  contested' = contested \cup
                 ({<<a.list_id, a.idx>> : a \in allocations' \ allocations} \cap
                  {<<target[g], flip[g].idx>> : g \in {n \in Noisers : nstate[n] = "write"}})
  BY <1>1, Zenon DEF RequestStep
<1>2. CASE \E t \in Requests : RequestStep(t)
  <2>1. PICK t \in Requests : RequestStep(t)
    BY <1>2, Zenon
  <2>2. ASSUME NEW g \in Noisers, nstate[g] = "write", NEW a \in allocations',
               a.list_id = target[g], a.idx = flip[g].idx, a \notin allocations
        PROVE  <<target[g], flip[g].idx>> \in contested'
    <3>1. <<target[g], flip[g].idx>> \in {<<b.list_id, b.idx>> : b \in allocations' \ allocations}
      BY <2>2
    <3>2. <<target[g], flip[g].idx>> \in
              {<<target[h], flip[h].idx>> : h \in {n \in Noisers : nstate[n] = "write"}}
      BY <2>2
    <3>3. QED
      BY <1>1, <2>1, <3>1, <3>2, Zenon
  <2>3. QED
    BY <1>1, <2>1, <2>2, Zenon
<1>3. CASE ~\E t \in Requests : RequestStep(t)
  <2>1. contested' = contested
    BY <1>3, Zenon DEF Next, vars, PoolStep, SweeperStep, NoiserStep, ClockStep
  <2>2. ASSUME NEW t \in Threads, PoolStep(t) PROVE allocations' = allocations
    BY <2>2, Zenon
    DEF PoolStep, PoolTick, EnsureHealthyQuery, TopUpInit, EnsureHealthyDone, PickBootstrap,
        AbandonPoolTick, RotateByAge, TopUp, PickForAllocation, PickAgain, Choose, metaVars,
        Freeze, CreateList
  <2>3. ASSUME NEW g \in Sweepers, SweeperStep(g) PROVE allocations' \subseteq allocations
    BY <2>3, Zenon
    DEF SweeperStep, SweepStart, SweepQueryArchived, SweepMarkPurged, SweepQueryPurged,
        SweepDone, SweepAbandoned, SweepIdle, SweepArchive, SweepPurge, SweepDelete, metaVars,
        Archive, MarkPurged, DeleteList
  <2>4. ASSUME NEW g \in Noisers, NoiserStep(g) PROVE allocations' = allocations
    BY <2>4, Zenon
    DEF NoiserStep, NoiseQuery, NoiseSweepList, NoisePick, NoiseWrite, NoiseBump,
        NoiseNextList, NoiseDone, metaVars
  <2>5. allocations' \subseteq allocations
    BY <1>3, <2>2, <2>3, <2>4, Zenon DEF Next, vars, metaVars, ClockStep, Tick
  <2>6. QED
    BY <2>1, <2>5, Zenon
<1>4. QED
  BY <1>2, <1>3, Zenon

LEMMA SnapStep ==
    ASSUME MetaInv, [MetaNext]_metaVars, NoiseInv, SnapInv, [Next]_vars
    PROVE  SnapInv'
<1>1. /\ nstate \in [Noisers -> NoiseStates] /\ noise = [g \in Noisers |-> noise[g]]
      /\ target = [g \in Noisers |-> target[g]] /\ snap = [g \in Noisers |-> snap[g]]
      /\ flip = [g \in Noisers |-> flip[g]]
      /\ \A g \in Noisers : NoiserOK(g) /\ SnapOK(g)
  BY Zenon DEF NoiseInv, SnapInv
<1>2. ASSUME NEW g \in Noisers, NEW l \in DOMAIN noise[g], lists'[l] # Null
      PROVE  lists'[l].shard_id = NoiserShard[g] /\ lists'[l].size = noise[g][l].size
  BY <1>1, <1>2, MintedStays, Zenon DEF MetaInv, NoiserOK, SnapOK, Exists
<1>3. ASSUME NEW g \in Noisers, nstate[g] = "write", 
             \E a \in allocations' : a.list_id = target[g] /\ a.idx = flip[g].idx
      PROVE  <<target[g], flip[g].idx>> \in contested'
  BY <1>1, <1>3, TakenIsContested, Zenon DEF SnapOK, IsAllocated
<1>4. ASSUME NEW g \in Noisers, nstate'[g] = nstate[g], noise'[g] = noise[g],
             target'[g] = target[g], flip'[g] = flip[g], snap'[g] = snap[g]
      PROVE  SnapOK(g)'
  <2>1. \A l \in DOMAIN noise[g] :
            lists'[l] # Null =>
                lists'[l].shard_id = NoiserShard[g] /\ lists'[l].size = noise[g][l].size
    BY <1>2, Zenon
  <2>2. nstate[g] = "write" =>
            /\ Get(snap[g], flip[g].idx, Bits) # INVALID
            /\ (\E a \in allocations' : a.list_id = target[g] /\ a.idx = flip[g].idx) =>
                   <<target[g], flip[g].idx>> \in contested'
    BY <1>1, <1>3, Zenon DEF SnapOK
  <2>3. QED
    BY <1>4, <2>1, <2>2 DEF SnapOK, Exists, IsAllocated
<1>5. CASE UNCHANGED decoyVars
  BY <1>1, <1>4, <1>5, Zenon DEF decoyVars, SnapInv
<1>6. ASSUME NEW g \in Noisers, NoiserStep(g) PROVE SnapInv'
  <2>1. ASSUME snap' = [h \in Noisers |-> snap'[h]], SnapOK(g)',
               \A h \in Noisers : h # g => /\ nstate'[h] = nstate[h] /\ noise'[h] = noise[h]
                                          /\ target'[h] = target[h] /\ flip'[h] = flip[h]
                                          /\ snap'[h] = snap[h]
        PROVE  SnapInv'
    BY <1>4, <2>1, Zenon DEF SnapInv
  <2>2. NoiserOK(g) /\ SnapOK(g)
    BY <1>1, Zenon
  <2>3. UNCHANGED <<lists, allocations, contested>>
    BY <1>6, Zenon
    DEF NoiserStep, NoiseQuery, NoiseSweepList, NoisePick, NoiseWrite, NoiseBump,
        NoiseNextList, NoiseDone, metaVars
  <2>4. ASSUME \A l \in DOMAIN noise'[g] :
                   lists[l] # Null => /\ lists[l].shard_id = NoiserShard[g]
                                      /\ lists[l].size = noise'[g][l].size,
               nstate'[g] # "write"
        PROVE  SnapOK(g)'
    BY <2>3, <2>4, Zenon DEF SnapOK, Exists
  <2>5. CASE NoiseQuery(g)
    <3> DEFINE S == {l \in NoiseLists(NoiserShard[g]) : lists[l].cursor < lists[l].size}
    <3>1. nstate'[g] = "sweep" /\ snap' = snap /\ noise'[g] = Restrict(lists, S)
      BY <1>1, <2>5, Zenon DEF NoiseQuery, NGoto
    <3>2. ASSUME NEW l \in DOMAIN noise'[g]
          PROVE  lists[l].shard_id = NoiserShard[g] /\ lists[l].size = noise'[g][l].size
      BY <3>1, <3>2, Zenon DEF Restrict, NoiseLists
    <3>3. SnapOK(g)'
      BY <2>2, <2>4, <3>1, <3>2, Zenon DEF SnapOK
    <3>4. QED
      BY <1>1, <2>1, <2>5, <3>3, Zenon DEF NoiseQuery, NGoto
  <2>6. ASSUME NEW l \in ListIDs, NEW count, NoiseSweepList(g, l, count) PROVE SnapInv'
    <3>1. nstate'[g] = "pick" /\ noise' = noise
      BY <1>1, <2>6, Zenon DEF NoiseSweepList, NGoto
    <3>2. SnapOK(g)'
      BY <2>2, <2>4, <3>1, Zenon DEF SnapOK, Exists
    <3>3. QED
      BY <1>1, <2>1, <2>6, <3>2, Zenon DEF NoiseSweepList, NGoto
  <2>7. ASSUME NEW pos \in Indices, NEW next \in StatusNames, NoisePick(g, pos, next)
        PROVE  SnapInv'
    <3> DEFINE row == noise[g][target[g]]
               idx == Index(row.fpe_key, row.size, pos)
               cur == Get(snap[g], idx, Bits)
    <3>1. nstate[g] = "pick" /\ noise' = noise /\ target' = target /\ snap' = snap
      BY <2>7, Zenon DEF NoisePick
    <3>2. \/ nstate' = nstate /\ flip' = flip
          \/ /\ nstate' = [nstate EXCEPT ![g] = "write"]
             /\ flip' = [flip EXCEPT ![g] = [idx |-> idx, status |-> next]]
             /\ ~IsAllocated(target[g], idx) /\ next # cur /\ next \in nextDecoyStatus(cur)
      BY <2>7, Zenon DEF NoisePick
    <3>3. CASE nstate' = nstate /\ flip' = flip
      <4>1. SnapOK(g)'
        BY <1>4, <3>1, <3>3, Zenon
      <4>2. QED
        BY <1>1, <2>1, <3>1, <3>3, <4>1, Zenon
    <3>4. CASE /\ nstate' = [nstate EXCEPT ![g] = "write"]
               /\ flip' = [flip EXCEPT ![g] = [idx |-> idx, status |-> next]]
               /\ ~IsAllocated(target[g], idx) /\ next # cur /\ next \in nextDecoyStatus(cur)
      <4>1. nstate'[g] = "write" /\ flip'[g].idx = idx
        BY <1>1, <3>4, Zenon
      <4> HIDE DEF idx
      <4>2. cur # INVALID
        BY <3>4 DEF nextDecoyStatus, VALID, INVALID, SUSPENDED
      <4>3. \A l \in DOMAIN noise[g] :
                lists[l] # Null =>
                    lists[l].shard_id = NoiserShard[g] /\ lists[l].size = noise[g][l].size
        BY <2>2, Zenon DEF SnapOK, Exists
      <4>4. SnapOK(g)'
        BY <2>3, <3>1, <3>4, <4>1, <4>2, <4>3 DEF SnapOK, IsAllocated, Exists
      <4>5. QED
        BY <1>1, <2>1, <3>1, <3>4, <4>4, Zenon
    <3>5. QED
      BY <3>2, <3>3, <3>4, Zenon
  <2>8. CASE NoiseWrite(g) \/ NoiseBump(g)
    <3>1. /\ noise' = noise /\ target' = target /\ snap' = snap
          /\ \E x \in {"bump", "pick"} : nstate' = [nstate EXCEPT ![g] = x]
          /\ flip' = flip \/ flip' = [flip EXCEPT ![g] = NoFlip]
      BY <2>8, Zenon DEF NoiseWrite, NoiseBump, NGoto
    <3>2. nstate'[g] \in {"bump", "pick"}
      BY <1>1, <3>1, Zenon
    <3>3. SnapOK(g)'
      BY <2>2, <2>4, <3>1, <3>2, Zenon DEF SnapOK, Exists
    <3>4. QED
      BY <1>1, <2>1, <3>1, <3>3, Zenon
  <2>9. CASE NoiseNextList(g)
    <3>1. /\ nstate'[g] = "sweep"
          /\ noise'[g] = Restrict(noise[g], DOMAIN noise[g] \ {target[g]})
      BY <1>1, <2>9, Zenon DEF NoiseNextList
    <3>2. \A l \in DOMAIN noise'[g] : l \in DOMAIN noise[g] /\ noise'[g][l] = noise[g][l]
      BY <3>1, Zenon DEF Restrict
    <3>3. SnapOK(g)'
      BY <2>2, <2>4, <3>1, <3>2, Zenon DEF SnapOK, Exists
    <3>4. QED
      BY <1>1, <2>1, <2>9, <3>3, Zenon DEF NoiseNextList
  <2>10. CASE NoiseDone(g)
    <3>1. nstate'[g] = "idle" /\ noise'[g] = <<>>
      BY <1>1, <2>10, Zenon DEF NoiseDone
    <3>2. \A l \in DOMAIN noise'[g] : FALSE
      BY <3>1
    <3>3. SnapOK(g)'
      BY <2>4, <3>1, <3>2, Zenon
    <3>4. QED
      BY <1>1, <2>1, <2>10, <3>3, Zenon DEF NoiseDone
  <2>11. QED
    BY <1>6, <2>5, <2>6, <2>7, <2>8, <2>9, <2>10, Zenon DEF NoiserStep
<1>7. QED
  BY <1>5, <1>6, Zenon DEF Next, vars, PoolStep, RequestStep, SweeperStep, ClockStep

-----------------------------------------------------------------------------
(* The inductive invariant of the processes, and what follows from it.      *)

ServiceInv == ContractInv /\ NoiseInv /\ RetryInv /\ WrittenInv /\ SnapInv

LEMMA ServiceInit == Init => ServiceInv
<1> SUFFICES ASSUME Init PROVE ServiceInv
  OBVIOUS
<1>1. ContractInv
  BY ContractInit, Zenon
<1>2. NoiseInv
  BY DEF Init, DecoyInit, NoiseInv, NoiserOK, NoiseStates, NoFlip, StatusNames
<1>3. RetryInv
  BY Zenon DEF Init, MetaInit, PoolInit, IngestionInit, NoRequest, RetryInv, RetryOK,
         RoomWhileActive, HasState, Exists, Threads
<1>4. WrittenInv
  <2>1. /\ issued = {} /\ acked = {} /\ written = [e \in ListIDs \X Indices |-> Null]
        /\ \A t \in Requests : pc[t] = "idle"
    BY PoolAssumption, Zenon DEF Init, MetaInit, PoolInit, IngestionInit, Indices, Threads
  <2>2. QED
    BY <2>1, Zenon DEF WrittenInv, WriterOK, Holding
<1>5. SnapInv
  <2>1. snap = [g \in Noisers |-> snap[g]]
    BY Zenon DEF Init, DecoyInit
  <2>2. ASSUME NEW g \in Noisers PROVE SnapOK(g)
    BY DEF Init, DecoyInit, SnapOK
  <2>3. QED
    BY <2>1, <2>2, Zenon DEF SnapInv
<1>6. QED
  BY <1>1, <1>2, <1>3, <1>4, <1>5, Zenon DEF ServiceInv

LEMMA ServiceInductive ==
    ServiceInv /\ [Next]_vars => ServiceInv' /\ MetaInv' /\ [MetaNext]_metaVars
<1> SUFFICES ASSUME ServiceInv, [Next]_vars
             PROVE  ServiceInv' /\ MetaInv' /\ [MetaNext]_metaVars
  OBVIOUS
<1>1. /\ ContractInv /\ MetaInv /\ ThreadInv
      /\ NoiseInv /\ RetryInv /\ WrittenInv /\ SnapInv
  BY Zenon DEF ServiceInv, ContractInv
<1>2. ContractInv' /\ MetaInv' /\ [MetaNext]_metaVars
  BY <1>1, ContractStep, Zenon DEF ContractInv
<1>3. NoiseInv' /\ RetryInv'
  BY <1>1, <1>2, NoiseStep, RetryStep, Zenon
<1>4. WrittenInv' /\ SnapInv'
  BY <1>1, <1>2, WrittenStep, SnapStep, Zenon
<1>5. QED
  BY <1>2, <1>3, <1>4, Zenon DEF ServiceInv

\* No decoy is written over an allocated entry of a list that had left ACTIVE
\* when the noiser read it (decoy.go:46-48).
THEOREM NoDecoyOnFrozen == Spec => []NoDecoyRaceOnceFrozen
<1>1. ServiceInv => NoDecoyRaceOnceFrozen
  BY Zenon DEF ServiceInv, NoiseInv, NoiserOK, NoDecoyRaceOnceFrozen
<1>2. QED
  BY <1>1, ServiceInit, ServiceInductive, PTL DEF Spec

\* A request never tries a list again that has answered ErrListFull to it
\* (ingestion/handlers.go:34-35).
THEOREM RetriesDiffer == Spec => []RetryNeverRepeats
<1>1. ServiceInv => RetryNeverRepeats
  BY Zenon DEF ServiceInv, RetryInv, RetryOK, RetryNeverRepeats
<1>2. QED
  BY <1>1, ServiceInit, ServiceInductive, PTL DEF Spec

-----------------------------------------------------------------------------
(* The counters.                                                            *)

VersionInv ==
    /\ version = [s \in Shards |-> [l \in ListIDs |-> version[s][l]]]
    /\ \A s \in Shards, l \in ListIDs : version[s][l] \in Nat

CounterInv ==
    /\ VersionInv
    /\ \A t \in Requests : req[t].tries \in 0 .. MaxAttempts - 1

LEMMA VersionStep ==
    ASSUME VersionInv, NEW s \in Shards, NEW l \in ListIDs,
           version' = [version EXCEPT ![s][l] = @ + 1] \/ version' = [version EXCEPT ![s][l] = 0]
    PROVE  VersionInv'
<1>1. version[s][l] + 1 \in Nat /\ 0 \in Nat
  BY DEF VersionInv
<1>2. PICK n \in Nat : version' = [version EXCEPT ![s][l] = n]
  BY <1>1, Zenon DEF VersionInv
<1>3. version' = [r \in Shards |-> [m \in ListIDs |-> version'[r][m]]]
  BY <1>2, Zenon DEF VersionInv
<1>4. QED
  BY <1>2, <1>3, Zenon DEF VersionInv

LEMMA CounterStep ==
    ASSUME ServiceInv, CounterInv, [Next]_vars
    PROVE  CounterInv'
<1> USE PoolAssumption, SweepersAssumption, NoisersAssumption
<1>1. /\ ThreadInv /\ NoiseInv /\ Requests \subseteq Threads /\ req \in [Requests -> Request]
      /\ \A t \in Requests : req[t].tries \in 0 .. MaxAttempts - 1
  BY Zenon DEF ServiceInv, ContractInv, ThreadInv, Threads, CounterInv
<1>2. VersionInv'
  <2> USE DEF CounterInv
  <2>1. CASE version' = version
    BY <2>1, Zenon DEF VersionInv
  <2>2. ASSUME NEW t \in Requests, BumpVersion(t) PROVE VersionInv'
    <3>1. version' = [version EXCEPT ![ShardOf[t]][list[t]] = @ + 1]
          /\ ShardOf[t] \in Shards /\ list[t] \in ListIDs
      BY <1>1, <2>2, Zenon DEF BumpVersion, Incr, ThreadInv, OnList
    <3>2. QED
      BY <3>1, VersionStep, Zenon
  <2>3. ASSUME NEW g \in Noisers, NoiseBump(g) PROVE VersionInv'
    <3>1. /\ version' = [version EXCEPT ![NoiserShard[g]][target[g]] = @ + 1]
          /\ NoiserShard[g] \in Shards /\ target[g] \in ListIDs
      BY <1>1, <2>3, Zenon DEF NoiseBump, NGoto, Incr, NoiseInv, NoiserOK
    <3>2. QED
      BY <3>1, VersionStep, Zenon
  <2>4. ASSUME NEW g \in Sweepers, NEW l \in ListIDs, SweepPurge(g, l) PROVE VersionInv'
    <3>1. SweeperShard[g] \in Shards
      BY Zenon
    <3>2. QED
      BY <2>4, <3>1, VersionStep, Zenon DEF SweepPurge, Purge
  <2>5. ASSUME NEW t \in Threads, PoolStep(t) PROVE version' = version
    BY <2>5, Zenon
    DEF PoolStep, PoolTick, EnsureHealthyQuery, TopUpInit, EnsureHealthyDone, PickBootstrap,
        AbandonPoolTick, RotateByAge, TopUp, PickForAllocation, PickAgain, Choose, InitBitmap,
        redisVars
  <2>6. ASSUME NEW t \in Requests, RequestStep(t) PROVE version' = version \/ BumpVersion(t)
    BY <2>6, Zenon
    DEF RequestStep, Allocate, SetStatus, Reserve, ReserveFull, SetStatusGetList, WriteStatus,
        AbandonRequest, SetByte, redisVars
  <2>7. ASSUME NEW g \in Noisers, NoiserStep(g) PROVE version' = version \/ NoiseBump(g)
    BY <2>7, Zenon
    DEF NoiserStep, NoiseQuery, NoiseSweepList, NoisePick, NoiseWrite, NoiseNextList, NoiseDone,
        SetByte, redisVars
  <2>8. ASSUME NEW g \in Sweepers, SweeperStep(g)
        PROVE  version' = version \/ \E l \in ListIDs : SweepPurge(g, l)
    BY <2>8, Zenon
    DEF SweeperStep, SweepStart, SweepQueryArchived, SweepMarkPurged, SweepQueryPurged, SweepDone,
        SweepAbandoned, SweepIdle, SweepArchive, SweepDelete, redisVars
  <2>9. QED
    BY <2>1, <2>2, <2>3, <2>4, <2>5, <2>6, <2>7, <2>8, Zenon DEF Next, vars, redisVars, ClockStep
<1>3. \A t \in Requests : req'[t].tries \in 0 .. MaxAttempts - 1
  <2>1. CASE req' = req
    BY <1>1, <2>1, Zenon
  <2>2. 0 \in 0 .. MaxAttempts - 1 /\ NoRequest.tries = 0
    BY AttemptsAssumption DEF NoRequest
  <2>3. ASSUME NEW t \in Requests, RequestStep(t), NEW q \in Requests
        PROVE  req'[q].tries \in 0 .. MaxAttempts - 1
    <3>1. CASE q # t
      <4>1. req'[q] = req[q]
        BY <1>1, <2>3, <3>1, Zenon
        DEF RequestStep, Allocate, SetStatus, Reserve, ReserveFull, SetStatusGetList,
            WriteStatus, BumpVersion, AbandonRequest, Respond
      <4>2. QED
        BY <1>1, <4>1, Zenon
    <3>2. CASE q = t
      <4>1. CASE req' = [req EXCEPT ![t] = NoRequest] \/ req' = req
        BY <1>1, <2>2, <3>2, <4>1, Zenon
      <4>2. ASSUME NEW i, NEW exp, Allocate(t, i, exp) PROVE req'[t].tries = 0
        BY <1>1, <4>2 DEF Allocate, NoRequest
      <4>3. ASSUME NEW i, NEW l, NEW idx, NEW st, SetStatus(t, i, l, idx, st)
            PROVE  req'[t].tries = 0
        BY <1>1, <4>3 DEF SetStatus, NoRequest
      <4>4. CASE Reserve(t)
        <5>1. req'[t].tries = req[t].tries
          BY <1>1, <4>4 DEF Reserve, Request
        <5>2. QED
          BY <1>1, <3>2, <5>1, Zenon
      <4>5. CASE ReserveFull(t) /\ ~Respond(t)
        <5>1. /\ req' = [req EXCEPT ![t].tries = @ + 1, ![t].full = @ \cup {list[t]}]
              /\ req[t].tries + 1 < MaxAttempts
          BY <4>5, Zenon DEF ReserveFull
        <5>2. req'[t].tries = req[t].tries + 1 /\ req[t].tries \in Nat
          BY <1>1, <5>1 DEF Request
        <5>3. QED
          BY <3>2, <5>1, <5>2, AttemptsAssumption
      <4>6. \/ \E i, exp : Allocate(t, i, exp)
            \/ \E i, l, idx, st : SetStatus(t, i, l, idx, st)
            \/ Reserve(t)
            \/ ReserveFull(t) /\ ~Respond(t)
            \/ req' = [req EXCEPT ![t] = NoRequest] \/ req' = req
        BY <2>3, Zenon
        DEF RequestStep, SetStatusGetList, WriteStatus, BumpVersion, AbandonRequest, Respond
      <4>7. QED
        BY <2>2, <3>2, <4>1, <4>2, <4>3, <4>4, <4>5, <4>6, Zenon
    <3>3. QED
      BY <3>1, <3>2, Zenon
  <2>4. QED
    BY <2>1, <2>3, Zenon
    DEF Next, vars, PoolStep, SweeperStep, NoiserStep, ClockStep, ingestionVars
<1>4. QED
  BY <1>2, <1>3, Zenon DEF CounterInv
=============================================================================
