---------------------------- MODULE BitmapProofs ----------------------------
(***************************************************************************)
(* What the steps of the service mean for the bitmaps and for the relying  *)
(* parties that read them, for any number of shards, requests and lists    *)
(* and any durations: no bitmap is dropped early, a granted entry reads    *)
(* what its owner wrote, and a decoy that every sweep has seen revoked     *)
(* stays revoked.                                                          *)
(***************************************************************************)
EXTENDS StatusServiceProofs, PackingProofs

-----------------------------------------------------------------------------
(* The bitmaps.                                                             *)

RedisInv ==
    /\ bitmap = [s \in Shards |-> [l \in ListIDs |-> bitmap[s][l]]]
    /\ \A s \in Shards, l \in ListIDs : bitmap[s][l] \in Seq(Bytes)

\* No bitmap is dropped.
NothingDropped ==
    \A s \in Shards, l \in ListIDs : bitmap[s][l] # <<>> => bitmap'[s][l] # <<>>

\* Only the bitmap of l in the Redis of s has changed.
Replaces(s, l, new) ==
    /\ bitmap'[s][l] = new
    /\ \A r \in Shards, m \in ListIDs : r # s \/ m # l => bitmap'[r][m] = bitmap[r][m]

LEMMA OneBitmap ==
    ASSUME RedisInv, NEW s \in Shards, NEW l \in ListIDs, NEW new \in Seq(Bytes),
           bitmap' = [bitmap EXCEPT ![s][l] = new]
    PROVE  /\ RedisInv' /\ Replaces(s, l, new)
           /\ (bitmap[s][l] # <<>> => new # <<>>) => NothingDropped
<1>1. Replaces(s, l, new)
  BY Zenon DEF RedisInv, Replaces
<1>2. bitmap' = [r \in Shards |-> [m \in ListIDs |-> bitmap'[r][m]]]
  BY Zenon DEF RedisInv
<1>3. RedisInv'
  <2>1. \A r \in Shards, m \in ListIDs : bitmap'[r][m] \in Seq(Bytes)
    BY <1>1, Zenon DEF RedisInv, Replaces
  <2>2. QED
    BY <1>2, <2>1, Zenon DEF RedisInv
<1>4. (bitmap[s][l] # <<>> => new # <<>>) => NothingDropped
  BY <1>1, Zenon DEF NothingDropped, Replaces
<1>5. QED
  BY <1>1, <1>3, <1>4, Zenon

\* The entry idx of l in the Redis of s has been given a status, no other.
Writes(s, l, idx, status) ==
    /\ StatusAt(bitmap'[s][l], idx) = status
    /\ \A r \in Shards, m \in ListIDs, i \in Nat :
           r # s \/ m # l \/ i # idx => StatusAt(bitmap'[r][m], i) = StatusAt(bitmap[r][m], i)

\* Every entry reads as before.
ReadsAlike ==
    \A r \in Shards, m \in ListIDs, i \in Nat :
        StatusAt(bitmap'[r][m], i) = StatusAt(bitmap[r][m], i)

\* SetStatus's script changes one entry of one bitmap (redis.go:49-68, 101-104).
LEMMA SetByteKeeps ==
    ASSUME RedisInv, NEW s \in Shards, NEW l \in ListIDs, NEW idx \in Nat, NEW value \in Nat,
           SetByte(s, l, idx, value)
    PROVE  RedisInv' /\ NothingDropped /\ Writes(s, l, idx, value % 2^Bits)
<1> DEFINE new == WithStatus(bitmap[s][l], idx, value)
           v == value % 2^Bits
<1>1. bitmap' = [bitmap EXCEPT ![s][l] = new]
  BY Zenon DEF SetByte, WithStatus, RedisInv
<1>2. bitmap[s][l] \in Seq(Bytes)
  BY Zenon DEF RedisInv
<1>3. Rewritten(bitmap[s][l], new, idx, v)
  BY <1>2, StatusWritten, Zenon
<1> HIDE DEF new, v
<1>4. RedisInv' /\ NothingDropped /\ Replaces(s, l, new)
  BY <1>1, <1>3, OneBitmap, Zenon DEF Rewritten
<1>5. ASSUME NEW r \in Shards, NEW m \in ListIDs, NEW i \in Nat, r # s \/ m # l \/ i # idx
      PROVE  StatusAt(bitmap'[r][m], i) = StatusAt(bitmap[r][m], i)
  BY <1>3, <1>4, <1>5, Zenon DEF Rewritten, Replaces
<1>6. QED
  BY <1>3, <1>4, <1>5, Zenon DEF Rewritten, Replaces, Writes, v

\* A new list's zero-filled bitmap reads as the missing one (redis.go:89-98).
LEMMA InitBitmapKeeps ==
    ASSUME RedisInv, NEW s \in Shards, NEW l \in ListIDs, NEW size \in Nat,
           InitBitmap(s, l, size)
    PROVE  RedisInv' /\ NothingDropped /\ ReadsAlike
<1> DEFINE new == IF bitmap[s][l] = <<>> THEN Zeros(ByteLen(size)) ELSE bitmap[s][l]
<1>1. ByteLen(size) \in Nat
  <2>1. size * Bits \in Nat
    BY BitsAssumption
  <2>2. QED
    BY <2>1 DEF ByteLen
<1>2. bitmap' = [bitmap EXCEPT ![s][l] = new]
  BY Zenon DEF InitBitmap, RedisInv
<1>3. bitmap[s][l] \in Seq(Bytes)
  BY Zenon DEF RedisInv
<1>4. new \in Seq(Bytes) /\ \A i \in Nat : StatusAt(new, i) = StatusAt(bitmap[s][l], i)
  BY <1>1, <1>3, StatusOfZeros, Zenon
<1>5. bitmap[s][l] # <<>> => new # <<>>
  BY Zenon
<1> HIDE DEF new
<1>6. RedisInv' /\ NothingDropped /\ Replaces(s, l, new)
  BY <1>2, <1>4, <1>5, OneBitmap, Zenon
<1>7. QED
  BY <1>4, <1>6, Zenon DEF Replaces, ReadsAlike

-----------------------------------------------------------------------------
(* What the steps do to the bitmaps.                                        *)

BitmapInv == ServiceInv /\ RedisInv

LEMMA BitmapInit == Init => BitmapInv
<1>1. <<>> \in Seq(Bytes)
  BY EmptySeq, Zenon
<1>2. ASSUME Init PROVE RedisInv
  BY <1>1, <1>2, Zenon DEF Init, RedisInit, RedisInv
<1>3. QED
  BY <1>2, ServiceInit, Zenon DEF BitmapInv

\* What a step may do to the bitmaps: nothing that shows, the write of a
\* request, the write of a decoy, or the purge of a list that is due.
RequestWrites ==
    \E t \in Requests : /\ WriteStatus(t) /\ RequestStep(t) /\ NothingDropped
                        /\ Writes(ShardOf[t], list[t], req[t].idx, req[t].status % 2^Bits)

DecoyWrites ==
    \E g \in Noisers : /\ NoiseWrite(g) /\ NoiserStep(g) /\ NothingDropped
                       /\ Writes(NoiserShard[g], target[g], flip[g].idx, flip[g].status % 2^Bits)

SweeperPurges ==
    \E g \in Sweepers, m \in ListIDs :
        /\ SweepPurge(g, m) /\ SweeperStep(g) /\ PurgeDue(m)
        /\ \A s \in Shards, l \in ListIDs : l # m => bitmap'[s][l] = bitmap[s][l]

\* The other steps change no request's written, and no bitmap that one can tell.
WritesNothing == ReadsAlike /\ NothingDropped /\ UNCHANGED written

LEMMA RedisStep ==
    ASSUME BitmapInv, [Next]_vars
    PROVE  RedisInv' /\ (WritesNothing \/ RequestWrites \/ DecoyWrites \/ SweeperPurges)
<1> USE PoolAssumption, SweepersAssumption, NoisersAssumption
<1>1. ThreadInv /\ SweepInv /\ RedisInv /\ NoiseInv /\ Requests \subseteq Threads
  BY Zenon DEF BitmapInv, ServiceInv, ContractInv, Threads
<1>2. ASSUME UNCHANGED bitmap, UNCHANGED written PROVE RedisInv' /\ WritesNothing
  BY <1>1, <1>2, Zenon DEF RedisInv, NothingDropped, ReadsAlike, WritesNothing
<1>3. ASSUME NEW t \in Threads, PoolStep(t) PROVE RedisInv' /\ WritesNothing
  <2>1. UNCHANGED written
    BY <1>3, Zenon DEF PoolStep, ingestionVars
  <2>2. CASE TopUpInit(t)
    <3>1. InitBitmap(ShardOf[t], list[t], Capacity) /\ list[t] \in ListIDs
      BY <1>1, <2>2, Zenon DEF TopUpInit, Goto, ThreadInv, OnList
    <3>2. Capacity \in Nat /\ ShardOf[t] \in Shards
      BY SizesAssumption, Zenon
    <3>3. QED
      BY <1>1, <2>1, <3>1, <3>2, InitBitmapKeeps, Zenon DEF WritesNothing
  <2>3. CASE UNCHANGED redisVars
    BY <1>2, <2>1, <2>3, Zenon DEF redisVars
  <2>4. QED
    BY <1>3, <2>2, <2>3, Zenon
    DEF PoolStep, PoolTick, EnsureHealthyQuery, EnsureHealthyDone, PickBootstrap,
        AbandonPoolTick, RotateByAge, TopUp, PickForAllocation, PickAgain, Choose
<1>4. ASSUME NEW t \in Requests, RequestStep(t)
      PROVE  RedisInv' /\ (WritesNothing \/ RequestWrites)
  <2>1. CASE WriteStatus(t)
    <3>1. /\ SetByte(ShardOf[t], list[t], req[t].idx, req[t].status) /\ list[t] \in ListIDs
      BY <1>1, <2>1, Zenon DEF WriteStatus, Goto, ThreadInv, OnList
    <3>2. req[t].idx \in Nat /\ req[t].status \in Nat /\ ShardOf[t] \in Shards
      BY <1>1, StatusIsNat, Zenon DEF ThreadInv, Request
    <3>3. /\ RedisInv' /\ NothingDropped
          /\ Writes(ShardOf[t], list[t], req[t].idx, req[t].status % 2^Bits)
      BY <1>1, <3>1, <3>2, SetByteKeeps, Zenon
    <3>4. QED
      BY <1>4, <2>1, <3>3, Zenon DEF RequestWrites
  <2>2. CASE UNCHANGED <<bitmap, written>>
    BY <1>2, <2>2, Zenon
  <2>3. QED
    BY <1>4, <2>1, <2>2, Zenon
    DEF RequestStep, Allocate, SetStatus, Reserve, ReserveFull, SetStatusGetList,
        BumpVersion, AbandonRequest, Incr, redisVars
<1>5. ASSUME NEW g \in Noisers, NoiserStep(g)
      PROVE  RedisInv' /\ (WritesNothing \/ DecoyWrites)
  <2>1. CASE NoiseWrite(g)
    <3>1. SetByte(NoiserShard[g], target[g], flip[g].idx, flip[g].status) /\ target[g] \in ListIDs
      BY <1>1, <2>1, Zenon DEF NoiseWrite, NGoto, NoiseInv, NoiserOK
    <3>2. flip[g].idx \in Nat /\ flip[g].status \in Nat /\ NoiserShard[g] \in Shards
      BY <1>1, StatusIsNat, Zenon DEF NoiseInv
    <3>3. /\ RedisInv' /\ NothingDropped
          /\ Writes(NoiserShard[g], target[g], flip[g].idx, flip[g].status % 2^Bits)
      BY <1>1, <3>1, <3>2, SetByteKeeps, Zenon
    <3>4. QED
      BY <1>5, <2>1, <3>3, Zenon DEF DecoyWrites
  <2>2. CASE UNCHANGED bitmap
    BY <1>2, <1>5, <2>2, Zenon DEF NoiserStep, ingestionVars
  <2>3. QED
    BY <1>5, <2>1, <2>2, Zenon
    DEF NoiserStep, NoiseQuery, NoiseSweepList, NoisePick, NoiseBump, NoiseNextList,
        NoiseDone, Incr, redisVars
<1>6. ASSUME NEW g \in Sweepers, SweeperStep(g)
      PROVE  RedisInv' /\ (WritesNothing \/ SweeperPurges)
  <2>1. ASSUME NEW m \in ListIDs, SweepPurge(g, m) PROVE RedisInv' /\ SweeperPurges
    <3>1. PurgeDue(m)
      BY <1>1, <2>1, Zenon DEF SweepPurge, Step, SweepInv, SweeperOK
    <3>2. /\ bitmap' = [bitmap EXCEPT ![SweeperShard[g]][m] = <<>>]
          /\ <<>> \in Seq(Bytes) /\ SweeperShard[g] \in Shards
      BY <2>1, EmptySeq, Zenon DEF SweepPurge, Purge
    <3>3. RedisInv' /\ Replaces(SweeperShard[g], m, <<>>)
      BY <1>1, <3>2, OneBitmap, Zenon
    <3>4. QED
      BY <1>6, <2>1, <3>1, <3>3, Zenon DEF SweeperPurges, Replaces
  <2>2. CASE UNCHANGED bitmap
    BY <1>2, <1>6, <2>2, Zenon DEF SweeperStep, ingestionVars
  <2>3. QED
    BY <1>6, <2>1, <2>2, Zenon
    DEF SweeperStep, SweepStart, SweepQueryArchived, SweepMarkPurged, SweepQueryPurged,
        SweepDone, SweepAbandoned, SweepIdle, SweepArchive, SweepDelete, redisVars
<1>7. CASE ClockStep \/ UNCHANGED vars
  BY <1>2, <1>7, Zenon DEF ClockStep, vars, redisVars, ingestionVars
<1>8. QED
  BY <1>3, <1>4, <1>5, <1>6, <1>7, Zenon DEF Next

LEMMA BitmapInductive == BitmapInv /\ [Next]_vars => BitmapInv'
BY RedisStep, ServiceInductive, Zenon DEF BitmapInv

\* A bitmap is dropped only when its list has been archived for the retention
\* period, at the time of the drop (gc/sweeper.go:63-76).
THEOREM BitmapsKept == Spec => BitmapKeptUntilRetention
<1>1. ASSUME BitmapInv, [Next]_vars
      PROVE  [\A s \in Shards, l \in ListIDs :
                 bitmap[s][l] # <<>> /\ bitmap'[s][l] = <<>> /\ Exists(l) =>
                     /\ lists[l].state = "ARCHIVED"
                     /\ lists[l].archived_at + Retention <= now]_vars
  <2>1. WritesNothing \/ RequestWrites \/ DecoyWrites => NothingDropped
    BY Zenon DEF WritesNothing, RequestWrites, DecoyWrites
  <2>2. ASSUME SweeperPurges, NEW s \in Shards, NEW l \in ListIDs,
               bitmap[s][l] # <<>>, bitmap'[s][l] = <<>>
        PROVE  PurgeDue(l)
    BY <2>2, Zenon DEF SweeperPurges
  <2>3. QED
    BY <1>1, <2>1, <2>2, RedisStep, Zenon DEF PurgeDue, NothingDropped
<1>2. QED
  BY <1>1, BitmapInit, BitmapInductive, PTL DEF Spec, BitmapKeptUntilRetention

-----------------------------------------------------------------------------
(* What the bitmaps hold.                                                   *)

Stored(l, idx) == StatusAt(bitmap[lists[l].shard_id][l], idx)

\* What the owner last wrote, unless a decoy was decided before the entry was
\* theirs.
OwnersOK(a) ==
    LET e == <<a.list_id, a.idx>> IN
    written[e] # Null /\ e \notin contested /\ ~PurgeDue(a.list_id) =>
        Stored(a.list_id, a.idx) = written[e] % 2^Bits

StoredInv == \A a \in allocations : OwnersOK(a)

\* A list whose bitmap may not be dropped yet has been where it is.
LEMMA KeptList ==
    ASSUME MetaInv, [MetaNext]_metaVars, NEW l \in ListIDs, l \in minted, ~PurgeDue(l)'
    PROVE  /\ ~PurgeDue(l) /\ Exists(l) /\ lists'[l].shard_id = lists[l].shard_id
           /\ lists[l].shard_id \in Shards
<1>1. ~PurgeDue(l) /\ Exists(l)'
  BY DueStays, Zenon DEF PurgeDue
<1>2. Exists(l) /\ lists'[l].shard_id = lists[l].shard_id
  BY <1>1, MintedStays, Zenon DEF MetaInv
<1>3. lists[l].shard_id \in Shards
  BY <1>2, Zenon DEF MetaInv, MetaTypeOK, Row, Exists
<1>4. QED
  BY <1>1, <1>2, <1>3, Zenon

LEMMA StoredStep ==
    ASSUME BitmapInv, MetaInv', [MetaNext]_metaVars, WrittenInv, SnapInv, StoredInv, [Next]_vars
    PROVE  StoredInv'
<1> DEFINE Same(l, i) == StatusAt(bitmap'[lists[l].shard_id][l], i) =
                             StatusAt(bitmap[lists[l].shard_id][l], i)
<1>1. /\ MetaInv /\ ThreadInv /\ RedisInv /\ NoiseInv
      /\ \A g \in Noisers : NoiserOK(g) /\ SnapOK(g)
  BY Zenon
  DEF BitmapInv, ServiceInv, ContractInv, NoiseInv, SnapInv, StoredInv
<1>2. ASSUME NEW a \in allocations'
      PROVE  /\ a.list_id \in ListIDs /\ a.list_id \in minted' /\ a.idx \in Indices /\ a.idx \in Nat
  <2>1. MetaInv' => IndicesKnown'
    BY AllocatedInIndices, PTL
  <2>2. QED
    BY <2>1, Zenon DEF IndicesKnown, MetaInv, MetaTypeOK, Allocation, HistoryMatches, KnownLists
<1>3. ASSUME NEW a \in allocations', LET e == <<a.list_id, a.idx>> IN written'[e] = written[e],
             ~PurgeDue(a.list_id) /\ <<a.list_id, a.idx>> \notin contested => Same(a.list_id, a.idx)
      PROVE  OwnersOK(a)'
  <2> DEFINE l == a.list_id
             e == <<a.list_id, a.idx>>
  <2>1. SUFFICES ASSUME written[e] # Null, e \notin contested', ~PurgeDue(l)'
                 PROVE  StatusAt(bitmap'[lists'[l].shard_id][l], a.idx) = written[e] % 2^Bits
    BY <1>3, Zenon DEF OwnersOK, Stored
  <2>2. a \in allocations
    BY <1>1, <1>2, <2>1, EntriesStay, Zenon DEF WrittenInv
  <2>3. l \in minted /\ l \in ListIDs
    BY <1>1, <1>2, <2>2, Zenon DEF MetaInv, HistoryMatches, KnownLists
  <2>4. ~PurgeDue(l) /\ lists'[l].shard_id = lists[l].shard_id
    BY <1>1, <2>1, <2>3, KeptList, Zenon
  <2>5. e \notin contested
    BY <2>1, TakenIsContested, Zenon
  <2>6. Stored(l, a.idx) = written[e] % 2^Bits
    BY <2>1, <2>2, <2>4, <2>5, Zenon DEF StoredInv, OwnersOK
  <2>7. QED
    BY <1>3, <2>4, <2>5, <2>6, Zenon DEF Stored
<1>4. ASSUME NEW l \in ListIDs, ~PurgeDue(l) PROVE Exists(l) /\ lists[l].shard_id \in Shards
  BY <1>1, <1>4, Zenon DEF PurgeDue, MetaInv, MetaTypeOK, Row, Exists
<1>5. CASE WritesNothing
  <2>1. ASSUME NEW l \in ListIDs, ~PurgeDue(l), NEW i \in Nat PROVE Same(l, i)
    BY <1>4, <1>5, <2>1, Zenon DEF WritesNothing, ReadsAlike
  <2>2. ASSUME NEW a \in allocations' PROVE OwnersOK(a)'
    BY <1>2, <1>3, <1>5, <2>1, Zenon DEF WritesNothing
  <2>3. QED
    BY <2>2, Zenon DEF StoredInv
<1>6. CASE RequestWrites
  <2>1. PICK t \in Requests :
            /\ WriteStatus(t) /\ RequestStep(t)
            /\ Writes(ShardOf[t], list[t], req[t].idx, req[t].status % 2^Bits)
    BY <1>6, Zenon DEF RequestWrites
  <2> DEFINE d == <<list[t], req[t].idx>>
  <2>2. /\ pc[t] = "write" /\ written' = [written EXCEPT ![d] = req[t].status]
        /\ UNCHANGED <<lists, allocations, decoyVars>>
    BY <2>1, Zenon DEF WriteStatus, RequestStep, Goto, metaVars
  <2>3. /\ list[t] \in ListIDs /\ req[t].idx \in Nat
        /\ Exists(list[t]) => lists[list[t]].shard_id = ShardOf[t]
        /\ Issued(list[t], req[t].idx) /\ ShardOf[t] \in Shards
    BY <1>1, <2>2, PoolAssumption, Zenon
    DEF WrittenInv, WriterOK, Holding, ThreadInv, OnList, Request, Threads
  <2>4. ASSUME NEW l \in ListIDs, ~PurgeDue(l), NEW i \in Nat, l # list[t] \/ i # req[t].idx
        PROVE  Same(l, i)
    BY <1>4, <2>1, <2>4, Zenon DEF Writes
  <2>5. ASSUME NEW a \in allocations' PROVE OwnersOK(a)'
    <3> DEFINE l == a.list_id
               e == <<a.list_id, a.idx>>
    <3>1. CASE l = list[t] /\ a.idx = req[t].idx
      <4>1. e \in ListIDs \X Indices
        BY <1>2, Zenon
      <4>2. written'[e] = req[t].status
        BY <2>2, <3>1, <4>1, Zenon DEF WrittenInv
      <4>3. ~PurgeDue(l)' => lists'[l].shard_id = ShardOf[t]
        BY <2>2, <2>3, <3>1, Zenon DEF PurgeDue, Exists
      <4>4. StatusAt(bitmap'[ShardOf[t]][l], a.idx) = req[t].status % 2^Bits
        BY <2>1, <3>1, Zenon DEF Writes
      <4>5. QED
        BY <4>2, <4>3, <4>4, Zenon DEF OwnersOK, Stored
    <3>2. CASE ~(l = list[t] /\ a.idx = req[t].idx)
      <4>1. e # d
        BY <3>2
      <4>2. written'[e] = written[e]
        BY <1>2, <2>2, <4>1, Zenon DEF WrittenInv
      <4>3. ~PurgeDue(l) => Same(l, a.idx)
        BY <1>2, <2>4, <3>2, Zenon
      <4>4. QED
        BY <1>3, <4>2, <4>3, Zenon
    <3>3. QED
      BY <3>1, <3>2, Zenon
  <2>6. QED
    BY <2>5, Zenon DEF StoredInv
<1>7. CASE DecoyWrites
  <2>1. PICK h \in Noisers : /\ NoiseWrite(h) /\ NoiserStep(h)
                             /\ Writes(NoiserShard[h], target[h], flip[h].idx,
                                       flip[h].status % 2^Bits)
    BY <1>7, Zenon DEF DecoyWrites
  <2>2. nstate[h] = "write" /\ UNCHANGED <<written, allocations>>
    BY <2>1, Zenon DEF NoiseWrite, NoiserStep, NGoto, metaVars, ingestionVars
  <2>3. /\ target[h] \in ListIDs /\ flip[h].idx \in Nat /\ NoiserShard[h] \in Shards
        /\ IsAllocated(target[h], flip[h].idx) => <<target[h], flip[h].idx>> \in contested
    BY <1>1, <2>2, NoisersAssumption, Zenon DEF NoiserOK, SnapOK, NoiseInv
  <2>4. ASSUME NEW l \in ListIDs, ~PurgeDue(l), NEW i \in Nat,
               l # target[h] \/ i # flip[h].idx
        PROVE  Same(l, i)
    BY <1>4, <2>1, <2>4, Zenon DEF Writes
  <2>5. ASSUME NEW a \in allocations' PROVE OwnersOK(a)'
    <3>1. ASSUME ~PurgeDue(a.list_id), <<a.list_id, a.idx>> \notin contested
          PROVE  Same(a.list_id, a.idx)
      <4>1. a \in allocations
        BY <2>2, <2>5, Zenon
      <4>2. ~(a.list_id = target[h] /\ a.idx = flip[h].idx)
        BY <2>3, <3>1, <4>1, Zenon DEF IsAllocated
      <4>3. QED
        BY <1>2, <2>4, <3>1, <4>2, Zenon
    <3>2. QED
      BY <1>3, <2>2, <3>1, Zenon
  <2>6. QED
    BY <2>5, Zenon DEF StoredInv
<1>8. CASE SweeperPurges
  <2>1. PICK g \in Sweepers, m \in ListIDs :
            /\ SweepPurge(g, m) /\ SweeperStep(g) /\ PurgeDue(m)
            /\ \A s \in Shards, l \in ListIDs : l # m => bitmap'[s][l] = bitmap[s][l]
    BY <1>8, Zenon DEF SweeperPurges
  <2>2. ASSUME NEW l \in ListIDs, ~PurgeDue(l), NEW i PROVE Same(l, i)
    BY <1>4, <2>1, <2>2, Zenon
  <2>3. UNCHANGED written
    BY <2>1, Zenon DEF SweeperStep, ingestionVars
  <2>4. ASSUME NEW a \in allocations' PROVE OwnersOK(a)'
    BY <1>2, <1>3, <2>2, <2>3, Zenon
  <2>5. QED
    BY <2>4, Zenon DEF StoredInv
<1>9. QED
  BY <1>5, <1>6, <1>7, <1>8, RedisStep, Zenon

-----------------------------------------------------------------------------
(* What relying parties read.                                               *)

EntryInv == BitmapInv /\ StoredInv

LEMMA EntryInit == Init => EntryInv
<1> SUFFICES ASSUME Init PROVE EntryInv
  OBVIOUS
<1>1. StoredInv
  BY Zenon DEF Init, MetaInit, StoredInv
<1>2. QED
  BY <1>1, BitmapInit, Zenon DEF EntryInv

LEMMA EntryInductive == EntryInv /\ [Next]_vars => EntryInv'
<1> SUFFICES ASSUME EntryInv, [Next]_vars PROVE EntryInv'
  OBVIOUS
<1>1. BitmapInv /\ ServiceInv /\ WrittenInv /\ SnapInv /\ StoredInv
  BY Zenon DEF EntryInv, BitmapInv, ServiceInv
<1>2. BitmapInv' /\ MetaInv' /\ [MetaNext]_metaVars
  BY <1>1, BitmapInductive, ServiceInductive, Zenon
<1>3. QED
  BY <1>1, <1>2, StoredStep, Zenon DEF EntryInv

\* The token of a list that a noiser or an owner is interested in.
LEMMA ReadsStored ==
    ASSUME EntryInv, NEW l \in ListIDs, Exists(l), NEW idx \in 0 .. lists[l].size - 1
    PROVE  StatusesRead(l, idx) = {Stored(l, idx)}
<1>1. lists[l] \in Row /\ lists[l].shard_id \in Shards
  BY Zenon DEF EntryInv, BitmapInv, ServiceInv, ContractInv, MetaInv, MetaTypeOK, Row, Exists
<1>2. bitmap[lists[l].shard_id][l] \in Seq(Bytes)
  BY <1>1, Zenon DEF EntryInv, BitmapInv, ServiceInv, RedisInv
<1>3. QED
  BY <1>1, <1>2, TokensReadStored, Zenon DEF Stored

\* From the answer to an allocation on, a relying party reads what the owner
\* last wrote, until the bitmap may be dropped, unless a decoy was decided
\* before the entry was reserved (ingestion/handlers.go:104-119, 191-195;
\* redis.go:85-110; token.go:146-199; cwt.go:85-151; decoy.go:33-44).  With one
\* bit an entry has no room for SUSPENDED.
THEOREM GrantedReads ==
    ASSUME Bits # 1
    PROVE  Spec => []GrantedReadsOwnersWrite
<1>1. \A st \in StatusNames : st % 2^Bits = st
  BY StatusesFit, Zenon DEF StatusNames
<1>2. EntryInv => GrantedReadsOwnersWrite
  <2> SUFFICES ASSUME EntryInv, NEW a \in acked \cap allocations,
                      <<a.list_id, a.idx>> \notin contested,
                      LET row == lists[a.list_id] IN
                      row.state = "ARCHIVED" => now < row.archived_at + Retention
               PROVE  StatusesRead(a.list_id, a.idx) = {written[<<a.list_id, a.idx>>]}
    BY Zenon DEF GrantedReadsOwnersWrite
  <2> DEFINE l == a.list_id
             e == <<a.list_id, a.idx>>
  <2>1. MetaInv /\ WrittenInv /\ OwnersOK(a)
    BY Zenon DEF EntryInv, BitmapInv, ServiceInv, ContractInv, StoredInv
  <2>2. l \in ListIDs /\ Exists(l) /\ a.idx \in 0 .. lists[l].size - 1 /\ a.idx \in Indices
    BY <2>1, IndexInList, Zenon
  <2>3. ~PurgeDue(l)
    <3>1. lists[l].state = "ARCHIVED" => lists[l].archived_at \in Nat
      BY <2>1, <2>2, Zenon DEF MetaInv, MetaTypeOK, StampsInOrder, Row, Exists
    <3>2. now \in Nat
      BY <2>1, Zenon DEF MetaInv, MetaTypeOK
    <3>3. QED
      BY <2>2, <3>1, <3>2, DurationsAssumption DEF PurgeDue
  <2>4. written[e] \in StatusNames /\ written[e] # Null
    BY <2>1, <2>2, Zenon DEF WrittenInv
  <2>5. Stored(l, a.idx) = written[e]
    BY <1>1, <2>1, <2>3, <2>4, Zenon DEF OwnersOK
  <2>6. QED
    BY <2>2, <2>5, ReadsStored, Zenon
<1>3. QED
  BY <1>2, EntryInit, EntryInductive, PTL DEF Spec

\* A list whose bitmap may not be dropped yet is not deleted.
LEMMA NotDeleted ==
    ASSUME MetaInv, [MetaNext]_metaVars, NEW l \in ListIDs, ~PurgeDue(l)
    PROVE  /\ Exists(l) /\ Exists(l)' /\ lists'[l].size = lists[l].size
           /\ lists'[l].shard_id = lists[l].shard_id
<1>1. Exists(l) /\ l \in minted /\ MetaTypeOK
  BY Zenon DEF PurgeDue, MetaInv, KnownLists
<1>2. ~DeleteDue(l)
  <2>1. lists[l].archived_at \in Nat \cup {Null} /\ now \in Nat
    BY <1>1, Zenon DEF MetaTypeOK, Row, Exists
  <2>2. lists[l].purged => lists[l].state = "ARCHIVED" /\ lists[l].archived_at # Null
    BY <1>1, Zenon DEF MetaInv, StampsInOrder
  <2>3. QED
    BY <1>1, <2>1, <2>2, DurationsAssumption DEF DeleteDue, PurgeDue
<1>3. ASSUME NEW m \in ListIDs, NEW n \in Sizes, NEW k \in Keys, NEW s \in Shards,
             CreateList(m, n, k, s)
      PROVE  lists'[l] = lists[l]
  <2>1. m # l
    BY <1>1, <1>3, Zenon DEF CreateList, FreshID
  <2>2. QED
    BY <1>1, <1>3, <2>1, Zenon DEF CreateList, MetaTypeOK
<1>4. ASSUME NEW m \in ListIDs, NEW i \in Issuers, NEW s \in Shards,
             NEW exp \in 0 .. now + MaxExpiry, ReserveCursorAndRecord(m, i, s, exp)
      PROVE  lists'[l] # Null
  BY <1>1, <1>4, ReserveRow, Zenon DEF Exists
<1>5. ASSUME NEW m \in ListIDs, Freeze(m) \/ Archive(m) \/ MarkPurged(m)
      PROVE  lists'[l] # Null
  BY <1>1, <1>5, UpdateKeepsRows, Zenon DEF Exists
<1>6. ASSUME NEW m \in ListIDs, DeleteDue(m), DeleteList(m) PROVE lists'[l] = lists[l]
  BY <1>1, <1>2, <1>6, Zenon DEF DeleteList, MetaTypeOK
<1>7. Exists(l)'
  BY <1>1, <1>3, <1>4, <1>5, <1>6, Zenon DEF MetaNext, Tick, metaVars, Exists
<1>8. QED
  BY <1>1, <1>7, MintedStays, Zenon

\* What a step does to the list a noiser sweeps and to its snapshot: nothing,
\* the end of the sweep, or a fresh snapshot.
LEMMA NoiserMoves ==
    ASSUME NoiseInv, SnapInv, [Next]_vars, NEW g \in Noisers
    PROVE  \/ target'[g] = target[g] /\ snap'[g] = snap[g]
           \/ target'[g] = Null
           \/ \E l \in ListIDs, count \in 1 .. Cardinality(Indices) : NoiseSweepList(g, l, count)
<1>1. target = [h \in Noisers |-> target[h]] /\ snap = [h \in Noisers |-> snap[h]]
  BY Zenon DEF NoiseInv, SnapInv
<1>2. CASE UNCHANGED decoyVars
  BY <1>2, Zenon DEF decoyVars
<1>3. ASSUME NEW h \in Noisers, NoiserStep(h), h # g
      PROVE  target'[g] = target[g] /\ snap'[g] = snap[g]
  BY <1>1, <1>3, Zenon
  DEF NoiserStep, NoiseQuery, NoiseSweepList, NoisePick, NoiseWrite, NoiseBump,
      NoiseNextList, NoiseDone
<1>4. CASE NoiseNextList(g) \/ NoiseDone(g)
  BY <1>1, <1>4, Zenon DEF NoiseNextList, NoiseDone
<1>5. CASE UNCHANGED <<target, snap>>
  BY <1>5, Zenon
<1>6. CASE NoiserStep(g)
  BY <1>4, <1>5, <1>6, Zenon DEF NoiserStep, NoiseQuery, NoisePick, NoiseWrite, NoiseBump
<1>7. QED
  BY <1>2, <1>3, <1>6, Zenon DEF Next, vars, PoolStep, RequestStep, SweeperStep, ClockStep

\* A revoked decoy keeps its status in the bitmap: nobody else owns the entry,
\* and no noiser has it left to flip.
LEMMA RevokedStored ==
    ASSUME BitmapInv, [Next]_vars, NEW l \in ListIDs, ~PurgeDue(l), NEW idx \in Nat,
           ~IsAllocated(l, idx),
           \A g \in Noisers : target[g] = l => Get(snap[g], idx, Bits) = INVALID
    PROVE  LET s == lists[l].shard_id IN StatusAt(bitmap'[s][l], idx) = StatusAt(bitmap[s][l], idx)
<1> DEFINE s == lists[l].shard_id
<1>1. MetaInv /\ ThreadInv /\ WrittenInv /\ NoiseInv /\ SnapInv
  BY Zenon DEF BitmapInv, ServiceInv, ContractInv
<1>2. Exists(l) /\ s \in Shards
  BY <1>1, Zenon DEF PurgeDue, MetaInv, MetaTypeOK, Row, Exists
<1> HIDE DEF s
<1>3. CASE WritesNothing
  BY <1>2, <1>3, Zenon DEF WritesNothing, ReadsAlike, s
<1>4. CASE RequestWrites
  <2>1. PICK t \in Requests :
            /\ WriteStatus(t)
            /\ Writes(ShardOf[t], list[t], req[t].idx, req[t].status % 2^Bits)
    BY <1>4, Zenon DEF RequestWrites
  <2>2. Issued(list[t], req[t].idx)
    BY <1>1, <2>1, Zenon DEF WriteStatus, Goto, WrittenInv, WriterOK
  <2>3. l # list[t] \/ idx # req[t].idx
    BY <1>1, <1>2, <2>2, Zenon DEF MetaInv, HistoryMatches, Issued, IsAllocated
  <2>4. QED
    BY <1>2, <2>1, <2>3, Zenon DEF Writes, s
<1>5. CASE DecoyWrites
  <2>1. PICK h \in Noisers : /\ NoiseWrite(h)
                             /\ Writes(NoiserShard[h], target[h], flip[h].idx,
                                       flip[h].status % 2^Bits)
    BY <1>5, Zenon DEF DecoyWrites
  <2>2. l # target[h] \/ idx # flip[h].idx
    BY <1>1, <2>1, Zenon DEF NoiseWrite, NGoto, SnapInv, SnapOK
  <2>3. QED
    BY <1>2, <2>1, <2>2, Zenon DEF Writes, s
<1>6. CASE SweeperPurges
  BY <1>2, <1>6, Zenon DEF SweeperPurges, s
<1>7. QED
  BY <1>3, <1>4, <1>5, <1>6, RedisStep, Zenon DEF s

\* Once every sweep under way has read a decoy as INVALID, it is INVALID for
\* good, until its entry is allocated or its bitmap may be dropped, however
\* many noisers a shard has (decoy.go:106-200).
THEOREM RevokedDecoys == Spec => RevokedDecoyStays
<1>1. ASSUME BitmapInv, [Next]_vars, NEW l \in ListIDs, ~PurgeDue(l),
             NEW idx \in 0 .. lists[l].size - 1, ~IsAllocated(l, idx), Revoked(l, idx)
      PROVE  Revoked(l, idx)'
  <2> DEFINE s == lists[l].shard_id
             n == lists[l].size
  <2>1. MetaInv /\ NoiseInv /\ SnapInv /\ RedisInv /\ RedisInv' /\ [MetaNext]_metaVars
    BY <1>1, RedisStep, ServiceInductive, Zenon DEF BitmapInv, ServiceInv, ContractInv
  <2>2. Exists(l) /\ lists'[l].size = n /\ lists'[l].shard_id = s
    BY <1>1, <2>1, NotDeleted, Zenon
  <2>3. s \in Shards /\ n \in Nat
    BY <2>1, <2>2, SizesAssumption, Zenon DEF MetaInv, MetaTypeOK, Row, Exists
  <2>4. idx \in Nat /\ idx \in 0 .. n - 1
    BY <1>1, <2>3
  <2>5. bitmap[s][l] \in Seq(Bytes) /\ bitmap'[s][l] \in Seq(Bytes)
    BY <1>1, <2>1, <2>3, Zenon DEF RedisInv
  <2>6. /\ Get(Padded(bitmap[s][l], ByteLen(n)), idx, Bits) = StatusAt(bitmap[s][l], idx)
        /\ Get(Padded(bitmap'[s][l], ByteLen(n)), idx, Bits) = StatusAt(bitmap'[s][l], idx)
    BY <2>3, <2>4, <2>5, StatusInSnapshot, Zenon
  <2>7. StatusAt(bitmap[s][l], idx) = INVALID
    BY <1>1, <2>6, Zenon DEF Revoked, Snapshot
  <2>8. StatusAt(bitmap'[s][l], idx) = INVALID
    BY <1>1, <2>4, <2>7, RevokedStored, Zenon DEF Revoked
  <2>9. ASSUME NEW g \in Noisers, target'[g] = l PROVE Get(snap'[g], idx, Bits) = INVALID
    <3>1. CASE target'[g] = target[g] /\ snap'[g] = snap[g]
      BY <1>1, <2>9, <3>1, Zenon DEF Revoked
    <3>2. CASE target'[g] = Null
      BY <1>1, <2>9, <3>2, NoisersAssumption, Zenon
    <3>3. ASSUME NEW m \in ListIDs, NEW c, NoiseSweepList(g, m, c)
          PROVE  Get(snap'[g], idx, Bits) = INVALID
      <4>1. m = l /\ l \in DOMAIN noise[g]
        BY <2>1, <2>9, <3>3, Zenon DEF NoiseSweepList, NoiseInv
      <4>2. lists[l].shard_id = NoiserShard[g] /\ lists[l].size = noise[g][l].size
        BY <2>1, <2>2, <4>1, Zenon DEF SnapInv, SnapOK
      <4>3. snap'[g] = Padded(bitmap[s][l], ByteLen(n))
        BY <2>1, <3>3, <4>1, <4>2, Zenon DEF NoiseSweepList, Snapshot, SnapInv
      <4>4. QED
        BY <2>6, <2>7, <4>3, Zenon
    <3>4. QED
      BY <2>1, <2>9, <1>1, <3>1, <3>2, <3>3, NoiserMoves, Zenon
  <2> HIDE DEF s, n
  <2>10. QED
    BY <2>2, <2>6, <2>8, <2>9, Zenon DEF Revoked, Snapshot
<1>2. BitmapInv /\ [Next]_vars =>
          [\A l \in ListIDs : ~PurgeDue(l) =>
              \A idx \in 0 .. lists[l].size - 1 :
                  ~IsAllocated(l, idx) /\ Revoked(l, idx) => Revoked(l, idx)']_vars
  BY <1>1, Zenon
<1>3. QED
  BY <1>2, BitmapInit, BitmapInductive, PTL DEF Spec, RevokedDecoyStays

-----------------------------------------------------------------------------
(* Type correctness.                                                        *)

TypeInv == BitmapInv /\ PoolInv /\ CounterInv

\* Every variable of the running service keeps its type; in particular a
\* request never tries more than maxAllocateAttempts lists
\* (ingestion/handlers.go:38, 74-102) and answers 201 only for allocations.
THEOREM ServiceTypeCorrect == Spec => []TypeOK
<1>1. Init => TypeInv
  <2> SUFFICES ASSUME Init PROVE TypeInv
    OBVIOUS
  <2>1. BitmapInv /\ PoolInv
    BY BitmapInit, PoolInvInit, Zenon
  <2>2. 0 \in Nat /\ 0 \in 0 .. MaxAttempts - 1 /\ NoRequest.tries = 0
    BY AttemptsAssumption DEF NoRequest
  <2>3. CounterInv
    BY <2>2, Zenon DEF Init, RedisInit, IngestionInit, CounterInv, VersionInv
  <2>4. QED
    BY <2>1, <2>3, Zenon DEF TypeInv
<1>2. TypeInv /\ [Next]_vars => TypeInv'
  <2> SUFFICES ASSUME TypeInv, [Next]_vars PROVE TypeInv'
    OBVIOUS
  <2>1. BitmapInv /\ ServiceInv /\ ContractInv /\ MetaInv /\ ThreadInv /\ PoolInv /\ CounterInv
    BY Zenon DEF TypeInv, BitmapInv, ServiceInv, ContractInv
  <2>2. BitmapInv' /\ CounterInv'
    BY <2>1, BitmapInductive, CounterStep, Zenon
  <2>3. PoolInv'
    BY <2>1, ContractStep, PoolInvStep, Zenon
  <2>4. QED
    BY <2>2, <2>3, Zenon DEF TypeInv
<1>3. TypeInv => TypeOK
  <2> SUFFICES ASSUME TypeInv PROVE TypeOK
    OBVIOUS
  <2>1. BitmapInv /\ ServiceInv /\ ContractInv /\ WrittenInv /\ PoolInv /\ CounterInv
    BY Zenon DEF TypeInv, BitmapInv, ServiceInv
  <2>2. MetaTypeOK /\ acked \subseteq issued
    BY <2>1, Zenon DEF ContractInv, MetaInv, WrittenInv
  <2>3. \A s \in Shards, l \in ListIDs : bitmap[s][l] \in Seq(0 .. 255) /\ version[s][l] \in Nat
    BY <2>1, Zenon DEF BitmapInv, RedisInv, Bytes, CounterInv, VersionInv
  <2>4. /\ pc \in [Threads -> {"idle", "ensure", "rotate", "init", "pick", "repick",
                               "reserve", "getlist", "write", "bump"}]
        /\ \A t \in Threads : /\ DOMAIN active[t] \subseteq ListIDs /\ kept[t] \in Nat
                              /\ list[t] \in ListIDs \cup {Null}
    BY <2>1, Zenon DEF ContractInv, ThreadInv, PCs, PoolInv, QueryOK
  <2>5. \A t \in Requests : req[t].tries \in 0 .. MaxAttempts - 1
    BY <2>1, Zenon DEF CounterInv
  <2>6. /\ phase \in [Sweepers -> {"idle", "archive", "purge", "mark", "delete"}]
        /\ todo \in [Sweepers -> SUBSET ListIDs]
        /\ nstate \in [Noisers -> {"idle", "sweep", "pick", "write", "bump"}]
    BY <2>1, Zenon DEF ServiceInv, ContractInv, SweepInv, Phases, NoiseInv, NoiseStates
  <2>7. QED
    BY <2>2, <2>3, <2>4, <2>5, <2>6, Zenon DEF TypeOK
<1>4. QED
  BY <1>1, <1>2, <1>3, PTL DEF Spec
=============================================================================
