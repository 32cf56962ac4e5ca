--------------------------- MODULE MetaStoreProofs ---------------------------
(***************************************************************************)
(* Proofs about the store's contract, for every set of lists, shards,      *)
(* issuers, keys and sizes, every index function meeting IndexAssumption   *)
(* and every setting of the durations.                                     *)
(***************************************************************************)
EXTENDS MetaStore, FiniteSetTheorems, TLAPS

\* A row stays well typed when a reservation advances it (postgres.go:423-451).
LEMMA ReservedRowIsRow ==
    ASSUME NEW r \in Row, NEW exp \in Nat
    PROVE  [r EXCEPT !.cursor = @ + 1,
                     !.state = IF r.cursor + 1 >= r.size THEN "FROZEN" ELSE @,
                     !.max_exp = IF @ = Null \/ @ < exp THEN exp ELSE @] \in Row
<1>1. (IF r.cursor + 1 >= r.size THEN "FROZEN" ELSE r.state) \in States
  BY Zenon DEF Row, States
<1>2. (IF r.max_exp = Null \/ r.max_exp < exp THEN exp ELSE r.max_exp) \in Nat \cup {Null}
  BY Zenon DEF Row
<1>3. r.cursor + 1 \in Nat
  BY DEF Row
<1>4. QED
  BY <1>1, <1>2, <1>3, Zenon DEF Row

\* Every statement keeps the rows of the tables well typed
\* (the column types of postgres.go:28-77).
LEMMA TypeStep == MetaTypeOK /\ [MetaNext]_metaVars => MetaTypeOK'
<1> USE NullAssumption, SizesAssumption, DurationsAssumption
<1> SUFFICES ASSUME MetaTypeOK, [MetaNext]_metaVars PROVE MetaTypeOK'
  OBVIOUS
<1>1. CASE Tick
  BY <1>1 DEF Tick, MetaTypeOK
<1>2. ASSUME NEW l \in ListIDs, NEW n \in Sizes, NEW k \in Keys, NEW s \in Shards,
             CreateList(l, n, k, s)
      PROVE  MetaTypeOK'
  <2>1. [size |-> n, cursor |-> 0, fpe_key |-> k, max_exp |-> Null,
         state |-> "ACTIVE", created_at |-> now, archived_at |-> Null,
         purged |-> FALSE, purged_at |-> Null, shard_id |-> s] \in Row
    BY Zenon DEF MetaTypeOK, Row, States
  <2>2. QED
    BY <1>2, <2>1, Zenon DEF CreateList, MetaTypeOK
<1>3. ASSUME NEW l \in ListIDs, Freeze(l) PROVE MetaTypeOK'
  <2>1. CASE ~HasState(l, {"ACTIVE"})
    BY <1>3, <2>1, Zenon DEF Freeze, MetaTypeOK
  <2>2. CASE HasState(l, {"ACTIVE"})
    <3>1. lists[l] \in Row
      BY <2>2, Zenon DEF HasState, Exists, MetaTypeOK
    <3>2. [lists[l] EXCEPT !.state = "FROZEN"] \in Row
      BY <3>1, Zenon DEF Row, States
    <3>3. QED
      BY <1>3, <2>2, <3>2, Zenon DEF Freeze, MetaTypeOK
  <2>3. QED  BY <2>1, <2>2
<1>4. ASSUME NEW l \in ListIDs, Archive(l) PROVE MetaTypeOK'
  <2>1. CASE ~HasState(l, {"FROZEN"})
    BY <1>4, <2>1, Zenon DEF Archive, MetaTypeOK
  <2>2. CASE HasState(l, {"FROZEN"})
    <3>1. lists[l] \in Row
      BY <2>2, Zenon DEF HasState, Exists, MetaTypeOK
    <3>2. [lists[l] EXCEPT !.state = "ARCHIVED", !.archived_at = now] \in Row
      BY <3>1, Zenon DEF Row, States, MetaTypeOK
    <3>3. QED
      BY <1>4, <2>2, <3>2, Zenon DEF Archive, MetaTypeOK
  <2>3. QED  BY <2>1, <2>2
<1>5. ASSUME NEW l \in ListIDs, MarkPurged(l) PROVE MetaTypeOK'
  <2>1. CASE ~Exists(l)
    BY <1>5, <2>1, Zenon DEF MarkPurged, MetaTypeOK
  <2>2. CASE Exists(l)
    <3>1. lists[l] \in Row
      BY <2>2, Zenon DEF Exists, MetaTypeOK
    <3>2. [lists[l] EXCEPT !.purged = TRUE, !.purged_at = now] \in Row
      BY <3>1, Zenon DEF Row, States, MetaTypeOK
    <3>3. QED
      BY <1>5, <2>2, <3>2, Zenon DEF MarkPurged, MetaTypeOK
  <2>3. QED  BY <2>1, <2>2
<1>6. ASSUME NEW l \in ListIDs, DeleteList(l) PROVE MetaTypeOK'
  BY <1>6, Zenon DEF DeleteList, MetaTypeOK
<1>7. ASSUME NEW l \in ListIDs, NEW i \in Issuers, NEW s \in Shards,
             NEW exp \in 0 .. now + MaxExpiry,
             ReserveCursorAndRecord(l, i, s, exp)
      PROVE  MetaTypeOK'
  <2> DEFINE row == [lists[l] EXCEPT
            !.cursor = @ + 1,
            !.state = IF lists[l].cursor + 1 >= lists[l].size THEN "FROZEN" ELSE @,
            !.max_exp = IF @ = Null \/ @ < exp THEN exp ELSE @]
  <2>1. lists[l] \in Row /\ Reservable(l) /\ ~ReserveFails(l)
    BY <1>7, Zenon DEF ReserveCursorAndRecord, Reservable, HasState, Exists, MetaTypeOK
  <2>2. exp \in Nat
    BY DEF MetaTypeOK
  <2>3. row \in Row
    BY <2>1, <2>2, ReservedRowIsRow, Zenon
  <2>4. NextIndex(l) \in Nat
    <3>1. lists[l].cursor \in Nat /\ lists[l].size \in Sizes /\ lists[l].fpe_key \in Keys
      BY <2>1, Zenon DEF Row
    <3>2. lists[l].size \in Nat
      BY <3>1, SizesAssumption, Zenon
    <3>3. lists[l].cursor \in 0 .. lists[l].size - 1
      BY <2>1, <3>1, <3>2 DEF Reservable
    <3>4. NextIndex(l) \in (0 .. lists[l].size - 1) \cup {Null}
      BY <3>1, <3>3, IndexAssumption, Zenon DEF NextIndex
    <3>5. QED
      BY <2>1, <3>2, <3>4 DEF ReserveFails
  <2>5. [list_id |-> l, idx |-> NextIndex(l), issuer_id |-> i,
         shard_id |-> s, exp |-> exp] \in Allocation
    BY <2>2, <2>4, Zenon DEF Allocation
  <2>6. lists' = [lists EXCEPT ![l] = row]
    BY <1>7, Zenon DEF ReserveCursorAndRecord, MetaTypeOK
  <2>7. issuer_usage' \in [Issuers -> [Shards -> Nat]]
    BY <1>7 DEF ReserveCursorAndRecord, MetaTypeOK
  <2>8. QED
    BY <1>7, <2>3, <2>5, <2>6, <2>7 DEF ReserveCursorAndRecord, MetaTypeOK
<1>8. CASE UNCHANGED metaVars
  BY <1>8, Zenon DEF metaVars, MetaTypeOK
<1>9. QED
  BY <1>1, <1>2, <1>3, <1>4, <1>5, <1>6, <1>7, <1>8, Zenon DEF MetaNext

\* Rows stay well typed in every behaviour of the store's clients.
THEOREM TypeCorrect == MetaSpec => []MetaTypeOK
<1>1. MetaInit => MetaTypeOK
  BY DEF MetaInit, MetaTypeOK
<1>2. QED
  BY <1>1, TypeStep, PTL DEF MetaSpec

-----------------------------------------------------------------------------
(* What each statement does to the rows, in the form the proofs below use. *)

\* The row a successful ReserveCursorAndRecord leaves (postgres.go:423-451).
LEMMA ReserveRow ==
    ASSUME MetaTypeOK, NEW l \in ListIDs, NEW i \in Issuers, NEW s \in Shards,
           NEW exp \in 0 .. now + MaxExpiry, ReserveCursorAndRecord(l, i, s, exp)
    PROVE  /\ Exists(l) /\ lists[l] \in Row /\ lists[l].state = "ACTIVE"
           /\ lists[l].cursor \in Nat /\ lists[l].size \in Nat
           /\ lists[l].cursor \in 0 .. lists[l].size - 1
           /\ NextIndex(l) \in 0 .. lists[l].size - 1
           /\ lists'[l] # Null
           /\ lists'[l].cursor = lists[l].cursor + 1
           /\ lists'[l].size = lists[l].size
           /\ lists'[l].fpe_key = lists[l].fpe_key
           /\ lists'[l].state \in {"ACTIVE", "FROZEN"}
           /\ lists'[l].purged = lists[l].purged
           /\ lists'[l].archived_at = lists[l].archived_at
           /\ exp \in Nat
           /\ lists'[l].max_exp \in Nat /\ exp <= lists'[l].max_exp
           /\ lists[l].max_exp # Null => lists[l].max_exp <= lists'[l].max_exp
           /\ \A m \in ListIDs \ {l} : lists'[m] = lists[m]
<1>1. /\ Exists(l) /\ lists[l] \in Row /\ lists[l].state = "ACTIVE"
      /\ lists[l].cursor < lists[l].size /\ ~ReserveFails(l)
  BY Zenon DEF ReserveCursorAndRecord, Reservable, HasState, Exists, MetaTypeOK
<1>2. lists[l].cursor \in Nat /\ lists[l].size \in Sizes /\ lists[l].fpe_key \in Keys
  BY <1>1, Zenon DEF Row
<1>a. lists[l].max_exp \in Nat \cup {Null}
  BY <1>1, Zenon DEF Row
<1>3. lists[l].size \in Nat /\ exp \in Nat
  <2>1. lists[l].size \in Nat
    BY <1>2, SizesAssumption, Zenon
  <2>2. now \in Nat /\ MaxExpiry \in Nat
    BY DurationsAssumption, Zenon DEF MetaTypeOK
  <2>3. QED
    BY <2>1, <2>2
<1>4. lists[l].cursor \in 0 .. lists[l].size - 1
  BY <1>1, <1>2, <1>3
<1>5. NextIndex(l) \in (0 .. lists[l].size - 1) \cup {Null}
  BY <1>2, <1>4, IndexAssumption, Zenon DEF NextIndex
<1>6. NextIndex(l) \in 0 .. lists[l].size - 1
  BY <1>1, <1>5, Zenon DEF ReserveFails
<1>7. /\ lists'[l].cursor = lists[l].cursor + 1
      /\ lists'[l].size = lists[l].size
      /\ lists'[l].fpe_key = lists[l].fpe_key
      /\ lists'[l].state = IF lists[l].cursor + 1 >= lists[l].size
                           THEN "FROZEN" ELSE lists[l].state
      /\ lists'[l].max_exp = IF lists[l].max_exp = Null \/ lists[l].max_exp < exp
                             THEN exp ELSE lists[l].max_exp
      /\ lists'[l].purged = lists[l].purged
      /\ lists'[l].archived_at = lists[l].archived_at
      /\ \A m \in ListIDs \ {l} : lists'[m] = lists[m]
  BY <1>1, Zenon DEF ReserveCursorAndRecord, MetaTypeOK, Row
<1>8. lists'[l] # Null
  <2> DEFINE row == [lists[l] EXCEPT
            !.cursor = @ + 1,
            !.state = IF lists[l].cursor + 1 >= lists[l].size THEN "FROZEN" ELSE @,
            !.max_exp = IF @ = Null \/ @ < exp THEN exp ELSE @]
  <2>1. lists'[l] = row
    BY Zenon DEF ReserveCursorAndRecord, MetaTypeOK
  <2>2. row \in Row
    BY <1>1, <1>3, ReservedRowIsRow, Zenon
  <2>3. QED
    BY <2>1, <2>2, NullAssumption, Zenon
<1>9. lists'[l].max_exp \in Nat /\ exp <= lists'[l].max_exp
      /\ (lists[l].max_exp # Null => lists[l].max_exp <= lists'[l].max_exp)
  BY <1>a, <1>3, <1>7, NullAssumption
<1>10. QED
  BY <1>1, <1>2, <1>3, <1>4, <1>6, <1>7, <1>8, <1>9, Zenon

\* Freeze, Archive and MarkPurged touch a row's state and stamps only: no row
\* appears or disappears, and nothing the allocator uses changes
\* (postgres.go:250-256, 294-303, 335-341).
LEMMA UpdateKeepsRows ==
    ASSUME MetaTypeOK, NEW l \in ListIDs, Freeze(l) \/ Archive(l) \/ MarkPurged(l)
    PROVE  \A m \in ListIDs :
               /\ lists'[m] # Null <=> lists[m] # Null
               /\ m # l => lists'[m] = lists[m]
               /\ Exists(m) => /\ lists'[m].cursor = lists[m].cursor
                               /\ lists'[m].size = lists[m].size
                               /\ lists'[m].fpe_key = lists[m].fpe_key
                               /\ lists'[m].max_exp = lists[m].max_exp
<1>1. CASE lists' = lists
  BY <1>1, Zenon DEF Exists
<1>2. ASSUME NEW r \in Row, NEW q \in Row, lists[l] = r, lists' = [lists EXCEPT ![l] = q],
             q.cursor = r.cursor, q.size = r.size, q.fpe_key = r.fpe_key,
             q.max_exp = r.max_exp
      PROVE  \A m \in ListIDs :
               /\ lists'[m] # Null <=> lists[m] # Null
               /\ m # l => lists'[m] = lists[m]
               /\ Exists(m) => /\ lists'[m].cursor = lists[m].cursor
                               /\ lists'[m].size = lists[m].size
                               /\ lists'[m].fpe_key = lists[m].fpe_key
                               /\ lists'[m].max_exp = lists[m].max_exp
  BY <1>2, NullAssumption, Zenon DEF MetaTypeOK, Exists
<1>3. CASE Freeze(l) /\ HasState(l, {"ACTIVE"})
  <2> DEFINE q == [lists[l] EXCEPT !.state = "FROZEN"]
  <2>1. lists[l] \in Row
    BY <1>3, Zenon DEF MetaTypeOK, HasState, Exists
  <2>2. /\ q \in Row /\ q.cursor = lists[l].cursor /\ q.size = lists[l].size
        /\ q.fpe_key = lists[l].fpe_key /\ q.max_exp = lists[l].max_exp
    BY <2>1, Zenon DEF Row, States
  <2>3. lists' = [lists EXCEPT ![l] = q]
    BY <1>3, Zenon DEF Freeze
  <2>4. QED
    BY <1>2, <2>1, <2>2, <2>3, Zenon
<1>4. CASE Archive(l) /\ HasState(l, {"FROZEN"})
  <2> DEFINE q == [lists[l] EXCEPT !.state = "ARCHIVED", !.archived_at = now]
  <2>1. lists[l] \in Row
    BY <1>4, Zenon DEF MetaTypeOK, HasState, Exists
  <2>2. /\ q \in Row /\ q.cursor = lists[l].cursor /\ q.size = lists[l].size
        /\ q.fpe_key = lists[l].fpe_key /\ q.max_exp = lists[l].max_exp
    BY <2>1, Zenon DEF Row, States, MetaTypeOK
  <2>3. lists' = [lists EXCEPT ![l] = q]
    BY <1>4, Zenon DEF Archive
  <2>4. QED
    BY <1>2, <2>1, <2>2, <2>3, Zenon
<1>5. CASE MarkPurged(l) /\ Exists(l)
  <2> DEFINE q == [lists[l] EXCEPT !.purged = TRUE, !.purged_at = now]
  <2>1. lists[l] \in Row
    BY <1>5, Zenon DEF MetaTypeOK, Exists
  <2>2. /\ q \in Row /\ q.cursor = lists[l].cursor /\ q.size = lists[l].size
        /\ q.fpe_key = lists[l].fpe_key /\ q.max_exp = lists[l].max_exp
    BY <2>1, Zenon DEF Row, States, MetaTypeOK
  <2>3. lists' = [lists EXCEPT ![l] = q]
    BY <1>5, Zenon DEF MarkPurged
  <2>4. QED
    BY <1>2, <2>1, <2>2, <2>3, Zenon
<1>6. QED
  BY <1>1, <1>3, <1>4, <1>5, Zenon DEF Freeze, Archive, MarkPurged

-----------------------------------------------------------------------------
(* One lemma per statement: it preserves the inductive invariant.          *)

\* Facts that depend only on the rows' existence, cursor, size, key and
\* max_exp survive a step that keeps those and the other tables.
LEMMA SameAllocations ==
    ASSUME MetaInv, UNCHANGED <<minted, allocations, issuer_usage, issued>>,
           \A m \in ListIDs :
               /\ lists'[m] # Null <=> lists[m] # Null
               /\ Exists(m) => /\ lists'[m].cursor = lists[m].cursor
                               /\ lists'[m].size = lists[m].size
                               /\ lists'[m].fpe_key = lists[m].fpe_key
                               /\ lists'[m].max_exp = lists[m].max_exp
    PROVE  /\ KnownLists' /\ HistoryMatches' /\ CursorInRange'
           /\ CursorMatchesAllocations' /\ NoDoubleAllocation'
           /\ UsageNeverDrifts' /\ MaxExpCovers'
<1>1. /\ \A a \in allocations : a.list_id \in ListIDs
      /\ \A a \in issued : a.list_id \in ListIDs
  BY Zenon DEF MetaInv, MetaTypeOK, Allocation
<1>2. KnownLists'
  BY <1>1, Zenon DEF MetaInv, KnownLists, Exists
<1>3. HistoryMatches'
  BY <1>1, Zenon DEF MetaInv, HistoryMatches, Exists
<1>4. CursorInRange'
  BY Zenon DEF MetaInv, CursorInRange, Exists
<1>5. CursorMatchesAllocations'
  <2>1. ASSUME NEW l \in ListIDs
        PROVE  (IF Exists(l) THEN UsedIndices(l) ELSE {})' =
               (IF Exists(l) THEN UsedIndices(l) ELSE {})
    BY DEF Exists, UsedIndices
  <2>2. QED
    BY <2>1, Zenon DEF MetaInv, CursorMatchesAllocations
<1>6. NoDoubleAllocation'
  BY Zenon DEF MetaInv, NoDoubleAllocation
<1>7. UsageNeverDrifts'
  BY Zenon DEF MetaInv, UsageNeverDrifts, GetUsage
<1>8. MaxExpCovers'
  BY <1>1, Zenon DEF MetaInv, MaxExpCovers, Exists
<1>9. QED
  BY <1>2, <1>3, <1>4, <1>5, <1>6, <1>7, <1>8, Zenon

\* The clock moves; stamps taken in the past stay in the past.
LEMMA TickStep == MetaInv /\ Tick => MetaInv'
<1> SUFFICES ASSUME MetaInv, Tick PROVE MetaInv'
  OBVIOUS
<1>1. MetaTypeOK'
  BY TypeStep, Zenon DEF MetaInv, MetaNext
<1>2. /\ KnownLists' /\ HistoryMatches' /\ CursorInRange'
      /\ CursorMatchesAllocations' /\ NoDoubleAllocation'
      /\ UsageNeverDrifts' /\ MaxExpCovers'
  BY SameAllocations, Zenon DEF Tick
<1>3. StampsInOrder'
  <2> SUFFICES ASSUME NEW l \in ListIDs, Exists(l)
               PROVE  /\ lists[l].state = "ARCHIVED" <=> lists[l].archived_at # Null
                      /\ lists[l].state = "ARCHIVED" =>
                           /\ lists[l].archived_at <= now'
                           /\ lists[l].max_exp # Null =>
                                lists[l].max_exp + Grace <= lists[l].archived_at
                      /\ lists[l].purged =>
                           /\ lists[l].state = "ARCHIVED"
                           /\ lists[l].purged_at # Null
                           /\ lists[l].archived_at + Retention <= lists[l].purged_at
    BY Zenon DEF Tick, StampsInOrder, Exists
  <2>1. lists[l] \in Row /\ now \in Nat /\ now' = now + 1
    BY Zenon DEF MetaInv, MetaTypeOK, Exists, Tick
  <2>2. lists[l].archived_at \in Nat \cup {Null}
    BY <2>1, Zenon DEF Row
  <2>3. QED
    BY <2>1, <2>2 DEF MetaInv, StampsInOrder
<1>4. QED
  BY <1>1, <1>2, <1>3, Zenon DEF MetaInv

\* Stamps as a fact about one row at one time, so that a step can be checked
\* row by row.
StampsOf(r, t) ==
    /\ r.state = "ARCHIVED" <=> r.archived_at # Null
    /\ r.state = "ARCHIVED" =>
           /\ r.archived_at <= t
           /\ r.max_exp # Null => r.max_exp + Grace <= r.archived_at
    /\ r.purged => /\ r.state = "ARCHIVED"
                   /\ r.purged_at # Null
                   /\ r.archived_at + Retention <= r.purged_at

\* A step that leaves the clock alone and changes one row keeps StampsInOrder
\* if the new row has its stamps in order.
LEMMA StampsByRow ==
    ASSUME MetaInv, UNCHANGED now, NEW l \in ListIDs,
           \A m \in ListIDs \ {l} : lists'[m] = lists[m],
           lists'[l] # Null => StampsOf(lists'[l], now)
    PROVE  StampsInOrder'
<1>1. \A m \in ListIDs : lists'[m] # Null => StampsOf(lists'[m], now')
  BY Zenon DEF MetaInv, StampsInOrder, StampsOf, Exists
<1>2. QED
  BY <1>1, Zenon DEF StampsInOrder, StampsOf, Exists

\* Freezing, archiving a due list and marking a due list purged keep the
\* invariant (pool.go:103-106, gc/sweeper.go:55-76).
LEMMA UpdateStep ==
    ASSUME MetaInv, NEW l \in ListIDs,
           \/ Freeze(l)
           \/ ArchiveDue(l) /\ Archive(l)
           \/ PurgeDue(l) /\ MarkPurged(l)
    PROVE  MetaInv'
<1> USE DEF MetaInv
<1>1. MetaTypeOK'
  BY TypeStep, Zenon DEF MetaNext
<1>2. /\ UNCHANGED <<now, minted, allocations, issuer_usage, issued>>
      /\ \A m \in ListIDs : m # l => lists'[m] = lists[m]
  BY UpdateKeepsRows, Zenon DEF Freeze, Archive, MarkPurged
<1>3. /\ KnownLists' /\ HistoryMatches' /\ CursorInRange'
      /\ CursorMatchesAllocations' /\ NoDoubleAllocation'
      /\ UsageNeverDrifts' /\ MaxExpCovers'
  BY <1>2, UpdateKeepsRows, SameAllocations, Zenon
<1>4. StampsInOrder'
  <2>1. CASE lists' = lists
    BY <1>2, <2>1, Zenon DEF StampsInOrder, Exists
  <2>2. CASE Exists(l)
    <3>1. /\ lists[l] \in Row /\ StampsOf(lists[l], now)
          /\ lists[l].archived_at \in Nat \cup {Null}
          /\ lists[l].purged_at \in Nat \cup {Null}
          /\ lists[l].max_exp \in Nat \cup {Null}
      BY <2>2, Zenon DEF MetaTypeOK, Exists, StampsInOrder, StampsOf, Row
    <3>2. now \in Nat /\ Grace \in Nat /\ Retention \in Nat
      BY DurationsAssumption, Zenon DEF MetaTypeOK
    <3>3. CASE Freeze(l) /\ HasState(l, {"ACTIVE"})
      <4>1. /\ lists'[l].state = "FROZEN" /\ lists[l].state = "ACTIVE"
            /\ lists'[l].archived_at = lists[l].archived_at
            /\ lists'[l].purged = lists[l].purged
        BY <3>1, <3>3, Zenon DEF Freeze, HasState, MetaTypeOK, Row
      <4>2. StampsOf(lists'[l], now)
        BY <3>1, <4>1, Zenon DEF StampsOf
      <4>3. QED
        BY <1>2, <4>2, StampsByRow, Zenon
    <3>4. CASE ArchiveDue(l) /\ Archive(l) /\ HasState(l, {"FROZEN"})
      <4>1. /\ lists'[l].state = "ARCHIVED" /\ lists[l].state = "FROZEN"
            /\ lists'[l].archived_at = now
            /\ lists'[l].max_exp = lists[l].max_exp
            /\ lists'[l].purged = lists[l].purged
        BY <3>1, <3>4, Zenon DEF Archive, HasState, MetaTypeOK, Row
      <4>2. lists[l].max_exp # Null => lists[l].max_exp + Grace <= now
        BY <3>4, Zenon DEF ArchiveDue
      <4>3. StampsOf(lists'[l], now)
        BY <3>1, <3>2, <4>1, <4>2, NullAssumption DEF StampsOf
      <4>4. QED
        BY <1>2, <4>3, StampsByRow, Zenon
    <3>5. CASE PurgeDue(l) /\ MarkPurged(l)
      <4>1. /\ lists'[l].state = lists[l].state
            /\ lists'[l].archived_at = lists[l].archived_at
            /\ lists'[l].max_exp = lists[l].max_exp
            /\ lists'[l].purged_at = now
        BY <2>2, <3>1, <3>5, Zenon DEF MarkPurged, MetaTypeOK, Row
      <4>2. lists[l].state = "ARCHIVED" /\ lists[l].archived_at + Retention <= now
        BY <2>2, <3>5, Zenon DEF PurgeDue
      <4>3. StampsOf(lists'[l], now)
        BY <3>1, <3>2, <4>1, <4>2, NullAssumption, Zenon DEF StampsOf
      <4>4. QED
        BY <1>2, <4>3, StampsByRow, Zenon
    <3>6. QED
      BY <2>1, <2>2, <3>3, <3>4, <3>5, Zenon DEF Freeze, Archive
  <2>3. QED
    BY <2>1, <2>2, Zenon DEF Freeze, Archive, MarkPurged, HasState
<1>5. QED
  BY <1>1, <1>3, <1>4, Zenon

\* Inserting a fresh list keeps the invariant (postgres.go:150-159).
LEMMA CreateStep ==
    ASSUME MetaInv, NEW l \in ListIDs, NEW n \in Sizes, NEW k \in Keys, NEW s \in Shards,
           CreateList(l, n, k, s)
    PROVE  MetaInv'
<1> USE DEF MetaInv
<1>1. MetaTypeOK'
  BY TypeStep, Zenon DEF MetaNext
<1>2. /\ ~Exists(l)
      /\ \A a \in issued : a.list_id # l
      /\ \A a \in allocations : a.list_id # l
  BY Zenon DEF CreateList, FreshID, KnownLists, HistoryMatches
<1>3. /\ lists'[l] # Null
      /\ lists'[l].cursor = 0 /\ lists'[l].size = n /\ lists'[l].state = "ACTIVE"
      /\ lists'[l].archived_at = Null /\ lists'[l].purged = FALSE
      /\ \A m \in ListIDs \ {l} : lists'[m] = lists[m]
  <2> DEFINE r == [size |-> n, cursor |-> 0, fpe_key |-> k, max_exp |-> Null,
                   state |-> "ACTIVE", created_at |-> now, archived_at |-> Null,
                   purged |-> FALSE, purged_at |-> Null, shard_id |-> s]
  <2>1. r \in Row
    BY Zenon DEF Row, States, MetaTypeOK
  <2>2. lists' = [lists EXCEPT ![l] = r]
    BY Zenon DEF CreateList
  <2>3. QED
    BY <2>1, <2>2, NullAssumption, Zenon DEF MetaTypeOK
<1>4. UNCHANGED <<now, allocations, issuer_usage, issued>> /\ minted' = minted \cup {l}
  BY Zenon DEF CreateList
<1>5. /\ \A a \in allocations : a.list_id \in ListIDs
      /\ \A a \in issued : a.list_id \in ListIDs
  BY Zenon DEF MetaTypeOK, Allocation
<1>6. KnownLists'
  BY <1>3, <1>4, Zenon DEF KnownLists, Exists
<1>7. HistoryMatches'
  BY <1>2, <1>3, <1>4, <1>5, Zenon DEF HistoryMatches, Exists
<1>8. CursorInRange'
  BY <1>3, SizesAssumption DEF CursorInRange, Exists
<1>9. CursorMatchesAllocations'
  <2> SUFFICES ASSUME NEW m \in ListIDs
               PROVE  {a.idx : a \in {b \in allocations : b.list_id = m}} =
                      (IF Exists(m) THEN UsedIndices(m) ELSE {})'
    BY <1>4, Zenon DEF CursorMatchesAllocations
  <2>1. CASE m = l
    <3>1. UsedIndices(l)' = {}
      BY <1>3 DEF UsedIndices
    <3>2. {a.idx : a \in {b \in allocations : b.list_id = l}} = {}
      BY <1>2, Zenon
    <3>3. QED
      BY <2>1, <3>1, <3>2, Zenon
  <2>2. CASE m # l
    <3>1. (IF Exists(m) THEN UsedIndices(m) ELSE {})' = (IF Exists(m) THEN UsedIndices(m) ELSE {})
      BY <1>3, <2>2, Zenon DEF UsedIndices, Exists
    <3>2. QED
      BY <3>1, Zenon DEF CursorMatchesAllocations
  <2>3. QED
    BY <2>1, <2>2, Zenon
<1>10. NoDoubleAllocation' /\ UsageNeverDrifts'
  BY <1>4, Zenon DEF NoDoubleAllocation, UsageNeverDrifts, GetUsage
<1>11. MaxExpCovers'
  BY <1>2, <1>3, <1>4, <1>5, Zenon DEF MaxExpCovers, Exists
<1>12. StampsInOrder'
  <2>1. StampsOf(lists'[l], now)
    BY <1>3, Zenon DEF StampsOf
  <2>2. QED
    BY <1>3, <1>4, <2>1, StampsByRow, Zenon
<1>13. QED
  BY <1>1, <1>6, <1>7, <1>8, <1>9, <1>10, <1>11, <1>12, Zenon

\* Deleting a list with its allocations keeps the invariant; the history of
\* what was issued, and so the usage count, does not move (postgres.go:383-400).
LEMMA DeleteStep ==
    ASSUME MetaInv, NEW l \in ListIDs, DeleteDue(l) /\ DeleteList(l)
    PROVE  MetaInv'
<1> USE DEF MetaInv
<1>1. MetaTypeOK'
  BY TypeStep, Zenon DEF MetaNext
<1>2. /\ UNCHANGED <<now, minted, issuer_usage, issued>>
      /\ allocations' = {a \in allocations : a.list_id # l}
      /\ lists'[l] = Null
      /\ \A m \in ListIDs \ {l} : lists'[m] = lists[m]
  BY Zenon DEF DeleteList, MetaTypeOK
<1>3. /\ \A a \in allocations : a.list_id \in ListIDs
      /\ \A a \in issued : a.list_id \in ListIDs
  BY Zenon DEF MetaTypeOK, Allocation
<1>4. KnownLists'
  BY <1>2, Zenon DEF KnownLists, Exists
<1>5. HistoryMatches'
  BY <1>2, <1>3, Zenon DEF HistoryMatches, Exists
<1>6. CursorInRange'
  BY <1>2, Zenon DEF CursorInRange, Exists
<1>7. CursorMatchesAllocations'
  <2> SUFFICES ASSUME NEW m \in ListIDs
               PROVE  {a.idx : a \in {b \in allocations' : b.list_id = m}} =
                      (IF Exists(m) THEN UsedIndices(m) ELSE {})'
    BY Zenon DEF CursorMatchesAllocations
  <2>1. CASE m = l
    <3>1. {b \in allocations' : b.list_id = l} = {}
      BY <1>2, Zenon
    <3>2. QED
      BY <1>2, <2>1, <3>1, Zenon DEF Exists
  <2>2. CASE m # l
    <3>1. (IF Exists(m) THEN UsedIndices(m) ELSE {})' = (IF Exists(m) THEN UsedIndices(m) ELSE {})
      BY <1>2, <2>2, Zenon DEF UsedIndices, Exists
    <3>2. {b \in allocations' : b.list_id = m} = {b \in allocations : b.list_id = m}
      BY <1>2, <2>2, Zenon
    <3>3. QED
      BY <3>1, <3>2, Zenon DEF CursorMatchesAllocations
  <2>3. QED
    BY <2>1, <2>2, Zenon
<1>8. NoDoubleAllocation' /\ UsageNeverDrifts'
  BY <1>2, Zenon DEF NoDoubleAllocation, UsageNeverDrifts, GetUsage
<1>9. MaxExpCovers'
  BY <1>2, <1>3, Zenon DEF MaxExpCovers, Exists
<1>10. StampsInOrder'
  BY <1>2, StampsByRow, Zenon
<1>11. QED
  BY <1>1, <1>4, <1>5, <1>6, <1>7, <1>8, <1>9, <1>10, Zenon

\* The index a reservation derives is new to its list: the cursor positions
\* consumed so far have other indices (the primary key, postgres.go:453-458).
LEMMA NextIndexIsNew ==
    ASSUME MetaInv, NEW l \in ListIDs, NEW i \in Issuers, NEW s \in Shards,
           NEW exp \in 0 .. now + MaxExpiry, ReserveCursorAndRecord(l, i, s, exp)
    PROVE  /\ \A a \in allocations : a.list_id = l => a.idx # NextIndex(l)
           /\ \A a \in issued : a.list_id = l => a.idx # NextIndex(l)
<1>1. ASSUME NEW a \in allocations, a.list_id = l PROVE a.idx # NextIndex(l)
  BY <1>1, Zenon DEF ReserveCursorAndRecord, ReserveFails, IsAllocated
<1>2. ASSUME NEW a \in issued, a.list_id = l PROVE a \in allocations
  BY <1>2, ReserveRow, Zenon DEF MetaInv, HistoryMatches
<1>3. QED
  BY <1>1, <1>2, Zenon

\* A reservation extends the list's used indices by the one it hands out.
LEMMA ReserveUsedIndices ==
    ASSUME MetaInv, NEW l \in ListIDs, NEW i \in Issuers, NEW s \in Shards,
           NEW exp \in 0 .. now + MaxExpiry, ReserveCursorAndRecord(l, i, s, exp)
    PROVE  UsedIndices(l)' = UsedIndices(l) \cup {NextIndex(l)}
<1>1. /\ lists'[l].cursor = lists[l].cursor + 1 /\ lists[l].cursor \in Nat
      /\ lists'[l].size = lists[l].size /\ lists'[l].fpe_key = lists[l].fpe_key
  BY ReserveRow, Zenon DEF MetaInv
<1>2. 0 .. lists'[l].cursor - 1 = (0 .. lists[l].cursor - 1) \cup {lists[l].cursor}
  BY <1>1
<1>3. QED
  BY <1>1, <1>2, Zenon DEF UsedIndices, NextIndex

\* A successful reservation keeps the invariant (postgres.go:409-473).
LEMMA ReserveStep ==
    ASSUME MetaInv, NEW l \in ListIDs, NEW i \in Issuers, NEW s \in Shards,
           NEW exp \in 0 .. now + MaxExpiry, ReserveCursorAndRecord(l, i, s, exp)
    PROVE  MetaInv'
<1> USE DEF MetaInv
<1> DEFINE x == [list_id |-> l, idx |-> NextIndex(l), issuer_id |-> i,
                 shard_id |-> s, exp |-> exp]
<1>1. MetaTypeOK'
  BY TypeStep, Zenon DEF MetaNext
<1>2. /\ allocations' = allocations \cup {x} /\ issued' = issued \cup {x}
      /\ issuer_usage' = [issuer_usage EXCEPT ![i][s] = @ + 1]
      /\ UNCHANGED <<now, minted>>
  BY Zenon DEF ReserveCursorAndRecord
<1>3. /\ \A a \in allocations : a.list_id \in ListIDs
      /\ \A a \in issued : a.list_id \in ListIDs
  BY Zenon DEF MetaTypeOK, Allocation
<1>4. /\ Exists(l) /\ lists'[l] # Null
      /\ \A m \in ListIDs \ {l} : lists'[m] = lists[m]
  BY ReserveRow, Zenon
<1>5. x \notin issued /\ x \notin allocations
  BY NextIndexIsNew, Zenon
<1>6. KnownLists'
  BY <1>2, <1>4 DEF KnownLists, Exists
<1>7. HistoryMatches'
  <2>1. IsFiniteSet(issued')
    BY <1>2, FS_AddElement, Zenon DEF HistoryMatches
  <2>2. QED
    BY <1>2, <1>3, <1>4, <2>1, Zenon DEF HistoryMatches, Exists
<1>8. CursorInRange'
  BY <1>4, ReserveRow DEF CursorInRange, Exists
<1>9. CursorMatchesAllocations'
  <2> SUFFICES ASSUME NEW m \in ListIDs
               PROVE  {a.idx : a \in {b \in allocations' : b.list_id = m}} =
                      (IF Exists(m) THEN UsedIndices(m) ELSE {})'
    BY Zenon DEF CursorMatchesAllocations
  <2>1. CASE m = l
    <3>1. {b \in allocations' : b.list_id = l} = {b \in allocations : b.list_id = l} \cup {x}
      BY <1>2
    <3>2. {a.idx : a \in {b \in allocations' : b.list_id = l}} =
          {a.idx : a \in {b \in allocations : b.list_id = l}} \cup {NextIndex(l)}
      <4>1. \A S, y : {a.idx : a \in S \cup {y}} = {a.idx : a \in S} \cup {y.idx}
        OBVIOUS
      <4>2. x.idx = NextIndex(l)
        OBVIOUS
      <4> HIDE DEF x
      <4>3. QED
        BY <3>1, <4>1, <4>2
    <3>3. QED
      BY <1>4, <2>1, <3>2, ReserveUsedIndices, Zenon DEF CursorMatchesAllocations, Exists
  <2>2. CASE m # l
    <3>1. (IF Exists(m) THEN UsedIndices(m) ELSE {})' = (IF Exists(m) THEN UsedIndices(m) ELSE {})
      BY <1>4, <2>2, Zenon DEF UsedIndices, Exists
    <3>2. {b \in allocations' : b.list_id = m} = {b \in allocations : b.list_id = m}
      BY <1>2, <2>2
    <3>3. QED
      BY <3>1, <3>2, Zenon DEF CursorMatchesAllocations
  <2>3. QED
    BY <2>1, <2>2, Zenon
<1>10. NoDoubleAllocation'
  BY <1>2, NextIndexIsNew DEF NoDoubleAllocation
<1>11. UsageNeverDrifts'
  <2> SUFFICES ASSUME NEW j \in Issuers, NEW t \in Shards
               PROVE  issuer_usage'[j][t] =
                      Cardinality({a \in issued' : a.issuer_id = j /\ a.shard_id = t})
    BY Zenon DEF UsageNeverDrifts, GetUsage
  <2> DEFINE S == {a \in issued : a.issuer_id = j /\ a.shard_id = t}
  <2>1. issuer_usage[j][t] = Cardinality(S) /\ issuer_usage[j][t] \in Nat
    BY Zenon DEF UsageNeverDrifts, GetUsage, MetaTypeOK
  <2>2. CASE j = i /\ t = s
    <3>1. {a \in issued' : a.issuer_id = j /\ a.shard_id = t} = S \cup {x}
      BY <1>2, <2>2
    <3>2. IsFiniteSet(S) /\ x \notin S
      BY <1>5, FS_Subset, Zenon DEF HistoryMatches
    <3>3. Cardinality(S \cup {x}) = Cardinality(S) + 1
      BY <3>2, FS_AddElement, Zenon
    <3>4. issuer_usage'[j][t] = issuer_usage[j][t] + 1
      BY <1>2, <2>2, Zenon DEF MetaTypeOK
    <3>5. QED
      BY <2>1, <3>1, <3>3, <3>4, Zenon
  <2>3. CASE ~(j = i /\ t = s)
    <3>1. {a \in issued' : a.issuer_id = j /\ a.shard_id = t} = S
      BY <1>2, <2>3
    <3>2. issuer_usage'[j][t] = issuer_usage[j][t]
      BY <1>2, <2>3, Zenon DEF MetaTypeOK
    <3>3. QED
      BY <2>1, <3>1, <3>2, Zenon
  <2>4. QED
    BY <2>2, <2>3, Zenon
<1>12. MaxExpCovers'
  <2> SUFFICES ASSUME NEW a \in allocations'
               PROVE  /\ lists'[a.list_id] # Null
                      /\ lists'[a.list_id].max_exp # Null
                      /\ a.exp <= lists'[a.list_id].max_exp
    BY Zenon DEF MaxExpCovers, Exists
  <2>1. CASE a = x
    BY <2>1, <1>4, ReserveRow, NullAssumption, Zenon
  <2>2. CASE a \in allocations /\ a.list_id = l
    <3>1. a.exp \in Nat /\ lists[l].max_exp \in Nat /\ a.exp <= lists[l].max_exp
      <4>1. a.exp \in Nat
        BY <2>2, Zenon DEF MetaTypeOK, Allocation
      <4>2. lists[l].max_exp # Null /\ a.exp <= lists[l].max_exp
        BY <2>2, Zenon DEF MaxExpCovers
      <4>3. lists[l] \in Row
        BY ReserveRow, Zenon
      <4>4. lists[l].max_exp \in Nat \cup {Null}
        BY <4>3, Zenon DEF Row
      <4>5. QED
        BY <4>1, <4>2, <4>4, Zenon
    <3>2. lists'[l].max_exp \in Nat /\ lists[l].max_exp <= lists'[l].max_exp
      BY <3>1, ReserveRow, NullAssumption, Zenon
    <3>3. QED
      BY <1>4, <2>2, <3>1, <3>2, NullAssumption
  <2>3. CASE a \in allocations /\ a.list_id # l
    BY <2>3, <1>3, <1>4, Zenon DEF MaxExpCovers, Exists
  <2>4. QED
    BY <1>2, <2>1, <2>2, <2>3, Zenon
<1>13. StampsInOrder'
  <2>1. StampsOf(lists[l], now)
    BY <1>4, Zenon DEF StampsInOrder, StampsOf
  <2>2. StampsOf(lists'[l], now)
    BY <2>1, ReserveRow, Zenon DEF StampsOf
  <2>3. QED
    BY <1>2, <1>4, <2>2, StampsByRow, Zenon
<1>14. QED
  BY <1>1, <1>6, <1>7, <1>8, <1>9, <1>10, <1>11, <1>12, <1>13, Zenon

-----------------------------------------------------------------------------
\* Every step a client may take preserves the inductive invariant.
LEMMA InvStep == MetaInv /\ [MetaNext]_metaVars => MetaInv'
<1> SUFFICES ASSUME MetaInv, [MetaNext]_metaVars PROVE MetaInv'
  OBVIOUS
<1>1. CASE UNCHANGED metaVars
  <2>1. MetaTypeOK'
    BY TypeStep, Zenon DEF MetaInv
  <2>2. /\ KnownLists' /\ HistoryMatches' /\ CursorInRange'
        /\ CursorMatchesAllocations' /\ NoDoubleAllocation'
        /\ UsageNeverDrifts' /\ MaxExpCovers'
    BY <1>1, SameAllocations, Zenon DEF metaVars
  <2>3. StampsInOrder'
    BY <1>1, Zenon DEF metaVars, MetaInv, StampsInOrder, Exists
  <2>4. QED
    BY <2>1, <2>2, <2>3, Zenon DEF MetaInv
<1>2. CASE MetaNext
  BY <1>2, TickStep, CreateStep, UpdateStep, DeleteStep, ReserveStep, Zenon DEF MetaNext
<1>3. QED
  BY <1>1, <1>2, Zenon

LEMMA InvAtFirst == MetaInit => MetaInv
<1> SUFFICES ASSUME MetaInit PROVE MetaInv
  OBVIOUS
<1>1. IsFiniteSet({}) /\ Cardinality({}) = 0
  BY FS_EmptySet, Zenon
<1>2. MetaTypeOK
  BY Zenon DEF MetaInit, MetaTypeOK
<1>3. \A l \in ListIDs : ~Exists(l)
  BY Zenon DEF MetaInit, Exists
<1>4. CursorMatchesAllocations
  BY <1>3, Zenon DEF MetaInit, CursorMatchesAllocations
<1>5. UsageNeverDrifts
  <2>1. \A j \in Issuers, t \in Shards : {a \in issued : a.issuer_id = j /\ a.shard_id = t} = {}
    BY Zenon DEF MetaInit
  <2>2. QED
    BY <1>1, <2>1, Zenon DEF MetaInit, UsageNeverDrifts, GetUsage
<1>6. QED
  BY <1>1, <1>2, <1>3, <1>4, <1>5, Zenon
     DEF MetaInit, MetaInv, KnownLists, HistoryMatches, CursorInRange,
         NoDoubleAllocation, MaxExpCovers, StampsInOrder

\* The inductive invariant holds throughout: whatever the clients of the
\* store do, its tables agree with each other.
THEOREM StoreInvariant == MetaSpec => []MetaInv
BY InvAtFirst, InvStep, PTL DEF MetaSpec

-----------------------------------------------------------------------------
(* The properties the model checker checks on small instances.             *)

\* A list's allocations are exactly the indices of its consumed cursor
\* positions (postgres.go:409-473).
THEOREM CursorMatches == MetaSpec => []CursorMatchesAllocations
<1>1. MetaInv => CursorMatchesAllocations
  BY Zenon DEF MetaInv
<1>2. QED
  BY <1>1, StoreInvariant, PTL

\* No index of a list is ever given out twice (postgres.go:453-458).
THEOREM NoDouble == MetaSpec => []NoDoubleAllocation
<1>1. MetaInv => NoDoubleAllocation
  BY Zenon DEF MetaInv
<1>2. QED
  BY <1>1, StoreInvariant, PTL

\* The usage counters equal what was ever allocated (postgres.go:460-467).
THEOREM UsageExact == MetaSpec => []UsageNeverDrifts
<1>1. MetaInv => UsageNeverDrifts
  BY Zenon DEF MetaInv
<1>2. QED
  BY <1>1, StoreInvariant, PTL

\* The allocator's injectivity keeps the INSERT of an allocation off the
\* primary key, so only a cycle walk that gives up rolls an allocation back,
\* and the cursor never passes its position
\* (postgres.go:441-458, allocator.go:94-105).
THEOREM StuckOnlyByWalk == MetaSpec => []StuckOnlyBehindWalk
<1>1. ASSUME MetaInv, NEW l \in ListIDs, Reservable(l), IsAllocated(l, NextIndex(l))
      PROVE  FALSE
  <2> USE <1>1 DEF MetaInv
  <2>1. lists[l] \in Row /\ Exists(l) /\ lists[l].cursor < lists[l].size
    BY Zenon DEF Reservable, HasState, Exists, MetaTypeOK
  <2>2. lists[l].cursor \in Nat /\ lists[l].size \in Sizes /\ lists[l].fpe_key \in Keys
    BY <2>1, Zenon DEF Row
  <2>3. lists[l].size \in Nat
    BY <2>2, SizesAssumption, Zenon
  <2>4. lists[l].cursor \in 0 .. lists[l].size - 1
    BY <2>1, <2>2, <2>3
  <2>5. PICK a \in allocations : a.list_id = l /\ a.idx = NextIndex(l)
    BY Zenon DEF IsAllocated
  <2>6. a.idx \in UsedIndices(l) /\ a.idx \in Nat
    BY <2>1, <2>5, Zenon DEF CursorMatchesAllocations, MetaTypeOK, Allocation
  <2>7. PICK c \in 0 .. lists[l].cursor - 1 :
             NextIndex(l) = Index(lists[l].fpe_key, lists[l].size, c)
    BY <2>5, <2>6, Zenon DEF UsedIndices
  <2>8. c \in 0 .. lists[l].size - 1 /\ c # lists[l].cursor
    BY <2>2, <2>3, <2>4
  <2>9. NextIndex(l) # Null
    BY <2>5, <2>6, NullAssumption, Zenon
  <2>10. QED
    BY <2>2, <2>4, <2>7, <2>8, <2>9, IndexAssumption, Zenon DEF NextIndex
<1>2. ASSUME MetaInv, NEW l \in ListIDs, Exists(l), NEW c \in 0 .. lists[l].size - 1,
             Index(lists[l].fpe_key, lists[l].size, c) = Null
      PROVE  lists[l].cursor <= c
  <2> SUFFICES ASSUME ~(lists[l].cursor <= c) PROVE FALSE
    OBVIOUS
  <2> USE <1>2 DEF MetaInv
  <2>1. lists[l] \in Row
    BY Zenon DEF Exists, MetaTypeOK
  <2>2. lists[l].cursor \in Nat
    BY <2>1, Zenon DEF Row
  <2>3. c \in 0 .. lists[l].cursor - 1
    BY <2>2
  <2>4. Null \in UsedIndices(l)
    BY <2>3, Zenon DEF UsedIndices
  <2>5. PICK a \in allocations : a.idx = Null
    BY <2>4, Zenon DEF CursorMatchesAllocations
  <2>6. a.idx \in Nat
    BY Zenon DEF MetaTypeOK, Allocation
  <2>7. QED
    BY <2>5, <2>6, NullAssumption, Zenon
<1>3. MetaInv => StuckOnlyBehindWalk
  BY <1>1, <1>2, Zenon DEF StuckOnlyBehindWalk, ReserveFails
<1>4. QED
  BY <1>3, StoreInvariant, PTL

\* Archiving waits for expiry and grace, purging for retention
\* (postgres.go:258-303, 305-341).
THEOREM Retired == MetaSpec => []RetiredInOrder
<1>1. MetaInv => RetiredInOrder
  <2> SUFFICES ASSUME MetaInv PROVE RetiredInOrder
    OBVIOUS
  <2> USE DEF MetaInv
  <2>1. ASSUME NEW a \in allocations, lists[a.list_id].state = "ARCHIVED"
        PROVE  a.exp + Grace <= lists[a.list_id].archived_at
    <3>1. a.list_id \in ListIDs /\ a.exp \in Nat
      BY Zenon DEF MetaTypeOK, Allocation
    <3>2. /\ Exists(a.list_id) /\ lists[a.list_id].max_exp # Null
          /\ a.exp <= lists[a.list_id].max_exp
      BY Zenon DEF MaxExpCovers
    <3>3. lists[a.list_id] \in Row
      BY <3>1, <3>2, Zenon DEF MetaTypeOK, Exists
    <3>4. /\ lists[a.list_id].archived_at # Null
          /\ lists[a.list_id].max_exp + Grace <= lists[a.list_id].archived_at
      BY <2>1, <3>1, <3>2, Zenon DEF StampsInOrder
    <3>5. lists[a.list_id].max_exp \in Nat /\ lists[a.list_id].archived_at \in Nat
      BY <3>2, <3>3, <3>4, Zenon DEF Row
    <3>6. QED
      BY <3>1, <3>2, <3>4, <3>5, DurationsAssumption
  <2>2. QED
    BY <2>1, Zenon DEF RetiredInOrder, StampsInOrder
<1>2. QED
  BY <1>1, StoreInvariant, PTL

\* What one statement, or the clock, does to a list.
LEMMA ForwardStep ==
    ASSUME MetaInv, [MetaNext]_metaVars, NEW m \in ListIDs
    PROVE  MovesForward(m)
<1> SUFFICES ASSUME Exists(m) PROVE MovesForward(m)
  BY Zenon DEF MovesForward
<1> USE DEF MetaInv
<1>1. lists[m] \in Row /\ lists[m].state \in States /\ lists[m].purged \in BOOLEAN
  BY Zenon DEF MetaTypeOK, Exists, Row
<1>2. Rank(lists[m]) \in Nat
  BY <1>1, Zenon DEF Rank, States
<1>3. CASE lists'[m] = lists[m]
  BY <1>2, <1>3 DEF MovesForward, Exists
<1>4. ASSUME NEW n \in Sizes, NEW k \in Keys, NEW s \in Shards, NEW l \in ListIDs,
             CreateList(l, n, k, s)
      PROVE  MovesForward(m)
  <2>1. m # l
    BY <1>4, Zenon DEF CreateList, FreshID, KnownLists
  <2>2. QED
    BY <1>3, <1>4, <2>1, Zenon DEF CreateList, MetaTypeOK
<1>5. ASSUME Freeze(m), HasState(m, {"ACTIVE"}) PROVE MovesForward(m)
  <2>1. lists'[m].state = "FROZEN" /\ lists[m].state = "ACTIVE" /\ lists'[m] # Null
    BY <1>1, <1>5, UpdateKeepsRows, Zenon DEF Freeze, HasState, MetaTypeOK, Row, Exists
  <2>2. Rank(lists[m]) = 0 /\ Rank(lists'[m]) = 1
    BY <2>1, Zenon DEF Rank
  <2>3. QED
    BY <2>1, <2>2 DEF MovesForward
<1>6. ASSUME Archive(m), HasState(m, {"FROZEN"}) PROVE MovesForward(m)
  <2>1. /\ lists'[m].state = "ARCHIVED" /\ lists[m].state = "FROZEN"
        /\ lists'[m].cursor = lists[m].cursor /\ lists'[m].max_exp = lists[m].max_exp
    BY <1>1, <1>6, Zenon DEF Archive, HasState, MetaTypeOK, Row
  <2>2. lists'[m] # Null
    BY <1>6, UpdateKeepsRows, Zenon DEF Exists
  <2>3. Rank(lists[m]) = 1 /\ Rank(lists'[m]) \in {2, 3} /\ lists[m].archived_at = Null
    BY <2>1, Zenon DEF Rank, StampsInOrder
  <2>4. QED
    BY <2>1, <2>2, <2>3 DEF MovesForward
<1>7. ASSUME PurgeDue(m), MarkPurged(m) PROVE MovesForward(m)
  <2>1. /\ lists'[m].state = lists[m].state /\ lists[m].state = "ARCHIVED"
        /\ lists'[m].purged = TRUE
        /\ lists'[m].cursor = lists[m].cursor /\ lists'[m].max_exp = lists[m].max_exp
        /\ lists'[m].archived_at = lists[m].archived_at
    BY <1>1, <1>7, Zenon DEF MarkPurged, PurgeDue, Exists, MetaTypeOK, Row
  <2>2. lists'[m] # Null
    BY <1>7, UpdateKeepsRows, Zenon DEF Exists
  <2>3. Rank(lists'[m]) = 3 /\ Rank(lists[m]) \in {2, 3}
    BY <2>1, Zenon DEF Rank
  <2>4. QED
    BY <2>1, <2>2, <2>3 DEF MovesForward
<1>8. ASSUME DeleteDue(m), DeleteList(m) PROVE MovesForward(m)
  BY <1>8, Zenon DEF DeleteDue, DeleteList, MovesForward, MetaTypeOK
<1>9. ASSUME NEW i \in Issuers, NEW s \in Shards, NEW exp \in 0 .. now + MaxExpiry,
             ReserveCursorAndRecord(m, i, s, exp)
      PROVE  MovesForward(m)
  <2>1. /\ lists'[m] # Null /\ lists[m].state = "ACTIVE"
        /\ lists'[m].state \in {"ACTIVE", "FROZEN"}
    BY <1>9, ReserveRow, Zenon
  <2>2. Rank(lists[m]) = 0 /\ Rank(lists'[m]) \in {0, 1}
    BY <2>1, Zenon DEF Rank
  <2>3. QED
    BY <2>1, <2>2 DEF MovesForward
<1>10. ASSUME NEW l \in ListIDs, l # m,
              \/ Freeze(l) \/ Archive(l) \/ MarkPurged(l) \/ DeleteList(l)
              \/ \E i \in Issuers, s \in Shards, exp \in 0 .. now + MaxExpiry :
                     ReserveCursorAndRecord(l, i, s, exp)
       PROVE  lists'[m] = lists[m]
  BY <1>10, Zenon
  DEF Freeze, Archive, MarkPurged, DeleteList, ReserveCursorAndRecord, MetaTypeOK
<1>11. (Tick \/ (Freeze(m) /\ ~HasState(m, {"ACTIVE"}))
             \/ (Archive(m) /\ ~HasState(m, {"FROZEN"}))
              \/ UNCHANGED metaVars) => lists'[m] = lists[m]
  BY Zenon DEF Tick, Freeze, Archive, metaVars
<1>12. QED
  BY <1>3, <1>4, <1>5, <1>6, <1>7, <1>8, <1>9, <1>10, <1>11, Zenon DEF MetaNext

\* A list only moves forward, and what the garbage collector decides on is
\* final once the list has left ACTIVE (postgres.go:243-256, 416-430).
THEOREM MovesForwardOnly == MetaSpec => OnlyMovesForward
<1>1. MetaInv /\ [MetaNext]_metaVars => [\A l \in ListIDs : MovesForward(l)]_metaVars
  BY ForwardStep, Zenon
<1>2. QED
  BY <1>1, StoreInvariant, PTL DEF MetaSpec, OnlyMovesForward

\* An ownership record outlives its credential by the grace, retention and
\* database retention periods (postgres.go:374-400, gc/sweeper.go:78-91).
THEOREM KeptLongEnough == MetaSpec => KeptUntilRetired
<1>1. ASSUME MetaInv, [MetaNext]_metaVars
      PROVE  [\A a \in allocations : a \notin allocations' =>
                 a.exp + Grace + Retention + DBRetention <= now]_metaVars
  <2> SUFFICES ASSUME NEW a \in allocations, a \notin allocations', MetaNext
               PROVE  a.exp + Grace + Retention + DBRetention <= now
    BY <1>1, Zenon
  <2> USE DEF MetaInv
  <2>1. PICK l \in ListIDs : DeleteDue(l) /\ DeleteList(l)
    <3>1. ~Tick
      BY Zenon DEF Tick
    <3>2. \A l \in ListIDs, n \in Sizes, k \in Keys, s \in Shards : ~CreateList(l, n, k, s)
      BY Zenon DEF CreateList
    <3>3. \A l \in ListIDs : ~Freeze(l) /\ ~Archive(l) /\ ~MarkPurged(l)
      BY Zenon DEF Freeze, Archive, MarkPurged
    <3>4. \A l \in ListIDs, i \in Issuers, s \in Shards, exp \in 0 .. now + MaxExpiry :
              ~ReserveCursorAndRecord(l, i, s, exp)
      BY DEF ReserveCursorAndRecord
    <3>5. QED
      BY <3>1, <3>2, <3>3, <3>4, Zenon DEF MetaNext
  <2>2. a.list_id = l /\ a.exp \in Nat
    BY <1>1, <2>1, Zenon DEF DeleteList, MetaTypeOK, Allocation
  <2>3. Exists(l) /\ lists[l].max_exp # Null /\ a.exp <= lists[l].max_exp
    BY <1>1, <2>2, Zenon DEF MaxExpCovers
  <2>4. /\ lists[l].purged /\ lists[l].state = "ARCHIVED" /\ lists[l].archived_at # Null
        /\ lists[l].max_exp + Grace <= lists[l].archived_at
        /\ lists[l].archived_at + Retention + DBRetention <= now
    BY <1>1, <2>1, <2>3, Zenon DEF DeleteDue, StampsInOrder
  <2>5. lists[l] \in Row
    BY <1>1, <2>3, Zenon DEF MetaTypeOK, Exists
  <2>6. lists[l].max_exp \in Nat /\ lists[l].archived_at \in Nat
    BY <2>3, <2>4, <2>5, Zenon DEF Row
  <2>7. now \in Nat
    BY <1>1, Zenon DEF MetaTypeOK
  <2>8. QED
    BY <2>2, <2>3, <2>4, <2>6, <2>7, DurationsAssumption
<1>2. QED
  BY <1>1, StoreInvariant, PTL DEF MetaSpec, KeptUntilRetired
=============================================================================
