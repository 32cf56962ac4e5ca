------------------------------ MODULE MetaStore ------------------------------
(***************************************************************************)
(* The Postgres side of the service (internal/store/postgres.go): the      *)
(* tables lists, allocations and issuer_usage, shared by every shard's     *)
(* ingestion process, and the statements the processes run against them.   *)
(* Each statement, or transaction, is one atomic action.                   *)
(*                                                                         *)
(* MetaSpec is the contract of the store with its clients: any client may  *)
(* run any statement at any time, the garbage collector's only on lists    *)
(* that are due.  StatusService is shown to keep to it.                    *)
(***************************************************************************)
EXTENDS Integers, FiniteSets

CONSTANTS
    ListIDs,        \* the identifiers listid.New can mint
    Shards,         \* the ingestion shards sharing this Postgres
    Issuers,
    Keys,           \* per-list allocator keys (fpe_key)
    Sizes,          \* list capacities (LIST_CAPACITY, possibly reconfigured)
    Index(_, _, _), \* Index(key, n, c): allocator.New(key, n).Index(c);
                    \* Null when cycle-walking gives up
    Null,           \* SQL NULL, a missing row, a Go nil
    MaxExpiry, Grace, Retention, DBRetention,  \* durations, in clock ticks
    MaxTime         \* bound on the clock

ASSUME SizesAssumption == Sizes \subseteq Nat

ASSUME DurationsAssumption ==
    /\ MaxExpiry \in Nat /\ Grace \in Nat
    /\ Retention \in Nat /\ DBRetention \in Nat /\ MaxTime \in Nat

\* What the callers of deriveIndex rely on: the allocator of a list permutes
\* its positions, unless its cycle walk gives up (allocator.go:91-105).
ASSUME IndexAssumption ==
    \A k \in Keys, n \in Sizes :
        /\ \A c \in 0 .. n - 1 : Index(k, n, c) \in (0 .. n - 1) \cup {Null}
        /\ \A c, d \in 0 .. n - 1 :
               Index(k, n, c) # Null /\ Index(k, n, c) = Index(k, n, d) => c = d

VARIABLES
    now,            \* the wall clock, read by Go's time.Now and SQL's now()
    lists,          \* table lists: ListIDs -> row, or Null when there is none
    minted,         \* the identifiers listid.New has handed out
    allocations,    \* table allocations, primary key (list_id, idx)
    issuer_usage,   \* table issuer_usage: index_count by issuer and shard
    issued          \* history: every allocation ever committed

metaVars == <<now, lists, minted, allocations, issuer_usage, issued>>

States == {"ACTIVE", "FROZEN", "ARCHIVED"}

Row == [size : Sizes, cursor : Nat, fpe_key : Keys, max_exp : Nat \cup {Null},
        state : States, created_at : Nat, archived_at : Nat \cup {Null},
        purged : BOOLEAN, purged_at : Nat \cup {Null}, shard_id : Shards]

ASSUME NullAssumption == Null \notin Nat /\ Null \notin Row

\* shard_id is history: the shard whose issuer_usage row counted it.
Allocation == [list_id : ListIDs, idx : Nat, issuer_id : Issuers,
               shard_id : Shards, exp : Nat]

Exists(l) == lists[l] # Null

HasState(l, S) == Exists(l) /\ lists[l].state \in S

-----------------------------------------------------------------------------
(* Queries.  Each is a single SELECT: it sees one committed state.         *)

\* Mutant: a query that forgets that a full list is frozen.
ActiveListsAndFrozen(s) ==
    {l \in ListIDs : HasState(l, {"ACTIVE", "FROZEN"}) /\ lists[l].shard_id = s}

ActiveLists(s) == {l \in ListIDs : HasState(l, {"ACTIVE"}) /\ lists[l].shard_id = s}

LiveLists(s) ==
    {l \in ListIDs : HasState(l, {"ACTIVE", "FROZEN"}) /\ lists[l].shard_id = s}

NoiseLists(s) ==
    {l \in ListIDs : Exists(l) /\ lists[l].shard_id = s /\ ~lists[l].purged}

\* Mutant: max_exp <= cutoff alone, which SQL's NULL never satisfies.
FrozenListsWithExpiry(cutoff) ==
    {l \in ListIDs : /\ HasState(l, {"FROZEN"})
                     /\ lists[l].max_exp # Null
                     /\ lists[l].max_exp <= cutoff}

\* Mutant: max_exp < cutoff.
FrozenListsLongPastGrace(cutoff) ==
    {l \in ListIDs : /\ HasState(l, {"FROZEN"})
                     /\ \/ lists[l].max_exp = Null
                        \/ lists[l].max_exp < cutoff}

FrozenListsPastGrace(cutoff) ==
    {l \in ListIDs : /\ HasState(l, {"FROZEN"})
                     /\ \/ lists[l].max_exp = Null
                        \/ lists[l].max_exp <= cutoff}

ArchivedListsPastRetention(cutoff) ==
    {l \in ListIDs : /\ HasState(l, {"ARCHIVED"})
                     /\ ~lists[l].purged
                     /\ lists[l].archived_at <= cutoff}

PurgedListsPastDBRetention(cutoff) ==
    {l \in ListIDs : Exists(l) /\ lists[l].purged /\ lists[l].purged_at <= cutoff}

Remaining(row) == IF row.cursor >= row.size THEN 0 ELSE row.size - row.cursor

IsAllocated(l, i) == \E a \in allocations : a.list_id = l /\ a.idx = i

Owns(issuer, l, i) ==
    \E a \in allocations : a.list_id = l /\ a.idx = i /\ a.issuer_id = issuer

\* An issuer's accounting, as handleAccountingMe answers it; a shard it never
\* allocated in has no row.
GetUsage(issuer) == issuer_usage[issuer]

-----------------------------------------------------------------------------
(* Statements and transactions.                                            *)

\* Mutant: an identifier is free again once its list is deleted.
FreshWhenDeleted(l) == ~Exists(l)

\* listid.New: 128 random bits, so never an identifier handed out before.
FreshID(l) == l \notin minted

CreateList(l, size, key, s) ==
    /\ FreshID(l)
    /\ minted' = minted \cup {l}
    /\ lists' = [lists EXCEPT ![l] =
            [size |-> size, cursor |-> 0, fpe_key |-> key, max_exp |-> Null,
             state |-> "ACTIVE", created_at |-> now, archived_at |-> Null,
             purged |-> FALSE, purged_at |-> Null, shard_id |-> s]]
    /\ UNCHANGED <<now, allocations, issuer_usage, issued>>

\* Mutant: UPDATE without AND state = 'ACTIVE'.
FreezeAnyState(l) ==
    /\ lists' = IF Exists(l)
                THEN [lists EXCEPT ![l].state = "FROZEN"] ELSE lists
    /\ UNCHANGED <<now, minted, allocations, issuer_usage, issued>>

Freeze(l) ==
    /\ lists' = IF HasState(l, {"ACTIVE"})
                THEN [lists EXCEPT ![l].state = "FROZEN"] ELSE lists
    /\ UNCHANGED <<now, minted, allocations, issuer_usage, issued>>

\* Mutant: UPDATE without AND state = 'FROZEN'.
ArchiveAnyState(l) ==
    /\ lists' = IF Exists(l)
                THEN [lists EXCEPT ![l].state = "ARCHIVED", ![l].archived_at = now]
                ELSE lists
    /\ UNCHANGED <<now, minted, allocations, issuer_usage, issued>>

Archive(l) ==
    /\ lists' = IF HasState(l, {"FROZEN"})
                THEN [lists EXCEPT ![l].state = "ARCHIVED", ![l].archived_at = now]
                ELSE lists
    /\ UNCHANGED <<now, minted, allocations, issuer_usage, issued>>

MarkPurged(l) ==
    /\ lists' = IF Exists(l)
                THEN [lists EXCEPT ![l].purged = TRUE, ![l].purged_at = now]
                ELSE lists
    /\ UNCHANGED <<now, minted, allocations, issuer_usage, issued>>

DeleteList(l) ==
    /\ allocations' = {a \in allocations : a.list_id # l}
    /\ lists' = [lists EXCEPT ![l] = Null]
    /\ UNCHANGED <<now, minted, issuer_usage, issued>>

\* Mutant: the UPDATE without AND state = 'ACTIVE'.
ReservableAnyState(l) == Exists(l) /\ lists[l].cursor < lists[l].size

\* The WHERE clause of ReserveCursorAndRecord's first UPDATE; when it selects
\* no row the caller gets ErrListFull.
Reservable(l) == HasState(l, {"ACTIVE"}) /\ lists[l].cursor < lists[l].size

NextIndex(l) == Index(lists[l].fpe_key, lists[l].size, lists[l].cursor)

\* Mutant: the error of deriveIndex is ignored.
ReserveFailsOnKeyOnly(l) == IsAllocated(l, NextIndex(l))

\* The transaction rolls back when deriveIndex fails or the INSERT hits the
\* primary key.
ReserveFails(l) == NextIndex(l) = Null \/ IsAllocated(l, NextIndex(l))

\* Mutant: the cursor is read but not advanced.
ReserveWithoutAdvance(l, issuer, s, exp) ==
    LET a == [list_id |-> l, idx |-> NextIndex(l), issuer_id |-> issuer,
              shard_id |-> s, exp |-> exp]
    IN
    /\ Reservable(l)
    /\ ~ReserveFails(l)
    /\ lists' = [lists EXCEPT
            ![l].cursor = @,
            ![l].state = IF lists[l].cursor + 1 >= lists[l].size THEN "FROZEN" ELSE @,
            ![l].max_exp = IF @ = Null \/ @ < exp THEN exp ELSE @]
    /\ allocations' = allocations \cup {a}
    /\ issuer_usage' = [issuer_usage EXCEPT ![issuer][s] = @ + 1]
    /\ issued' = issued \cup {a}
    /\ UNCHANGED <<now, minted>>

\* Mutant: usage is counted outside the transaction, and lost.
ReserveWithoutUsage(l, issuer, s, exp) ==
    LET a == [list_id |-> l, idx |-> NextIndex(l), issuer_id |-> issuer,
              shard_id |-> s, exp |-> exp]
    IN
    /\ Reservable(l)
    /\ ~ReserveFails(l)
    /\ lists' = [lists EXCEPT
            ![l].cursor = @ + 1,
            ![l].state = IF lists[l].cursor + 1 >= lists[l].size THEN "FROZEN" ELSE @,
            ![l].max_exp = IF @ = Null \/ @ < exp THEN exp ELSE @]
    /\ allocations' = allocations \cup {a}
    /\ issuer_usage' = issuer_usage
    /\ issued' = issued \cup {a}
    /\ UNCHANGED <<now, minted>>

\* Mutant: max_exp = $1 instead of GREATEST(max_exp, $1).
ReserveLastExpiry(l, issuer, s, exp) ==
    LET a == [list_id |-> l, idx |-> NextIndex(l), issuer_id |-> issuer,
              shard_id |-> s, exp |-> exp]
    IN
    /\ Reservable(l)
    /\ ~ReserveFails(l)
    /\ lists' = [lists EXCEPT
            ![l].cursor = @ + 1,
            ![l].state = IF lists[l].cursor + 1 >= lists[l].size THEN "FROZEN" ELSE @,
            ![l].max_exp = exp]
    /\ allocations' = allocations \cup {a}
    /\ issuer_usage' = [issuer_usage EXCEPT ![issuer][s] = @ + 1]
    /\ issued' = issued \cup {a}
    /\ UNCHANGED <<now, minted>>

\* Mutant: the cursor's UPDATE commits by itself, so the retry of a failed
\* allocation takes the next position.
ReserveSkipping(l, issuer, s, exp) ==
    LET a == [list_id |-> l, idx |-> NextIndex(l), issuer_id |-> issuer,
              shard_id |-> s, exp |-> exp]
        Recorded == IF ReserveFails(l) THEN {} ELSE {a}
    IN
    /\ Reservable(l)
    /\ lists' = [lists EXCEPT
            ![l].cursor = @ + 1,
            ![l].state = IF lists[l].cursor + 1 >= lists[l].size THEN "FROZEN" ELSE @,
            ![l].max_exp = IF @ = Null \/ @ < exp THEN exp ELSE @]
    /\ allocations' = allocations \cup Recorded
    /\ issuer_usage' = [issuer_usage EXCEPT ![issuer][s] = @ + Cardinality(Recorded)]
    /\ issued' = issued \cup Recorded
    /\ UNCHANGED <<now, minted>>

ReserveCursorAndRecord(l, issuer, s, exp) ==
    LET a == [list_id |-> l, idx |-> NextIndex(l), issuer_id |-> issuer,
              shard_id |-> s, exp |-> exp]
    IN
    /\ Reservable(l)
    /\ ~ReserveFails(l)
    /\ lists' = [lists EXCEPT
            ![l].cursor = @ + 1,
            ![l].state = IF lists[l].cursor + 1 >= lists[l].size THEN "FROZEN" ELSE @,
            ![l].max_exp = IF @ = Null \/ @ < exp THEN exp ELSE @]
    /\ allocations' = allocations \cup {a}
    /\ issuer_usage' = [issuer_usage EXCEPT ![issuer][s] = @ + 1]
    /\ issued' = issued \cup {a}
    /\ UNCHANGED <<now, minted>>

Tick ==
    /\ now < MaxTime
    /\ now' = now + 1
    /\ UNCHANGED <<lists, minted, allocations, issuer_usage, issued>>

-----------------------------------------------------------------------------
(* What the garbage collector may ask for: a list that is due, or one that *)
(* another sweeper has deleted meanwhile.                                  *)

ArchiveDue(l) ==
    HasState(l, {"FROZEN"}) /\ lists[l].max_exp # Null => lists[l].max_exp + Grace <= now

PurgeDue(l) ==
    Exists(l) => lists[l].state = "ARCHIVED" /\ lists[l].archived_at + Retention <= now

\* Mutant: a list is deleted as soon as it is purged.
DeleteDueOncePurged(l) == Exists(l) => lists[l].purged

DeleteDue(l) ==
    Exists(l) => /\ lists[l].purged
                 /\ lists[l].archived_at + Retention + DBRetention <= now

MetaInit ==
    /\ now = 0
    /\ lists = [l \in ListIDs |-> Null]
    /\ minted = {}
    /\ allocations = {}
    /\ issuer_usage = [i \in Issuers |-> [s \in Shards |-> 0]]
    /\ issued = {}

MetaNext ==
    \/ Tick
    \/ \E l \in ListIDs :
        \/ \E n \in Sizes, k \in Keys, s \in Shards : CreateList(l, n, k, s)
        \/ Freeze(l)
        \/ ArchiveDue(l) /\ Archive(l)
        \/ PurgeDue(l) /\ MarkPurged(l)
        \/ DeleteDue(l) /\ DeleteList(l)
        \/ \E i \in Issuers, s \in Shards, exp \in 0 .. now + MaxExpiry :
               ReserveCursorAndRecord(l, i, s, exp)

MetaSpec == MetaInit /\ [][MetaNext]_metaVars

-----------------------------------------------------------------------------
MetaTypeOK ==
    /\ now \in Nat
    /\ lists \in [ListIDs -> Row \cup {Null}]
    /\ minted \subseteq ListIDs
    /\ allocations \subseteq Allocation
    /\ issuer_usage \in [Issuers -> [Shards -> Nat]]
    /\ issued \subseteq Allocation

UsedIndices(l) == {Index(lists[l].fpe_key, lists[l].size, c) : c \in 0 .. lists[l].cursor - 1}

\* A list's allocations are exactly the indices of the cursor positions it
\* has consumed: the cursor never skips or repeats a position, across the
\* transactions of any number of concurrent allocators (postgres.go:402-473).
CursorMatchesAllocations ==
    \A l \in ListIDs :
        {a.idx : a \in {b \in allocations : b.list_id = l}} =
            IF Exists(l) THEN UsedIndices(l) ELSE {}

\* An allocation from an open list rolls back only where the cycle walk gives
\* up, never for the primary key; there it rolls back every time, so the list
\* gives out no entry from that position on for the rest of its life, however
\* much room its cursor leaves (postgres.go:441-458, allocator.go:104-105).
StuckOnlyBehindWalk ==
    \A l \in ListIDs :
        /\ Reservable(l) /\ ReserveFails(l) => NextIndex(l) = Null
        /\ Exists(l) =>
               \A c \in 0 .. lists[l].size - 1 :
                   Index(lists[l].fpe_key, lists[l].size, c) = Null => lists[l].cursor <= c

\* No index of a list is ever given out twice, not even after the list and
\* its allocations are deleted (postgres.go:453-458, the primary key).
NoDoubleAllocation ==
    \A a, b \in issued : a.list_id = b.list_id /\ a.idx = b.idx => a = b

\* "in the same transaction as the allocation it counts, so it can never
\* drift from reality" (postgres.go:405-406): index_count is the number of
\* allocations ever committed, and deleting a list does not lower it.
UsageNeverDrifts ==
    \A i \in Issuers, s \in Shards :
        GetUsage(i)[s] =
            Cardinality({a \in issued : a.issuer_id = i /\ a.shard_id = s})

\* A list is archived only once every credential in it has been expired for
\* the grace period, and purged only once it has been archived for the
\* retention period (postgres.go:258-265, 305-308): the stamps of the three
\* stages of a list's life are in order.
RetiredInOrder ==
    /\ \A a \in allocations :
           lists[a.list_id].state = "ARCHIVED" =>
               a.exp + Grace <= lists[a.list_id].archived_at
    /\ \A l \in ListIDs :
           Exists(l) /\ lists[l].purged =>
               /\ lists[l].state = "ARCHIVED"
               /\ lists[l].archived_at + Retention <= lists[l].purged_at

\* How far a list is in its life: ACTIVE, FROZEN, ARCHIVED, purged.
Rank(row) ==
    CASE row.state = "ACTIVE" -> 0 [] row.state = "FROZEN" -> 1
      [] OTHER -> IF row.purged THEN 3 ELSE 2

MovesForward(l) ==
    Exists(l) =>
        \/ lists'[l] = Null /\ lists[l].purged
        \/ /\ lists'[l] # Null
           /\ Rank(lists'[l]) >= Rank(lists[l])
           /\ Rank(lists[l]) > 0 =>
                /\ lists'[l].cursor = lists[l].cursor
                /\ lists'[l].max_exp = lists[l].max_exp
                /\ lists[l].archived_at # Null =>
                       lists'[l].archived_at = lists[l].archived_at

\* A list only moves forward through ACTIVE, FROZEN, ARCHIVED, purged and
\* deleted, and once it has left ACTIVE its cursor and max_exp, the facts the
\* garbage collector decides on from an earlier query, are final
\* (postgres.go:243-256, 416-430).
OnlyMovesForward == [][\A l \in ListIDs : MovesForward(l)]_metaVars

\* An ownership record is deleted only when its credential has been expired
\* for the grace, the retention and the database retention periods together
\* (postgres.go:374-400 as called from gc/sweeper.go:78-91).
KeptUntilRetired ==
    [][\A a \in allocations : a \notin allocations' =>
           a.exp + Grace + Retention + DBRetention <= now]_metaVars

-----------------------------------------------------------------------------
(* The strengthening that makes the properties above inductive: what the   *)
(* rows of the three tables have to do with each other.                    *)

KnownLists ==
    /\ \A l \in ListIDs : Exists(l) => l \in minted
    /\ \A a \in issued : a.list_id \in minted

HistoryMatches ==
    /\ IsFiniteSet(issued)
    /\ allocations \subseteq issued
    /\ \A a \in issued : Exists(a.list_id) => a \in allocations

CursorInRange == \A l \in ListIDs : Exists(l) => lists[l].cursor <= lists[l].size

MaxExpCovers ==
    \A a \in allocations :
        /\ Exists(a.list_id)
        /\ lists[a.list_id].max_exp # Null
        /\ a.exp <= lists[a.list_id].max_exp

StampsInOrder ==
    \A l \in ListIDs : Exists(l) =>
        /\ lists[l].state = "ARCHIVED" <=> lists[l].archived_at # Null
        /\ lists[l].state = "ARCHIVED" =>
               /\ lists[l].archived_at <= now
               /\ lists[l].max_exp # Null => lists[l].max_exp + Grace <= lists[l].archived_at
        /\ lists[l].purged =>
               /\ lists[l].state = "ARCHIVED"
               /\ lists[l].purged_at # Null
               /\ lists[l].archived_at + Retention <= lists[l].purged_at

\* The inductive invariant of the store: every fact above, at once.
MetaInv ==
    /\ MetaTypeOK
    /\ KnownLists
    /\ HistoryMatches
    /\ CursorInRange
    /\ CursorMatchesAllocations
    /\ NoDoubleAllocation
    /\ UsageNeverDrifts
    /\ MaxExpCovers
    /\ StampsInOrder
=============================================================================
