-------------------------------- MODULE Pool --------------------------------
(***************************************************************************)
(* The pool of ACTIVE lists of a shard (internal/pool/pool.go).  A thread  *)
(* is a request goroutine or the background loop of an ingestion process;  *)
(* both may run EnsureHealthy, with no lock around its count-then-create.  *)
(* Every query and every write is a step of its own, so any number of      *)
(* threads interleave between them.                                        *)
(***************************************************************************)
EXTENDS BitmapStore, Functions

CONSTANTS
    Requests,       \* goroutines serving requests
    Loops,          \* Manager.Run goroutines
    ShardOf,        \* the shard of the process each thread runs in
    Width,          \* K, the pool's target
    Capacity,       \* N_max, the size of a new list
    MaxAge          \* T_max; 0 turns rotation by age off

Threads == Requests \cup Loops

ASSUME PoolAssumption ==
    /\ IsFiniteSet(Threads) /\ Requests \cap Loops = {} /\ ShardOf \in [Threads -> Shards]
    /\ Width \in Nat /\ Capacity \in Sizes /\ MaxAge \in Nat

VARIABLES
    pc,             \* where each thread is
    active,         \* the rows of its query still to be looked at: their created_at
    kept,           \* len(remaining) in EnsureHealthy
    list            \* the list it is working on

poolVars == <<pc, active, kept, list>>

PoolInit ==
    /\ pc = [t \in Threads |-> "idle"]
    /\ active = [t \in Threads |-> <<>>]
    /\ kept = [t \in Threads |-> 0]
    /\ list = [t \in Threads |-> Null]

Goto(t, from, to) == pc[t] = from /\ pc' = [pc EXCEPT ![t] = to]

\* The candidates ChooseByPowerOfTwo may return, over all draws of two
\* distinct members: any list that some other one does not beat.
ChooseByPowerOfTwo(C) ==
    IF Cardinality(C) < 2 THEN C
    ELSE {l \in C : \E m \in C \ {l} : Remaining(lists[m]) <= Remaining(lists[l])}

\* Manager.Run: the ticker fires.
PoolTick(t) ==
    /\ t \in Loops
    /\ Goto(t, "idle", "ensure")
    /\ UNCHANGED <<active, kept, list, metaVars, redisVars>>

EnsureHealthyQuery(t) ==
    /\ Goto(t, "ensure", "rotate")
    /\ active' = [active EXCEPT ![t] =
            [l \in ActiveLists(ShardOf[t]) |-> lists[l].created_at]]
    /\ kept' = [kept EXCEPT ![t] = 0]
    /\ UNCHANGED <<list, metaVars, redisVars>>

\* One turn of the rotation loop, over the query's rows oldest first.
RotateByAge(t, l) ==
    /\ pc[t] = "rotate"
    /\ l \in DOMAIN active[t]
    /\ \A m \in DOMAIN active[t] : active[t][l] <= active[t][m]
    /\ active' = [active EXCEPT ![t] = Restrict(@, DOMAIN @ \ {l})]
    /\ IF MaxAge > 0 /\ now - active[t][l] >= MaxAge
       THEN Freeze(l) /\ UNCHANGED kept
       ELSE kept' = [kept EXCEPT ![t] = @ + 1] /\ UNCHANGED metaVars
    /\ UNCHANGED <<pc, list, redisVars>>

\* Mutant: for len(remaining) <= K.
TopUpOneMore(t, l, key) ==
    /\ Goto(t, "rotate", "init")
    /\ DOMAIN active[t] = {}
    /\ kept[t] <= Width
    /\ CreateList(l, Capacity, key, ShardOf[t])
    /\ list' = [list EXCEPT ![t] = l]
    /\ UNCHANGED <<active, kept, redisVars>>

\* createList up to the INSERT; the row is visible before its bitmap exists.
TopUp(t, l, key) ==
    /\ Goto(t, "rotate", "init")
    /\ DOMAIN active[t] = {}
    /\ kept[t] < Width
    /\ CreateList(l, Capacity, key, ShardOf[t])
    /\ list' = [list EXCEPT ![t] = l]
    /\ UNCHANGED <<active, kept, redisVars>>

\* createList's Init, and back to the top-up loop.
TopUpInit(t) ==
    /\ Goto(t, "init", "rotate")
    /\ InitBitmap(ShardOf[t], list[t], Capacity)
    /\ kept' = [kept EXCEPT ![t] = @ + 1]
    /\ list' = [list EXCEPT ![t] = Null]
    /\ UNCHANGED <<active, metaVars>>

\* EnsureHealthy returns: to Run, or to PickForAllocation's second query.
EnsureHealthyDone(t) ==
    /\ Goto(t, "rotate", IF t \in Loops THEN "idle" ELSE "repick")
    /\ DOMAIN active[t] = {}
    /\ kept[t] >= Width
    /\ kept' = [kept EXCEPT ![t] = 0]
    /\ UNCHANGED <<active, list, metaVars, redisVars>>

\* PickForAllocation chooses l, and handleAllocate goes on to reserve in it,
\* unless allocator.New refuses its size (the request then fails).
Choose(t, l) ==
    /\ l \in ChooseByPowerOfTwo(ActiveLists(ShardOf[t]))
    /\ lists[l].size > 0
    /\ list' = [list EXCEPT ![t] = l]
    /\ UNCHANGED <<active, kept, metaVars, redisVars>>

PickForAllocation(t, l) == Goto(t, "pick", "reserve") /\ Choose(t, l)

\* The pool is empty: bootstrap it in the request itself.
PickBootstrap(t) ==
    /\ Goto(t, "pick", "ensure")
    /\ ActiveLists(ShardOf[t]) = {}
    /\ UNCHANGED <<active, kept, list, metaVars, redisVars>>

PickAgain(t, l) == Goto(t, "repick", "reserve") /\ Choose(t, l)

\* The thread gives up its work: it has answered, PickForAllocation found no
\* list after all (503), a store call failed or the process died.
ThreadIdle(t) ==
    /\ pc' = [pc EXCEPT ![t] = "idle"]
    /\ active' = [active EXCEPT ![t] = <<>>]
    /\ kept' = [kept EXCEPT ![t] = 0]
    /\ list' = [list EXCEPT ![t] = Null]
=============================================================================
