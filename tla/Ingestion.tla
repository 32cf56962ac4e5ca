------------------------------ MODULE Ingestion ------------------------------
(***************************************************************************)
(* The issuer-facing handlers (internal/ingestion/handlers.go): POST       *)
(* /allocate and PATCH /status/{listID}/{idx}, one goroutine per request,  *)
(* over the pool, the shared Postgres and the shard's Redis.               *)
(***************************************************************************)
EXTENDS Pool

CONSTANT MaxAttempts    \* maxAllocateAttempts

ASSUME AttemptsAssumption == MaxAttempts \in Nat \ {0}

VARIABLES
    req,        \* what each request thread was asked for and has got so far
    written,    \* history: the last status an owner's request wrote, by entry
    acked       \* history: the allocations answered 201

ingestionVars == <<req, written, acked>>

StatusNames == {VALID, INVALID, SUSPENDED}

\* full is the set of lists that answered ErrListFull to this request.
NoRequest == [issuer |-> Null, exp |-> 0, tries |-> 0, full |-> {}, idx |-> 0,
              status |-> VALID, allocating |-> FALSE]

IngestionInit ==
    /\ req = [t \in Requests |-> NoRequest]
    /\ written = [e \in ListIDs \X UNION {0 .. n - 1 : n \in Sizes} |-> Null]
    /\ acked = {}

Respond(t) == ThreadIdle(t) /\ req' = [req EXCEPT ![t] = NoRequest]

\* handleAllocate up to the retry loop.  An omitted exp is the maximum one; a
\* later one is answered 400.  An exp in the past is accepted.
Allocate(t, issuer, exp) ==
    /\ Goto(t, "idle", "pick")
    /\ exp \in 0 .. now + MaxExpiry
    /\ req' = [req EXCEPT ![t] = [NoRequest EXCEPT !.issuer = issuer, !.exp = exp,
                                                   !.allocating = TRUE]]
    /\ UNCHANGED <<active, kept, list, written, acked, metaVars, redisVars>>

Reserve(t) ==
    /\ Goto(t, "reserve", "write")
    /\ ReserveCursorAndRecord(list[t], req[t].issuer, ShardOf[t], req[t].exp)
    /\ req' = [req EXCEPT ![t].idx = NextIndex(list[t])]
    /\ UNCHANGED <<active, kept, list, written, acked, redisVars>>

\* Mutant: one attempt more than maxAllocateAttempts.
ReserveFullOneMore(t) ==
    /\ pc[t] = "reserve"
    /\ ~Reservable(list[t])
    /\ IF req[t].tries < MaxAttempts
       THEN /\ pc' = [pc EXCEPT ![t] = "pick"]
            /\ list' = [list EXCEPT ![t] = Null]
            /\ req' = [req EXCEPT ![t].tries = @ + 1, ![t].full = @ \cup {list[t]}]
            /\ UNCHANGED <<active, kept>>
       ELSE Respond(t)
    /\ UNCHANGED <<written, acked, metaVars, redisVars>>

\* ErrListFull: the list was filled or frozen since it was picked.
ReserveFull(t) ==
    /\ pc[t] = "reserve"
    /\ ~Reservable(list[t])
    /\ IF req[t].tries + 1 < MaxAttempts
       THEN /\ pc' = [pc EXCEPT ![t] = "pick"]
            /\ list' = [list EXCEPT ![t] = Null]
            /\ req' = [req EXCEPT ![t].tries = @ + 1, ![t].full = @ \cup {list[t]}]
            /\ UNCHANGED <<active, kept>>
       ELSE Respond(t)
    /\ UNCHANGED <<written, acked, metaVars, redisVars>>

\* handleSetStatus up to the ownership check, which an entry not owned by the
\* caller does not pass (403).  That the list is of the service's own shard is
\* no check of the handler: the ingress routes by the shard in the list's
\* identifier.  Identifiers without one are Sharding's subject.
SetStatus(t, issuer, l, idx, status) ==
    /\ Goto(t, "idle", "getlist")
    /\ Owns(issuer, l, idx)
    /\ lists[l].shard_id = ShardOf[t]
    /\ version[ShardOf[t]][l] < MaxVersion
    /\ list' = [list EXCEPT ![t] = l]
    /\ req' = [req EXCEPT ![t] = [NoRequest EXCEPT !.issuer = issuer, !.idx = idx,
                                                   !.status = status]]
    /\ UNCHANGED <<active, kept, written, acked, metaVars, redisVars>>

\* The row's state as handleSetStatus reads it: 404, 410, or go on and write.
SetStatusGetList(t) ==
    /\ pc[t] = "getlist"
    /\ IF HasState(list[t], {"ACTIVE", "FROZEN"})
       THEN pc' = [pc EXCEPT ![t] = "write"] /\ UNCHANGED <<active, kept, list, req>>
       ELSE Respond(t)
    /\ UNCHANGED <<written, acked, metaVars, redisVars>>

\* The script of BitmapStore.SetStatus: the reset to VALID of a new
\* allocation, or an owner's update.
WriteStatus(t) ==
    /\ Goto(t, "write", "bump")
    /\ SetByte(ShardOf[t], list[t], req[t].idx, req[t].status)
    /\ written' = [written EXCEPT ![<<list[t], req[t].idx>>] = req[t].status]
    /\ UNCHANGED <<active, kept, list, req, acked, metaVars>>

\* The INCR of BitmapStore.SetStatus, and the answer: 201 or 204.
BumpVersion(t) ==
    /\ pc[t] = "bump"
    /\ Incr(ShardOf[t], list[t])
    /\ acked' = IF req[t].allocating
                THEN acked \cup {a \in allocations :
                                    a.list_id = list[t] /\ a.idx = req[t].idx}
                ELSE acked
    /\ Respond(t)
    /\ UNCHANGED <<written, metaVars>>

\* A request that fails, is cancelled, or whose process dies at this point.
AbandonRequest(t) ==
    /\ pc[t] # "idle"
    /\ Respond(t)
    /\ UNCHANGED <<written, acked, metaVars, redisVars>>

AbandonPoolTick(t) ==
    /\ t \in Loops
    /\ pc[t] # "idle"
    /\ ThreadIdle(t)
    /\ UNCHANGED <<metaVars, redisVars>>
=============================================================================
