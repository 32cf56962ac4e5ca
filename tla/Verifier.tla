------------------------------ MODULE Verifier ------------------------------
(***************************************************************************)
(* The verifier over a list's whole life (internal/verifier/handlers.go):  *)
(* its GETs and the writers' and publishers' steps of Publisher, against a *)
(* Postgres whose clients keep to the store's contract (MetaStore) and a   *)
(* collector that drops the list's bitmap and version once they are due    *)
(* (internal/gc/sweeper.go).  A GET reads the row once, at its start; the  *)
(* list may be archived, purged and deleted before it has its token.       *)
(***************************************************************************)
EXTENDS MetaStore, Publisher

CONSTANTS
    List,           \* the list that Publisher's state is about
    MaxScripts      \* bound on the writes to it, before and after it is purged

ASSUME VerifierAssumption ==
    List \in ListIDs /\ MaxScripts \in Nat /\ NoToken \notin Nat

VARIABLES
    gone,           \* history: some GET was answered 404 or 410
    scripts         \* history: the scripts run in all

verifierVars == <<metaVars, vars, gone, scripts>>

VerifierInit == MetaInit /\ Init /\ gone = FALSE /\ scripts = 0

\* A client knows of a list from a credential that names it.
Referenced == \E a \in issued : a.list_id = List

\* Mutant: 410 as soon as the list is archived.
ServableUntilArchived == HasState(List, {"ACTIVE", "FROZEN"})

\* What handleGetList makes of the row: neither 404 nor 410.
Servable ==
    /\ Exists(List)
    /\ lists[List].state = "ARCHIVED" => now - lists[List].archived_at <= Retention

\* A GET whose row passes goes on to PublishIfStale.
GetServed(r, token) ==
    /\ Referenced
    /\ Servable
    /\ Request(r, token)
    /\ UNCHANGED <<metaVars, gone, scripts>>

\* 404 or 410.
GetGone(r) ==
    /\ Referenced
    /\ pc[r] = "idle"
    /\ ~Servable
    /\ gone' = TRUE
    /\ UNCHANGED <<metaVars, vars, scripts>>

\* The rest of a GET, to its answer or error; a verifier restarts.
ServeStep ==
    /\ \/ \E r \in Readers : \/ ReadVersion(r) \/ CacheHit(r) \/ CacheMiss(r)
                             \/ TakeSnapshot(r) \/ StoreCache(r)
                             \/ Respond(r) \/ Finish(r)
       \/ \E p \in Processes : Restart(p)
    /\ UNCHANGED <<metaVars, gone, scripts>>

\* A status write, however late after its handler looked at the row: also of
\* a noiser, which writes to ARCHIVED lists.
StatusWrite(w) ==
    /\ List \in minted
    /\ \/ WriteScript(w) /\ scripts < MaxScripts /\ scripts' = scripts + 1
       \/ (WriteIncr(w) \/ WriteFails(w)) /\ UNCHANGED scripts
    /\ UNCHANGED <<metaVars, gone>>

\* The store's other clients, the collector's statements included.
StoreStep == MetaNext /\ UNCHANGED <<vars, gone, scripts>>

\* The list's bitmap and version may be dropped, by a collector that acts on
\* a query made any time before: also after the row is deleted.
PastRetention == List \in minted /\ PurgeDue(List)

DropBitmap ==
    /\ PastRetention
    /\ content' = 0
    /\ version' = 0
    /\ UNCHANGED <<writing, acked, readVars, metaVars, gone, scripts>>

VerifierNext ==
    \/ \E r \in Readers : \/ \E token \in sent \cup {NoToken} : GetServed(r, token)
                          \/ GetGone(r)
    \/ ServeStep
    \/ \E w \in Writers : StatusWrite(w)
    \/ StoreStep
    \/ DropBitmap

VerifierSpec == VerifierInit /\ [][VerifierNext]_verifierVars

-----------------------------------------------------------------------------
\* As long as any credential of the list has not been expired for the grace
\* and the retention period, no GET is refused, and every answer holds the
\* status writes acknowledged before its request, although the row, the
\* version and the bitmap are read at different times and the collector drops
\* the last two (verifier/handlers.go:49-100, gc/sweeper.go:48-94).  The period
\* itself is where it ends: at an age of exactly Retention the verifier still
\* serves, and the collector may already have dropped the bitmap.
ServedUntilRetired ==
    \A a \in issued :
        a.list_id = List /\ now < a.exp + Grace + Retention => ~gone /\ FreshAfterAnswer

\* Once a client was told 404 or 410, no verifier serves the list again: the
\* 410 rests on a stamp that several sweepers could set, the 404 on an
\* identifier that could come back (verifier/handlers.go:54-74,
\* postgres.go:288-303).
GoneForGood == gone => ~Servable

\* What makes the two inductive: until the bitmap may be dropped the tokens
\* are as Publisher has them, a list that is gone was minted and so cannot be
\* created again, and a deleted list's credentials are past the retention.
VerifierInv ==
    /\ MetaInv
    /\ ~PastRetention => PublisherInv
    /\ gone => List \in minted /\ ~Servable
    /\ \A a \in issued :
           a.list_id = List /\ ~Exists(List) => a.exp + Grace + Retention <= now

-----------------------------------------------------------------------------
(* The implementation of StatusFeed.                                       *)

Asking(r) == ~PastRetention /\ pc[r] # "idle"

FeedWrites == IF PastRetention THEN 0 ELSE content

FeedAcked == IF PastRetention THEN 0 ELSE acked

FeedNeed == [r \in Readers |-> IF Asking(r) THEN need[r] ELSE NoToken]

FeedGot == [r \in Readers |->
               IF Asking(r) /\ pc[r] = "answered" THEN answer[r].content ELSE NoToken]

Feed == INSTANCE StatusFeed WITH
    Clients <- Readers, None <- NoToken, retired <- PastRetention,
    writes <- FeedWrites, acked <- FeedAcked, need <- FeedNeed, got <- FeedGot

\* What a client sees of the versions, caches, conditional requests, restarts
\* and the collection of a list is the promise of StatusFeed and nothing else
\* (publisher.go:141-200, verifier/handlers.go:49-100).
ImplementsFeed == Feed!Spec
=============================================================================
