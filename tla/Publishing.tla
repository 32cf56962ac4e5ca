------------------------------ MODULE Publishing ------------------------------
(***************************************************************************)
(* The publishing of one list by the ingestion process of its shard        *)
(* (internal/publisher, internal/ingestion/handlers.go): writers that call *)
(* MarkDirty after their write, the debouncer's fires and Run's poll, each *)
(* a PublishIfStale into the process's cache, over Publisher's bitmap and  *)
(* version.  The debouncer and the cache are lost when the process stops.  *)
(***************************************************************************)
EXTENDS Debounce

CONSTANTS
    Writers, Readers, Processes, ProcessOf, NoToken, MaxWrites,  \* of Publisher
    Poll            \* the reader that is Run's loop; the others are fires

VARIABLES
    content, version, writing, acked,                            \* of Publisher
    cache, pc, need, live, built, offered, answer, sent,         \* of Publisher
    dirty           \* the writers between their INCR and their MarkDirty

P == INSTANCE Publisher

ASSUME PublishingAssumption == Poll \in Readers

publisherVars == <<content, version, writing, acked,
                   cache, pc, need, live, built, offered, answer, sent>>
publishingVars == <<publisherVars, vars, dirty>>

PublishingInit == P!Init /\ Init /\ dirty = {}

\* handleAllocate, handleSetStatus, the noiser: SetStatus ...
Write(w) ==
    /\ w \notin dirty
    /\ \/ P!WriteScript(w) /\ UNCHANGED dirty
       \/ P!WriteIncr(w) /\ dirty' = dirty \cup {w}
       \/ P!WriteFails(w) /\ UNCHANGED dirty
    /\ UNCHANGED vars

\* ... and, when it returns no error, MarkDirty.
MarkDirty(w) ==
    /\ w \in dirty
    /\ Trigger
    /\ dirty' = dirty \ {w}
    /\ UNCHANGED publisherVars

\* PublishIfStale is called, without a client and its conditional request.
Begin(r) ==
    /\ P!Goto(r, "idle", "version")
    /\ UNCHANGED <<content, version, writing, acked,
                   cache, need, live, built, offered, answer, sent>>

\* The callback of MarkDirty: GetList succeeds, and PublishIfStale follows.
Fire(r) ==
    /\ r # Poll
    /\ FireBegins
    /\ Begin(r)
    /\ UNCHANGED dirty

\* GetList fails: logged, and nothing else.
FireFails == FireBegins /\ UNCHANGED <<publisherVars, dirty>>

\* Mutant: only what has been published before is looked at again.
PollPublished ==
    /\ P!Cached(Poll) # NoToken
    /\ Begin(Poll)
    /\ UNCHANGED <<vars, dirty>>

\* Run's ticker, the list being one of ListsForPublishing.  A failing query
\* waits for the next tick.
PollTick ==
    /\ Begin(Poll)
    /\ UNCHANGED <<vars, dirty>>

\* The steps of PublishIfStale; nobody is sent the token.
Publish(r) ==
    /\ P!ReadVersion(r) \/ P!CacheHit(r) \/ P!CacheMiss(r) \/ P!TakeSnapshot(r) \/ P!StoreCache(r)
    /\ UNCHANGED <<vars, dirty>>

\* PublishIfStale returns, with an error where it fails or runs out of time.
PublishDone(r) == P!Finish(r) /\ UNCHANGED <<vars, dirty>>

\* The process stops, and another starts with nothing but what Redis has.  A
\* writer that dies with it has failed just before.
RestartProcess(p) ==
    /\ \A w \in Writers : writing[w] = 0
    /\ P!Restart(p)
    /\ age' = Floor /\ pending' = FALSE /\ timer' = Null /\ starting' = 0 /\ owed' = FALSE
    /\ dirty' = {}

TimerStep == TimerFires /\ UNCHANGED <<publisherVars, dirty>>

ClockStep == Tick /\ UNCHANGED <<publisherVars, dirty>>

FireStep == FireFails \/ \E r \in Readers : Fire(r)

PublishingNext ==
    \/ \E w \in Writers : Write(w) \/ MarkDirty(w)
    \/ \E r \in Readers : Publish(r) \/ PublishDone(r)
    \/ FireStep \/ PollTick \/ TimerStep \/ ClockStep
    \/ \E p \in Processes : RestartProcess(p)

\* The goroutine of Run goes on, its ticker firing and its calls returning.
PollStep == PollTick \/ Publish(Poll) \/ PublishDone(Poll)

\* The poll's PublishIfStale gets as far as its result, cached or new.
PollSucceeds ==
    /\ P!CacheHit(Poll) \/ P!StoreCache(Poll)
    /\ UNCHANGED <<vars, dirty>>

\* Time passes, timers run out and goroutines that were started run, and a poll
\* tried again and again does not fail every time.  Nothing is assumed of the
\* writers, who may go on writing, and of the publishes of fires.
Fairness ==
    /\ WF_publishingVars(ClockStep)
    /\ WF_publishingVars(TimerStep)
    /\ WF_publishingVars(FireStep)
    /\ WF_publishingVars(PollStep)
    /\ []<><<PollTick>>_publishingVars => []<><<PollSucceeds>>_publishingVars

PublishingSpec == PublishingInit /\ [][PublishingNext]_publishingVars /\ Fairness

-----------------------------------------------------------------------------
\* "it exists so a list is never left stale indefinitely if MarkDirty's
\* in-memory debounce state is lost" (publisher.go:18-20): from the moment a
\* write is acknowledged, and again and again after it, the process comes to
\* have a token with it, although fires and polls fail, slow publishes replace
\* newer tokens, the process restarts and writers go on writing.
NeverLeftStale ==
    \A p \in Processes, n \in 1 .. MaxWrites :
        acked >= n ~> (cache[p] # NoToken /\ cache[p].content >= n)
=============================================================================
