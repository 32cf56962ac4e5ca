------------------------------ MODULE Publisher ------------------------------
(***************************************************************************)
(* Publishing one list (internal/publisher/publisher.go) and serving it    *)
(* (internal/verifier/handlers.go), against concurrent status writes.      *)
(*                                                                         *)
(* A writer is a goroutine in BitmapStore.SetStatus: the script, then the  *)
(* INCR.  The bitmap is abstracted to the number of scripts run on it: the *)
(* snapshot n holds the first n writes.  A reader is a goroutine in        *)
(* PublishIfStale, of a GET or of the ingestion service's own publishing;  *)
(* the goroutines of a process share its cache.  A client may revalidate   *)
(* any token it or a shared HTTP cache was ever sent, by its ETag.         *)
(***************************************************************************)
EXTENDS Integers

CONSTANTS
    Writers, Readers,
    Processes,      \* the processes with a Publisher
    ProcessOf,      \* the process each reader runs in
    NoToken,
    MaxWrites       \* bound on the number of writes

Token == [version : Nat, content : Nat]

ASSUME PublisherAssumption ==
    ProcessOf \in [Readers -> Processes] /\ MaxWrites \in Nat /\ NoToken \notin Token

VARIABLES
    content,        \* the bitmap: how many scripts have run
    version,        \* the version key
    writing,        \* by writer: the number of its write between script and INCR
    acked,          \* history: the latest write answered 204 or 201
    cache,          \* by process: the Published token, or NoToken
    pc,             \* by reader
    need,           \* history, by reader: acked when its request arrived
    live,           \* by reader: liveVersion
    built,          \* by reader: the token about to be cached and returned
    offered,        \* by reader: the token its If-None-Match is about
    answer,         \* by reader: the token its client ends up with
    sent            \* history: the tokens clients have

writeVars == <<content, version, writing, acked>>
readVars == <<cache, pc, need, live, built, offered, answer, sent>>
vars == <<content, version, writing, acked,
          cache, pc, need, live, built, offered, answer, sent>>

Init ==
    /\ content = 0 /\ version = 0 /\ acked = 0
    /\ writing = [w \in Writers |-> 0]
    /\ cache = [p \in Processes |-> NoToken]
    /\ pc = [r \in Readers |-> "idle"]
    /\ need = [r \in Readers |-> 0]
    /\ live = [r \in Readers |-> 0]
    /\ built = [r \in Readers |-> NoToken]
    /\ offered = [r \in Readers |-> NoToken]
    /\ answer = [r \in Readers |-> NoToken]
    /\ sent = {}

\* SetStatus: the script.
WriteScript(w) ==
    /\ writing[w] = 0
    /\ content < MaxWrites
    /\ content' = content + 1
    /\ writing' = [writing EXCEPT ![w] = content + 1]
    /\ UNCHANGED <<version, acked, readVars>>

\* SetStatus: the INCR, after which the write is acknowledged.
WriteIncr(w) ==
    /\ writing[w] # 0
    /\ version' = version + 1
    /\ acked' = IF writing[w] > acked THEN writing[w] ELSE acked
    /\ writing' = [writing EXCEPT ![w] = 0]
    /\ UNCHANGED <<content, readVars>>

\* The INCR fails or the writer dies: the write stays, unacknowledged.
WriteFails(w) ==
    /\ writing[w] # 0
    /\ writing' = [writing EXCEPT ![w] = 0]
    /\ UNCHANGED <<content, version, acked, readVars>>

Goto(r, from, to) == pc[r] = from /\ pc' = [pc EXCEPT ![r] = to]

\* A GET arrives and handleGetList calls PublishIfStale; or a publish that
\* MarkDirty or Run starts.
Request(r, token) ==
    /\ Goto(r, "idle", "version")
    /\ token \in sent \cup {NoToken}
    /\ offered' = [offered EXCEPT ![r] = token]
    /\ need' = [need EXCEPT ![r] = acked]
    /\ UNCHANGED <<cache, live, built, answer, sent, writeVars>>

ReadVersion(r) ==
    /\ Goto(r, "version", "lookup")
    /\ live' = [live EXCEPT ![r] = version]
    /\ UNCHANGED <<cache, need, built, offered, answer, sent, writeVars>>

Cached(r) == cache[ProcessOf[r]]

\* Mutant: whatever is cached is current.
CacheHitAnyVersion(r) ==
    /\ Goto(r, "lookup", "respond")
    /\ Cached(r) # NoToken
    /\ built' = [built EXCEPT ![r] = Cached(r)]
    /\ UNCHANGED <<cache, need, live, offered, answer, sent, writeVars>>

\* The cached token is of the live version: return it as it is.  Its TTL, which
\* is compared as well, is the same for every token of a process.
CacheHit(r) ==
    /\ Goto(r, "lookup", "respond")
    /\ Cached(r) # NoToken
    /\ Cached(r).version = live[r]
    /\ built' = [built EXCEPT ![r] = Cached(r)]
    /\ UNCHANGED <<cache, need, live, offered, answer, sent, writeVars>>

CacheMiss(r) ==
    /\ Goto(r, "lookup", "snapshot")
    /\ Cached(r) # NoToken => Cached(r).version # live[r]
    /\ UNCHANGED <<cache, need, live, built, offered, answer, sent, writeVars>>

\* Snapshot, and the tokens built from it, labelled with the version read.
TakeSnapshot(r) ==
    /\ Goto(r, "snapshot", "store")
    /\ built' = [built EXCEPT ![r] = [version |-> live[r], content |-> content]]
    /\ UNCHANGED <<cache, need, live, offered, answer, sent, writeVars>>

\* The token replaces whatever is cached by now, be it newer.
StoreCache(r) ==
    /\ Goto(r, "store", "respond")
    /\ cache' = [cache EXCEPT ![ProcessOf[r]] = built[r]]
    /\ UNCHANGED <<need, live, built, offered, answer, sent, writeVars>>

\* 304 when the client's ETag is the token's version, else 200.
Respond(r) ==
    /\ Goto(r, "respond", "answered")
    /\ LET token == IF offered[r] # NoToken /\ offered[r].version = built[r].version
                    THEN offered[r] ELSE built[r] IN
       /\ answer' = [answer EXCEPT ![r] = token]
       /\ sent' = sent \cup {token}
    /\ UNCHANGED <<cache, need, live, built, offered, writeVars>>

\* The next request; also a store or signing error, or a cancelled request.
Finish(r) ==
    /\ pc[r] # "idle"
    /\ pc' = [pc EXCEPT ![r] = "idle"]
    /\ need' = [need EXCEPT ![r] = 0]
    /\ live' = [live EXCEPT ![r] = 0]
    /\ built' = [built EXCEPT ![r] = NoToken]
    /\ offered' = [offered EXCEPT ![r] = NoToken]
    /\ answer' = [answer EXCEPT ![r] = NoToken]
    /\ UNCHANGED <<cache, sent, writeVars>>

\* A process restarts with an empty cache; clients keep what they have.
Restart(p) ==
    LET mine == {r \in Readers : ProcessOf[r] = p} IN
    /\ cache' = [cache EXCEPT ![p] = NoToken]
    /\ pc' = [r \in Readers |-> IF r \in mine THEN "idle" ELSE pc[r]]
    /\ need' = [r \in Readers |-> IF r \in mine THEN 0 ELSE need[r]]
    /\ live' = [r \in Readers |-> IF r \in mine THEN 0 ELSE live[r]]
    /\ built' = [r \in Readers |-> IF r \in mine THEN NoToken ELSE built[r]]
    /\ offered' = [r \in Readers |-> IF r \in mine THEN NoToken ELSE offered[r]]
    /\ answer' = [r \in Readers |-> IF r \in mine THEN NoToken ELSE answer[r]]
    /\ UNCHANGED <<sent, writeVars>>

ReaderStep(r) ==
    \/ \E token \in sent \cup {NoToken} : Request(r, token)
    \/ ReadVersion(r) \/ CacheHit(r) \/ CacheMiss(r)
    \/ TakeSnapshot(r) \/ StoreCache(r) \/ Respond(r) \/ Finish(r)

Next ==
    \/ \E w \in Writers : WriteScript(w) \/ WriteIncr(w) \/ WriteFails(w)
    \/ \E r \in Readers : ReaderStep(r)
    \/ \E p \in Processes : Restart(p)

Spec == Init /\ [][Next]_vars

-----------------------------------------------------------------------------
TypeOK ==
    /\ content \in Nat /\ version \in Nat /\ acked \in Nat
    /\ writing \in [Writers -> Nat]
    /\ cache \in [Processes -> Token \cup {NoToken}]
    /\ pc \in [Readers -> {"idle", "version", "lookup", "snapshot", "store",
                           "respond", "answered"}]
    /\ need \in [Readers -> Nat]
    /\ live \in [Readers -> Nat]
    /\ built \in [Readers -> Token \cup {NoToken}]
    /\ offered \in [Readers -> Token \cup {NoToken}]
    /\ answer \in [Readers -> Token \cup {NoToken}]
    /\ sent \subseteq Token

\* A client never works with a token older than its request: whatever it holds
\* after a 200 or a 304 includes every status write acknowledged before the
\* request arrived, although the version and the bitmap are read and written
\* separately, caches are overwritten by slower publishers, several verifiers
\* answer the same client, and processes restart (publisher.go:145-200,
\* verifier/handlers.go:82-100, redis.go:99-110).
FreshAfterAnswer ==
    \A r \in Readers :
        pc[r] = "answered" => answer[r] # NoToken /\ answer[r].content >= need[r]

-----------------------------------------------------------------------------
(* What makes it inductive: a token holds no write that was not made, one  *)
(* labelled with the current version has every acknowledged write, and one *)
(* labelled with the version a reader has read has every write that reader *)
(* needs.                                                                  *)

\* Readers between their reading of the version and their answer.
Compares(r) == pc[r] \in {"lookup", "snapshot", "store", "respond"}

Covers(t) ==
    /\ t.version <= version
    /\ t.content <= content
    /\ t.version = version => acked <= t.content
    /\ \A r \in Readers : Compares(r) /\ t.version = live[r] => need[r] <= t.content

ReaderInv(r) ==
    /\ need[r] <= acked
    /\ live[r] <= version
    /\ pc[r] \in {"store", "respond"} => built[r] # NoToken /\ built[r].version = live[r]
    /\ offered[r] \in sent \cup {NoToken}
    /\ pc[r] = "answered" => answer[r] # NoToken /\ answer[r].content >= need[r]

PublisherInv ==
    /\ TypeOK
    /\ acked <= content
    /\ \A w \in Writers : writing[w] <= content
    /\ \A p \in Processes : cache[p] # NoToken => Covers(cache[p])
    /\ \A r \in Readers : built[r] # NoToken => Covers(built[r])
    /\ \A t \in sent : Covers(t)
    /\ \A r \in Readers : ReaderInv(r)
=============================================================================
