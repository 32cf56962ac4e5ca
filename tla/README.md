# Verification of the status list service

TLA+ models of `siros-status-service`, an IETF Token Status List service written
in Go: what its processes do to the shared Postgres and to each shard's Redis,
model-checked with TLC on small instances, and theorems about the models checked
by TLAPS for every instance. Paths are relative to `src/`.

## The system

| part | state | operations | talks to |
|---|---|---|---|
| metadata store `internal/store/postgres.go` | tables `lists`, `allocations`, `issuer_usage`, in one Postgres for all shards | one statement or transaction each | |
| bitmap store `internal/store/redis.go` | `bitmap:<id>`, `version:<id>`, in one Redis per shard | `Init` (SETNX), `SetStatus` (script, then INCR), `Snapshot`, `Purge` | |
| index allocator `internal/allocator` | none: a keyed permutation of a list's positions | `Index` | |
| pool `internal/pool` | none of its own | `EnsureHealthy` (rotate, top up), `PickForAllocation` | both stores |
| ingestion `internal/ingestion` | a goroutine per request | allocate, set status, accounting | pool, both stores, publisher |
| collector `internal/gc` | a goroutine per process | archive, purge, delete | both stores |
| decoy noiser `internal/decoy` | a goroutine per process, so several per shard where the shard is a replica set (`docs/design.md:671`) | flips unallocated entries | both stores |
| publisher, debouncer `internal/publisher` | a token cache and timers per process | `PublishIfStale`, `MarkDirty`, the poll loop | bitmap store |
| verifier `internal/verifier` | none of its own | conditional GET of a list's token | metadata store, publisher |
| authorization server `internal/as`, `internal/clientassertion`, `internal/trust` | table `issuer_shard` | verify the assertion, ask the decision point, `AssignOrLookup`, token issue | Postgres, the decision point |
| tokens `internal/statuslist` | none | build and parse a list's JWT or CWT | |
| reassignment tool `tools/reassign-shard` | a list of issuers left to move | single and bulk moves | table `issuer_shard` |
| ingress `internal/ingress`, `internal/listid` | none | route by embedded shard, or by claim | ingestion |

An issuer gets a token from the authorization server, which names the issuer's
shard; the ingress proxies its requests to that shard's ingestion service, or,
for a request about an existing list, to the shard the list's identifier embeds.
Allocation picks one of the shard's ACTIVE lists, advances its cursor in a
transaction, resets the entry to VALID in Redis and answers. A full or old list
is FROZEN, later ARCHIVED, its bitmap purged, its rows deleted. Verifiers GET a
signed token of a list's bitmap, cached by version.

What is hard here: nothing locks across calls. Pool health, retries, collection
and noise all act on the rows of an earlier query; bitmap and version change in
two round trips; a list's row is visible before its bitmap exists; the sweepers
of all shards see all lists; any process may die between any two calls. The list
of hazards, each with its line and the property that covers it, is in
`PROJECT.json`.

## Modules

| module | models | proofs |
|---|---|---|
| `MetaStore` | the Postgres tables, one action per statement or transaction, and the contract `MetaSpec` of the store with its clients | `MetaStoreProofs` |
| `BitmapStore` | a Redis per shard: packed bitmaps, versions | `PackingProofs` |
| `Allocator` | the Feistel network and the cycle walk of `Index` | `AllocatorProofs` |
| `Pool` | `EnsureHealthy`, `PickForAllocation`, the rotation loop | |
| `Ingestion` | `handleAllocate`, `handleSetStatus` | |
| `GC` | `Sweep`, its three phases | |
| `Collector` | one process's `Sweep`, tick after tick, against whatever the store's contract allows the others: does collection get anywhere | |
| `Decoy` | `Sweep`, `sweepList` of the noiser | |
| `StatusListToken` | the token of a list in both forms, and how a relying party reads an entry of it | `PackingProofs` |
| `StatusService` | the composition of the above: the ingestion processes of all shards | `StatusServiceProofs`, `BitmapProofs` |
| `Publisher` | status writes against `PublishIfStale`, its cache and a verifier's answer | `VerifierProofs` |
| `StatusFeed` | what a client of one list is promised: the abstract specification | |
| `Verifier` | `handleGetList` over a list's whole life: `Publisher` composed with `MetaStore` and the collector's drop | `VerifierProofs` |
| `Debounce` | `leadingDebouncer` for one key | `DebounceProofs` |
| `Publishing` | `MarkDirty`, the debouncer's fires and the poll loop of `Run` in one process: `Debounce` composed with `Publisher` | `DebounceProofs` |
| `Sharding` | token requests from the first SELECT on, the reassignment tool, routing, `requireShard` | `ShardingProofs` |
| `TokenEndpoint` | `handleToken` up to there: client assertion and trust decision, composed with `Sharding` | `ShardingProofs` |

`MC*` modules hold the constants of the runs. An operator commented "Mutant" is
a plausible wrong version of the definition after it; no specification uses one.

### How the state corresponds to the code

*MetaStore.* A row of `lists` is a record with the column names, `Null` for a
missing row or SQL NULL. `issued` (every allocation ever committed) and `minted`
(every identifier made) are history. `Index(key, n, c)` is the allocator's
answer, `Null` where its cycle walk gives up; `IndexAssumption` says it is
injective where it is defined. `Tick` is the wall clock, one clock for Go's
`time.Now` and SQL's `now()`: skew between hosts is not modelled. Deadlines
computed in Go (`cutoff`) are compared at the moment of the query.

*BitmapStore.* A bitmap is the sequence of its bytes, with entries packed from a
byte's low end, so that the entries of several owners share a byte as in Redis.
`SetByte` is the script's read-modify-write of one byte; on a missing key its
`SETRANGE` leaves a short string, which `Snapshot` pads. A status that does not
fit in `Bits` is masked like in the script: with `LIST_BITS=1`, SUSPENDED is
stored as VALID.

*Allocator.* A key is the four round functions it makes of HMAC-SHA256, any
functions on the values of a half. `permute` splits a position of the padded
domain, runs the rounds and joins the halves; a turn of `Index`'s loop is a step,
and `trail` is a history of the values a walk has permuted. `HalfXor` is a constant,
bitwise exclusive or in the run.

*Pool, Ingestion, GC, Decoy.* A goroutine's program counter names the store call
it is about to make, and its variables hold what it read earlier. `Abandon*`,
`SweepAbandoned` and `NoiseDone` are a failing call, a cancelled request and a
process that dies. The power-of-two choice is any draw of two candidates. Sweepers
and noisers belong to processes, any number of them to a shard (`SweeperShard`,
`NoiserShard`). `SetStatus` takes lists of its own shard only: the handler does not
check that, the ingress routes so, by the shard in a list's identifier; older
identifiers are `Sharding`'s subject.

*Collector.* The environment takes any statement of `MetaNext`, those of other
collectors included, so that a sweep's rows may be archived, purged or deleted under
it. That the real processes do no more is `KeepsContract`.

*StatusListToken.* A token is a record of its signed parts. Compression, base64url
and a signature are opaque terms that only their own inverse, or the key, takes
apart; the bytes inside are `BitmapStore`'s. A reader knows a list's bytes and
width and not its size, as in the claims, and reads entries with `Get`.

*Publisher.* The bitmap is the number of scripts run on it, so that a token's
content is a number too and "holds that write" is a comparison. A client
revalidates any token that was ever sent.

*Verifier.* A GET reads the row, and then takes `Publisher`'s steps, each at its own
time, while the store's clients take any step the contract allows and a collector
drops bitmap and version any time after that is due, as often as there are
sweepers. `gone` and `scripts` are history. A write may come however late after
its handler looked at the row. The verifier's retention period is the collector's
(`internal/config/config.go:239` demands it).

*Publishing.* One process with `Publisher`'s cache, `Debounce`'s timer for the list,
and readers that are the poll loop and the goroutines of fires. A restart loses
the cache and the debouncer's state and leaves what Redis has.

*Debounce.* Time since the last stamp (`age`), the pending flag, the timer, and
callbacks that were started and have not run yet.

*Sharding.* Each statement of `AssignOrLookup` is a step. A credential is an
entry of a list with the shard of its row and the shard its identifier embeds,
`Null` for the lists older than that (`Legacy`). Tokens expire at any time.

*TokenEndpoint.* An assertion is any combination of claims and headers that the code
tells apart: issuer and subject, audience, expiry, lifetime, a JWK, a chain, both
or neither, well-formed or not, and the key that really signed it. The decision
point affirms, denies or fails. `proof` is history: who signed, and what was
affirmed in this request. A request that is refused changes nothing.

## What is checked

| run | instance | shows |
|---|---|---|
| `store` | 2 lists, 2 keys (one whose cycle walk gives up), clock to 3 | any clients that keep to the contract leave the tables consistent, and lists only move forward |
| `allocate` | 3 lists of 1 entry, 2 requests, 2 attempts | racing allocations with retries and unlocked bootstraps: attempts bounded, a full list is not tried twice, the pool overshoots by at most a width per goroutine |
| `update` | 1 list of 2 entries of 2 bits, 2 requests, 3 versions | once answered, an entry reads, in a JWT and in a CWT, as its owner last wrote, although writes may precede `Init` |
| `collect` | 1 list, 2 shards with a sweeper each, clock to 3 | sweepers acting on stale queries keep the store's contract (a refinement of `MetaSpec`) and no bitmap goes early |
| `collected` | 2 lists of 1 entry, allocated from (`max_exp` set) or frozen empty (`max_exp` NULL), a sweeper and the contract's other clients, clock to 3 | liveness: every list is archived, purged and deleted although sweeps keep failing, at either list |
| `noise` | 1 list of 1 entry, an allocating request, a pool loop, the noisers of 2 replicas, 1 version | no decoy hits an allocated entry of a list that was not ACTIVE when read, nor any answered one outside the documented gap; a decoy that no running sweep read otherwise stays revoked |
| `publish` | 1 full list to its deletion, a writer, 2 readers of one process, clock to 2 | what clients see implements `StatusFeed`: every write acknowledged before a request is in its answer, until retention is over; refused once, the list never comes back |
| `debounce` | floor of 2, a writer of 3 writes, a fire and the poll loop, restarts | triggers are never lost, fires are at least the floor apart, and every acknowledged write gets into a published token, although fires fail and writers go on |
| `sharding` | 2 issuers, 2 keys, 2 shards of which 1 is assigned, 2 requests, 2 tokens | tokens are for keys that signed and were affirmed, they name real assignments, only the tool moves an issuer, bulk moves empty a shard of all but the issuers assigned to it meanwhile, updates reach the right Redis |
| `allocator` | a list of 5 entries, padded to 16 positions, 256 keys, walks of up to 5 permutations | walks that leave the list come back to different entries, never go in circles, or give up |

Two runs show a disagreement between the code and what is written about it:

* `cross_shard_purge`: `Purged` does not mean that the bitmap has been dropped.
  Every sweeper selects the archived lists of all shards and deletes the keys in
  its own Redis, so another shard's sweeper can mark a list purged whose bitmap
  is then never dropped.
* `reassigned`: after a move from shard A to B, the ingress still routes updates
  of old credentials to A, as designed, but A's `requireShard` answers 403 to
  the only tokens the issuer can get, those for B.

Smaller disagreements, seen in the same models and not kept as runs. For a list whose
identifier embeds no shard, an update after a move goes to B, which accepts it
(ownership is in the shared Postgres, and the row's `shard_id` is not looked at) and
writes to B's Redis, while verifiers read the list from A's: `UpdateReachesList`
fails with such a list in `Legacy`, and `router.go:107` calls the fallback correct.
`allocator.go:33` says that at worst about half of the domain is out of range; with
the padding to an even number of bits it can be almost three quarters, and the
expected walk four permutations, not two. The noiser writes to ARCHIVED lists, so
that their version does change (`postgres.go:190` says it cannot); an allocation
between a list's INSERT and its `Init` leaves a short bitmap (`redis.go:123` calls
that unreachable). Every draw of a noise sweep is judged by the snapshot taken before
the first, so an INVALID decoy can change again (`decoy.go:190` says never) when the
same sweep draws its position twice, or when the noiser of another replica has a
sweep under way that read the list before: `RevokedDecoyStays` begins when no such
sweep is left. A list whose next position's cycle walk gives up rolls every
allocation back, and stays ACTIVE, picked and failing, until rotation by age freezes
it (`StuckOnlyBehindWalk`); nothing in the code skips the position. With 1-bit lists,
which `config.go:51` and the repository's `README.md:196` allow, SUSPENDED does not
fit and the script's mask stores VALID, while the PATCH is answered 204: with `Bits =
1`, `GrantedReadsOwnersWrite` fails. And on an ACTIVE list an allocation that commits
between the noiser's `IsAllocated` and its write can be overwritten: `decoy.go`
describes this race and accepts it, which is why `NoDecoyRaceOnceFrozen` is about
lists that were not ACTIVE, and why `GrantedReadsOwnersWrite` leaves out the entries
of `contested`, those reserved just then. At an age of exactly the retention period
the verifier still serves (`handlers.go:70` refuses what is older) and the collector
may already purge (`postgres.go` selects what is as old), so that a GET of that
instant, or one that read its row before and is slow, may be answered with a token of
the purged list, all VALID. `ServedUntilRetired` ends before that instant and
`GoneForGood` begins with the first refusal after it.

### Bounds

Each instance is the smallest in which its hazard happens, with one more where that
is affordable: two requests race for the same slot and a third list is left for the
retry; two sweepers overlap; two replicas' noisers overlap; two readers overlap
around one cache and a restart. `MaxTime` lets every period (of one tick each) run
out in turn. `MaxVersion`, `MaxWrites`, `MaxScripts`, `MaxTokens` and `MaxStarting`
bound counters in guards; a finished request may start over, so that they bound how
much happens at a time or in all, not the order. `publish` starts with a full, frozen
list of one expired credential (`MCInit`), a state of every list that matters to it,
where `ServedUntilRetired` is about the first tick; `VerifierProofs` starts at the
empty store. In `noise` one version is one published write: no sweep begins after it,
those under way go on, so that a second replica's sweep that began between the
first's write and its INCR meets what the first left. That owners update while
noisers run, and that entries share a byte with decoys, is left to the theorems. In
`collected` lists are created and allocated from up to `LastArrival`, so that every
period has run out within the clock; a row whose deadline lies past it is not claimed
to be collected (`Due`). In `debounce` the third write is the one that is coalesced.
In `sharding` one key signs and another may be in the header. `Symmetry` permutes
interchangeable lists, requests, writers, readers, keys and issuers in runs without
liveness. Larger instances were tried: three shards for `sharding`, two lists of two
entries with a pool loop for `allocate`.

### Fairness

`Collected` assumes that the clock runs on and the ticker fires, which the
environment and the runtime guarantee (weak fairness of `Tick` and `SweepStart`), and
strong fairness of a sweep's queries, of its `MarkPurged`, and of its statements for
each list. `Run` starts a sweep on every tick of its interval whatever became of the
last one, so that a statement is tried again and again: one that is tried infinitely
often succeeds infinitely often. This is what keeps a list from being held up by
another for ever, as a sweep returns at its first error: with a statement that fails
for good, say of a Redis that stays away, the lists behind it are not collected.
Nothing is assumed about the other processes. `EveryTriggerFires` assumes that timers
fire, goroutines that were started run, and time passes (weak fairness).
`NeverLeftStale` also assumes of the poll loop that it goes on (weak fairness of
`PollStep`: its ticker fires, and its calls return, with a result or an error) and
that not every poll of an infinite number fails. The calls' returning is an
assumption about Redis, Postgres and their clients: `Run` sets no timeout of its own.
It assumes nothing of the fires, whose failures are only logged, nor of writers: it is
stated of each acknowledged write by itself, so it does not rest on the writes coming
to an end. No run assumes that a client does anything.

## What is proved

For any number of lists, shards, issuers, requests, sizes and durations:

* `MetaStoreProofs`: the store's type invariant, `CursorMatchesAllocations`,
  `StuckOnlyBehindWalk`, `NoDoubleAllocation`, `UsageNeverDrifts`, `RetiredInOrder`,
  `OnlyMovesForward` and `KeptUntilRetired`. The inductive invariant is `MetaInv`.
  `CursorMatchesAllocations` carries the argument that an index is new: it is the
  index of a position not consumed yet, and the allocator is injective;
  `StuckOnlyBehindWalk` says what is left to go wrong. `NoDoubleAllocation` speaks of
  deleted lists too, so it needs that identifiers are never reused (`KnownLists`) and
  that what was issued and is not in the table belongs to a deleted list
  (`HistoryMatches`). `KeptUntilRetired` is about a credential's expiry, and the
  collector only looks at the list's: `MaxExpCovers` and `StampsInOrder` connect
  them. Assumed: `IndexAssumption`, and that sizes and durations are naturals.
* `StatusServiceProofs`: `KeepsContract`, that the processes of any number of shards
  implement `MetaSpec`, so that everything above holds of the service. A purge and a
  delete carry no guard of their own, and act on rows queried long before. The
  inductive invariant, `ContractInv`, says of each sweeper that what it has left to
  do is still due (`SweepInv`): due is stable, because a list leaves ACTIVE for good
  and its stamps and `max_exp` are then final (`ForwardStep` of `MetaStoreProofs`)
  while the clock runs on (`DueStays`). `ThreadInv` adds that a request works on a
  list and an expiry that were checked.

  `PoolOvershootBounded`, from `PoolInv`: every ACTIVE list of a shard is put down to
  the goroutine that created it, under a slot below the pool's width, and no two
  lists of a goroutine share a slot (`Slots`). Nobody counts such a thing in the
  code; what keeps it true is that a goroutine creates a list only after a query
  that saw fewer than a width, and its own lists that were ACTIVE then and are now
  were among them (`Counted`). Assumed: finitely many goroutines.

  `NoDecoyRaceOnceFrozen` and `RetryNeverRepeats`, from `ServiceInv`. `NoiseInv`: an
  entry that was unallocated in a list read as FROZEN or ARCHIVED stays so.
  `RetryInv`: a list that was full has not got room again, because an ACTIVE list
  has (`RoomWhileActive`: the reservation of the last slot freezes it).
* `PackingProofs`: what the packing computes, for every width, length and index.
  `StatusWritten`: the script's read-modify-write of one byte, with the extension of
  a short string, changes the entry it is for and no other. `TokensReadStored`: a
  token of either form, taken apart by its reader, who knows the bytes and the width
  only, reads at every index as the bitmap does. The arithmetic is about `\div` and
  `%` by powers of two (`FieldReplaced`: a byte is what is above a field, the field,
  and what is below it). Assumed: `Null` is none of the values it stands for the
  absence of (`TokenAssumption`).
* `BitmapProofs`: `BitmapKeptUntilRetention`: `RedisInv` and `RedisStep` show that a
  step writes one entry for a request, one for a noiser, or purges a bitmap that is
  due, and that nothing else it does to the bytes shows.

  `GrantedReadsOwnersWrite`, if `Bits` is not 1 (see above), from `EntryInv`, and
  `RevokedDecoyStays`, from its part `BitmapInv`. `WrittenInv` (in
  `StatusServiceProofs`) says who writes what: a request that is about to write holds
  an entry that was issued, of a list of its own shard, and only issued entries have
  been written to, so that a fresh reservation finds an entry no owner has written.
  `SnapInv` says what a noiser knows: the position it is about to write is
  unallocated or has become `contested`, and was not INVALID in its snapshot.
  `StoredInv` is about the bytes: an entry that has been written and is not contested
  holds what its owner wrote (`OwnersOK`). None is inductive without the others, and
  every step needs the packing, as a byte holds the entries of several owners.
  `RevokedDecoyStays` is about single steps, of any number of noisers per shard: a
  sweep that begins reads INVALID, one that read it writes elsewhere (`NoiserMoves`),
  and whoever else writes, writes another entry.

  `TypeOK`: with `CounterInv` for the attempts, and the invariants above.
* `VerifierProofs`: `FreshAfterAnswer`, from `PublisherInv`. A token's content
  may be newer than its version says, never older: every token labelled with the
  current version, or still to be labelled, has every acknowledged write. This is
  why reading the version before the snapshot is safe, and the other order would
  not be.

  `ServedUntilRetired`, `GoneForGood` and `ImplementsFeed`, from
  `VerifierInv`: until the bitmap may be dropped, `Publisher`'s invariant holds; a
  list that was refused once is minted, so that it cannot be created again, and
  stays past its retention period; a deleted list's credentials are past theirs.
  The refinement mapping shows a request's answer once it is sent, and the feed as
  retired from the moment the drop is due.
* `DebounceProofs`: `Scheduled` and `FloorRespected` for every floor, of the debouncer
  and of a process with it (`PublishingSpec`): what the writers, fires and polls of a
  process do is a step of `Debounce` or leaves it alone (`PublishingSteps`), and a
  restart loses what was owed together with the schedule.
* `AllocatorProofs`: `NoCollision` and `WalkNeverRepeats`, for every capacity,
  every key and every bound of the walk. `PermuteInjective` is the core: a round
  is injective whatever its function, and splitting and joining lose nothing.
  The rest is `AllocatorInv`: a trail starts at its own cursor, inside the list,
  and goes on through padding values only, each the image of one before it, so by
  injectivity two trails never meet and none meets itself. This justifies what
  `MetaStore` assumes of `Index` (`IndexAssumption`). Assumed: exclusive or with
  the same value is injective on halves, and a half's size is a positive natural
  whose square is at least the capacity (`AllocatorAssumption`, `XorAssumption`).
* `ShardingProofs`: `TokenNamesAssignment` from `AssignmentInv` (a request in flight
  has seen the assignment its issuer has), `OnlyTheToolMoves`, `ShardEmptied` from
  `LeftToMove` (what a run listed it still has to move, or has moved; only an issuer
  without a shard can have joined since), and, where no list is older than embedded
  shards, `UpdateReachesList`. `EndpointKeepsSharding`: the endpoint implements
  `Sharding`'s specification, so all of these hold of it. `AffirmedKeySigned`: the
  header a signature is checked with is the header the decision point is asked about
  (`VerifiedKeySigned`), and a request keeps its issuer (`IssuerKept`).

Every invariant and action property of a passing run is a theorem. Only
model-checked are the liveness properties (`Collected`, `EveryTriggerFires`,
`NeverLeftStale`), on the instances above: liveness under fairness is out of the
prover's reach. The two disagreements are counterexamples on their instances.

The proofs name `Zenon` at most leaves that need no arithmetic: it is quick there,
and the time the SMT translation of a leaf takes grows with those made before it.

## Not modelled

*Clocks and configuration.* One clock stands for Go's and Postgres's; skew between
hosts is not modelled. Configuration is read once at start and its values are the
constants; where two services must agree on one (the retention period), they do.

*Keys and bytes.* Signing keys are loaded once, from a file or an HSM. Compression,
text encoding and signatures are opaque. The Rust token library is a second
implementation of the token format for another host.

*Access tokens* are modelled by their subject, their shard claim and their expiry;
every token has the same rights, and the checks of its signature are a library's.

*No state of their own.* Metrics are never read back. The schema migration is
idempotent DDL under a Postgres lock. The edge ingress is a sample; the other tools
generate documents and load. The accounting handler only reads: `UsageNeverDrifts`
is about the count it reports. Content negotiation (406) depends on the request
alone.

*Abstractions.* The ingestion service's own publisher fills a cache that is never
served (`Get` has no caller): `Publishing` has it for what the poll loop promises.
`pool.Manager` shares one unsynchronised `rand.Rand` among goroutines: any draw is
allowed, a corrupted generator is not modelled. The reassignment tool runs once at
a time.
