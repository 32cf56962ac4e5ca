-------------------------------- MODULE Decoy --------------------------------
(***************************************************************************)
(* The decoy noisers (internal/decoy/decoy.go), one per ingestion process  *)
(* and so several per shard where a shard is run as replicas.  A noiser    *)
(* flips entries that no allocation has consumed, chosen against one       *)
(* reading of the list's row and one snapshot of its bitmap, each flip     *)
(* re-checked against the allocations table in a query of its own just     *)
(* before the write.                                                       *)
(***************************************************************************)
EXTENDS BitmapStore, Functions

CONSTANTS
    Noisers,        \* the processes with DECOY_NOISE_RATE > 0
    NoiserShard     \* the shard each of them serves, SHARD_ID

ASSUME NoisersAssumption == NoiserShard \in [Noisers -> Shards] /\ Null \notin ListIDs

VARIABLES
    nstate,     \* where each noiser is
    noise,      \* the rows of its NoiseLists query still to be swept
    target,     \* the list being swept
    snap,       \* its bitmap as sweepList read it
    left,       \* the flips left to try in it
    flip        \* the flip about to be written

decoyVars == <<nstate, noise, target, snap, left, flip>>

NoFlip == [idx |-> 0, status |-> VALID]

DecoyInit ==
    /\ nstate = [g \in Noisers |-> "idle"]
    /\ noise = [g \in Noisers |-> <<>>]
    /\ target = [g \in Noisers |-> Null]
    /\ snap = [g \in Noisers |-> <<>>]
    /\ left = [g \in Noisers |-> 0]
    /\ flip = [g \in Noisers |-> NoFlip]

NGoto(g, from, to) == nstate[g] = from /\ nstate' = [nstate EXCEPT ![g] = to]

\* sweepList returns at once for a row whose positions are all allocated.
NoiseQuery(g) ==
    LET Noisable == {l \in NoiseLists(NoiserShard[g]) : lists[l].cursor < lists[l].size} IN
    /\ NGoto(g, "idle", "sweep")
    /\ noise' = [noise EXCEPT ![g] = Restrict(lists, Noisable)]
    /\ UNCHANGED <<target, snap, left, flip, metaVars, redisVars>>

\* sweepList up to the snapshot: count flips among the unallocated positions.
\* With a rate of at most 1, count is at most their number.
NoiseSweepList(g, l, count) ==
    /\ NGoto(g, "sweep", "pick")
    /\ l \in DOMAIN noise[g]
    /\ version[NoiserShard[g]][l] < MaxVersion
    /\ count \in 1 .. noise[g][l].size - noise[g][l].cursor
    /\ target' = [target EXCEPT ![g] = l]
    /\ snap' = [snap EXCEPT ![g] = Snapshot(NoiserShard[g], l, noise[g][l].size)]
    /\ left' = [left EXCEPT ![g] = count]
    /\ UNCHANGED <<noise, flip, metaVars, redisVars>>

\* Mutant: a decoy may be taken back from INVALID as it may from SUSPENDED.
nextDecoyStatusLifted(cur) ==
    IF cur = VALID THEN {INVALID, SUSPENDED} ELSE {VALID, cur}

nextDecoyStatus(cur) ==
    CASE cur = VALID -> {INVALID, SUSPENDED}
      [] cur = SUSPENDED -> {VALID, SUSPENDED}
      [] OTHER -> {cur}

\* Mutant: the cursor read at the top of the sweep is good enough.
NoisePickUnchecked(g, pos, next) ==
    LET row == noise[g][target[g]]
        idx == Index(row.fpe_key, row.size, pos) IN
    /\ NGoto(g, "pick", "write")
    /\ left[g] > 0
    /\ pos \in row.cursor .. row.size - 1
    /\ idx # Null
    /\ next \in nextDecoyStatus(Get(snap[g], idx, Bits)) \ {Get(snap[g], idx, Bits)}
    /\ flip' = [flip EXCEPT ![g] = [idx |-> idx, status |-> next]]
    /\ UNCHANGED <<noise, target, snap, left, metaVars, redisVars>>

\* The draw of a position, the status it shall get, and the IsAllocated query.
NoisePick(g, pos, next) ==
    LET row == noise[g][target[g]]
        idx == Index(row.fpe_key, row.size, pos) IN
    /\ nstate[g] = "pick"
    /\ left[g] > 0
    /\ pos \in row.cursor .. row.size - 1
    /\ idx # Null
    /\ next \in nextDecoyStatus(Get(snap[g], idx, Bits))
    /\ IF next = Get(snap[g], idx, Bits) \/ IsAllocated(target[g], idx)
       THEN left' = [left EXCEPT ![g] = @ - 1] /\ UNCHANGED <<nstate, flip>>
       ELSE /\ nstate' = [nstate EXCEPT ![g] = "write"]
            /\ flip' = [flip EXCEPT ![g] = [idx |-> idx, status |-> next]]
            /\ UNCHANGED left
    /\ UNCHANGED <<noise, target, snap, metaVars, redisVars>>

NoiseWrite(g) ==
    /\ NGoto(g, "write", "bump")
    /\ SetByte(NoiserShard[g], target[g], flip[g].idx, flip[g].status)
    /\ flip' = [flip EXCEPT ![g] = NoFlip]
    /\ UNCHANGED <<noise, target, snap, left, metaVars>>

NoiseBump(g) ==
    /\ NGoto(g, "bump", "pick")
    /\ Incr(NoiserShard[g], target[g])
    /\ left' = [left EXCEPT ![g] = @ - 1]
    /\ UNCHANGED <<noise, target, snap, flip, metaVars>>

\* sweepList returns, or fails at any of its calls, and Sweep goes on with the
\* next list; one with a count of 0 is skipped.
NoiseNextList(g) ==
    /\ nstate[g] \notin {"idle", "sweep"}
    /\ nstate' = [nstate EXCEPT ![g] = "sweep"]
    /\ noise' = [noise EXCEPT ![g] = Restrict(@, DOMAIN @ \ {target[g]})]
    /\ target' = [target EXCEPT ![g] = Null]
    /\ snap' = [snap EXCEPT ![g] = <<>>]
    /\ left' = [left EXCEPT ![g] = 0]
    /\ flip' = [flip EXCEPT ![g] = NoFlip]
    /\ UNCHANGED <<metaVars, redisVars>>

\* Sweep returns, every other list skipped, or the process dies.
NoiseDone(g) ==
    /\ nstate[g] # "idle"
    /\ nstate' = [nstate EXCEPT ![g] = "idle"]
    /\ noise' = [noise EXCEPT ![g] = <<>>]
    /\ target' = [target EXCEPT ![g] = Null]
    /\ snap' = [snap EXCEPT ![g] = <<>>]
    /\ left' = [left EXCEPT ![g] = 0]
    /\ flip' = [flip EXCEPT ![g] = NoFlip]
    /\ UNCHANGED <<metaVars, redisVars>>
=============================================================================
