------------------------------ MODULE Sharding ------------------------------
(***************************************************************************)
(* Which shard an issuer's requests go to: the authorization server's      *)
(* assignment table (internal/as), the reassignment tool                   *)
(* (tools/reassign-shard), the claim-routed ingress (internal/ingress) and *)
(* the ingestion services' own check of the claim (internal/ingestion).    *)
(*                                                                         *)
(* A credential is an allocated entry of some list: it has the shard of    *)
(* the list's row, whose Redis verifiers read, and the shard the list's    *)
(* identifier embeds, Null when the list predates that scheme.             *)
(***************************************************************************)
EXTENDS Integers, Sequences, FiniteSets, Functions

CONSTANTS
    Issuers, Shards, Credentials,
    SHARDS,         \* the shards the authorization server assigns, in order
    HashOf,         \* the hash of an issuer's identifier, a natural number
    Backends,       \* the shards the ingress has a backend for
    Requests,       \* token requests in flight
    Legacy,         \* the credentials in lists older than embedded shards
    TargetLists,    \* the -to arguments the tool may be run with
    MaxTokens,      \* bound on the tokens in use at a time
    Null

ASSUME ShardingAssumption ==
    /\ SHARDS \in Seq(Shards) /\ SHARDS # <<>>
    /\ HashOf \in [Issuers -> Nat]
    /\ Backends \subseteq Shards /\ Legacy \subseteq Credentials
    /\ TargetLists \subseteq Seq(Shards) /\ <<>> \notin TargetLists
    /\ MaxTokens \in Nat /\ Null \notin Shards \cup Issuers

VARIABLES
    issuer_shard,   \* the table: Issuers -> its shard, or Null
    tokens,         \* the access tokens not expired yet
    pc, issuer, shard,  \* by token request: where it is, for whom, the shard read
    seen,           \* history: the shards its issuer had while it ran
    tool,           \* the tool's run: its issuers, those left to move, its arguments
    credential,     \* Credentials -> [issuer, shard, embedded], or Null
    updated         \* history: the shards in whose Redis it was updated

asVars == <<pc, issuer, shard>>
vars == <<issuer_shard, tokens, pc, issuer, shard, seen, tool, credential, updated>>

NoTool == [from |-> Null, issuers |-> {}, left |-> <<>>, moved |-> 0, targets |-> <<>>]

\* Nothing is assigned but the issuers of the lists that are there already.
Init ==
    /\ issuer_shard \in [Issuers -> Shards \cup {Null}]
    /\ credential \in [Credentials -> [issuer : Issuers, shard : Shards, embedded : {Null}]
                                      \cup {Null}]
    /\ \A c \in Credentials : credential[c] # Null <=> c \in Legacy
    /\ \A i \in Issuers :
           issuer_shard[i] # Null <=> \E c \in Legacy : credential[c].issuer = i
    /\ \A c \in Legacy : credential[c].shard = issuer_shard[credential[c].issuer]
    /\ tokens = {}
    /\ pc = [r \in Requests |-> "idle"]
    /\ issuer = [r \in Requests |-> Null]
    /\ shard = [r \in Requests |-> Null]
    /\ seen = [r \in Requests |-> {}]
    /\ tool = NoTool
    /\ updated = [c \in Credentials |-> {}]

-----------------------------------------------------------------------------
(* The authorization server: handleToken from AssignOrLookup on.           *)

\* A write to the table, seen by the requests in flight.
Assign(i, s) ==
    /\ issuer_shard' = [issuer_shard EXCEPT ![i] = s]
    /\ seen' = [r \in Requests |-> IF issuer[r] = i THEN seen[r] \cup {s} ELSE seen[r]]

hashIndex(i) == HashOf[i] % Len(SHARDS)

\* The assertion has been verified and trusted (TokenEndpoint); the first SELECT.
Lookup(r, i) ==
    /\ pc[r] = "idle"
    /\ pc' = [pc EXCEPT ![r] = IF issuer_shard[i] # Null THEN "issue" ELSE "insert"]
    /\ issuer' = [issuer EXCEPT ![r] = i]
    /\ shard' = [shard EXCEPT ![r] = issuer_shard[i]]
    /\ seen' = [seen EXCEPT ![r] = {issuer_shard[i]} \ {Null}]
    /\ UNCHANGED <<issuer_shard, tokens, tool, credential, updated>>

\* Mutant: ON CONFLICT DO UPDATE.
InsertOrReplace(r) ==
    /\ pc[r] = "insert"
    /\ pc' = [pc EXCEPT ![r] = "reselect"]
    /\ Assign(issuer[r], SHARDS[hashIndex(issuer[r]) + 1])
    /\ UNCHANGED <<tokens, issuer, shard, tool, credential, updated>>

\* INSERT ... ON CONFLICT DO NOTHING of the hashed candidate.
Insert(r) ==
    /\ pc[r] = "insert"
    /\ pc' = [pc EXCEPT ![r] = "reselect"]
    /\ IF issuer_shard[issuer[r]] = Null
       THEN Assign(issuer[r], SHARDS[hashIndex(issuer[r]) + 1])
       ELSE UNCHANGED <<issuer_shard, seen>>
    /\ UNCHANGED <<tokens, issuer, shard, tool, credential, updated>>

\* Mutant: trust the candidate.
TrustCandidate(r) ==
    /\ pc[r] = "reselect"
    /\ pc' = [pc EXCEPT ![r] = "issue"]
    /\ shard' = [shard EXCEPT ![r] = SHARDS[hashIndex(issuer[r]) + 1]]
    /\ UNCHANGED <<issuer_shard, tokens, issuer, seen, tool, credential, updated>>

Reselect(r) ==
    /\ pc[r] = "reselect"
    /\ pc' = [pc EXCEPT ![r] = "issue"]
    /\ shard' = [shard EXCEPT ![r] = issuer_shard[issuer[r]]]
    /\ UNCHANGED <<issuer_shard, tokens, issuer, seen, tool, credential, updated>>

\* The request is over: answered, failed or cancelled.
Over(r) ==
    /\ pc' = [pc EXCEPT ![r] = "idle"]
    /\ issuer' = [issuer EXCEPT ![r] = Null]
    /\ shard' = [shard EXCEPT ![r] = Null]
    /\ seen' = [seen EXCEPT ![r] = {}]
    /\ UNCHANGED <<issuer_shard, tool, credential, updated>>

Issue(r) ==
    /\ pc[r] = "issue"
    /\ Cardinality(tokens) < MaxTokens
    /\ tokens' = tokens \cup {[sub |-> issuer[r], tenant_id |-> shard[r]]}
    /\ Over(r)

TokenRequestFails(r) ==
    /\ pc[r] # "idle"
    /\ Over(r)
    /\ UNCHANGED tokens

-----------------------------------------------------------------------------
(* The reassignment tool: one issuer, or every issuer on a shard.          *)

\* ListIssuersOnShard, in the identifiers' order: any order will do here.
StartBulk(from, order, targets) ==
    /\ tool.left = <<>>
    /\ Range(order) = {i \in Issuers : issuer_shard[i] = from}
    /\ IsInjective(order)
    /\ tool' = [from |-> from, issuers |-> Range(order), left |-> order, moved |-> 0,
                targets |-> targets]
    /\ UNCHANGED <<issuer_shard, tokens, asVars, seen, credential, updated>>

StartSingle(i, targets) ==
    /\ tool.left = <<>>
    /\ tool' = [from |-> Null, issuers |-> {i}, left |-> <<i>>, moved |-> 0,
                targets |-> targets]
    /\ UNCHANGED <<issuer_shard, tokens, asVars, seen, credential, updated>>

\* Mutant: the counter is advanced twice a turn, so every other issuer is skipped.
ReassignEveryOther ==
    /\ tool.left # <<>>
    /\ Assign(Head(tool.left), tool.targets[(tool.moved % Len(tool.targets)) + 1])
    /\ tool' = [tool EXCEPT !.left = SubSeq(@, 3, Len(@)), !.moved = @ + 1]
    /\ UNCHANGED <<tokens, asVars, credential, updated>>

\* Reassign of the next issuer: an upsert, whatever the row says by now.
Reassign ==
    /\ tool.left # <<>>
    /\ Assign(Head(tool.left), tool.targets[(tool.moved % Len(tool.targets)) + 1])
    /\ tool' = [tool EXCEPT !.left = Tail(@), !.moved = @ + 1]
    /\ UNCHANGED <<tokens, asVars, credential, updated>>

\* The tool fails or is stopped half-way.
ToolStops ==
    /\ tool # NoTool
    /\ tool' = NoTool
    /\ UNCHANGED <<issuer_shard, tokens, asVars, seen, credential, updated>>

-----------------------------------------------------------------------------
(* Requests through the ingress: ServeHTTP, then the shard's service.      *)

\* The shard a list's identifier embeds, Null if it is older than that.
ParseShard(c) == credential[c].embedded

HasBackend(s) == s \in Backends

\* Mutant: every request goes where the token says.
RouteByClaim(token, c) == token.tenant_id

\* The backend of a request that names a list: the shard its identifier
\* embeds, if there is a backend for it, else the token's claim.
RouteFor(token, c) ==
    LET s == ParseShard(c) IN
    IF s # Null /\ HasBackend(s) THEN s ELSE token.tenant_id

requireShard(token, s) == token.tenant_id = s

\* A PATCH is proxied, passes requireShard and CheckOwnership.
Accepted(token, c) ==
    /\ HasBackend(RouteFor(token, c))
    /\ requireShard(token, RouteFor(token, c))
    /\ credential[c].issuer = token.sub

Allocate(token, c) ==
    /\ credential[c] = Null
    /\ HasBackend(token.tenant_id)
    /\ credential' = [credential EXCEPT ![c] =
            [issuer |-> token.sub, shard |-> token.tenant_id, embedded |-> token.tenant_id]]
    /\ UNCHANGED <<issuer_shard, tokens, asVars, seen, tool, updated>>

\* The service writes to its own Redis; it does not look at the row's shard.
SetStatus(token, c) ==
    /\ credential[c] # Null
    /\ Accepted(token, c)
    /\ updated' = [updated EXCEPT ![c] = @ \cup {RouteFor(token, c)}]
    /\ UNCHANGED <<issuer_shard, tokens, asVars, seen, tool, credential>>

\* ACCESS_TOKEN_TTL is over for a token, at any time after its issue.
Expire(token) ==
    /\ token \in tokens
    /\ tokens' = tokens \ {token}
    /\ UNCHANGED <<issuer_shard, asVars, seen, tool, credential, updated>>

Continue ==
    \/ \E r \in Requests : Insert(r) \/ Reselect(r) \/ Issue(r) \/ TokenRequestFails(r)
    \/ \E targets \in TargetLists :
        \/ \E i \in Issuers : StartSingle(i, targets)
        \/ \E from \in Shards, n \in 1 .. Cardinality(Issuers) :
               \E order \in [1 .. n -> Issuers] : StartBulk(from, order, targets)
    \/ Reassign
    \/ ToolStops
    \/ \E token \in tokens :
        \/ Expire(token)
        \/ \E c \in Credentials : Allocate(token, c) \/ SetStatus(token, c)

Next == Continue \/ \E r \in Requests, i \in Issuers : Lookup(r, i)

Spec == Init /\ [][Next]_vars

-----------------------------------------------------------------------------
TypeOK ==
    /\ issuer_shard \in [Issuers -> Shards \cup {Null}]
    /\ tokens \subseteq [sub : Issuers, tenant_id : Shards]
    /\ pc \in [Requests -> {"idle", "insert", "reselect", "issue"}]
    /\ issuer \in [Requests -> Issuers \cup {Null}]
    /\ shard \in [Requests -> Shards \cup {Null}]
    /\ seen \in [Requests -> SUBSET Shards]
    /\ tool \in [from : Shards \cup {Null}, issuers : SUBSET Issuers, left : Seq(Issuers),
                 moved : Nat, targets : Seq(Shards)]
    /\ credential \in [Credentials -> [issuer : Issuers, shard : Shards,
                                       embedded : Shards \cup {Null}] \cup {Null}]
    /\ updated \in [Credentials -> SUBSET Shards]

\* A token names a shard its issuer was assigned to while the request for it
\* ran, although the assignment is read, written and read back in separate
\* statements next to other requests and the tool (as/shard.go:62-92).
TokenNamesAssignment ==
    \A r \in Requests : pc[r] = "issue" => shard[r] \in seen[r]

\* "sticks each issuer to one shard for life" (as/shard.go:25-27), short of a
\* reassignment: no token request moves an issuer that has a shard.
OnlyTheToolMoves ==
    [][\A i \in Issuers :
           issuer_shard[i] # Null /\ issuer_shard'[i] # issuer_shard[i] =>
               tool.left # <<>> /\ i = Head(tool.left) /\ tool'.left = Tail(tool.left)]_vars

\* Emptying a shard works: once a bulk run is through, every issuer its query
\* listed is elsewhere, whatever was requested meanwhile.  One that is on the
\* shard then was assigned to it after the query, which takes that the shard is
\* still in SHARDS (reassign-shard/main.go:107-146, docs/design.md:1209-1216).
ShardEmptied ==
    tool.from # Null /\ tool.left = <<>> /\ tool.from \notin Range(tool.targets) =>
        \A i \in Issuers : issuer_shard[i] = tool.from =>
            i \notin tool.issuers /\ tool.from \in Range(SHARDS)

\* An update answered 204 is in the Redis that verifiers read the list from
\* (ingress/router.go:98-117, ingestion/handlers.go:191-195).  It needs that
\* every identifier embeds its shard: for an older one the ingress falls back
\* on the token's claim, which after a reassignment names another shard.
UpdateReachesList ==
    \A c \in Credentials : credential[c] # Null => updated[c] \subseteq {credential[c].shard}

\* "already-allocated credentials are unaffected regardless"
\* (reassign-shard/main.go:142-143): an issuer with a token of its current
\* shard can update every credential it was issued.
AllocatedUnaffected ==
    \A t \in tokens, c \in Credentials :
        credential[c] # Null /\ credential[c].issuer = t.sub /\ t.tenant_id = issuer_shard[t.sub]
            => Accepted(t, c)

-----------------------------------------------------------------------------
(* What makes TokenNamesAssignment and UpdateReachesList inductive.        *)

\* A request in flight has seen the assignment its issuer has, if any, and
\* there is one once its INSERT is through.
SeenCurrent ==
    \A r \in Requests : pc[r] # "idle" =>
        /\ issuer[r] \in Issuers
        /\ issuer_shard[issuer[r]] # Null => issuer_shard[issuer[r]] \in seen[r]
        /\ pc[r] = "reselect" => issuer_shard[issuer[r]] # Null

ToolHasTarget == tool.left # <<>> => tool.targets # <<>>

AssignmentInv == TypeOK /\ SeenCurrent /\ ToolHasTarget /\ TokenNamesAssignment

\* A bulk run still has every issuer on its shard to move, but those that a
\* token request has assigned to it since; its own had a shard by then.
LeftToMove ==
    tool.from # Null /\ tool.from \notin Range(tool.targets) =>
        /\ \A i \in tool.issuers : issuer_shard[i] # Null
        /\ \A i \in Issuers : issuer_shard[i] = tool.from =>
               \/ i \in Range(tool.left)
               \/ i \notin tool.issuers /\ tool.from \in Range(SHARDS)

\* A list made since identifiers embed their shard is on that shard, which
\* has a backend; nothing is updated before it is allocated.
EmbedsOwnShard ==
    \A c \in Credentials :
        IF credential[c] = Null
        THEN updated[c] = {}
        ELSE /\ credential[c].embedded = credential[c].shard
             /\ credential[c].embedded \in Backends
=============================================================================
