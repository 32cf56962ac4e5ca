--------------------------- MODULE ShardingProofs ---------------------------
(***************************************************************************)
(* What Sharding's runs check of shard assignment and routing, for every   *)
(* number of issuers, shards, requests and credentials; and that the token *)
(* endpoint keeps to it, its tokens being for affirmed keys.               *)
(***************************************************************************)
EXTENDS TokenEndpoint, SequenceTheorems, TLAPS

\* The hashed candidate of a new issuer is one of the configured shards.
LEMMA CandidateConfigured ==
    ASSUME NEW i \in Issuers
    PROVE  /\ SHARDS[hashIndex(i) + 1] \in Shards
           /\ SHARDS[hashIndex(i) + 1] \in Range(SHARDS)
<1>1. Len(SHARDS) \in Nat \ {0} /\ HashOf[i] \in Nat
  BY ShardingAssumption
<1>2. hashIndex(i) + 1 \in 1 .. Len(SHARDS)
  BY <1>1 DEF hashIndex
<1>3. QED
  BY <1>2, ShardingAssumption DEF Range

\* The target of the tool's next move is one of its arguments.
LEMMA TargetGiven ==
    ASSUME NEW targets \in Seq(Shards), targets # <<>>, NEW n \in Nat
    PROVE  /\ targets[(n % Len(targets)) + 1] \in Shards
           /\ targets[(n % Len(targets)) + 1] \in Range(targets)
<1>1. Len(targets) \in Nat \ {0}
  OBVIOUS
<1>2. (n % Len(targets)) + 1 \in 1 .. Len(targets)
  BY <1>1
<1>3. QED
  BY <1>2 DEF Range

\* What is in a list is its head or in its tail.
LEMMA RangeHeadTail ==
    ASSUME NEW S, NEW q \in Seq(S), q # <<>>
    PROVE  \A x \in Range(q) : x = Head(q) \/ x \in Range(Tail(q))
<1> SUFFICES ASSUME NEW k \in DOMAIN q, q[k] # Head(q)
             PROVE  q[k] \in Range(Tail(q))
  BY Zenon DEF Range
<1>1. k \in 1 .. Len(q) /\ Len(q) \in Nat
  OBVIOUS
<1>2. k # 1
  <2>1. Head(q) = q[1]
    OBVIOUS
  <2>2. QED
    BY <2>1, Zenon
<1>3. k - 1 \in 1 .. Len(Tail(q)) /\ Tail(q)[k - 1] = q[(k - 1) + 1]
  BY <1>1, <1>2, HeadTailProperties
<1>4. DOMAIN Tail(q) = 1 .. Len(Tail(q)) /\ (k - 1) + 1 = k
  BY <1>1, HeadTailProperties
<1>5. QED
  BY <1>3, <1>4, Zenon DEF Range

\* A write to the table keeps the types, and every request in flight has seen
\* the result.
LEMMA AssignSeen ==
    ASSUME TypeOK, SeenCurrent, NEW i \in Issuers, NEW s \in Shards, Assign(i, s)
    PROVE  /\ issuer_shard' \in [Issuers -> Shards \cup {Null}]
           /\ issuer_shard'[i] = s
           /\ seen' \in [Requests -> SUBSET Shards]
           /\ \A j \in Issuers : issuer_shard[j] # Null => issuer_shard'[j] # Null
           /\ \A r \in Requests :
                /\ seen[r] \subseteq seen'[r]
                /\ pc[r] # "idle" /\ issuer_shard'[issuer[r]] # Null
                       => issuer_shard'[issuer[r]] \in seen'[r]
BY ShardingAssumption DEF TypeOK, SeenCurrent, Assign

-----------------------------------------------------------------------------

LEMMA AssignmentInit == Init => AssignmentInv
<1> SUFFICES ASSUME Init PROVE AssignmentInv
  OBVIOUS
<1>1. tool \in [from : Shards \cup {Null}, issuers : SUBSET Issuers, left : Seq(Issuers),
                moved : Nat, targets : Seq(Shards)]
  BY DEF Init, NoTool
<1>2. credential \in [Credentials -> [issuer : Issuers, shard : Shards,
                                      embedded : Shards \cup {Null}] \cup {Null}]
  BY Zenon DEF Init
<1>3. TypeOK
  BY <1>1, <1>2, Zenon DEF Init, TypeOK
<1>4. QED
  BY <1>3, Zenon
  DEF Init, NoTool, AssignmentInv, SeenCurrent, ToolHasTarget, TokenNamesAssignment

LEMMA AssignmentStep == AssignmentInv /\ [Next]_vars => AssignmentInv'
<1> SUFFICES ASSUME AssignmentInv, [Next]_vars PROVE AssignmentInv'
  OBVIOUS
<1> USE ShardingAssumption
<1> USE DEF AssignmentInv
<1>1. ASSUME NEW r \in Requests, NEW i \in Issuers, Lookup(r, i) PROVE AssignmentInv'
  <2>1. TypeOK'
    BY <1>1, Zenon DEF TypeOK, Lookup
  <2>2. SeenCurrent' /\ TokenNamesAssignment'
    BY <1>1, Zenon DEF TypeOK, Lookup, SeenCurrent, TokenNamesAssignment
  <2>3. ToolHasTarget'
    BY <1>1, Zenon DEF Lookup, ToolHasTarget
  <2>4. QED
    BY <2>1, <2>2, <2>3, Zenon
<1>2. ASSUME NEW r \in Requests, Insert(r) PROVE AssignmentInv'
  <2>1. issuer[r] \in Issuers /\ pc[r] # "idle"
    BY <1>2, Zenon DEF Insert, SeenCurrent
  <2>2. ToolHasTarget'
    BY <1>2, Zenon DEF Insert, ToolHasTarget
  <2>3. CASE issuer_shard[issuer[r]] = Null
    <3>1. Assign(issuer[r], SHARDS[hashIndex(issuer[r]) + 1])
      BY <1>2, <2>3, Zenon DEF Insert
    <3>2. SHARDS[hashIndex(issuer[r]) + 1] \in Shards
      BY <2>1, CandidateConfigured, Zenon
    <3>3. TypeOK'
      BY <1>2, <2>1, <3>1, <3>2, AssignSeen, Zenon DEF TypeOK, Insert
    <3>4. SeenCurrent' /\ TokenNamesAssignment'
      BY <1>2, <2>1, <3>1, <3>2, AssignSeen
      DEF TypeOK, Insert, SeenCurrent, TokenNamesAssignment
    <3>5. QED
      BY <2>2, <3>3, <3>4, Zenon
  <2>4. CASE issuer_shard[issuer[r]] # Null
    <3>1. TypeOK'
      BY <1>2, <2>4, Zenon DEF TypeOK, Insert
    <3>2. SeenCurrent' /\ TokenNamesAssignment'
      BY <1>2, <2>4, Zenon DEF TypeOK, Insert, SeenCurrent, TokenNamesAssignment
    <3>3. QED
      BY <2>2, <3>1, <3>2, Zenon
  <2>5. QED
    BY <2>3, <2>4, Zenon
<1>3. ASSUME NEW r \in Requests, Reselect(r) PROVE AssignmentInv'
  <2>1. issuer[r] \in Issuers /\ issuer_shard[issuer[r]] \in seen[r]
    BY <1>3, Zenon DEF Reselect, SeenCurrent
  <2>2. TypeOK'
    BY <1>3, <2>1, Zenon DEF TypeOK, Reselect
  <2>3. SeenCurrent' /\ TokenNamesAssignment'
    BY <1>3, <2>1, Zenon DEF TypeOK, Reselect, SeenCurrent, TokenNamesAssignment
  <2>4. ToolHasTarget'
    BY <1>3, Zenon DEF Reselect, ToolHasTarget
  <2>5. QED
    BY <2>2, <2>3, <2>4, Zenon
<1>4. ASSUME NEW r \in Requests, Over(r),
             tokens' \subseteq [sub : Issuers, tenant_id : Shards]
      PROVE  AssignmentInv'
  <2>1. TypeOK'
    BY <1>4, Zenon DEF TypeOK, Over
  <2>2. SeenCurrent' /\ TokenNamesAssignment'
    BY <1>4, Zenon DEF TypeOK, Over, SeenCurrent, TokenNamesAssignment
  <2>3. ToolHasTarget'
    BY <1>4, Zenon DEF Over, ToolHasTarget
  <2>4. QED
    BY <2>1, <2>2, <2>3, Zenon
<1>5. ASSUME NEW r \in Requests, Issue(r) PROVE AssignmentInv'
  <2>1. issuer[r] \in Issuers /\ shard[r] \in Shards
    BY <1>5, Zenon DEF Issue, TypeOK, SeenCurrent, TokenNamesAssignment
  <2>2. tokens' \subseteq [sub : Issuers, tenant_id : Shards]
    <3>1. [sub |-> issuer[r], tenant_id |-> shard[r]] \in [sub : Issuers, tenant_id : Shards]
      BY <2>1, Zenon
    <3>2. tokens \subseteq [sub : Issuers, tenant_id : Shards]
      BY Zenon DEF TypeOK
    <3>3. tokens' = tokens \cup {[sub |-> issuer[r], tenant_id |-> shard[r]]}
      BY <1>5, Zenon DEF Issue
    <3>4. QED
      BY <3>1, <3>2, <3>3, Zenon
  <2>3. QED
    BY <1>4, <1>5, <2>2, Zenon DEF Issue
<1>6. ASSUME NEW r \in Requests, TokenRequestFails(r) PROVE AssignmentInv'
  BY <1>4, <1>6, Zenon DEF TokenRequestFails, TypeOK
<1>7. ASSUME UNCHANGED <<issuer_shard, asVars, seen, updated>>,
             tokens' \subseteq tokens,
             tool' \in [from : Shards \cup {Null}, issuers : SUBSET Issuers, left : Seq(Issuers),
                        moved : Nat, targets : Seq(Shards)],
             ToolHasTarget',
             credential' \in [Credentials -> [issuer : Issuers, shard : Shards,
                                              embedded : Shards \cup {Null}] \cup {Null}]
      PROVE  AssignmentInv'
  <2>1. TypeOK'
    BY <1>7, Zenon DEF TypeOK, asVars
  <2>2. SeenCurrent' /\ TokenNamesAssignment'
    BY <1>7, Zenon DEF asVars, SeenCurrent, TokenNamesAssignment
  <2>3. QED
    BY <1>7, <2>1, <2>2, Zenon
<1>8. ASSUME NEW from \in Shards, NEW n \in 1 .. Cardinality(Issuers),
             NEW order \in [1 .. n -> Issuers], NEW targets \in TargetLists,
             StartBulk(from, order, targets)
      PROVE  AssignmentInv'
  <2>1. order \in Seq(Issuers) /\ targets \in Seq(Shards) /\ targets # <<>>
    <3>1. n \in Nat
      OBVIOUS
    <3>2. QED
      BY <3>1
  <2>2. QED
    BY <1>7, <1>8, <2>1, Zenon DEF StartBulk, ToolHasTarget, TypeOK
<1>9. ASSUME NEW i \in Issuers, NEW targets \in TargetLists, StartSingle(i, targets)
      PROVE  AssignmentInv'
  <2>1. targets \in Seq(Shards) /\ targets # <<>> /\ <<i>> \in Seq(Issuers)
    OBVIOUS
  <2>2. tool' \in [from : Shards \cup {Null}, issuers : SUBSET Issuers, left : Seq(Issuers),
                   moved : Nat, targets : Seq(Shards)] /\ ToolHasTarget'
    BY <1>9, <2>1, Zenon DEF StartSingle, ToolHasTarget
  <2>3. QED
    BY <1>7, <1>9, <2>2, Zenon DEF StartSingle, TypeOK
<1>10. ASSUME Reassign PROVE AssignmentInv'
  <2> DEFINE i == Head(tool.left)
             s == tool.targets[(tool.moved % Len(tool.targets)) + 1]
  <2>1. i \in Issuers /\ s \in Shards
    <3>1. /\ tool.left \in Seq(Issuers) /\ tool.left # <<>>
          /\ tool.targets \in Seq(Shards) /\ tool.targets # <<>>
          /\ tool.moved \in Nat
      BY <1>10, Zenon DEF Reassign, TypeOK, ToolHasTarget
    <3>2. i \in Issuers
      BY <3>1
    <3>3. s \in Shards
      BY <3>1, TargetGiven, Zenon
    <3>4. QED
      BY <3>2, <3>3, Zenon
  <2>2. Assign(i, s)
    BY <1>10, Zenon DEF Reassign
  <2> HIDE DEF i, s
  <2>3. tool' \in [from : Shards \cup {Null}, issuers : SUBSET Issuers, left : Seq(Issuers),
                   moved : Nat, targets : Seq(Shards)] /\ ToolHasTarget'
    <3>1. Tail(tool.left) \in Seq(Issuers)
      BY <1>10 DEF Reassign, TypeOK
    <3>2. tool' = [from |-> tool.from, issuers |-> tool.issuers, left |-> Tail(tool.left),
                   moved |-> tool.moved + 1, targets |-> tool.targets]
      BY <1>10, Zenon DEF Reassign, TypeOK
    <3>3. tool.targets # <<>>
      BY <1>10, Zenon DEF Reassign, ToolHasTarget
    <3>4. /\ tool.from \in Shards \cup {Null} /\ tool.moved + 1 \in Nat
          /\ tool.issuers \subseteq Issuers /\ tool.targets \in Seq(Shards)
      BY DEF TypeOK
    <3>5. QED
      BY <3>1, <3>2, <3>3, <3>4, Zenon DEF ToolHasTarget
  <2>4. TypeOK'
    BY <1>10, <2>1, <2>2, <2>3, AssignSeen, Zenon DEF Reassign, TypeOK, asVars
  <2>5. SeenCurrent' /\ TokenNamesAssignment'
    BY <1>10, <2>1, <2>2, AssignSeen, Zenon
    DEF Reassign, TypeOK, asVars, SeenCurrent, TokenNamesAssignment
  <2>6. QED
    BY <2>3, <2>4, <2>5, Zenon
<1>11. ASSUME ToolStops PROVE AssignmentInv'
  <2>1. tool' = NoTool
    BY <1>11, Zenon DEF ToolStops
  <2>2. tool' \in [from : Shards \cup {Null}, issuers : SUBSET Issuers, left : Seq(Issuers),
                   moved : Nat, targets : Seq(Shards)]
    BY <2>1 DEF NoTool
  <2>3. ToolHasTarget'
    BY <2>1, Zenon DEF NoTool, ToolHasTarget
  <2>4. QED
    BY <1>7, <1>11, <2>2, <2>3, Zenon DEF ToolStops, TypeOK
<1>12. ASSUME NEW token \in tokens, Expire(token) PROVE AssignmentInv'
  BY <1>7, <1>12, Zenon DEF Expire, ToolHasTarget, TypeOK
<1>13. ASSUME NEW token \in tokens, NEW c \in Credentials, Allocate(token, c)
       PROVE  AssignmentInv'
  BY <1>7, <1>13, Zenon DEF Allocate, HasBackend, ToolHasTarget, TypeOK
<1>14. ASSUME NEW token \in tokens, NEW c \in Credentials, SetStatus(token, c)
       PROVE  AssignmentInv'
  <2>1. RouteFor(token, c) \in Shards
    BY <1>14, Zenon DEF SetStatus, Accepted, HasBackend
  <2>2. TypeOK'
    BY <1>14, <2>1, Zenon DEF SetStatus, asVars, TypeOK
  <2>3. QED
    BY <1>14, <2>2, Zenon
    DEF SetStatus, asVars, SeenCurrent, ToolHasTarget, TokenNamesAssignment
<1>15. ASSUME UNCHANGED vars PROVE AssignmentInv'
  BY <1>15, Zenon DEF vars, TypeOK, SeenCurrent, ToolHasTarget, TokenNamesAssignment
<1>16. QED
  BY <1>1, <1>2, <1>3, <1>5, <1>6, <1>8, <1>9, <1>10, <1>11, <1>12, <1>13, <1>14, <1>15, Zenon
  DEF Next, Continue

\* For any number of concurrent token requests and tool runs, a token names a
\* shard its issuer was assigned to while the request for it ran
\* (as/shard.go:62-92).
THEOREM TokensNameAssignments == Spec => []TokenNamesAssignment
<1>1. AssignmentInv => TokenNamesAssignment
  BY Zenon DEF AssignmentInv
<1>2. QED
  BY AssignmentInit, AssignmentStep, <1>1, PTL DEF Spec

-----------------------------------------------------------------------------

\* "sticks each issuer to one shard for life" (as/shard.go:25-27): however
\* token requests interleave, only the reassignment tool moves an issuer that
\* has a shard, and only the issuer it has come to.
THEOREM OnlyTheToolReassigns == Spec => OnlyTheToolMoves
<1> DEFINE Moves == \A i \in Issuers :
               issuer_shard[i] # Null /\ issuer_shard'[i] # issuer_shard[i] =>
                   tool.left # <<>> /\ i = Head(tool.left) /\ tool'.left = Tail(tool.left)
<1>1. ASSUME AssignmentInv, [Next]_vars PROVE Moves
  <2>1. CASE UNCHANGED issuer_shard
    BY <2>1, Zenon
  <2>2. ASSUME NEW r \in Requests, Insert(r) PROVE Moves
    BY <1>1, <2>2, Zenon DEF Insert, Assign, AssignmentInv, TypeOK, SeenCurrent
  <2>3. CASE Reassign
    <3>1. tool'.left = Tail(tool.left) /\ tool.left # <<>>
      BY <1>1, <2>3, Zenon DEF Reassign, AssignmentInv, TypeOK
    <3>2. \A i \in Issuers : i # Head(tool.left) => issuer_shard'[i] = issuer_shard[i]
      BY <1>1, <2>3, Zenon DEF Reassign, Assign, AssignmentInv, TypeOK
    <3>3. QED
      BY <3>1, <3>2, Zenon
  <2>4. UNCHANGED issuer_shard \/ Reassign \/ \E r \in Requests : Insert(r)
    BY <1>1, Zenon
    DEF Next, Continue, vars, Lookup, Reselect, Issue, TokenRequestFails, Over, StartBulk,
                StartSingle, ToolStops, Expire, Allocate, SetStatus
  <2>5. QED
    BY <2>1, <2>2, <2>3, <2>4, Zenon
<1>2. AssignmentInv /\ [Next]_vars => [Moves]_vars
  BY <1>1, Zenon
<1> HIDE DEF Moves
<1>3. Spec => [][Moves]_vars
  BY AssignmentInit, AssignmentStep, <1>2, PTL DEF Spec
<1>4. QED
  BY <1>3, Zenon DEF Moves, OnlyTheToolMoves

-----------------------------------------------------------------------------

LEMMA LeftStep == AssignmentInv /\ LeftToMove /\ [Next]_vars => LeftToMove'
<1> SUFFICES ASSUME AssignmentInv, LeftToMove, [Next]_vars PROVE LeftToMove'
  OBVIOUS
<1> USE ShardingAssumption
<1>1. CASE UNCHANGED <<issuer_shard, tool>>
  BY <1>1, Zenon DEF LeftToMove
<1>2. ASSUME NEW r \in Requests, Insert(r) PROVE LeftToMove'
  <2>1. issuer[r] \in Issuers
    BY <1>2, Zenon DEF Insert, AssignmentInv, SeenCurrent
  <2>2. SHARDS[hashIndex(issuer[r]) + 1] \in Range(SHARDS)
    BY <2>1, CandidateConfigured, Zenon
  <2>3. \A i \in Issuers : \/ issuer_shard'[i] = issuer_shard[i]
                           \/ issuer_shard[i] = Null /\ issuer_shard'[i] \in Range(SHARDS)
    BY <1>2, <2>1, <2>2, Zenon DEF Insert, Assign, AssignmentInv, TypeOK
  <2>4. tool' = tool /\ tool.issuers \subseteq Issuers
    BY <1>2, Zenon DEF Insert, AssignmentInv, TypeOK
  <2>5. Null \notin Range(SHARDS)
    BY DEF Range
  <2>6. QED
    BY <2>3, <2>4, <2>5, Zenon DEF LeftToMove
<1>3. CASE Reassign
  <2>1. /\ tool.left \in Seq(Issuers) /\ tool.left # <<>>
        /\ tool.targets \in Seq(Shards) /\ tool.targets # <<>>
        /\ tool.moved \in Nat /\ tool.issuers \subseteq Issuers
    BY <1>3, Zenon DEF Reassign, AssignmentInv, TypeOK, ToolHasTarget
  <2>2. tool' = [from |-> tool.from, issuers |-> tool.issuers, left |-> Tail(tool.left),
                 moved |-> tool.moved + 1, targets |-> tool.targets]
    BY <1>3, Zenon DEF Reassign, AssignmentInv, TypeOK
  <2>3. \A i \in Range(tool.left) : i = Head(tool.left) \/ i \in Range(Tail(tool.left))
    BY <2>1, RangeHeadTail, Zenon
  <2>4. /\ issuer_shard'[Head(tool.left)] \in Range(tool.targets)
        /\ issuer_shard'[Head(tool.left)] # Null
        /\ \A i \in Issuers : i # Head(tool.left) => issuer_shard'[i] = issuer_shard[i]
    <3>1. /\ tool.targets[(tool.moved % Len(tool.targets)) + 1] \in Range(tool.targets)
          /\ tool.targets[(tool.moved % Len(tool.targets)) + 1] # Null
      BY <2>1, TargetGiven, Zenon
    <3>2. Head(tool.left) \in Issuers
      BY <2>1
    <3>3. QED
      BY <1>3, <3>1, <3>2, Zenon DEF Reassign, Assign, AssignmentInv, TypeOK
  <2>5. /\ tool'.from = tool.from /\ tool'.issuers = tool.issuers
        /\ tool'.left = Tail(tool.left) /\ tool'.targets = tool.targets
    BY <2>2
  <2>6. QED
    BY <2>1, <2>3, <2>4, <2>5, Zenon DEF LeftToMove
<1>4. ASSUME NEW from \in Shards, NEW order, NEW targets, StartBulk(from, order, targets)
      PROVE  LeftToMove'
  BY <1>4, Zenon DEF StartBulk, LeftToMove
<1>5. ASSUME NEW i, NEW targets, StartSingle(i, targets) PROVE LeftToMove'
  BY <1>5, Zenon DEF StartSingle, LeftToMove
<1>6. CASE ToolStops
  BY <1>6, Zenon DEF ToolStops, NoTool, LeftToMove
<1>7. QED
  BY <1>1, <1>2, <1>3, <1>4, <1>5, <1>6, Zenon
  DEF Next, Continue, vars, Lookup, Reselect, Issue, TokenRequestFails, Over, Expire, Allocate, SetStatus

\* Emptying a shard works for any number of issuers and targets: once a bulk
\* run is through, only issuers are on the shard that were assigned to it since
\* the run's query, and none if it is out of SHARDS
\* (reassign-shard/main.go:107-146).
THEOREM EmptiedForGood == Spec => []ShardEmptied
<1>1. Init => LeftToMove
  BY DEF Init, NoTool, LeftToMove
<1>2. LeftToMove => ShardEmptied
  <2>1. Range(<<>>) = {}
    BY DEF Range
  <2>2. QED
    BY <2>1, Zenon DEF LeftToMove, ShardEmptied
<1>3. QED
  BY AssignmentInit, AssignmentStep, LeftStep, <1>1, <1>2, PTL DEF Spec

-----------------------------------------------------------------------------

\* Where every list embeds its shard, an accepted update is in the Redis that
\* verifiers read, however often the issuer has been moved
\* (ingress/router.go:98-117, ingestion/handlers.go:191-195).
THEOREM UpdatesReachTheirLists ==
    ASSUME Legacy = {}
    PROVE  Spec => []UpdateReachesList
<1> DEFINE Inv == EmbedsOwnShard /\ UpdateReachesList
<1> USE ShardingAssumption
<1>1. Init => Inv
  BY Zenon DEF Init, EmbedsOwnShard, UpdateReachesList
<1>2. ASSUME AssignmentInv, Inv, [Next]_vars PROVE Inv'
  <2>1. CASE UNCHANGED <<credential, updated>>
    BY <1>2, <2>1, Zenon DEF EmbedsOwnShard, UpdateReachesList
  <2>2. ASSUME NEW token \in tokens, NEW c \in Credentials, Allocate(token, c) PROVE Inv'
    BY <1>2, <2>2, Zenon
    DEF Allocate, HasBackend, AssignmentInv, TypeOK, EmbedsOwnShard, UpdateReachesList
  <2>3. ASSUME NEW token \in tokens, NEW c \in Credentials, SetStatus(token, c) PROVE Inv'
    <3>1. RouteFor(token, c) = credential[c].shard
      BY <1>2, <2>3, Zenon DEF SetStatus, RouteFor, ParseShard, HasBackend, EmbedsOwnShard
    <3>2. QED
      BY <1>2, <2>3, <3>1, Zenon
      DEF SetStatus, AssignmentInv, TypeOK, EmbedsOwnShard, UpdateReachesList
  <2>4. QED
    BY <1>2, <2>1, <2>2, <2>3, Zenon
    DEF Next, Continue, vars, Lookup, Insert, Reselect, Issue, TokenRequestFails, Over, StartBulk,
        StartSingle, Reassign, ToolStops, Expire
<1>3. Inv => UpdateReachesList
  OBVIOUS
<1> HIDE DEF Inv
<1>4. QED
  BY AssignmentInit, AssignmentStep, <1>1, <1>2, <1>3, PTL DEF Spec

-----------------------------------------------------------------------------
(* The token endpoint.                                                      *)

\* What verifies has an issuer, and the key the decision point is asked about
\* is the key that signed.
LEMMA VerifiedKeySigned ==
    ASSUME NEW v \in Verified
    PROVE  /\ v.result.IssuerID \in Issuers
           /\ v.signer \in Keys
           /\ Head(credentialKey(v.result)) = v.signer
<1>1. PICK a \in Assertions : /\ Verifies(a)
                              /\ v = [result |-> Result(a), signer |-> a.signer]
  BY Zenon DEF Verified
<1>2. v.result = Result(a) /\ v.signer = a.signer
  BY <1>1, Zenon
<1>3. a.sub \in Issuers \cup {Null} /\ a.signer \in Keys
  BY Zenon DEF Assertions
<1>4. v.result.IssuerID = a.sub /\ v.result.JWK = a.jwk /\ v.result.X5C = a.x5c
  BY <1>2 DEF Result, resolveProofOfPossession
<1>5. a.sub # Null /\ a.signer = Head(resolveProofOfPossession(a).key)
      /\ resolveProofOfPossession(a).key # Malformed
  BY <1>1, Zenon DEF Verifies
<1>6. resolveProofOfPossession(a).key = credentialKey(v.result)
  <2>1. CASE a.jwk # Null /\ a.x5c = Null
    BY <1>4, <2>1, Zenon DEF resolveProofOfPossession, credentialKey
  <2>2. CASE a.x5c # Null /\ a.jwk = Null
    BY <1>4, <2>2, Zenon DEF resolveProofOfPossession, credentialKey
  <2>3. CASE ~(a.jwk # Null /\ a.x5c = Null) /\ ~(a.x5c # Null /\ a.jwk = Null)
    BY <1>5, <2>3, Zenon DEF resolveProofOfPossession
  <2>4. QED
    BY <2>1, <2>2, <2>3, Zenon
<1>7. QED
  BY <1>2, <1>3, <1>4, <1>5, <1>6, Zenon

\* A step of the endpoint is one of Sharding's.
LEMMA EndpointStep == [EndpointNext]_endpointVars => [Next]_vars
<1>1. ASSUME NEW r \in Requests, NEW v \in Verified, NEW reply, HandleToken(r, v, reply)
      PROVE  Next
  <2>1. Lookup(r, v.result.IssuerID) /\ v.result.IssuerID \in Issuers
    BY <1>1, VerifiedKeySigned, Zenon DEF HandleToken
  <2>2. QED
    BY <2>1, Zenon DEF Next
<1>2. QED
  BY <1>1, Zenon DEF EndpointNext, endpointVars, Next

\* The composition with the endpoint keeps all that is proved of shard
\* assignment and routing (as/handlers.go:28-110).
THEOREM EndpointKeepsSharding == EndpointSpec => Spec
BY EndpointStep, PTL DEF EndpointSpec, EndpointInit, Spec

\* From its first SELECT on, a request keeps its issuer until it is over.
LEMMA IssuerKept ==
    ASSUME AssignmentInv, Continue, NEW r \in Requests, pc'[r] # "idle"
    PROVE  pc[r] # "idle" /\ issuer'[r] = issuer[r]
<1> USE DEF AssignmentInv, TypeOK
<1>1. ASSUME NEW q \in Requests, Insert(q) \/ Reselect(q)
      PROVE  pc[r] # "idle" /\ issuer'[r] = issuer[r]
  BY <1>1, Zenon DEF Insert, Reselect
<1>2. ASSUME NEW q \in Requests, Issue(q) \/ TokenRequestFails(q)
      PROVE  pc[r] # "idle" /\ issuer'[r] = issuer[r]
  BY <1>2, Zenon DEF Issue, TokenRequestFails, Over
<1>3. CASE UNCHANGED asVars
  BY <1>3, Zenon DEF asVars
<1>4. (\E q \in Requests : Insert(q) \/ Reselect(q) \/ Issue(q) \/ TokenRequestFails(q))
      \/ UNCHANGED asVars
  BY Zenon
  DEF Continue, StartSingle, StartBulk, Reassign, ToolStops, Expire, Allocate, SetStatus
<1>5. QED
  BY <1>1, <1>2, <1>3, <1>4, Zenon

\* With a decision point configured, every request that gets as far as the
\* shard assignment, and so every token, is for an issuer and a key that the
\* decision point affirmed in that request, and the key signed the assertion
\* (trust/authzen.go:100-157, clientassertion/verify.go:57-115).
THEOREM TokensForAffirmedKeys == EndpointSpec => []AffirmedKeySigned
<1> DEFINE Inv == proof = [r \in Requests |-> proof[r]] /\ AffirmedKeySigned
<1>1. EndpointInit => Inv
  BY DEF EndpointInit, Init, AffirmedKeySigned
<1>2. ASSUME AssignmentInv, Inv, [EndpointNext]_endpointVars PROVE Inv'
  <2>1. ASSUME NEW r \in Requests, NEW v \in Verified, NEW reply, HandleToken(r, v, reply)
        PROVE  Inv'
    <3>1. v.result.IssuerID \in Issuers /\ Head(credentialKey(v.result)) = v.signer
      BY VerifiedKeySigned, Zenon
    <3>2. PDP => reply = "affirms"
      BY <2>1, Zenon DEF HandleToken, Evaluate
    <3>3. /\ pc' = [pc EXCEPT ![r] = pc'[r]]
          /\ issuer' = [issuer EXCEPT ![r] = v.result.IssuerID]
      BY <1>2, <2>1, Zenon DEF HandleToken, Lookup, AssignmentInv, TypeOK
    <3>4. PDP => proof' = [proof EXCEPT ![r] =
              [signer |-> v.signer, affirmed |-> {<<v.result.IssuerID, v.signer>>}]]
      BY <2>1, <3>1, <3>2, Zenon DEF HandleToken
    <3>5. proof' = [q \in Requests |-> proof'[q]]
      BY <1>2, <2>1, Zenon DEF HandleToken
    <3>6. ASSUME NEW q \in Requests, PDP, pc'[q] # "idle"
          PROVE  <<issuer'[q], proof'[q].signer>> \in proof'[q].affirmed
      <4>1. CASE q = r
        <5>1. issuer'[q] = v.result.IssuerID
          BY <1>2, <3>3, <4>1, Zenon DEF AssignmentInv, TypeOK
        <5>2. proof'[q] = [signer |-> v.signer, affirmed |-> {<<v.result.IssuerID, v.signer>>}]
          BY <1>2, <3>4, <3>6, <4>1, Zenon
        <5>3. QED
          BY <5>1, <5>2
      <4>2. CASE q # r
        <5>1. pc'[q] = pc[q] /\ issuer'[q] = issuer[q]
          BY <1>2, <3>3, <4>2, Zenon DEF AssignmentInv, TypeOK
        <5>2. proof'[q] = proof[q]
          BY <1>2, <3>4, <3>6, <4>2, Zenon
        <5>3. QED
          BY <1>2, <3>6, <5>1, <5>2, Zenon DEF AffirmedKeySigned
      <4>3. QED
        BY <4>1, <4>2, Zenon
    <3>7. QED
      BY <3>5, <3>6, Zenon DEF AffirmedKeySigned
  <2>2. ASSUME Continue,
               proof' = [r \in Requests |-> IF pc'[r] = "idle" THEN NoProof ELSE proof[r]]
        PROVE  Inv'
    BY <1>2, <2>2, IssuerKept, Zenon DEF AffirmedKeySigned
  <2>3. CASE UNCHANGED endpointVars
    BY <1>2, <2>3, Zenon DEF endpointVars, vars, AffirmedKeySigned
  <2>4. QED
    BY <1>2, <2>1, <2>2, <2>3, Zenon DEF EndpointNext
<1>3. EndpointInit => AssignmentInv
  BY AssignmentInit, Zenon DEF EndpointInit
<1>4. ASSUME AssignmentInv, [EndpointNext]_endpointVars PROVE AssignmentInv'
  BY <1>4, EndpointStep, AssignmentStep, Zenon
<1>5. Inv => AffirmedKeySigned
  OBVIOUS
<1> HIDE DEF Inv
<1>6. QED
  BY <1>1, <1>2, <1>3, <1>4, <1>5, PTL DEF EndpointSpec
=============================================================================
