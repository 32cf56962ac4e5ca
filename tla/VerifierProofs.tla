---------------------------- MODULE VerifierProofs ----------------------------
(***************************************************************************)
(* What a verifier serves, for any number of clients, verifiers and        *)
(* writers, and any durations.  A token covers every write acknowledged    *)
(* before it was asked for; a list is served, with every acknowledged      *)
(* write, until it is retired, and never again; and what clients see       *)
(* implements StatusFeed.                                                  *)
(***************************************************************************)
EXTENDS Verifier, MetaStoreProofs

-----------------------------------------------------------------------------
(* The publisher: tokens cover what was acknowledged.                       *)

LEMMA TokenTypeStep == PublisherInv /\ [Next]_vars => TypeOK'
<1> SUFFICES ASSUME PublisherInv, [Next]_vars PROVE TypeOK'
  OBVIOUS
<1> USE PublisherAssumption DEF TypeOK, PublisherInv
<1>1. ASSUME NEW w \in Writers, WriteScript(w) \/ WriteIncr(w) \/ WriteFails(w)
      PROVE  TypeOK'
  BY <1>1 DEF WriteScript, WriteIncr, WriteFails, readVars
<1>2. ASSUME NEW r \in Readers, ReaderStep(r) PROVE TypeOK'
  <2>1. ASSUME NEW token \in sent \cup {NoToken}, Request(r, token) PROVE TypeOK'
    BY <2>1, Zenon DEF Request, Goto, writeVars
  <2>2. CASE ReadVersion(r)
    BY <2>2, Zenon DEF ReadVersion, Goto, writeVars
  <2>3. CASE CacheHit(r)
    BY <2>3, Zenon DEF CacheHit, Cached, Goto, writeVars
  <2>4. CASE CacheMiss(r)
    BY <2>4, Zenon DEF CacheMiss, Goto, writeVars
  <2>5. CASE TakeSnapshot(r)
    BY <2>5, Zenon DEF TakeSnapshot, Goto, writeVars, Token
  <2>6. CASE StoreCache(r)
    BY <2>6, Zenon DEF StoreCache, Goto, writeVars
  <2>7. CASE Respond(r)
    BY <2>7, Zenon DEF Respond, Goto, writeVars, ReaderInv
  <2>8. CASE Finish(r)
    BY <2>8, Zenon DEF Finish, writeVars
  <2>9. QED
    BY <1>2, <2>1, <2>2, <2>3, <2>4, <2>5, <2>6, <2>7, <2>8, Zenon DEF ReaderStep
<1>3. ASSUME NEW p \in Processes, Restart(p) PROVE TypeOK'
  BY <1>3, Zenon DEF Restart, writeVars
<1>4. CASE UNCHANGED vars
  BY <1>4, Zenon DEF vars
<1>5. QED
  BY <1>1, <1>2, <1>3, <1>4, Zenon DEF Next

\* A step that leaves the counters alone, or the bitmap longer, and every reader either alone or not
\* comparing, leaves the cover of a token intact.
LEMMA CoverKept ==
    ASSUME UNCHANGED <<version, acked>>, NEW t, Covers(t), t.content <= content',
           \A r \in Readers :
               Compares(r)' => Compares(r) /\ UNCHANGED <<live[r], need[r]>>
    PROVE  Covers(t)'
BY Zenon DEF Covers

LEMMA WriteStep ==
    ASSUME PublisherInv, NEW w \in Writers, WriteScript(w) \/ WriteIncr(w) \/ WriteFails(w)
    PROVE  PublisherInv'
<1> USE DEF PublisherInv
<1>1. TypeOK'
  BY TokenTypeStep, Zenon DEF Next
<1>2. UNCHANGED readVars /\ \A r \in Readers : Compares(r)' <=> Compares(r)
  BY Zenon DEF WriteScript, WriteIncr, WriteFails, readVars, Compares
<1>3. /\ acked \in Nat /\ content \in Nat /\ version \in Nat
      /\ writing \in [Writers -> Nat] /\ need \in [Readers -> Nat] /\ live \in [Readers -> Nat]
  BY Zenon DEF TypeOK
<1>4. acked <= acked' /\ acked' <= content' /\ version <= version'
  BY <1>3 DEF WriteScript, WriteIncr, WriteFails
<1>5. \A x \in Writers : writing'[x] <= content'
  BY <1>3 DEF WriteScript, WriteIncr, WriteFails
<1>6. \A t : Covers(t) /\ t.version \in Nat /\ t.content \in Nat => Covers(t)'
  <2> SUFFICES ASSUME NEW t, Covers(t), t.version \in Nat, t.content \in Nat PROVE Covers(t)'
    OBVIOUS
  <2>0. t.content <= content'
    BY <1>1, <1>3 DEF Covers, TypeOK, WriteScript, WriteIncr, WriteFails
  <2>1. CASE WriteIncr(w)
    <3>1. t.version <= version /\ version' = version + 1
      BY <2>1, Zenon DEF Covers, WriteIncr
    <3>2. t.version <= version' /\ t.version # version'
      BY <1>3, <3>1
    <3>3. QED
      BY <1>2, <2>0, <3>2, Zenon DEF Covers, readVars
  <2>2. CASE WriteScript(w) \/ WriteFails(w)
    BY <1>2, <2>0, <2>2, CoverKept, Zenon DEF WriteScript, WriteFails, readVars
  <2>3. QED
    BY <2>1, <2>2, Zenon
<1>7. \A r \in Readers : ReaderInv(r)'
  <2> SUFFICES ASSUME NEW r \in Readers PROVE ReaderInv(r)'
    OBVIOUS
  <2>1. need[r] <= acked' /\ live[r] <= version'
    BY <1>1, <1>3, <1>4 DEF ReaderInv, TypeOK
  <2>2. QED
    BY <1>2, <2>1, Zenon DEF ReaderInv, readVars
<1>8. \A t \in Token : t.version \in Nat /\ t.content \in Nat
  BY Zenon DEF Token
<1>9. /\ \A p \in Processes : cache'[p] # NoToken => Covers(cache[p])'
      /\ \A r \in Readers : built'[r] # NoToken => Covers(built[r])'
      /\ \A t \in sent' : Covers(t)'
  <2>1. ASSUME NEW p \in Processes, cache'[p] # NoToken PROVE Covers(cache[p])'
    BY <1>2, <1>6, <1>8, <2>1, Zenon DEF readVars, TypeOK, Covers
  <2>2. ASSUME NEW r \in Readers, built'[r] # NoToken PROVE Covers(built[r])'
    BY <1>2, <1>6, <1>8, <2>2, Zenon DEF readVars, TypeOK, Covers
  <2>3. ASSUME NEW t \in sent' PROVE Covers(t)'
    BY <1>2, <1>6, <1>8, <2>3, Zenon DEF readVars, TypeOK
  <2>4. QED
    BY <2>1, <2>2, <2>3, Zenon
<1>10. QED
  BY <1>1, <1>4, <1>5, <1>7, <1>9, Zenon

LEMMA ReadStep ==
    ASSUME PublisherInv, NEW r \in Readers, ReaderStep(r)
    PROVE  PublisherInv'
<1> USE DEF PublisherInv
<1>1. TypeOK'
  BY TokenTypeStep, Zenon DEF Next
<1>2. UNCHANGED writeVars
  BY Zenon DEF ReaderStep, Request, ReadVersion, CacheHit, CacheMiss, TakeSnapshot, StoreCache,
         Respond, Finish
<1>3. /\ acked \in Nat /\ content \in Nat /\ version \in Nat
      /\ need \in [Readers -> Nat] /\ live \in [Readers -> Nat]
      /\ pc \in [Readers -> {"idle", "version", "lookup", "snapshot", "store",
                             "respond", "answered"}]
      /\ \A t \in Token : t.version \in Nat /\ t.content \in Nat
  BY Zenon DEF TypeOK, Token
<1>4. \A t \in Token : Covers(t) => Covers(t)'
  <2> SUFFICES ASSUME NEW t \in Token, Covers(t) PROVE Covers(t)'
    OBVIOUS
  <2>1. CASE ReadVersion(r)
    <3>1. need' = need /\ live'[r] = version
          /\ \A q \in Readers \ {r} : live'[q] = live[q] /\ (Compares(q)' <=> Compares(q))
      BY <1>3, <2>1, Zenon DEF ReadVersion, Goto, Compares
    <3>2. t.version = live'[r] => need'[r] <= t.content
      <4>1. t.version = live'[r] => acked <= t.content
        BY <3>1, Zenon DEF Covers
      <4>2. need[r] <= acked
        BY Zenon DEF ReaderInv
      <4>3. QED
        BY <1>3, <3>1, <4>1, <4>2
    <3>3. QED
      BY <1>2, <3>1, <3>2, Zenon DEF Covers, writeVars
  <2>2. CASE ~ReadVersion(r)
    <3>1. \A q \in Readers : Compares(q)' => Compares(q) /\ UNCHANGED <<live[q], need[q]>>
      BY <1>3, <2>2, Zenon DEF ReaderStep, Request, CacheHit, CacheMiss, TakeSnapshot, StoreCache,
                        Respond, Finish, Goto, Compares
    <3>2. QED
      BY <1>2, <3>1, CoverKept, Zenon DEF writeVars, Covers
  <2>3. QED
    BY <2>1, <2>2, Zenon
<1>5. /\ \A p \in Processes : cache'[p] # NoToken => Covers(cache[p])'
      /\ \A q \in Readers : built'[q] # NoToken => Covers(built[q])'
      /\ \A t \in sent' : Covers(t)'
  <2>1. CASE TakeSnapshot(r)
    <3>1. Covers(built[r])'
      <4>1. built'[r].version = live[r] /\ built'[r].content = content
        BY <2>1, Zenon DEF TakeSnapshot, TypeOK
      <4>2. live[r] <= version /\ acked <= content
        BY Zenon DEF ReaderInv
      <4>3. \A q \in Readers : need'[q] <= content
        <5>1. need' = need
          BY <2>1, Zenon DEF TakeSnapshot
        <5>2. \A q \in Readers : need[q] <= acked
          BY Zenon DEF ReaderInv
        <5>3. QED
          BY <1>3, <4>2, <5>1, <5>2
      <4>4. QED
        BY <1>2, <1>3, <4>1, <4>2, <4>3 DEF Covers, writeVars
    <3>2. \A q \in Readers \ {r} : built'[q] = built[q]
      BY <2>1, Zenon DEF TakeSnapshot, TypeOK
    <3>3. cache' = cache /\ sent' = sent
      BY <2>1, Zenon DEF TakeSnapshot
    <3>4. ASSUME NEW q \in Readers \ {r}, built'[q] # NoToken PROVE Covers(built[q])'
      BY <1>4, <3>2, <3>4, Zenon DEF TypeOK, Covers
    <3>5. ASSUME NEW p \in Processes, cache'[p] # NoToken PROVE Covers(cache[p])'
      BY <1>4, <3>3, <3>5, Zenon DEF TypeOK, Covers
    <3>6. ASSUME NEW t \in sent' PROVE Covers(t)'
      BY <1>4, <3>3, <3>6, Zenon DEF TypeOK
    <3>7. QED
      BY <3>1, <3>4, <3>5, <3>6, Zenon
  <2>2. CASE ~TakeSnapshot(r)
    <3>1. /\ \A p \in Processes : cache'[p] # NoToken => Covers(cache'[p]) /\ cache'[p] \in Token
          /\ \A q \in Readers : built'[q] # NoToken => Covers(built'[q]) /\ built'[q] \in Token
          /\ \A t \in sent' : Covers(t) /\ t \in Token
      <4>1. CASE CacheHit(r)
        BY <4>1, PublisherAssumption, Zenon DEF CacheHit, Cached, TypeOK
      <4>2. CASE StoreCache(r)
        BY <4>2, PublisherAssumption, Zenon DEF StoreCache, TypeOK, ReaderInv
      <4>3. CASE Respond(r)
        BY <4>3, PublisherAssumption, Zenon DEF Respond, TypeOK, ReaderInv, Goto
      <4>4. CASE Finish(r)
        BY <4>4, Zenon DEF Finish, TypeOK
      <4>5. CASE ReadVersion(r) \/ CacheMiss(r)
        BY <4>5, Zenon DEF ReadVersion, CacheMiss, TypeOK
      <4>6. ASSUME NEW token \in sent \cup {NoToken}, Request(r, token)
            PROVE  cache' = cache /\ built' = built /\ sent' = sent
        BY <4>6, Zenon DEF Request
      <4>7. QED
        BY <2>2, <4>1, <4>2, <4>3, <4>4, <4>5, <4>6, Zenon DEF ReaderStep, TypeOK
    <3>2. ASSUME NEW p \in Processes, cache'[p] # NoToken PROVE Covers(cache[p])'
      BY <1>4, <3>1, <3>2, Zenon DEF Covers
    <3>3. ASSUME NEW q \in Readers, built'[q] # NoToken PROVE Covers(built[q])'
      BY <1>4, <3>1, <3>3, Zenon DEF Covers
    <3>4. ASSUME NEW t \in sent' PROVE Covers(t)'
      BY <1>4, <3>1, <3>4, Zenon
    <3>5. QED
      BY <3>2, <3>3, <3>4, Zenon
  <2>3. QED
    BY <2>1, <2>2, Zenon
<1>6. \A q \in Readers : ReaderInv(q)'
  <2> SUFFICES ASSUME NEW q \in Readers PROVE ReaderInv(q)'
    OBVIOUS
  <2> ReaderInv(q)
    OBVIOUS
  <2> USE <1>2, <1>3 DEF ReaderInv, writeVars, TypeOK
  <2>1. ASSUME NEW token \in sent \cup {NoToken}, Request(r, token) PROVE ReaderInv(q)'
    BY <2>1 DEF Request, Goto
  <2>2. CASE ReadVersion(r)
    BY <2>2 DEF ReadVersion, Goto
  <2>3. CASE CacheHit(r)
    BY <2>3, Zenon DEF CacheHit, Cached, Goto
  <2>4. CASE CacheMiss(r)
    BY <2>4, Zenon DEF CacheMiss, Goto
  <2>5. CASE TakeSnapshot(r)
    BY <2>5, PublisherAssumption DEF TakeSnapshot, Goto, Token
  <2>6. CASE StoreCache(r)
    BY <2>6, Zenon DEF StoreCache, Goto
  <2>7. CASE Respond(r)
    <3>1. CASE q # r
      BY <2>7, <3>1, Zenon DEF Respond, Goto
    <3>2. CASE q = r
      <4>1. /\ answer'[r] \in Token /\ answer'[r].version = live[r] /\ Covers(answer'[r])
        BY <2>7, PublisherAssumption, Zenon DEF Respond, Goto
      <4>2. need[r] <= answer'[r].content
        BY <2>7, <4>1, Zenon DEF Covers, Compares, Respond, Goto
      <4>3. QED
        BY <2>7, <3>2, <4>1, <4>2, PublisherAssumption, Zenon DEF Respond, Goto
    <3>3. QED
      BY <3>1, <3>2, Zenon
  <2>8. CASE Finish(r)
    BY <2>8 DEF Finish
  <2>9. QED
    BY <2>1, <2>2, <2>3, <2>4, <2>5, <2>6, <2>7, <2>8, Zenon DEF ReaderStep
<1>7. acked' <= content' /\ \A w \in Writers : writing'[w] <= content'
  BY <1>2, Zenon DEF writeVars
<1>8. QED
  BY <1>1, <1>5, <1>6, <1>7, Zenon

LEMMA RestartStep ==
    ASSUME PublisherInv, NEW p \in Processes, Restart(p)
    PROVE  PublisherInv'
<1> USE DEF PublisherInv
<1>1. TypeOK'
  BY TokenTypeStep, Zenon DEF Next
<1>2. UNCHANGED <<version, acked, content, writing, sent>>
  BY Zenon DEF Restart, writeVars
<1>3. \A t : Covers(t) => Covers(t)'
  <2>1. \A q \in Readers : Compares(q)' => Compares(q) /\ UNCHANGED <<live[q], need[q]>>
    BY Zenon DEF Restart, Compares
  <2>2. QED
    BY <1>2, <2>1, CoverKept, Zenon DEF Covers
<1>4. \A q \in Processes : cache'[q] # NoToken => Covers(cache[q])'
  <2> SUFFICES ASSUME NEW q \in Processes, cache'[q] # NoToken PROVE Covers(cache[q])'
    OBVIOUS
  <2>1. cache'[q] = cache[q]
    BY Zenon DEF Restart, TypeOK
  <2>2. QED
    BY <1>3, <2>1, Zenon DEF Covers
<1>5. \A r \in Readers : built'[r] # NoToken => Covers(built[r])'
  <2> SUFFICES ASSUME NEW r \in Readers, built'[r] # NoToken PROVE Covers(built[r])'
    OBVIOUS
  <2>1. built'[r] = built[r]
    BY Zenon DEF Restart, TypeOK
  <2>2. QED
    BY <1>3, <2>1, Zenon DEF Covers
<1>6. \A r \in Readers : ReaderInv(r)'
  BY <1>2 DEF Restart, ReaderInv, TypeOK
<1>7. QED
  BY <1>1, <1>2, <1>3, <1>4, <1>5, <1>6, Zenon

LEMMA TokensCoverAtFirst == Init => PublisherInv
BY PublisherAssumption DEF Init, PublisherInv, TypeOK, ReaderInv

LEMMA TokensCoverStep == PublisherInv /\ [Next]_vars => PublisherInv'
<1>1. ASSUME PublisherInv, UNCHANGED vars PROVE PublisherInv'
  BY <1>1, Zenon DEF vars, PublisherInv, TypeOK, ReaderInv, Covers, Compares
<1>2. QED
  BY <1>1, WriteStep, ReadStep, RestartStep, Zenon DEF Next

\* The inductive invariant: no interleaving of writes, publishes and restarts
\* makes a token miss a write its label stands for (publisher.go:145-200).
THEOREM TokensCover == Spec => []PublisherInv
BY TokensCoverAtFirst, TokensCoverStep, PTL DEF Spec

\* A client never works with a token that misses a status write acknowledged
\* before its request, for any number of writers, requests and verifiers
\* (verifier/handlers.go:82-100, publisher.go:145-200).
THEOREM AnswersAreFresh == Spec => []FreshAfterAnswer
<1>1. PublisherInv => FreshAfterAnswer
  BY Zenon DEF PublisherInv, ReaderInv, FreshAfterAnswer
<1>2. QED
  BY <1>1, TokensCover, PTL

-----------------------------------------------------------------------------
(* The verifier: a list is served until it is retired.                      *)

\* What a step of the store can do to a list that was created: once ARCHIVED
\* it stays so, with its stamp, until it is deleted, and it is deleted for
\* good and only when that is due.
LEMMA ListStep ==
    ASSUME MetaInv, List \in minted, [MetaNext]_metaVars
    PROVE  /\ List \in minted' /\ now \in Nat /\ now' \in Nat /\ now <= now'
           /\ ~Exists(List) => ~Exists(List)'
           /\ Exists(List) /\ Exists(List)' /\ lists[List].state = "ARCHIVED" =>
                  /\ lists'[List].state = "ARCHIVED"
                  /\ lists'[List].archived_at = lists[List].archived_at
           /\ Exists(List) /\ ~Exists(List)' => DeleteDue(List) /\ now' = now
<1> USE VerifierAssumption, NullAssumption
<1>1. now \in Nat /\ lists \in [ListIDs -> Row \cup {Null}]
  BY Zenon DEF MetaInv, MetaTypeOK
<1>2. CASE UNCHANGED metaVars
  BY <1>1, <1>2 DEF metaVars, Exists
<1>3. CASE Tick
  BY <1>1, <1>3 DEF Tick, Exists
<1>4. ASSUME NEW l \in ListIDs, NEW n \in Sizes, NEW k \in Keys, NEW s \in Shards,
             CreateList(l, n, k, s)
      PROVE  lists'[List] = lists[List] /\ List \in minted' /\ now' = now
  BY <1>1, <1>4, Zenon DEF CreateList, FreshID
<1>5. ASSUME NEW l \in ListIDs, Freeze(l) \/ Archive(l) \/ MarkPurged(l)
      PROVE  /\ List \in minted' /\ now' = now
             /\ ~Exists(List) => ~Exists(List)'
             /\ Exists(List) => Exists(List)'
             /\ Exists(List) /\ lists[List].state = "ARCHIVED" =>
                    /\ lists'[List].state = "ARCHIVED"
                    /\ lists'[List].archived_at = lists[List].archived_at
  <2>1. UNCHANGED <<minted, now>>
    BY <1>5, Zenon DEF Freeze, Archive, MarkPurged
  <2>2. lists'[List] # Null <=> lists[List] # Null
    BY <1>5, UpdateKeepsRows, Zenon DEF MetaInv
  <2>3. ASSUME Exists(List), lists[List].state = "ARCHIVED"
        PROVE  /\ lists'[List].state = "ARCHIVED"
               /\ lists'[List].archived_at = lists[List].archived_at
    BY <1>1, <1>5, <2>3 DEF Freeze, Archive, MarkPurged, HasState, Exists, Row
  <2>4. QED
    BY <2>1, <2>2, <2>3, Zenon DEF Exists
<1>6. ASSUME NEW l \in ListIDs, DeleteDue(l), DeleteList(l)
      PROVE  /\ List \in minted' /\ now' = now
             /\ lists'[List] = lists[List] \/ (lists'[List] = Null /\ DeleteDue(List))
  BY <1>1, <1>6, Zenon DEF DeleteList
<1>7. ASSUME NEW l \in ListIDs, NEW i \in Issuers, NEW s \in Shards,
             NEW exp \in 0 .. now + MaxExpiry, ReserveCursorAndRecord(l, i, s, exp)
      PROVE  /\ List \in minted' /\ now' = now
             /\ ~Exists(List) => ~Exists(List)'
             /\ Exists(List) => Exists(List)'
             /\ Exists(List) /\ lists[List].state = "ARCHIVED" => lists'[List] = lists[List]
  <2>1. Exists(l) /\ lists[l].state = "ACTIVE"
    BY <1>7, ReserveRow, Zenon DEF MetaInv
  <2>2. UNCHANGED <<minted, now>> /\ (List # l => lists'[List] = lists[List])
    BY <1>1, <1>7, Zenon DEF ReserveCursorAndRecord
  <2>3. Exists(l)'
    BY <1>7, ReserveRow, Zenon DEF MetaInv, Exists
  <2>4. QED
    BY <2>1, <2>2, <2>3, Zenon DEF Exists
<1>8. QED
  BY <1>1, <1>2, <1>3, <1>4, <1>5, <1>6, <1>7 DEF MetaNext, Exists

\* A credential of the list keeps the row, unretired and unarchived long
\* enough, until its expiry, the grace and the retention have passed.
LEMMA CredentialKeepsList ==
    ASSUME VerifierInv, NEW a \in issued, a.list_id = List,
           now < a.exp + Grace + Retention
    PROVE  ~PastRetention /\ Servable
<1> USE VerifierAssumption, DurationsAssumption, NullAssumption
<1>1. now \in Nat /\ a.exp \in Nat
  BY Zenon DEF VerifierInv, MetaInv, MetaTypeOK, Allocation
<1>2. Exists(List)
  BY <1>1 DEF VerifierInv
<1>3. a \in allocations
  BY <1>2, Zenon DEF VerifierInv, MetaInv, HistoryMatches
<1>4. lists[List].max_exp # Null /\ a.exp <= lists[List].max_exp
  BY <1>3, Zenon DEF VerifierInv, MetaInv, MaxExpCovers
<1>5. /\ lists[List].max_exp \in Nat
      /\ lists[List].state = "ARCHIVED" => lists[List].archived_at \in Nat
  <2>1. lists[List] \in Row
    BY <1>2, Zenon DEF VerifierInv, MetaInv, MetaTypeOK, Exists
  <2>2. lists[List].state = "ARCHIVED" => lists[List].archived_at # Null
    BY <1>2, Zenon DEF VerifierInv, MetaInv, StampsInOrder
  <2>3. QED
    BY <1>4, <2>1, <2>2, Zenon DEF Row
<1>6. lists[List].state = "ARCHIVED" =>
          lists[List].max_exp + Grace <= lists[List].archived_at
  BY <1>2, <1>4, Zenon DEF VerifierInv, MetaInv, StampsInOrder
<1>7. lists[List].state = "ARCHIVED" => now < lists[List].archived_at + Retention
  BY <1>1, <1>4, <1>5, <1>6
<1>8. lists[List].state = "ARCHIVED" => now - lists[List].archived_at <= Retention
  BY <1>1, <1>5, <1>7
<1>9. ~PastRetention
  <2>1. lists[List].state = "ARCHIVED" => ~(lists[List].archived_at + Retention <= now)
    BY <1>1, <1>5, <1>7
  <2>2. QED
    BY <1>2, <2>1, Zenon DEF PastRetention, PurgeDue
<1>10. QED
  BY <1>2, <1>8, <1>9, Zenon DEF Servable

\* Every step is one of the store, or leaves the store alone.
LEMMA StoreSteps == [VerifierNext]_verifierVars => [MetaNext]_metaVars
BY Zenon DEF VerifierNext, verifierVars, GetServed, GetGone, ServeStep, StatusWrite, StoreStep,
       DropBitmap

\* Past its retention a list stays past it: the stamp it is counted from
\* never moves, and the identifier never comes back.
LEMMA RetirementStays ==
    ASSUME MetaInv, [MetaNext]_metaVars, PastRetention
    PROVE  PastRetention'
<1> USE VerifierAssumption, DurationsAssumption, NullAssumption
<1>1. /\ List \in minted' /\ now \in Nat /\ now' \in Nat /\ now <= now'
      /\ ~Exists(List) => ~Exists(List)'
      /\ Exists(List) /\ Exists(List)' /\ lists[List].state = "ARCHIVED" =>
             /\ lists'[List].state = "ARCHIVED"
             /\ lists'[List].archived_at = lists[List].archived_at
  BY ListStep, Zenon DEF PastRetention
<1>2. ASSUME Exists(List)', Exists(List)
      PROVE  lists'[List].state = "ARCHIVED" /\ lists'[List].archived_at + Retention <= now'
  <2>1. lists[List].state = "ARCHIVED" /\ lists[List].archived_at + Retention <= now
    BY <1>2, Zenon DEF PastRetention, PurgeDue
  <2>2. lists[List].archived_at \in Nat
    BY <1>2, <2>1, Zenon DEF MetaInv, MetaTypeOK, StampsInOrder, Exists, Row
  <2>3. QED
    BY <1>1, <1>2, <2>1, <2>2
<1>3. QED
  BY <1>1, <1>2, Zenon DEF PastRetention, PurgeDue, Exists

\* Until then, every step is one of Publisher's, or leaves its state alone.
LEMMA PublisherSteps ==
    ASSUME [VerifierNext]_verifierVars, ~PastRetention
    PROVE  [Next]_vars
<1>1. CASE UNCHANGED verifierVars
  BY <1>1, Zenon DEF verifierVars
<1>2. ASSUME NEW r \in Readers, NEW token \in sent \cup {NoToken}, GetServed(r, token)
      PROVE  Next
  BY <1>2, Zenon DEF GetServed, Next, ReaderStep
<1>3. CASE ServeStep
  BY <1>3, Zenon DEF ServeStep, Next, ReaderStep
<1>4. ASSUME NEW w \in Writers, StatusWrite(w) PROVE Next
  BY <1>4, Zenon DEF StatusWrite, Next
<1>5. QED
  BY <1>1, <1>2, <1>3, <1>4, Zenon DEF VerifierNext, GetGone, StoreStep, DropBitmap

\* A list that is no longer served is not served again.
LEMMA GoneStays ==
    ASSUME MetaInv, [MetaNext]_metaVars, List \in minted, ~Servable
    PROVE  ~Servable'
<1> USE VerifierAssumption, DurationsAssumption, NullAssumption
<1>1. /\ now \in Nat /\ now' \in Nat /\ now <= now'
      /\ ~Exists(List) => ~Exists(List)'
      /\ Exists(List) /\ Exists(List)' /\ lists[List].state = "ARCHIVED" =>
             /\ lists'[List].state = "ARCHIVED"
             /\ lists'[List].archived_at = lists[List].archived_at
  BY ListStep, Zenon
<1>2. CASE ~Exists(List)
  BY <1>1, <1>2, Zenon DEF Servable, Exists
<1>3. CASE Exists(List) /\ Exists(List)'
  <2>1. /\ lists[List].state = "ARCHIVED"
        /\ ~(now - lists[List].archived_at <= Retention)
    BY <1>3, Zenon DEF Servable
  <2>2. lists[List].archived_at \in Nat
    BY <1>3, <2>1, Zenon DEF MetaInv, MetaTypeOK, StampsInOrder, Exists, Row
  <2>3. ~(now' - lists'[List].archived_at <= Retention)
    BY <1>1, <1>3, <2>1, <2>2
  <2>4. QED
    BY <1>1, <1>3, <2>1, <2>3, Zenon DEF Servable
<1>4. QED
  BY <1>2, <1>3, Zenon DEF Servable, Exists

\* A credential issued by a step names a list that is still there.
LEMMA NewCredential ==
    ASSUME MetaInv, [MetaNext]_metaVars, NEW a \in issued', a \notin issued
    PROVE  Exists(a.list_id)'
<1>1. a \in allocations'
  <2>1. MetaNext /\ issued' # issued
    BY Zenon DEF metaVars
  <2>2. PICK l \in ListIDs, i \in Issuers, s \in Shards, exp \in 0 .. now + MaxExpiry :
            ReserveCursorAndRecord(l, i, s, exp)
    BY <2>1, Zenon DEF MetaNext, Tick, CreateList, Freeze, Archive, MarkPurged, DeleteList
  <2>3. QED
    BY <2>2, Zenon DEF ReserveCursorAndRecord
<1>2. MaxExpCovers'
  BY InvStep, Zenon DEF MetaInv
<1>3. QED
  BY <1>1, <1>2, Zenon DEF MaxExpCovers

\* A list is deleted only when its credentials are past the retention.
LEMMA DeletedPastRetention ==
    ASSUME VerifierInv, [MetaNext]_metaVars, NEW a \in issued', a.list_id = List,
           ~Exists(List)'
    PROVE  a.exp + Grace + Retention <= now'
<1> USE VerifierAssumption, DurationsAssumption, NullAssumption
<1> MetaInv
  BY Zenon DEF VerifierInv
<1>1. a \in issued /\ List \in minted
  BY NewCredential, Zenon DEF MetaInv, KnownLists
<1>2. a.exp \in Nat
  BY <1>1, Zenon DEF MetaInv, MetaTypeOK, Allocation
<1>3. /\ now \in Nat /\ now' \in Nat /\ now <= now'
      /\ Exists(List) => DeleteDue(List)
  BY <1>1, ListStep, Zenon
<1>4. CASE ~Exists(List)
  BY <1>1, <1>2, <1>3, <1>4 DEF VerifierInv
<1>5. CASE Exists(List)
  <2>1. a \in allocations
    BY <1>1, <1>5, Zenon DEF MetaInv, HistoryMatches
  <2>2. lists[List].max_exp # Null /\ a.exp <= lists[List].max_exp
    BY <2>1, Zenon DEF MetaInv, MaxExpCovers
  <2>3. lists[List].purged /\ lists[List].archived_at + Retention + DBRetention <= now
    BY <1>3, <1>5, Zenon DEF DeleteDue
  <2>4. /\ lists[List].archived_at # Null
        /\ lists[List].max_exp + Grace <= lists[List].archived_at
    BY <1>5, <2>2, <2>3, Zenon DEF MetaInv, StampsInOrder
  <2>5. lists[List].max_exp \in Nat /\ lists[List].archived_at \in Nat
    BY <1>5, <2>2, <2>4, Zenon DEF MetaInv, MetaTypeOK, Exists, Row
  <2>6. QED
    BY <1>2, <1>3, <2>2, <2>3, <2>4, <2>5
<1>6. QED
  BY <1>4, <1>5, Zenon

LEMMA VerifierInvAtFirst == VerifierInit => VerifierInv
BY InvAtFirst, TokensCoverAtFirst, Zenon DEF VerifierInit, VerifierInv, MetaInit

LEMMA VerifierInvStep == VerifierInv /\ [VerifierNext]_verifierVars => VerifierInv'
<1> SUFFICES ASSUME VerifierInv, [VerifierNext]_verifierVars PROVE VerifierInv'
  OBVIOUS
<1>1. MetaInv /\ [MetaNext]_metaVars
  BY StoreSteps, Zenon DEF VerifierInv
<1>2. MetaInv'
  BY <1>1, InvStep, Zenon
<1>3. ~PastRetention' => PublisherInv'
  <2> SUFFICES ASSUME ~PastRetention' PROVE PublisherInv'
    OBVIOUS
  <2>1. ~PastRetention
    BY <1>1, RetirementStays, Zenon
  <2>2. QED
    BY <2>1, PublisherSteps, TokensCoverStep, Zenon DEF VerifierInv
<1>4. gone' => List \in minted' /\ ~Servable'
  <2>1. CASE gone
    <3>1. List \in minted /\ ~Servable
      BY <2>1, Zenon DEF VerifierInv
    <3>2. QED
      BY <1>1, <3>1, ListStep, GoneStays, Zenon
  <2>2. CASE ~gone
    <3>1. ASSUME gone' PROVE UNCHANGED metaVars /\ Referenced /\ ~Servable
      BY <2>2, <3>1, Zenon DEF VerifierNext, verifierVars, GetServed, GetGone, ServeStep,
                        StatusWrite, StoreStep, DropBitmap
    <3>2. Referenced => List \in minted
      BY <1>1, Zenon DEF Referenced, MetaInv, KnownLists
    <3>3. QED
      BY <1>1, <3>1, <3>2, GoneStays, ListStep, Zenon
  <2>3. QED
    BY <2>1, <2>2, Zenon
<1>5. \A a \in issued' :
          a.list_id = List /\ ~Exists(List)' => a.exp + Grace + Retention <= now'
  BY <1>1, DeletedPastRetention, Zenon
<1>6. QED
  BY <1>2, <1>3, <1>4, <1>5, Zenon DEF VerifierInv

\* The inductive invariant of the verifier over a list's whole life
\* (verifier/handlers.go:49-100, gc/sweeper.go:48-94).
THEOREM VerifierInvariant == VerifierSpec => []VerifierInv
BY VerifierInvAtFirst, VerifierInvStep, PTL DEF VerifierSpec

\* No GET of a list is refused, and none answered without the acknowledged
\* writes, before its credentials have been expired for the grace and the
\* retention (verifier/handlers.go:49-100, gc/sweeper.go:48-94).
THEOREM Served == VerifierSpec => []ServedUntilRetired
<1>1. VerifierInv => ServedUntilRetired
  <2> SUFFICES ASSUME VerifierInv, NEW a \in issued, a.list_id = List,
                      now < a.exp + Grace + Retention
               PROVE  ~gone /\ FreshAfterAnswer
    BY Zenon DEF ServedUntilRetired
  <2>1. ~PastRetention /\ Servable
    BY CredentialKeepsList, Zenon
  <2>2. ~gone /\ PublisherInv
    BY <2>1, Zenon DEF VerifierInv
  <2>3. QED
    BY <2>2, Zenon DEF PublisherInv, ReaderInv, FreshAfterAnswer
<1>2. QED
  BY <1>1, VerifierInvariant, PTL

\* After a 404 or a 410 no verifier serves the list again
\* (verifier/handlers.go:54-74, postgres.go:288-303).
THEOREM StaysGone == VerifierSpec => []GoneForGood
<1>1. VerifierInv => GoneForGood
  BY Zenon DEF VerifierInv, GoneForGood
<1>2. QED
  BY <1>1, VerifierInvariant, PTL

-----------------------------------------------------------------------------
(* The implementation of StatusFeed, one lemma per kind of step.           *)

\* The mapping, as long as the list is not retired.
LEMMA FeedMapping ==
    ASSUME ~PastRetention, ~PastRetention'
    PROVE  /\ PastRetention' = PastRetention
           /\ FeedWrites = content /\ FeedWrites' = content'
           /\ FeedAcked = acked /\ FeedAcked' = acked'
           /\ FeedNeed = [r \in Readers |-> IF pc[r] # "idle" THEN need[r] ELSE NoToken]
           /\ FeedNeed' = [r \in Readers |-> IF pc'[r] # "idle" THEN need'[r] ELSE NoToken]
           /\ FeedGot = [r \in Readers |->
                  IF pc[r] = "answered" THEN answer[r].content ELSE NoToken]
           /\ FeedGot' = [r \in Readers |->
                  IF pc'[r] = "answered" THEN answer'[r].content ELSE NoToken]
<1>1. PastRetention' = PastRetention
  BY Zenon DEF PastRetention
<1>2. QED
  BY <1>1, Zenon DEF FeedWrites, FeedAcked, FeedNeed, FeedGot, Asking

LEMMA WriteImplements ==
    ASSUME PublisherInv, ~PastRetention, ~PastRetention', NEW w \in Writers,
           WriteScript(w) \/ WriteIncr(w) \/ WriteFails(w)
    PROVE  [Feed!Next]_(Feed!feedVars)
<1>1. UNCHANGED <<pc, need, answer>>
  BY Zenon DEF WriteScript, WriteIncr, WriteFails, readVars
<1>2. UNCHANGED <<PastRetention, FeedNeed, FeedGot>>
  BY <1>1, FeedMapping, Zenon
<1>3. CASE WriteScript(w)
  <2>1. FeedWrites' = FeedWrites + 1 /\ FeedAcked' = FeedAcked
    BY <1>3, FeedMapping, Zenon DEF WriteScript
  <2>2. Feed!Write
    BY <1>2, <2>1, Zenon DEF Feed!Write
  <2>3. QED
    BY <2>2, Zenon DEF Feed!Next
<1>4. CASE WriteIncr(w) /\ writing[w] > acked
  <2>1. /\ acked' = writing[w] /\ content' = content
        /\ acked \in Nat /\ content \in Nat /\ writing[w] \in Nat /\ writing[w] <= content
    BY <1>4, Zenon DEF WriteIncr, PublisherInv, TypeOK
  <2>2. acked' \in acked + 1 .. content
    BY <1>4, <2>1
  <2>3. Feed!Acknowledge
    BY <1>2, <2>1, <2>2, FeedMapping, Zenon DEF Feed!Acknowledge
  <2>4. QED
    BY <2>3, Zenon DEF Feed!Next
<1>5. CASE WriteFails(w) \/ (WriteIncr(w) /\ ~(writing[w] > acked))
  <2>1. UNCHANGED <<content, acked>>
    BY <1>5, Zenon DEF WriteFails, WriteIncr
  <2>2. QED
    BY <1>2, <2>1, FeedMapping, Zenon DEF Feed!feedVars
<1>6. QED
  BY <1>3, <1>4, <1>5, Zenon

LEMMA RequestImplements ==
    ASSUME PublisherInv, ~PastRetention, ~PastRetention', NEW r \in Readers,
           NEW token \in sent \cup {NoToken}, Request(r, token)
    PROVE  Feed!Next
<1>1. UNCHANGED <<content, acked, answer>>
  BY Zenon DEF Request, writeVars
<1>2. /\ pc[r] = "idle" /\ pc'[r] = "version" /\ need'[r] = acked
      /\ \A q \in Readers \ {r} : pc'[q] = pc[q] /\ need'[q] = need[q]
  BY Zenon DEF Request, Goto, PublisherInv, TypeOK
<1>3. UNCHANGED <<PastRetention, FeedWrites, FeedAcked, FeedGot>>
  BY <1>1, <1>2, FeedMapping
<1>4. FeedNeed[r] = NoToken /\ FeedNeed' = [FeedNeed EXCEPT ![r] = FeedAcked]
  BY <1>2, FeedMapping
<1>5. Feed!Ask(r)
  BY <1>3, <1>4, Zenon DEF Feed!Ask
<1>6. QED
  BY <1>5, Zenon DEF Feed!Next

LEMMA RespondImplements ==
    ASSUME PublisherInv, PublisherInv', ~PastRetention, ~PastRetention', NEW r \in Readers,
           Respond(r)
    PROVE  Feed!Next
<1> USE VerifierAssumption, PublisherAssumption
<1> DEFINE n == answer'[r].content
<1>1. UNCHANGED <<content, acked, need>>
  BY Zenon DEF Respond, writeVars
<1>2. /\ pc[r] = "respond" /\ pc'[r] = "answered"
      /\ \A q \in Readers \ {r} : pc'[q] = pc[q] /\ answer'[q] = answer[q]
  BY Zenon DEF Respond, Goto, PublisherInv, TypeOK
<1>3. answer'[r] \in sent'
  BY Zenon DEF Respond, PublisherInv, TypeOK
<1>4. n <= content /\ need[r] <= n /\ n \in Nat /\ need[r] \in Nat /\ content \in Nat
  <2>1. Covers(answer[r])' /\ answer'[r] \in Token
    BY <1>3, Zenon DEF PublisherInv, TypeOK, Covers
  <2>2. need'[r] <= answer'[r].content
    BY <1>2, Zenon DEF PublisherInv, ReaderInv
  <2>3. QED
    BY <1>1, <2>1, <2>2, Zenon DEF Covers, PublisherInv, TypeOK, Token
<1>5. UNCHANGED <<PastRetention, FeedWrites, FeedAcked, FeedNeed>>
  BY <1>1, <1>2, FeedMapping
<1>6. FeedNeed[r] = need[r] /\ FeedGot[r] = NoToken /\ FeedGot' = [FeedGot EXCEPT ![r] = n]
  BY <1>1, <1>2, FeedMapping
<1>7. n \in 0 .. FeedWrites
  BY <1>4, FeedMapping
<1>8. Feed!Answer(r, n)
  BY <1>4, <1>5, <1>6, Zenon DEF Feed!Answer
<1>9. QED
  BY <1>7, <1>8, Zenon DEF Feed!Next

\* The steps of PublishIfStale show nothing to the client.
LEMMA PublishImplements ==
    ASSUME PublisherInv, ~PastRetention, ~PastRetention', NEW r \in Readers,
           \/ ReadVersion(r) \/ CacheHit(r) \/ CacheMiss(r)
           \/ TakeSnapshot(r) \/ StoreCache(r)
    PROVE  UNCHANGED Feed!feedVars
<1>1. UNCHANGED <<content, acked, need, answer>>
  BY Zenon DEF ReadVersion, CacheHit, CacheMiss, TakeSnapshot, StoreCache, writeVars
<1>2. /\ pc[r] \notin {"idle", "answered"} /\ pc'[r] \notin {"idle", "answered"}
      /\ \A q \in Readers \ {r} : pc'[q] = pc[q]
  BY Zenon
  DEF ReadVersion, CacheHit, CacheMiss, TakeSnapshot, StoreCache, Goto, PublisherInv, TypeOK
<1>3. FeedNeed' = FeedNeed /\ FeedGot' = FeedGot
  BY <1>1, <1>2, FeedMapping
<1>4. QED
  BY <1>1, <1>3, FeedMapping, Zenon DEF Feed!feedVars

\* A request ends, or the requests of a process that restarts do.
LEMMA LeaveImplements ==
    ASSUME ~PastRetention, ~PastRetention', UNCHANGED <<content, acked>>,
           NEW C \in SUBSET Readers,
           \A q \in C : pc'[q] = "idle",
           \A q \in Readers \ C : UNCHANGED <<pc[q], need[q], answer[q]>>
    PROVE  Feed!Next
<1>1. UNCHANGED <<PastRetention, FeedWrites, FeedAcked>>
  BY FeedMapping, Zenon
<1>2. /\ FeedNeed' = [q \in Readers |-> IF q \in C THEN NoToken ELSE FeedNeed[q]]
      /\ FeedGot' = [q \in Readers |-> IF q \in C THEN NoToken ELSE FeedGot[q]]
  BY FeedMapping
<1>3. Feed!Leave(C)
  BY <1>1, <1>2, Zenon DEF Feed!Leave
<1>4. QED
  BY <1>3, Zenon DEF Feed!Next

LEMMA StepImplements ==
    ASSUME VerifierInv, VerifierInv', [VerifierNext]_verifierVars
    PROVE  [Feed!Next]_(Feed!feedVars)
<1>1. CASE PastRetention'
  <2>1. /\ PastRetention' = TRUE /\ FeedWrites' = 0 /\ FeedAcked' = 0
        /\ FeedNeed' = [q \in Readers |-> NoToken] /\ FeedGot' = [q \in Readers |-> NoToken]
    <3>1. PastRetention' = TRUE
      BY <1>1, Zenon DEF PastRetention
    <3>2. QED
      BY <1>1, <3>1, Zenon DEF FeedWrites, FeedAcked, FeedNeed, FeedGot, Asking
  <2>2. Feed!Retire
    BY <2>1, Zenon DEF Feed!Retire
  <2>3. QED
    BY <2>2, Zenon DEF Feed!Next
<1>2. CASE ~PastRetention'
  <2>1. ~PastRetention
    BY <1>2, StoreSteps, RetirementStays, Zenon DEF VerifierInv
  <2>2. PublisherInv /\ PublisherInv'
    BY <1>2, <2>1, Zenon DEF VerifierInv
  <2>3. CASE UNCHANGED vars
    <3>1. UNCHANGED <<content, acked, need, pc, answer>>
      BY <2>3, Zenon DEF vars
    <3>2. QED
      BY <1>2, <2>1, <3>1, FeedMapping, Zenon DEF Feed!feedVars
  <2>4. ASSUME NEW w \in Writers, WriteScript(w) \/ WriteIncr(w) \/ WriteFails(w)
        PROVE  [Feed!Next]_(Feed!feedVars)
    BY <1>2, <2>1, <2>2, <2>4, WriteImplements, Zenon
  <2>5. ASSUME NEW r \in Readers, ReaderStep(r) PROVE [Feed!Next]_(Feed!feedVars)
    <3>1. ASSUME NEW token \in sent \cup {NoToken}, Request(r, token) PROVE Feed!Next
      BY <1>2, <2>1, <2>2, <3>1, RequestImplements, Zenon
    <3>2. ASSUME \/ ReadVersion(r) \/ CacheHit(r) \/ CacheMiss(r)
                 \/ TakeSnapshot(r) \/ StoreCache(r)
          PROVE  UNCHANGED Feed!feedVars
      BY <1>2, <2>1, <2>2, <3>2, PublishImplements, Zenon
    <3>3. CASE Respond(r)
      BY <1>2, <2>1, <2>2, <3>3, RespondImplements, Zenon
    <3>4. CASE Finish(r)
      <4>1. /\ UNCHANGED <<content, acked>> /\ \A q \in {r} : pc'[q] = "idle"
            /\ \A q \in Readers \ {r} : UNCHANGED <<pc[q], need[q], answer[q]>>
        BY <2>2, <3>4, Zenon DEF Finish, writeVars, PublisherInv, TypeOK
      <4>2. Feed!Next
        <5>1. {r} \in SUBSET Readers
          OBVIOUS
        <5>2. QED
          BY <1>2, <2>1, <4>1, <5>1, LeaveImplements, Zenon
      <4>3. QED
        BY <4>2, Zenon
    <3>5. QED
      BY <2>5, <3>1, <3>2, <3>3, <3>4, Zenon DEF ReaderStep
  <2>6. ASSUME NEW p \in Processes, Restart(p) PROVE Feed!Next
    <3> DEFINE mine == {r \in Readers : ProcessOf[r] = p}
    <3>1. /\ UNCHANGED <<content, acked>> /\ \A q \in mine : pc'[q] = "idle"
          /\ \A q \in Readers \ mine : UNCHANGED <<pc[q], need[q], answer[q]>>
      BY <2>6, Zenon DEF Restart, writeVars
    <3>2. QED
      BY <1>2, <2>1, <3>1, LeaveImplements, Zenon
  <2>7. [Next]_vars
    BY <2>1, PublisherSteps, Zenon
  <2>8. QED
    BY <2>3, <2>4, <2>5, <2>6, <2>7, Zenon DEF Next
<1>3. QED
  BY <1>1, <1>2, Zenon

\* What clients see implements StatusFeed, for any number of clients,
\* verifiers and writers (publisher.go:141-200, verifier/handlers.go:49-100).
THEOREM FeedImplemented == VerifierSpec => ImplementsFeed
<1>1. VerifierInit => Feed!Init
  <2> SUFFICES ASSUME VerifierInit PROVE Feed!Init
    OBVIOUS
  <2>1. PastRetention = FALSE
    BY Zenon DEF VerifierInit, MetaInit, PastRetention
  <2>2. QED
    BY <2>1, Zenon
    DEF VerifierInit, Init, Feed!Init, FeedWrites, FeedAcked, FeedNeed, FeedGot, Asking
<1>2. VerifierInv /\ VerifierInv' /\ [VerifierNext]_verifierVars
          => [Feed!Next]_(Feed!feedVars)
  BY StepImplements, Zenon
<1>3. QED
  BY <1>1, <1>2, VerifierInvariant, PTL DEF VerifierSpec, ImplementsFeed, Feed!Spec
=============================================================================
