--------------------------- MODULE AllocatorProofs ---------------------------
(***************************************************************************)
(* That the allocator's indices never collide, for every capacity, key and *)
(* bound on the walk.                                                      *)
(***************************************************************************)
EXTENDS Allocator, TLAPS

HalfPair == [l : Half, r : Half]

\* A Feistel round is injective whatever its function is.
LEMMA RoundInjective ==
    ASSUME NEW f \in [Half -> Half]
    PROVE  /\ \A h \in HalfPair : Round(f, h) \in HalfPair
           /\ \A h, k \in HalfPair : Round(f, h) = Round(f, k) => h = k
<1>1. ASSUME NEW h \in HalfPair PROVE Round(f, h) \in HalfPair
  <2>1. h.l \in Half /\ h.r \in Half /\ f[h.r] \in Half
    BY DEF HalfPair
  <2>2. HalfXor(h.l, f[h.r]) \in Half
    BY <2>1, XorAssumption
  <2>3. QED
    BY <2>1, <2>2 DEF Round, HalfPair
<1>2. ASSUME NEW h \in HalfPair, NEW k \in HalfPair, Round(f, h) = Round(f, k)
      PROVE  h = k
  <2>1. h.l \in Half /\ h.r \in Half /\ k.l \in Half /\ k.r \in Half
    BY DEF HalfPair
  <2>2. h.r = k.r /\ HalfXor(h.l, f[h.r]) = HalfXor(k.l, f[k.r])
    BY <1>2 DEF Round
  <2>3. h.l = k.l
    BY <2>1, <2>2, XorAssumption
  <2>4. h = [l |-> h.l, r |-> h.r] /\ k = [l |-> k.l, r |-> k.r]
    BY DEF HalfPair
  <2>5. QED
    BY <2>2, <2>3, <2>4
<1>3. QED
  BY <1>1, <1>2

\* Cutting a position into halves loses nothing.
LEMMA SplitInjective ==
    ASSUME NEW x \in Domain, NEW y \in Domain
    PROVE  /\ x \div Size \in Half /\ x % Size \in Half
           /\ x \div Size = y \div Size /\ x % Size = y % Size => x = y
<1>1. Size \in Nat /\ Size > 0 /\ x \in Nat /\ y \in Nat /\ x < Size * Size
  BY AllocatorAssumption DEF Domain
<1> HIDE DEF Size
<1>2. /\ x % Size \in 0 .. Size - 1
      /\ x \div Size \in Nat
      /\ x = Size * (x \div Size) + (x % Size)
      /\ y = Size * (y \div Size) + (y % Size)
  BY <1>1
<1>3. x \div Size < Size
  <2> DEFINE q == x \div Size
  <2>1. SUFFICES ASSUME q >= Size PROVE FALSE
    BY <1>1, <1>2
  <2>2. Size * q >= Size * Size
    BY <1>1, <1>2, <2>1
  <2>3. QED
    BY <1>1, <1>2, <2>2
<1>4. QED
  BY <1>1, <1>2, <1>3 DEF Half

\* Neither does putting them together.
LEMMA JoinInjective ==
    ASSUME NEW h \in HalfPair, NEW k \in HalfPair,
           h.l * Size + h.r = k.l * Size + k.r
    PROVE  h = k
<1>1. Size \in Nat /\ Size > 0
  BY AllocatorAssumption
<1>2. /\ h.l \in Nat /\ h.r \in Nat /\ h.r < Size
      /\ k.l \in Nat /\ k.r \in Nat /\ k.r < Size
  BY <1>1 DEF HalfPair, Half
<1> HIDE DEF Size
<1>3. ASSUME NEW a \in Nat, NEW b \in Nat, NEW s \in Nat, NEW t \in Nat,
             s < Size, t < Size, a < b
      PROVE  a * Size + s < b * Size + t
  <2>1. (a + 1) * Size <= b * Size
    BY <1>1, <1>3
  <2>2. (a + 1) * Size = a * Size + Size
    BY <1>1
  <2>3. QED
    BY <1>1, <1>3, <2>1, <2>2
<1>4. h.l = k.l
  <2>1. ~(h.l < k.l) /\ ~(k.l < h.l)
    <3>1. h.l * Size + h.r \in Nat
      BY <1>1, <1>2
    <3>2. QED
      BY <1>2, <1>3, <3>1
  <2>2. QED
    BY <1>2, <2>1
<1>5. h.r = k.r
  <2>1. PICK p \in Nat : p = h.l * Size
    BY <1>1, <1>2
  <2>2. p + h.r = p + k.r
    BY <1>4, <2>1
  <2>3. QED
    BY <1>2, <2>2
<1>6. h = [l |-> h.l, r |-> h.r] /\ k = [l |-> k.l, r |-> k.r]
  BY DEF HalfPair
<1>7. QED
  BY <1>4, <1>5, <1>6

LEMMA JoinInDomain ==
    ASSUME NEW h \in HalfPair
    PROVE  h.l * Size + h.r \in Domain
<1>1. Size \in Nat /\ Size > 0
  BY AllocatorAssumption
<1>2. h.l \in Nat /\ h.r \in Nat /\ h.r < Size /\ h.l + 1 <= Size
  BY <1>1 DEF HalfPair, Half
<1> HIDE DEF Size
<1>3. (h.l + 1) * Size <= Size * Size /\ (h.l + 1) * Size = h.l * Size + Size
  <2>1. PICK a \in Nat : a = h.l
    BY <1>2
  <2>2. PICK d \in Nat : Size = (a + 1) + d
    <3>1. Size - (a + 1) \in Nat /\ Size = (a + 1) + (Size - (a + 1))
      BY <1>1, <1>2, <2>1
    <3>2. QED
      BY <3>1
  <2>3. Size * Size = (a + 1) * Size + d * Size /\ d * Size \in Nat
    BY <1>1, <2>2
  <2>4. (a + 1) * Size = a * Size + Size /\ (a + 1) * Size \in Nat
    BY <1>1
  <2>5. QED
    BY <2>1, <2>3, <2>4
<1>4. h.l * Size \in Nat /\ Size * Size \in Nat
  BY <1>1, <1>2
<1>5. QED
  BY <1>1, <1>2, <1>3, <1>4 DEF Domain

\* permute is injective on the padded domain, whatever the key is.
LEMMA PermuteInjective ==
    ASSUME F \in RoundFunctions
    PROVE  /\ \A x \in Domain : permute(x) \in Domain
           /\ \A x, y \in Domain : permute(x) = permute(y) => x = y
<1> DEFINE Split(x) == [l |-> x \div Size, r |-> x % Size]
           Join(h) == h.l * Size + h.r
           R1(x) == Round(F[0], Split(x))
           R2(x) == Round(F[1], R1(x))
           R3(x) == Round(F[2], R2(x))
           R4(x) == Round(F[3], R3(x))
<1>1. \A i \in 0 .. 3 : F[i] \in [Half -> Half]
  BY AllocatorAssumption
<1>2. /\ F[0] \in [Half -> Half] /\ F[1] \in [Half -> Half]
      /\ F[2] \in [Half -> Half] /\ F[3] \in [Half -> Half]
  BY <1>1
<1>3. \A x \in Domain : Split(x) \in HalfPair
  BY SplitInjective DEF HalfPair
<1>4. \A x, y \in Domain : Split(x) = Split(y) => x = y
  <2> TAKE x \in Domain, y \in Domain
  <2>1. HAVE Split(x) = Split(y)
  <2>2. Split(x).l = Split(y).l /\ Split(x).r = Split(y).r
    BY <2>1
  <2>3. QED
    BY <2>2, SplitInjective
<1> HIDE DEF Split
<1>5. \A x \in Domain : R1(x) \in HalfPair
  BY <1>2, <1>3, RoundInjective
<1>6. \A x, y \in Domain : R1(x) = R1(y) => x = y
  BY <1>2, <1>3, <1>4, RoundInjective
<1> HIDE DEF R1
<1>7. \A x \in Domain : R2(x) \in HalfPair
  BY <1>2, <1>5, RoundInjective
<1>8. \A x, y \in Domain : R2(x) = R2(y) => x = y
  BY <1>2, <1>5, <1>6, RoundInjective
<1> HIDE DEF R2
<1>9. \A x \in Domain : R3(x) \in HalfPair
  BY <1>2, <1>7, RoundInjective
<1>10. \A x, y \in Domain : R3(x) = R3(y) => x = y
  BY <1>2, <1>7, <1>8, RoundInjective
<1> HIDE DEF R3
<1>11. \A x \in Domain : R4(x) \in HalfPair
  BY <1>2, <1>9, RoundInjective
<1>12. \A x, y \in Domain : R4(x) = R4(y) => x = y
  BY <1>2, <1>9, <1>10, RoundInjective
<1>13. \A x : permute(x) = Join(R4(x))
  BY Zenon DEF permute, R3, R2, R1, Split
<1> HIDE DEF R4
<1>14. \A x \in Domain : Join(R4(x)) \in Domain
  BY <1>11, JoinInDomain
<1>15. \A x, y \in Domain : Join(R4(x)) = Join(R4(y)) => x = y
  BY <1>11, <1>12, JoinInjective
<1> HIDE DEF Join
<1>16. QED
  BY <1>13, <1>14, <1>15

-----------------------------------------------------------------------------

LEMMA AllocatorInit == Init => AllocatorInv
<1> SUFFICES ASSUME Init PROVE AllocatorInv
  OBVIOUS
<1>1. 0 \in Domain
  <2>1. Size \in Nat /\ Size > 0
    BY AllocatorAssumption
  <2> HIDE DEF Size
  <2>2. Size * Size \in Nat /\ Size * Size > 0
    BY <2>1
  <2>3. QED
    BY <2>2 DEF Domain
<1>2. TypeOK
  BY <1>1, AllocatorAssumption DEF Init, TypeOK
<1>3. QED
  BY <1>2, AllocatorAssumption
  DEF Init, AllocatorInv, WalkPosition, NotStarted, TrailShape, TrailsDisjoint, ResultOfTrail,
      WalkNeverRepeats

LEMMA AllocatorStep == AllocatorInv /\ [Next]_vars => AllocatorInv'
<1> SUFFICES ASSUME AllocatorInv, [Next]_vars PROVE AllocatorInv'
  OBVIOUS
<1> USE DEF AllocatorInv
<1> HIDE DEF Size
<1>1. /\ N \in Nat \ {0} /\ MaxCycleWalks \in Nat /\ Size * Size \in Nat
      /\ N <= Size * Size /\ Null \notin Cursors /\ Error \notin Cursors /\ Null # Error
  BY AllocatorAssumption
<1>2. /\ \A x \in Domain : permute(x) \in Domain
      /\ \A x, y \in Domain : permute(x) = permute(y) => x = y
  BY PermuteInjective DEF TypeOK
<1>3. Cursors \subseteq Domain /\ \A c \in Cursors : c \in Nat /\ c < N
  BY <1>1 DEF Cursors, Domain
<1>4. ASSUME F' = F, NEW x PROVE permute(x)' = permute(x)
  BY <1>4 DEF permute
<1>5. ASSUME NEW c \in Cursors, Index(c) PROVE AllocatorInv'
  <2>1. TypeOK'
    BY <1>1, <1>3, <1>5 DEF Index, TypeOK
  <2>2. trail[c] = {}
    BY <1>1, <1>5 DEF Index, NotStarted
  <2>3. WalkPosition' /\ NotStarted' /\ WalkNeverRepeats'
    BY <1>1, <1>5, <2>2 DEF Index, WalkPosition, NotStarted, WalkNeverRepeats
  <2>4. TrailShape' /\ TrailsDisjoint' /\ ResultOfTrail'
    BY <1>4, <1>5 DEF Index, TrailShape, TrailsDisjoint, ResultOfTrail
  <2>5. QED
    BY <2>1, <2>3, <2>4
<1>6. CASE GiveUp
  <2>1. TypeOK'
    <3>1. 0 \in Domain
      BY <1>1, <1>3 DEF Cursors, Domain
    <3>2. QED
      BY <1>1, <1>6, <3>1 DEF GiveUp, Return, TypeOK
  <2>2. walking' = Null /\ trail' = trail /\ F' = F
    BY <1>6 DEF GiveUp, Return
  <2>3. NotStarted'
    BY <1>1, <1>6 DEF GiveUp, Return, NotStarted, TypeOK
  <2>4. TrailShape' /\ TrailsDisjoint'
    BY <1>4, <2>2 DEF TrailShape, TrailsDisjoint
  <2>5. ResultOfTrail'
    BY <1>1, <1>4, <1>6, <2>2 DEF GiveUp, Return, ResultOfTrail, TypeOK
  <2>6. QED
    BY <2>1, <2>2, <2>3, <2>4, <2>5 DEF WalkPosition, WalkNeverRepeats
<1>7. CASE Walk
  <2> DEFINE x == permute(cursor)
  <2>1. /\ walking \in Cursors /\ F' = F /\ cursor \in Domain /\ x \in Domain
        /\ trail' = [trail EXCEPT ![walking] = @ \cup {cursor}]
        /\ trail \in [Cursors -> SUBSET Domain]
    BY <1>2, <1>7 DEF Walk, TypeOK
  <2>2. /\ trail'[walking] = trail[walking] \cup {cursor}
        /\ \A c \in Cursors : c # walking => trail'[c] = trail[c]
        /\ trail' \in [Cursors -> SUBSET Domain]
    BY <2>1
  <2>3. \A y : permute(y)' = permute(y)
    BY <1>4, <2>1
  \* The value permuted is new, to this walk and to the others.
  <2>4. cursor = walking \/ (cursor >= N /\ \E v \in trail[walking] : cursor = permute(v))
    BY <1>1, <2>1 DEF WalkPosition
  <2>5. \A d \in Cursors : cursor \notin trail[d]
    <3> SUFFICES ASSUME NEW d \in Cursors, cursor \in trail[d] PROVE FALSE
      OBVIOUS
    <3>1. d # walking
      BY <1>1, <2>1 DEF WalkNeverRepeats
    <3>2. cursor = d \/ (cursor >= N /\ \E v \in trail[d] : cursor = permute(v))
      BY DEF TrailShape
    <3>3. CASE cursor = walking
      BY <1>1, <1>3, <2>1, <3>1, <3>2, <3>3
    <3>4. CASE cursor # walking
      <4>1. PICK v \in trail[walking] : cursor = permute(v) /\ cursor >= N
        BY <2>4, <3>4
      <4>2. cursor # d
        BY <1>1, <1>3, <2>1, <4>1
      <4>3. PICK w \in trail[d] : cursor = permute(w)
        BY <3>2, <4>2
      <4>4. v = w
        BY <1>2, <2>1, <4>1, <4>3
      <4>5. QED
        BY <2>1, <3>1, <4>1, <4>3, <4>4 DEF TrailsDisjoint
    <3>5. QED
      BY <3>3, <3>4
  <2>6. TrailShape'
    BY <2>1, <2>2, <2>3, <2>4 DEF TrailShape
  <2>7. TrailsDisjoint'
    BY <2>1, <2>2, <2>5 DEF TrailsDisjoint
  <2>8. CASE x < N
    <3>1. x \in Cursors
      BY <1>1, <2>1, <2>8 DEF Domain, Cursors
    <3>2. /\ got' = [got EXCEPT ![walking] = x] /\ walking' = Null
          /\ cursor' = 0 /\ walks' = 0
      BY <1>7, <2>8 DEF Walk, Return
    <3>3. TypeOK'
      <4>1. 0 \in Domain
        BY <1>1, <1>3 DEF Cursors, Domain
      <4>2. QED
        BY <1>1, <2>1, <2>2, <3>1, <3>2, <4>1 DEF TypeOK
    <3>4. NotStarted'
      BY <1>1, <2>1, <2>2, <3>1, <3>2 DEF NotStarted, TypeOK
    <3>5. ResultOfTrail'
      BY <2>1, <2>2, <2>3, <3>1, <3>2 DEF ResultOfTrail, TypeOK
    <3>6. QED
      BY <2>6, <2>7, <3>2, <3>3, <3>4, <3>5 DEF WalkPosition, WalkNeverRepeats
  <2>9. CASE ~(x < N)
    <3>1. cursor' = x /\ walks' = walks + 1 /\ walking' = walking /\ got' = got
      BY <1>7, <2>9 DEF Walk
    <3>2. TypeOK'
      BY <1>1, <1>7, <2>1, <2>2, <3>1 DEF Walk, TypeOK
    <3>3. WalkPosition'
      <4>1. x >= N
        BY <1>1, <2>1, <2>9 DEF Domain
      <4>2. QED
        BY <2>2, <2>3, <3>1, <4>1 DEF WalkPosition
    <3>4. NotStarted' /\ ResultOfTrail'
      BY <2>1, <2>2, <2>3, <3>1 DEF NotStarted, ResultOfTrail
    <3>5. WalkNeverRepeats'
      <4> SUFFICES ASSUME x \in trail[walking] \cup {cursor} PROVE FALSE
        BY <2>2, <3>1 DEF WalkNeverRepeats
      <4>1. x # walking
        BY <1>1, <1>3, <2>1, <2>9
      <4>2. PICK v \in trail[walking] : x = permute(v)
        BY <2>1, <2>4, <4>1 DEF TrailShape
      <4>3. v = cursor
        BY <1>2, <2>1, <4>2
      <4>4. QED
        BY <2>1, <2>5, <4>2, <4>3
    <3>6. QED
      BY <2>6, <2>7, <3>2, <3>3, <3>4, <3>5
  <2>10. QED
    BY <2>8, <2>9
<1>8. CASE UNCHANGED vars
  <2>1. TypeOK' /\ NotStarted' /\ TrailsDisjoint' /\ WalkNeverRepeats'
    BY <1>8 DEF vars, TypeOK, NotStarted, TrailsDisjoint, WalkNeverRepeats
  <2>2. \A y : permute(y)' = permute(y)
    BY <1>4, <1>8 DEF vars
  <2>3. WalkPosition' /\ TrailShape' /\ ResultOfTrail'
    BY <1>8, <2>2 DEF vars, WalkPosition, TrailShape, ResultOfTrail
  <2>4. QED
    BY <2>1, <2>3
<1>9. QED
  BY <1>5, <1>6, <1>7, <1>8 DEF Next

\* For every capacity, key and bound on the walk, two cursor positions never
\* get the same index (allocator.go:91-121).
THEOREM IndicesDistinct == Spec => []NoCollision
<1>1. AllocatorInv => NoCollision
  <2> SUFFICES ASSUME AllocatorInv, NEW c \in Cursors, NEW d \in Cursors,
                      got[c] \in Cursors, got[c] = got[d]
               PROVE  c = d
    BY DEF NoCollision
  <2>1. PICK v \in trail[c] : got[c] = permute(v)
    BY DEF AllocatorInv, ResultOfTrail
  <2>2. PICK w \in trail[d] : got[d] = permute(w)
    BY DEF AllocatorInv, ResultOfTrail
  <2>3. v \in Domain /\ w \in Domain /\ F \in RoundFunctions
    BY DEF AllocatorInv, TypeOK
  <2>4. v = w
    BY <2>1, <2>2, <2>3, PermuteInjective
  <2>5. QED
    BY <2>1, <2>2, <2>4 DEF AllocatorInv, TrailsDisjoint
<1>2. QED
  BY AllocatorInit, AllocatorStep, <1>1, PTL DEF Spec

\* A walk never comes back to a value, so that it cannot go round in the
\* padding for ever (allocator.go:98-104).
THEOREM WalksProgress == Spec => []WalkNeverRepeats
<1>1. AllocatorInv => WalkNeverRepeats
  BY DEF AllocatorInv
<1>2. QED
  BY AllocatorInit, AllocatorStep, <1>1, PTL DEF Spec
=============================================================================
