------------------------------ MODULE Allocator ------------------------------
(***************************************************************************)
(* The index allocator of one list (internal/allocator/allocator.go): a    *)
(* balanced Feistel network on the positions, padded to a square of a      *)
(* power of two, and a cycle walk back into the list's capacity.  Calls of *)
(* Index share nothing, so that one runs at a time here; each permutation  *)
(* of the walk is a step.                                                  *)
(*                                                                         *)
(* NoCollision is what MetaStore assumes of its Index (IndexAssumption).   *)
(***************************************************************************)
EXTENDS Integers

CONSTANTS
    N,              \* the list's capacity
    RoundFunctions, \* what HMAC-SHA256 may compute, truncated to a half, by round
    HalfXor(_, _),  \* exclusive or of two halves
    MaxCycleWalks,
    Null, Error

\* bits.Len64.
Len64(m) == CHOOSE k \in 0 .. m : m < 2^k /\ \A j \in 0 .. k - 1 : 2^j <= m

\* New: the width of a half, the bit-length of N - 1 padded to an even number.
half ==
    LET total == IF Len64(N - 1) = 0 THEN 1 ELSE Len64(N - 1)
    IN  (total + (total % 2)) \div 2

\* The number of values of a half; a position is below Size * Size.
Size == 2^half

Half == 0 .. Size - 1
Domain == 0 .. Size * Size - 1
Cursors == 0 .. N - 1

ASSUME AllocatorAssumption ==
    /\ N \in Nat \ {0} /\ MaxCycleWalks \in Nat
    /\ Size \in Nat \ {0} /\ N <= Size * Size
    /\ RoundFunctions \subseteq [0 .. 3 -> [Half -> Half]]
    /\ Null \notin Cursors /\ Error \notin Cursors /\ Null # Error

ASSUME XorAssumption ==
    \A a, b, f \in Half : HalfXor(a, f) \in Half /\ (HalfXor(a, f) = HalfXor(b, f) => a = b)

VARIABLES
    F,              \* the round functions of the list's key
    walking,        \* the cursor whose index is being computed, or Null
    cursor, walks,  \* Index's loop: the value so far, the permutations done
    got,            \* by cursor: its index, Error, or Null
    trail           \* history, by cursor: the values its walk permuted

vars == <<F, walking, cursor, walks, got, trail>>

\* Mutant: l = r; r = l ^ f, one after the other.
RoundInSequence(f, h) == [l |-> h.r, r |-> HalfXor(h.r, f[h.r])]

Round(f, h) == [l |-> h.r, r |-> HalfXor(h.l, f[h.r])]

permute(x) ==
    LET h == Round(F[3], Round(F[2], Round(F[1], Round(F[0],
                 [l |-> x \div Size, r |-> x % Size]))))
    IN  h.l * Size + h.r

Init ==
    /\ F \in RoundFunctions
    /\ walking = Null
    /\ cursor = 0 /\ walks = 0
    /\ got = [c \in Cursors |-> Null]
    /\ trail = [c \in Cursors |-> {}]

Index(c) ==
    /\ walking = Null
    /\ got[c] = Null
    /\ walking' = c
    /\ cursor' = c
    /\ walks' = 0
    /\ UNCHANGED <<F, got, trail>>

Return(answer) ==
    /\ got' = [got EXCEPT ![walking] = answer]
    /\ walking' = Null
    /\ cursor' = 0 /\ walks' = 0

\* Mutant: the loop permutes its argument again and again.
WalkInPlace ==
    LET x == permute(cursor) IN
    /\ walking # Null
    /\ walks < MaxCycleWalks
    /\ trail' = [trail EXCEPT ![walking] = @ \cup {cursor}]
    /\ IF x < N
       THEN Return(x)
       ELSE cursor' = cursor /\ walks' = walks + 1 /\ UNCHANGED <<walking, got>>
    /\ UNCHANGED F

\* One turn of the loop.
Walk ==
    LET x == permute(cursor) IN
    /\ walking # Null
    /\ walks < MaxCycleWalks
    /\ trail' = [trail EXCEPT ![walking] = @ \cup {cursor}]
    /\ IF x < N
       THEN Return(x)
       ELSE cursor' = x /\ walks' = walks + 1 /\ UNCHANGED <<walking, got>>
    /\ UNCHANGED F

\* "cycle walk did not converge".
GiveUp ==
    /\ walking # Null
    /\ walks = MaxCycleWalks
    /\ Return(Error)
    /\ UNCHANGED <<F, trail>>

Next == Walk \/ GiveUp \/ \E c \in Cursors : Index(c)

Spec == Init /\ [][Next]_vars

-----------------------------------------------------------------------------
\* Two cursor positions never get the same index, whatever the key makes of
\* the rounds and however often the walk leaves the list's capacity
\* (allocator.go:91-121).
NoCollision ==
    \A c, d \in Cursors : got[c] \in Cursors /\ got[c] = got[d] => c = d

\* A walk never comes back to a value it has been at, so it cannot go round
\* in the padding for ever: it is over after one step per padding value and
\* one more, or at its bound (allocator.go:33-37, 98-104).
WalkNeverRepeats == walking # Null => cursor \notin trail[walking]

-----------------------------------------------------------------------------
(* What makes NoCollision and WalkNeverRepeats inductive.                  *)

TypeOK ==
    /\ F \in RoundFunctions
    /\ walking \in Cursors \cup {Null}
    /\ cursor \in Domain /\ walks \in 0 .. MaxCycleWalks
    /\ got \in [Cursors -> Cursors \cup {Null, Error}]
    /\ trail \in [Cursors -> SUBSET Domain]

\* Where a walk is: at its cursor, or at a padding value its trail leads to.
WalkPosition ==
    walking # Null =>
        \/ cursor = walking /\ trail[walking] = {}
        \/ cursor >= N /\ \E v \in trail[walking] : cursor = permute(v)

NotStarted ==
    \A c \in Cursors : got[c] = Null /\ walking # c => trail[c] = {}

\* A trail starts at its cursor and goes on through padding values.
TrailShape ==
    \A c \in Cursors : \A w \in trail[c] :
        w = c \/ (w >= N /\ \E v \in trail[c] : w = permute(v))

TrailsDisjoint ==
    \A c, d \in Cursors : c # d => trail[c] \cap trail[d] = {}

ResultOfTrail ==
    \A c \in Cursors : got[c] \in Cursors => \E v \in trail[c] : got[c] = permute(v)

AllocatorInv ==
    /\ TypeOK /\ WalkPosition /\ NotStarted
    /\ TrailShape /\ TrailsDisjoint /\ ResultOfTrail /\ WalkNeverRepeats
=============================================================================
