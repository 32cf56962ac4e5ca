----------------------------- MODULE MCAllocator -----------------------------
(* A list of 5 entries, whose positions are padded to 16: 11 of them are    *)
(* outside the list.                                                       *)
EXTENDS Allocator, Bitwise

MCXor(a, b) == a ^^ b

\* The rounds of a key are drawn from maps that are constant, injective or
\* neither.
MCRound == {[r \in 0 .. 3 |-> 1], [r \in 0 .. 3 |-> (3 * r + 1) % 4],
            [r \in 0 .. 3 |-> ((r * r + r) \div 2) % 4], [r \in 0 .. 3 |-> IF r = 0 THEN 3 ELSE 0]}

MCRoundFunctions == [0 .. 3 -> MCRound]
=============================================================================
