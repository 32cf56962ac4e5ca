----------------------------- MODULE MCMetaStore -----------------------------
(* A small instance of the store's contract.                               *)
EXTENDS MetaStore

MCSizes == {2}

\* Key "a" reverses the positions; key "b" keeps them, and its cycle walk
\* gives up on the second position of a two-entry list.
MCIndex(k, n, c) ==
    IF k = "a" THEN n - 1 - c ELSE IF c = 0 THEN 0 ELSE Null
=============================================================================
