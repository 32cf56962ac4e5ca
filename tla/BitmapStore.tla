----------------------------- MODULE BitmapStore -----------------------------
(***************************************************************************)
(* The Redis side of the service (internal/store/redis.go): one Redis per  *)
(* shard, holding for every list a packed bitmap and a write version under *)
(* two separate keys.  Each Redis command, or Lua script, is one atomic    *)
(* step; SetStatus is two of them.                                         *)
(*                                                                         *)
(* A bitmap is the sequence of its bytes, entries packed from each byte's  *)
(* least significant bit up (internal/statuslist/bitmap.go).  A missing    *)
(* key is the empty sequence, a missing version is 0.                      *)
(***************************************************************************)
EXTENDS MetaStore, Sequences

CONSTANTS
    Bits,           \* entry width, LIST_BITS: 1, 2, 4 or 8
    MaxVersion      \* bound on the writes to a list, besides allocations

ASSUME BitsAssumption == Bits \in {1, 2, 4, 8} /\ MaxVersion \in Nat

VARIABLES bitmap, version

redisVars == <<bitmap, version>>

VALID == 0
INVALID == 1
SUSPENDED == 2

\* The bytes that n entries need.
ByteLen(n) == (n * Bits + 7) \div 8

ByteOffset(idx, bits) == [byteIndex |-> (idx * bits) \div 8, bitOffset |-> (idx * bits) % 8]

\* The field of byte b, bits wide, that starts at bit off.
Field(b, off, bits) == (b \div 2^off) % 2^bits

\* Byte b with that field replaced, the rest kept; the value is cut to the
\* field's width.
SetField(b, off, value) == b + ((value % 2^Bits) - Field(b, off, Bits)) * 2^off

Get(data, idx, bits) ==
    LET o == ByteOffset(idx, bits) IN Field(data[o.byteIndex + 1], o.bitOffset, bits)

Zeros(n) == [k \in 1 .. n |-> 0]

\* The first n bytes of a string, zeros beyond its end.
Padded(raw, n) == [k \in 1 .. n |-> IF k <= Len(raw) THEN raw[k] ELSE 0]

RedisInit ==
    /\ bitmap = [s \in Shards |-> [l \in ListIDs |-> <<>>]]
    /\ version = [s \in Shards |-> [l \in ListIDs |-> 0]]

\* Mutant: SET instead of SETNX.
OverwriteBitmap(s, l, size) ==
    /\ bitmap' = [bitmap EXCEPT ![s][l] = Zeros(ByteLen(size))]
    /\ UNCHANGED version

\* Init: SETNX of the zero-filled bitmap.
InitBitmap(s, l, size) ==
    /\ bitmap' = [bitmap EXCEPT ![s][l] = IF @ = <<>> THEN Zeros(ByteLen(size)) ELSE @]
    /\ UNCHANGED version

\* The string with one field of its byte k replaced; SETRANGE creates or extends
\* it with zero bytes.
WithField(raw, k, off, value) ==
    [Padded(raw, IF Len(raw) < k THEN k ELSE Len(raw)) EXCEPT ![k] = SetField(@, off, value)]

\* The first half of SetStatus, the script: a read-modify-write of one byte.
SetByte(s, l, idx, value) ==
    LET o == ByteOffset(idx, Bits) IN
    /\ bitmap' = [bitmap EXCEPT ![s][l] = WithField(@, o.byteIndex + 1, o.bitOffset, value)]
    /\ UNCHANGED version

\* The second half of SetStatus, a separate round trip.
Incr(s, l) ==
    /\ version' = [version EXCEPT ![s][l] = @ + 1]
    /\ UNCHANGED bitmap

Snapshot(s, l, size) == Padded(bitmap[s][l], ByteLen(size))

Purge(s, l) ==
    /\ bitmap' = [bitmap EXCEPT ![s][l] = <<>>]
    /\ version' = [version EXCEPT ![s][l] = 0]
=============================================================================
