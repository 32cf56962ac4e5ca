--------------------------- MODULE PackingProofs ---------------------------
(***************************************************************************)
(* What the packing of statuses into bytes, the Lua script of redis.go and *)
(* the two token formats compute, for every list size and width: a write   *)
(* changes its own entry and no other, and both formats of a token read    *)
(* back what the bitmap holds.                                             *)
(***************************************************************************)
EXTENDS StatusListToken, SequenceTheorems, TLAPS

-----------------------------------------------------------------------------
(* Fields of a byte.                                                        *)

LEMMA Quotient ==
    ASSUME NEW x \in Nat, x > 0, NEW q \in Nat, NEW r \in 0 .. x - 1,
           NEW b, b = q * x + r
    PROVE  b \in Nat /\ b \div x = q /\ b % x = r
OBVIOUS

LEMMA DivMod ==
    ASSUME NEW x \in Nat, x > 0, NEW b \in Nat
    PROVE  b = (b \div x) * x + (b % x) /\ b \div x \in Nat /\ b % x \in 0 .. x - 1
OBVIOUS

LEMMA DivShifted ==
    ASSUME NEW x \in Nat, x > 0, NEW b \in Nat, NEW k \in Int,
           NEW c \in Nat, c = b + k * x
    PROVE  c \div x = (b \div x) + k /\ c % x = b % x
OBVIOUS

LEMMA Distributes ==
    ASSUME NEW a \in Int, NEW k \in Int, NEW x \in Int
    PROVE  (a + k) * x = a * x + k * x
OBVIOUS

LEMMA DivTwice ==
    ASSUME NEW x \in Nat, x > 0, NEW y \in Nat, y > 0, NEW b \in Nat
    PROVE  (b \div x) \div y = b \div (x * y)
OBVIOUS

Pow == [i \in 0 .. 8 |-> 2^i]

LEMMA PowersOfTwo ==
    /\ Pow[0] = 1 /\ Pow[1] = 2 /\ Pow[2] = 4 /\ Pow[3] = 8 /\ Pow[4] = 16
    /\ Pow[5] = 32 /\ Pow[6] = 64 /\ Pow[7] = 128 /\ Pow[8] = 256
BY DEF Pow

LEMMA PowersMultiply ==
    ASSUME NEW i \in 0 .. 8, NEW j \in 0 .. 8, i + j <= 8
    PROVE  Pow[i] * Pow[j] = Pow[i + j]
BY PowersOfTwo

LEMMA PowersPositive ==
    ASSUME NEW i \in 0 .. 8
    PROVE  Pow[i] \in Nat /\ Pow[i] > 0
BY PowersOfTwo

\* Wider than one bit, an entry has room for each of the three statuses.
LEMMA StatusesFit ==
    ASSUME Bits # 1, NEW st \in {VALID, INVALID, SUSPENDED}
    PROVE  st % 2^Bits = st
<1>1. st \in 0 .. 2
  BY DEF VALID, INVALID, SUSPENDED
<1>2. Pow[2] = 2^2 /\ Pow[4] = 2^4 /\ Pow[8] = 2^8
  BY DEF Pow
<1>3. CASE Bits = 2
  BY <1>1, <1>2, <1>3, PowersOfTwo
<1>4. CASE Bits = 4
  BY <1>1, <1>2, <1>4, PowersOfTwo
<1>5. CASE Bits = 8
  BY <1>1, <1>2, <1>5, PowersOfTwo
<1>6. QED
  BY <1>3, <1>4, <1>5, BitsAssumption, Zenon

\* Replacing the digit of weight x, to the base w, by u.
WithDigit(b, x, w, u) == b + (u - ((b \div x) % w)) * x

\* What it does above, at and below that digit.
DigitReplaced(b, x, w, u) ==
    LET c == WithDigit(b, x, w, u) IN
    /\ c \in Nat
    /\ (c \div x) % w = u
    /\ \A y \in Nat : y > 0 => c \div (x * w * y) = b \div (x * w * y)
    /\ \A y, z \in Nat : y > 0 /\ z > 0 /\ x = y * w * z => (c \div y) % w = (b \div y) % w

LEMMA Replaced ==
    ASSUME NEW x \in Nat, x > 0, NEW w \in Nat, w > 0, NEW b \in Nat, NEW u \in 0 .. w - 1
    PROVE  DigitReplaced(b, x, w, u)
<1> DEFINE c == WithDigit(b, x, w, u)
           B == b \div x
           q == B \div w
           f == B % w
           k == u - f
           C == B + k
           r == b % x
<1>1. b = B * x + r /\ B \in Nat /\ r \in 0 .. x - 1
  BY DivMod
<1>2. B = q * w + f /\ q \in Nat /\ f \in 0 .. w - 1
  BY <1>1, DivMod
<1> HIDE DEF B, q, f, r
<1>3. k \in Int /\ C = q * w + u /\ C \in Nat
  BY <1>2
<1>4. c = b + k * x
  BY Zenon DEF B, f, WithDigit
<1> HIDE DEF c
<1> HIDE DEF k
<1>5. C * x = B * x + k * x
  BY <1>1, <1>3, Distributes
<1>6. c = C * x + r
  BY <1>1, <1>3, <1>4, <1>5
<1> HIDE DEF C
<1>7. c \in Nat /\ c \div x = C
  BY <1>1, <1>3, <1>6
<1>8. (c \div x) % w = u /\ (c \div x) \div w = q
  <2>1. q \in Nat /\ C = q * w + u
    BY <1>2, <1>3
  <2>2. C % w = u /\ C \div w = q
    BY <2>1, Quotient
  <2>3. QED
    BY <1>7, <2>2
<1>9. ASSUME NEW y \in Nat, y > 0 PROVE c \div (x * w * y) = b \div (x * w * y)
  <2> DEFINE n == x * w
  <2>1. n \in Nat /\ n > 0
    OBVIOUS
  <2>2. c \div n = q /\ b \div n = q
    BY <1>7, <1>8, DivTwice DEF B, q
  <2> HIDE DEF n
  <2>3. c \div (n * y) = (c \div n) \div y /\ b \div (n * y) = (b \div n) \div y
    BY <1>7, <1>9, <2>1, DivTwice
  <2>4. QED
    BY <2>2, <2>3, Zenon DEF n
<1>10. ASSUME NEW y \in Nat, NEW z \in Nat, y > 0, z > 0, x = y * w * z
       PROVE  (c \div y) % w = (b \div y) % w
  <2> DEFINE j == k * z
             i == j * w
  <2>1. j \in Int /\ i \in Int
    BY <1>3
  <2>2. c = b + i * y
    BY <1>3, <1>4, <1>10
  <2> HIDE DEF j, i
  <2>3. c \div y = (b \div y) + i /\ c \div y \in Nat /\ b \div y \in Nat
    BY <1>7, <1>10, <2>1, <2>2, DivShifted, DivMod
  <2> DEFINE d == b \div y
             e == c \div y
  <2>4. d \in Nat /\ e \in Nat /\ e = d + j * w
    BY <2>3 DEF i
  <2> HIDE DEF d, e
  <2>5. e % w = d % w
    BY <2>1, <2>4, DivShifted, Zenon
  <2>6. QED
    BY <2>5 DEF d, e
<1>11. QED
  BY <1>7, <1>8, <1>9, <1>10, Zenon DEF DigitReplaced, c

Bytes == 0 .. 255

\* Where a field may start in its byte.
Offsets == {off \in 0 .. 7 : off % Bits = 0}

\* A byte with the field at off replaced is a byte, with the value in that
\* field and every other field as it was (bitmap.go:113-124, redis.go:49-68).
LEMMA FieldReplaced ==
    ASSUME NEW b \in Bytes, NEW off \in Offsets, NEW value \in Nat
    PROVE  /\ SetField(b, off, value) \in Bytes
           /\ Field(SetField(b, off, value), off, Bits) = value % 2^Bits
           /\ \A p \in Offsets :
                  p # off => Field(SetField(b, off, value), p, Bits) = Field(b, p, Bits)
<1> DEFINE c == SetField(b, off, value)
           x == Pow[off]
           w == Pow[Bits]
           u == value % w
<1>0. b \in Nat
  BY DEF Bytes
<1>1. Bits \in 1 .. 8 /\ off \in 0 .. 7 /\ off + Bits <= 8
  BY BitsAssumption DEF Offsets
<1>2. /\ x \in Nat /\ x > 0 /\ w \in Nat /\ w > 0
  BY <1>1, PowersPositive
<1>3. u \in 0 .. w - 1
  BY <1>2, DivMod
<1>4. \A d : \A p \in 0 .. 7 : Field(d, p, Bits) = (d \div Pow[p]) % w
  BY <1>1 DEF Field, Pow
<1>5. 2^Bits = w /\ 2^off = x
  BY <1>1 DEF Pow
<1>6. c = WithDigit(b, x, w, u)
  BY <1>5, Zenon DEF SetField, Field, WithDigit
<1> HIDE DEF c, x, w, u
<1>7. /\ c \in Nat
      /\ (c \div x) % w = u
      /\ \A y \in Nat : y > 0 => c \div (x * w * y) = b \div (x * w * y)
      /\ \A y, z \in Nat : y > 0 /\ z > 0 /\ x = y * w * z =>
             (c \div y) % w = (b \div y) % w
  <2>1. DigitReplaced(b, x, w, u)
    BY <1>0, <1>2, <1>3, Replaced
  <2>2. QED
    BY <1>6, <2>1, Zenon DEF DigitReplaced
<1>8. c \in Bytes
  <2> DEFINE y == Pow[8 - off - Bits]
  <2>1. y \in Nat /\ y > 0
    BY <1>1, PowersPositive
  <2>2. x * w * y = 256
    <3>1. x * w = Pow[off + Bits]
      BY <1>1, PowersMultiply DEF x, w
    <3>2. Pow[off + Bits] * y = Pow[8]
      BY <1>1, PowersMultiply
    <3>3. QED
      BY <3>1, <3>2, PowersOfTwo
  <2>3. c \div 256 = b \div 256
    BY <1>7, <2>1, <2>2
  <2>4. QED
    BY <1>7, <2>3 DEF Bytes
<1>9. ASSUME NEW p \in Offsets, p > off PROVE Field(c, p, Bits) = Field(b, p, Bits)
  <2> DEFINE y == Pow[p - off - Bits]
  <2>1. p \in 0 .. 7 /\ p - off - Bits \in 0 .. 8
    BY <1>1, <1>9, BitsAssumption DEF Offsets
  <2>2. y \in Nat /\ y > 0
    BY <2>1, PowersPositive
  <2>3. x * w = Pow[off + Bits]
    BY <1>1, PowersMultiply DEF x, w
  <2>4. Pow[off + Bits] * y = Pow[p]
    BY <1>1, <2>1, PowersMultiply
  <2>5. c \div Pow[p] = b \div Pow[p]
    BY <1>7, <2>2, <2>3, <2>4
  <2>6. QED
    BY <1>4, <2>1, <2>5
<1>10. ASSUME NEW p \in Offsets, p < off PROVE Field(c, p, Bits) = Field(b, p, Bits)
  <2> DEFINE y == Pow[p]
             z == Pow[off - p - Bits]
  <2>1. p \in 0 .. 7 /\ off - p - Bits \in 0 .. 8
    BY <1>1, <1>10, BitsAssumption DEF Offsets
  <2>2. y \in Nat /\ y > 0 /\ z \in Nat /\ z > 0
    BY <2>1, PowersPositive
  <2>3. y * w = Pow[p + Bits]
    BY <1>1, <2>1, PowersMultiply DEF w
  <2>4. Pow[p + Bits] * z = x
    BY <1>1, <2>1, PowersMultiply DEF x
  <2>5. (c \div y) % w = (b \div y) % w
    BY <1>7, <2>2, <2>3, <2>4
  <2>6. QED
    BY <1>4, <2>1, <2>5
<1>11. Field(c, off, Bits) = u
  BY <1>1, <1>4, <1>7 DEF x
<1>12. \A p \in Offsets : p = off \/ p > off \/ p < off
  BY DEF Offsets
<1>13. QED
  BY <1>5, <1>8, <1>9, <1>10, <1>11, <1>12 DEF c, u

-----------------------------------------------------------------------------
(* Entries of a bitmap.                                                     *)

\* The bytes of a string, zero beyond its end.
Byte(raw, k) == IF k <= Len(raw) THEN raw[k] ELSE 0

\* The status at an index of a bitmap, whatever the bitmap's length.
StatusAt(raw, idx) ==
    LET o == ByteOffset(idx, Bits) IN Field(Byte(raw, o.byteIndex + 1), o.bitOffset, Bits)

LEMMA PlaceOf ==
    ASSUME NEW idx \in Nat
    PROVE  /\ ByteOffset(idx, Bits).byteIndex \in Nat
           /\ ByteOffset(idx, Bits).bitOffset \in Offsets
           /\ \A n \in Nat : idx < n => ByteOffset(idx, Bits).byteIndex + 1 <= ByteLen(n)
<1>1. CASE Bits = 1
  BY <1>1 DEF ByteOffset, Offsets, ByteLen
<1>2. CASE Bits = 2
  BY <1>2 DEF ByteOffset, Offsets, ByteLen
<1>3. CASE Bits = 4
  BY <1>3 DEF ByteOffset, Offsets, ByteLen
<1>4. CASE Bits = 8
  BY <1>4 DEF ByteOffset, Offsets, ByteLen
<1>5. QED
  BY <1>1, <1>2, <1>3, <1>4, BitsAssumption

\* No two entries share a field.
LEMMA PlacesDiffer ==
    ASSUME NEW i \in Nat, NEW j \in Nat,
           ByteOffset(i, Bits).byteIndex = ByteOffset(j, Bits).byteIndex,
           ByteOffset(i, Bits).bitOffset = ByteOffset(j, Bits).bitOffset
    PROVE  i = j
<1>1. /\ (i * Bits) \div 8 = (j * Bits) \div 8
      /\ (i * Bits) % 8 = (j * Bits) % 8
  BY Zenon DEF ByteOffset
<1>2. CASE Bits = 1
  BY <1>1, <1>2
<1>3. CASE Bits = 2
  BY <1>1, <1>3
<1>4. CASE Bits = 4
  BY <1>1, <1>4
<1>5. CASE Bits = 8
  BY <1>1, <1>5
<1>6. QED
  BY <1>2, <1>3, <1>4, <1>5, BitsAssumption

LEMMA BytesOf ==
    ASSUME NEW n \in Nat, NEW f \in [1 .. n -> Bytes]
    PROVE  f \in Seq(Bytes) /\ Len(f) = n
<1>1. f \in Seq(Bytes)
  OBVIOUS
<1>2. QED
  BY <1>1

LEMMA ByteInRange ==
    ASSUME NEW raw \in Seq(Bytes), NEW k \in Nat, k > 0
    PROVE  Byte(raw, k) \in Bytes
<1>1. CASE k <= Len(raw)
  <2>1. k \in 1 .. Len(raw)
    BY <1>1, LenProperties
  <2>2. QED
    BY <1>1, <2>1, ElementOfSeq, Zenon DEF Byte
<1>2. CASE ~(k <= Len(raw))
  BY <1>2 DEF Byte, Bytes
<1>3. QED
  BY <1>1, <1>2, Zenon

\* What SetStatus's script makes of a bitmap.
WithStatus(raw, idx, value) ==
    LET o == ByteOffset(idx, Bits) IN WithField(raw, o.byteIndex + 1, o.bitOffset, value)

\* The bitmap new is raw with another status at idx.
Rewritten(raw, new, idx, status) ==
    /\ new \in Seq(Bytes) /\ new # <<>>
    /\ StatusAt(new, idx) = status
    /\ \A i \in Nat : i # idx => StatusAt(new, i) = StatusAt(raw, i)

\* SetStatus's script changes one entry of the bitmap, whether or not it has
\* to extend it (redis.go:49-68, 101-104).
THEOREM StatusWritten ==
    ASSUME NEW raw \in Seq(Bytes), NEW idx \in Nat, NEW value \in Nat
    PROVE  Rewritten(raw, WithStatus(raw, idx, value), idx, value % 2^Bits)
<1> DEFINE new == WithStatus(raw, idx, value)
<1> DEFINE o == ByteOffset(idx, Bits)
           k == o.byteIndex + 1
           off == o.bitOffset
           n == IF Len(raw) < k THEN k ELSE Len(raw)
<1>1. k \in Nat /\ k > 0 /\ off \in Offsets
  BY PlaceOf
<1>2. n \in Nat /\ k \in 1 .. n /\ Len(raw) <= n
  BY <1>1
<1>3. new = [j \in 1 .. n |-> IF j = k THEN SetField(Padded(raw, n)[j], off, value)
                                       ELSE Padded(raw, n)[j]]
  BY <1>2, Zenon DEF WithStatus, WithField, Padded
<1> HIDE DEF k, off, n, new
<1>4. \A j \in 1 .. n : Padded(raw, n)[j] = Byte(raw, j)
  BY Zenon DEF Padded, Byte
<1>5. \A j \in 1 .. n : new[j] = IF j = k THEN SetField(Byte(raw, j), off, value)
                                          ELSE Byte(raw, j)
  BY <1>3, <1>4, Zenon
<1>6. \A j \in 1 .. n : Byte(raw, j) \in Bytes
  <2>1. \A j \in 1 .. n : j \in Nat /\ j > 0
    BY <1>2
  <2>2. QED
    BY <2>1, ByteInRange, Zenon
<1>7. SetField(Byte(raw, k), off, value) \in Bytes
  BY <1>1, <1>2, <1>6, FieldReplaced, Zenon
<1>8. new = [j \in 1 .. n |-> new[j]]
  BY <1>3, Zenon
<1>9. new \in Seq(Bytes) /\ Len(new) = n
  <2>1. \A j \in 1 .. n : new[j] \in Bytes
    BY <1>5, <1>6, <1>7, Zenon
  <2>2. new \in [1 .. n -> Bytes]
    BY <1>8, <2>1, Zenon
  <2>3. QED
    BY <1>2, <2>2, BytesOf, Zenon
<1>10. ASSUME NEW j \in Nat, j > 0
       PROVE  Byte(new, j) = IF j = k THEN SetField(Byte(raw, k), off, value) ELSE Byte(raw, j)
  <2>1. CASE j <= n
    BY <1>2, <1>5, <1>9, <1>10, <2>1 DEF Byte
  <2>2. CASE ~(j <= n)
    BY <1>2, <1>9, <1>10, <2>2 DEF Byte
  <2>3. QED
    BY <2>1, <2>2, Zenon
<1>11. ASSUME NEW i \in Nat
       PROVE  StatusAt(new, i) = IF i = idx THEN value % 2^Bits ELSE StatusAt(raw, i)
  <2> DEFINE j == ByteOffset(i, Bits).byteIndex + 1
             p == ByteOffset(i, Bits).bitOffset
  <2>1. j \in Nat /\ j > 0 /\ p \in Offsets
    BY PlaceOf
  <2>2. /\ StatusAt(new, i) = Field(Byte(new, j), p, Bits)
        /\ StatusAt(raw, i) = Field(Byte(raw, j), p, Bits)
    BY Zenon DEF StatusAt
  <2>3. (i = idx) <=> (j = k /\ p = off)
    <3>1. j = k => ByteOffset(i, Bits).byteIndex = ByteOffset(idx, Bits).byteIndex
      BY PlaceOf DEF k
    <3>2. QED
      BY <3>1, PlacesDiffer, Zenon DEF k, off
  <2> HIDE DEF j, p
  <2>4. CASE j # k
    BY <1>10, <2>1, <2>2, <2>3, <2>4, Zenon
  <2>5. CASE j = k
    <3>1. Byte(raw, k) \in Bytes
      BY <1>1, ByteInRange, Zenon
    <3>2. CASE p = off
      <4>1. Field(SetField(Byte(raw, k), off, value), off, Bits) = value % 2^Bits
        BY <1>1, <3>1, FieldReplaced, Zenon
      <4>2. QED
        BY <1>10, <2>1, <2>2, <2>3, <2>5, <3>2, <4>1, Zenon
    <3>3. CASE p # off
      <4>1. Field(SetField(Byte(raw, k), off, value), p, Bits) = Field(Byte(raw, k), p, Bits)
        <5>1. \A q \in Offsets : q # off =>
                  Field(SetField(Byte(raw, k), off, value), q, Bits) = Field(Byte(raw, k), q, Bits)
          BY <1>1, <3>1, FieldReplaced, Zenon
        <5>2. QED
          BY <2>1, <3>3, <5>1, Zenon
      <4>2. QED
        BY <1>10, <2>1, <2>2, <2>3, <2>5, <3>3, <4>1, Zenon
    <3>4. QED
      BY <3>2, <3>3, Zenon
  <2>6. QED
    BY <2>4, <2>5, Zenon
<1>12. new # <<>>
  BY <1>2, <1>9
<1>13. QED
  BY <1>9, <1>11, <1>12, Zenon DEF Rewritten, new

\* A zero-filled bitmap reads as the missing one (redis.go:89-98, 114-131).
LEMMA StatusOfZeros ==
    ASSUME NEW n \in Nat
    PROVE  /\ Zeros(n) \in Seq(Bytes)
           /\ \A i \in Nat : StatusAt(Zeros(n), i) = StatusAt(<<>>, i)
<1>1. Zeros(n) = [k \in 1 .. n |-> Zeros(n)[k]] /\ \A k \in 1 .. n : Zeros(n)[k] = 0
  BY Zenon DEF Zeros
<1>2. Zeros(n) \in Seq(Bytes) /\ Len(Zeros(n)) = n
  <2>1. \A k \in 1 .. n : Zeros(n)[k] \in Bytes
    BY <1>1 DEF Bytes
  <2>2. Zeros(n) \in [1 .. n -> Bytes]
    BY <1>1, <2>1, Zenon
  <2>3. QED
    BY <2>2, BytesOf, Zenon
<1>3. ASSUME NEW k \in Nat, k > 0 PROVE Byte(Zeros(n), k) = Byte(<<>>, k)
  BY <1>1, <1>2, <1>3 DEF Byte
<1>4. \A i \in Nat : /\ ByteOffset(i, Bits).byteIndex + 1 \in Nat
                      /\ ByteOffset(i, Bits).byteIndex + 1 > 0
  BY PlaceOf
<1>5. QED
  BY <1>2, <1>3, <1>4, Zenon DEF StatusAt

\* What a snapshot of the bitmap, padded to the list's size, has at an index.
LEMMA StatusInSnapshot ==
    ASSUME NEW raw \in Seq(Bytes), NEW n \in Nat, NEW idx \in 0 .. n - 1
    PROVE  /\ Padded(raw, ByteLen(n)) \in Seq(Bytes)
           /\ Len(Padded(raw, ByteLen(n))) = ByteLen(n)
           /\ Get(Padded(raw, ByteLen(n)), idx, Bits) = StatusAt(raw, idx)
<1> DEFINE data == Padded(raw, ByteLen(n))
           k == ByteOffset(idx, Bits).byteIndex + 1
<1>1. ByteLen(n) \in Nat /\ k \in 1 .. ByteLen(n)
  <2>1. idx \in Nat /\ idx < n
    OBVIOUS
  <2>2. n * Bits \in Nat
    BY BitsAssumption
  <2>3. ByteLen(n) \in Nat
    BY <2>2 DEF ByteLen
  <2>4. QED
    BY <2>1, <2>3, PlaceOf
<1>2. /\ data = [j \in 1 .. ByteLen(n) |-> data[j]]
      /\ \A j \in 1 .. ByteLen(n) : data[j] = Byte(raw, j)
  BY Zenon DEF Padded, Byte
<1>3. \A j \in 1 .. ByteLen(n) : data[j] \in Bytes
  <2>1. \A j \in 1 .. ByteLen(n) : j \in Nat /\ j > 0
    BY <1>1
  <2>2. QED
    BY <1>2, <2>1, ByteInRange, Zenon
<1> HIDE DEF data, k
<1>4. data \in Seq(Bytes) /\ Len(data) = ByteLen(n)
  <2>1. data \in [1 .. ByteLen(n) -> Bytes]
    BY <1>2, <1>3, Zenon
  <2>2. QED
    BY <1>1, <2>1, BytesOf, Zenon
<1>5. Get(data, idx, Bits) = StatusAt(raw, idx)
  BY <1>1, <1>2, Zenon DEF Get, StatusAt, k
<1>6. QED
  BY <1>4, <1>5, Zenon DEF data

-----------------------------------------------------------------------------
(* The token of a list.                                                     *)

\* The reader of a token takes its bytes to hold at least the list's entries.
LEMMA EntriesInBytes ==
    ASSUME NEW n \in Nat, NEW idx \in 0 .. n - 1
    PROVE  LET m == (ByteLen(n) * 8) \div Bits IN
           m \in Nat /\ idx < m /\ ByteLen(n) = (m * Bits + 7) \div 8
<1>1. CASE Bits = 1
  BY <1>1 DEF ByteLen
<1>2. CASE Bits = 2
  BY <1>2 DEF ByteLen
<1>3. CASE Bits = 4
  BY <1>3 DEF ByteLen
<1>4. CASE Bits = 8
  BY <1>4 DEF ByteLen
<1>5. QED
  BY <1>1, <1>2, <1>3, <1>4, BitsAssumption

\* Both forms of a token, taken apart, are the list's identifier, the width and
\* the bytes they were built from (token.go:146-229, cwt.go:85-256).
LEMMA TokenRoundTrip ==
    ASSUME NEW p, NEW l, NEW bits, NEW size, NEW data,
           p = [ListURL |-> l, KeyID |-> "kid",
                Bitmap |-> [bits |-> bits, size |-> size, data |-> data]]
    PROVE  /\ ParseToken(BuildToken("key", p), "key") = [sub |-> l, bits |-> bits, lst |-> data]
           /\ ParseCWTToken(BuildCWTToken("key", p), "key") =
                  [sub |-> l, bits |-> bits, lst |-> data]
<1>1. p.ListURL = l /\ p.KeyID = "kid" /\ p.Bitmap.bits = bits /\ p.Bitmap.data = data
  BY Zenon
<1>2. ASSUME NEW x PROVE Claims(p, x) = [sub |-> l, bits |-> bits, lst |-> x]
  BY <1>1, Zenon DEF Claims
<1>3. DecodeLst(EncodeLst(data)) = data /\ decompressLst(compressLst(data)) = data
  BY Zenon DEF DecodeLst, EncodeLst, decompressLst, compressLst
<1>4. ASSUME NEW form, NEW h, NEW c
      PROVE  /\ Authentic(Signed("key", form, h, c), "key")
             /\ Signed("key", form, h, c).claims = c /\ Signed("key", form, h, c).form = form
  BY Zenon DEF Authentic, Signed, Signature
<1>5. ASSUME NEW x, NEW y
      PROVE  [[sub |-> l, bits |-> bits, lst |-> x] EXCEPT !.lst = y] =
                 [sub |-> l, bits |-> bits, lst |-> y]
  OBVIOUS
<1>6. ParseToken(BuildToken("key", p), "key") = [sub |-> l, bits |-> bits, lst |-> data]
  <2> DEFINE c == Claims(p, EncodeLst(data))
             tok == BuildToken("key", p)
  <2>1. Authentic(tok, "key") /\ tok.claims = c
    <3> DEFINE h == [typ |-> "statuslist+jwt", kid |-> p.KeyID,
                     jwk |-> [key |-> "key", kid |-> p.KeyID]]
    <3>1. tok = Signed("key", "JWS", h, c)
      BY <1>1 DEF BuildToken
    <3> HIDE DEF c, tok, h
    <3>2. QED
      BY <1>4, <3>1
  <2>2. c = [sub |-> l, bits |-> bits, lst |-> EncodeLst(data)]
    BY <1>2, Zenon
  <2>3. c.lst = EncodeLst(data)
    BY <2>2
  <2> HIDE DEF c, tok
  <2>4. ParseToken(tok, "key") = [c EXCEPT !.lst = DecodeLst(c.lst)]
    BY <2>1, Zenon DEF ParseToken
  <2>5. QED
    BY <1>3, <1>5, <2>2, <2>3, <2>4, Zenon DEF tok
<1>7. ParseCWTToken(BuildCWTToken("key", p), "key") = [sub |-> l, bits |-> bits, lst |-> data]
  <2> DEFINE c == Claims(p, compressLst(data))
             tok == BuildCWTToken("key", p)
  <2>1. Authentic(tok, "key") /\ tok.claims = c /\ tok.form = "COSE_Sign1"
    <3> DEFINE h == [typ |-> "application/statuslist+cwt", kid |-> p.KeyID]
    <3>1. tok = Signed("key", "COSE_Sign1", h, c)
      BY <1>1 DEF BuildCWTToken
    <3> HIDE DEF c, tok, h
    <3>2. QED
      BY <1>4, <3>1
  <2>2. c = [sub |-> l, bits |-> bits, lst |-> compressLst(data)]
    BY <1>2, Zenon
  <2>3. c.lst = compressLst(data)
    BY <2>2
  <2> HIDE DEF c, tok
  <2>4. ParseCWTToken(tok, "key") = [c EXCEPT !.lst = decompressLst(c.lst)]
    BY <2>1, Zenon DEF ParseCWTToken
  <2>5. QED
    BY <1>3, <1>5, <2>2, <2>3, <2>4, Zenon DEF tok
<1>8. QED
  BY <1>6, <1>7, Zenon

\* Both forms of a list's token read, at every index of the list, as the
\* list's bitmap does (publisher.go:165-192).
THEOREM TokensReadStored ==
    ASSUME NEW l \in ListIDs, lists[l] \in Row,
           bitmap[lists[l].shard_id][l] \in Seq(Bytes),
           NEW idx \in 0 .. lists[l].size - 1
    PROVE  StatusesRead(l, idx) = {StatusAt(bitmap[lists[l].shard_id][l], idx)}
<1> DEFINE raw == bitmap[lists[l].shard_id][l]
           n == lists[l].size
           data == Padded(raw, ByteLen(n))
           cl == [sub |-> l, bits |-> Bits, lst |-> data]
           m == (ByteLen(n) * 8) \div Bits
<1>0. /\ Null \notin Seq(Bytes)
      /\ Null \notin [bits : {1, 2, 4, 8}, size : Nat, data : Seq(Bytes)]
      /\ Null \notin [sub : ListIDs, bits : {1, 2, 4, 8}, lst : Seq(Bytes)]
  BY TokenAssumption, Zenon DEF Bytes
<1>1. n \in Nat
  BY SizesAssumption, Zenon DEF Row
<1> HIDE DEF n, raw
<1>2. data \in Seq(Bytes) /\ Len(data) = ByteLen(n) /\ Get(data, idx, Bits) = StatusAt(raw, idx)
  BY <1>1, StatusInSnapshot, Zenon DEF n, raw
<1>3. m \in Nat /\ idx < m /\ ByteLen(n) = (m * Bits + 7) \div 8
  BY <1>1, EntriesInBytes, Zenon DEF n
<1> HIDE DEF data, m
<1>4. TokenParams(l) = [ListURL |-> l, KeyID |-> "kid",
                        Bitmap |-> [bits |-> Bits, size |-> n, data |-> data]]
  <2>1. WrapBitmap(data, n, Bits) = [bits |-> Bits, size |-> n, data |-> data]
    BY <1>2, BitsAssumption, Zenon DEF WrapBitmap, ByteLen
  <2>2. QED
    BY <2>1, Zenon DEF TokenParams, Snapshot, data, n, raw
<1>5. /\ ParseToken(BuildToken("key", TokenParams(l)), "key") = cl
      /\ ParseCWTToken(BuildCWTToken("key", TokenParams(l)), "key") = cl
  BY <1>4, TokenRoundTrip
<1>6. cl # Null /\ cl.lst = data /\ data # Null /\ cl.bits = Bits
  <2>1. cl \in [sub : ListIDs, bits : {1, 2, 4, 8}, lst : Seq(Bytes)]
    BY <1>2, BitsAssumption
  <2>2. cl.lst = data /\ cl.bits = Bits
    OBVIOUS
  <2>3. QED
    BY <1>0, <1>2, <2>1, <2>2, Zenon
<1>7. StatusIn(cl, idx) = Get(data, idx, Bits)
  <2> DEFINE bm == WrapBitmap(data, m, Bits)
  <2>1. bm = [bits |-> Bits, size |-> m, data |-> data]
    BY <1>2, <1>3, BitsAssumption, Zenon DEF WrapBitmap
  <2>2. bm # Null /\ bm.size = m /\ bm.bits = Bits /\ bm.data = data
    <3>1. bm \in [bits : {1, 2, 4, 8}, size : Nat, data : Seq(Bytes)]
      BY <1>2, <1>3, <2>1, BitsAssumption
    <3>2. bm.size = m /\ bm.bits = Bits /\ bm.data = data
      BY <2>1
    <3>3. QED
      BY <1>0, <3>1, <3>2, Zenon
  <2>3. WrapBitmap(cl.lst, (Len(cl.lst) * 8) \div cl.bits, cl.bits) = bm
    BY <1>2, <1>6, Zenon DEF m
  <2> HIDE DEF bm, cl
  <2>4. QED
    BY <1>3, <1>6, <2>2, <2>3, Zenon DEF StatusIn
<1>8. QED
  BY <1>2, <1>5, <1>7, Zenon DEF StatusesRead, raw
=============================================================================
