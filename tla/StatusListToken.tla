--------------------------- MODULE StatusListToken ---------------------------
(***************************************************************************)
(* The Status List Token a list is published as (internal/statuslist): its *)
(* JWT and its CWT form, built from a snapshot of the list's bitmap        *)
(* (internal/publisher), and how a relying party gets a status out of      *)
(* either.  Compression, base64url and signatures are opaque terms that    *)
(* only their own inverse, or the right key, takes apart.                  *)
(***************************************************************************)
EXTENDS BitmapStore

\* Null, the missing value and the error, is no bytes, no bitmap and no claims.
ASSUME TokenAssumption ==
    /\ Null \notin Seq(0 .. 255)
    /\ Null \notin [bits : {1, 2, 4, 8}, size : Nat, data : Seq(0 .. 255)]
    /\ Null \notin [sub : ListIDs, bits : {1, 2, 4, 8}, lst : Seq(0 .. 255)]

compressLst(raw) == [enc |-> "zlib", of |-> raw]

decompressLst(x) == IF x.enc = "zlib" THEN x.of ELSE Null

EncodeLst(raw) == [enc |-> "base64url", of |-> compressLst(raw)]

DecodeLst(x) == IF x.enc = "base64url" THEN decompressLst(x.of) ELSE Null

\* Of the data and size of a bitmap that go together; Null is the error.
WrapBitmap(data, size, bits) ==
    IF bits \in {1, 2, 4, 8} /\ Len(data) = (size * bits + 7) \div 8
    THEN [bits |-> bits, size |-> size, data |-> data]
    ELSE Null

Signature(key, signed) == [by |-> key, over |-> signed]

\* The parts of either form: both sign the header and the claims together.
Signed(key, form, header, claims) ==
    [form |-> form, header |-> header, claims |-> claims,
     sig |-> Signature(key, <<header, claims>>)]

Claims(p, lst) == [sub |-> p.ListURL, bits |-> p.Bitmap.bits, lst |-> lst]

\* The JWK in the header, which verifiers check the signature with, carries
\* the same kid as the header.
BuildToken(key, p) ==
    Signed(key, "JWS",
           [typ |-> "statuslist+jwt", kid |-> p.KeyID, jwk |-> [key |-> key, kid |-> p.KeyID]],
           Claims(p, EncodeLst(p.Bitmap.data)))

\* Mutant: the text form of lst in the binary token.
BuildCWTTokenAsText(key, p) ==
    Signed(key, "COSE_Sign1", [typ |-> "application/statuslist+cwt", kid |-> p.KeyID],
           Claims(p, EncodeLst(p.Bitmap.data)))

BuildCWTToken(key, p) ==
    Signed(key, "COSE_Sign1", [typ |-> "application/statuslist+cwt", kid |-> p.KeyID],
           Claims(p, compressLst(p.Bitmap.data)))

Authentic(token, key) == token.sig = Signature(key, <<token.header, token.claims>>)

\* What ParseToken and then DecodeLst, or ParseCWTToken, make of a token.
ParseToken(token, key) ==
    IF Authentic(token, key)
    THEN [token.claims EXCEPT !.lst = DecodeLst(token.claims.lst)]
    ELSE Null

ParseCWTToken(token, key) ==
    IF token.form = "COSE_Sign1" /\ Authentic(token, key)
    THEN [token.claims EXCEPT !.lst = decompressLst(token.claims.lst)]
    ELSE Null

\* The status at an index, by what the token says alone: the claims carry the
\* bytes and the width but not the list's size, so the reader takes the
\* largest one that fits the bytes.
StatusIn(claims, idx) ==
    IF claims = Null \/ claims.lst = Null THEN Null
    ELSE LET bm == WrapBitmap(claims.lst, (Len(claims.lst) * 8) \div claims.bits, claims.bits) IN
         IF bm # Null /\ idx < bm.size THEN Get(bm.data, idx, bm.bits) ELSE Null

\* PublishIfStale's TokenParams for list l as it stands right now.
TokenParams(l) ==
    LET row == lists[l] IN
    [ListURL |-> l, KeyID |-> "kid",
     Bitmap |-> WrapBitmap(Snapshot(row.shard_id, l, row.size), row.size, Bits)]

\* The statuses a relying party reads at an index of l, from the two forms of
\* a token built right now.
StatusesRead(l, idx) ==
    LET p == TokenParams(l) IN
    {StatusIn(ParseToken(BuildToken("key", p), "key"), idx),
     StatusIn(ParseCWTToken(BuildCWTToken("key", p), "key"), idx)}
=============================================================================
