---------------------------- MODULE TokenEndpoint ----------------------------
(***************************************************************************)
(* POST /token of the authorization server up to the shard assignment      *)
(* (internal/as/handlers.go): the issuer's client assertion is verified    *)
(* with the key in its own header (internal/clientassertion), and a policy *)
(* decision point is asked whether that key is trusted (internal/trust).   *)
(* Sharding has the rest of the request.                                   *)
(***************************************************************************)
EXTENDS Sharding

CONSTANTS
    Keys,           \* public keys, a certificate standing for its key
    PDP             \* whether a decision point is configured

ASSUME EndpointAssumption == PDP \in BOOLEAN /\ Null \notin Keys

VARIABLE proof      \* history, by request: the key that signed its assertion,
                    \* and what the PDP has affirmed for it

endpointVars == <<vars, proof>>

-----------------------------------------------------------------------------
(* Client assertions.  A header is absent (Null), does not parse, or holds *)
(* a JWK, or a certificate chain, leaf first.                              *)

Malformed == <<>>

Assertions ==
    [iss : Issuers \cup {Null}, sub : Issuers \cup {Null},
     aud : {"this endpoint", "another"}, expired : BOOLEAN,
     lifetime : {"short", "long", "no iat"},
     jwk : {Null, Malformed} \cup {<<k>> : k \in Keys},
     x5c : {Null, Malformed} \cup {<<k>> : k \in Keys} \cup (Keys \X Keys),
     signer : Keys]

\* Exactly one of the headers: the key is in its first, or only, element.
resolveProofOfPossession(a) ==
    [key |-> CASE a.jwk # Null /\ a.x5c = Null -> a.jwk
               [] a.x5c # Null /\ a.jwk = Null -> a.x5c
               [] OTHER -> Malformed,
     jwk |-> a.jwk, x5c |-> a.x5c]

\* Verify accepts the assertion.  The lifetime is bounded if iat is there; an nbf,
\* which the library checks too, and the request's form fields are left out, so
\* that a few more requests pass here.
Verifies(a) ==
    LET key == resolveProofOfPossession(a).key IN
    /\ key # Malformed /\ key # Null
    /\ a.signer = Head(key)
    /\ a.aud = "this endpoint"
    /\ ~a.expired
    /\ a.sub # Null /\ a.iss = a.sub
    /\ a.lifetime # "long"

Result(a) ==
    LET p == resolveProofOfPossession(a) IN [IssuerID |-> a.sub, JWK |-> p.jwk, X5C |-> p.x5c]

\* The assertions that verify, by what they establish and who signed them.
Verified ==
    {[result |-> Result(a), signer |-> a.signer] : a \in {b \in Assertions : Verifies(b)}}

-----------------------------------------------------------------------------
(* The trust decision.                                                     *)

\* handleToken's credential, as the key of the AuthZEN resource.
credentialKey(result) == IF result.JWK # Null THEN result.JWK ELSE result.X5C

\* Mutant: an unreachable decision point is taken for one that has no objection.
EvaluateFailOpen(reply) == ~PDP \/ reply # "denies"

\* With no decision point everybody is trusted; else only a decision is one:
\* a failing call, another status than 200 or a body that does not parse is
\* an error.
Evaluate(reply) == ~PDP \/ reply = "affirms"

NoProof == [signer |-> Null, affirmed |-> {}]

\* handleToken, from the form to the first SELECT of AssignOrLookup.  On every
\* other outcome it answers 400, 401 or 500 and has changed nothing.
HandleToken(r, v, reply) ==
    /\ Evaluate(reply)
    /\ Lookup(r, v.result.IssuerID)
    /\ proof' = [proof EXCEPT ![r] =
            [signer |-> v.signer,
             affirmed |-> IF PDP /\ reply = "affirms"
                          THEN {<<v.result.IssuerID, Head(credentialKey(v.result))>>} ELSE {}]]

EndpointInit == Init /\ proof = [r \in Requests |-> NoProof]

EndpointNext ==
    \/ \E r \in Requests, v \in Verified, reply \in {"affirms", "denies", "fails"} :
           HandleToken(r, v, reply)
    \/ /\ Continue
       /\ proof' = [r \in Requests |-> IF pc'[r] = "idle" THEN NoProof ELSE proof[r]]

EndpointSpec == EndpointInit /\ [][EndpointNext]_endpointVars

-----------------------------------------------------------------------------
\* With a decision point, every token is for an issuer and a key that it has
\* affirmed in this very request, and that key is the one that signed the
\* assertion: what Verify checked the signature with is what Evaluate asks
\* about, and "A PDP that's merely unreachable must never be indistinguishable
\* from 'everything is trusted'" (trust/authzen.go:100-105,
\* clientassertion/verify.go:95-115, as/handlers.go:46-80).
AffirmedKeySigned ==
    \A r \in Requests :
        PDP /\ pc[r] # "idle" => <<issuer[r], proof[r].signer>> \in proof[r].affirmed
=============================================================================
