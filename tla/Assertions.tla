----------------------------- MODULE Assertions -----------------------------
(***************************************************************************)
(* Which operation assertions JWTAuthenticator accepts for a call.  Pure   *)
(* operators; ServerProcess calls them.                                    *)
(*                                                                         *)
(* An assertion is [verified, addressed, iat, nbf, exp, op, request,       *)
(* nonce].  verified: it parses, is short enough, names one configured key *)
(* of its own algorithm and is signed with it.  addressed: issuer,         *)
(* audience, subject, client and assertion id are valid, and it details    *)
(* one action of the expected type.  op, request and nonce are that action *)
(* and what it was signed for; a SHA-256 digest stands for its request.    *)
(***************************************************************************)
EXTENDS Integers, Sequences

CONSTANTS
    MaximumAge,   \* longest lifetime of an assertion
    ClockSkew     \* tolerance between the issuer's clock and the server's

ASSUME AssertionAssumption ==
    /\ MaximumAge \in Nat \ {0}
    /\ ClockSkew \in Nat

NoNonce == ""

\* requestIdempotencyKey: exactly one valid key for a mutation, none for a
\* read.  keys is the sequence of values the metadata carries.
KeyAllowed(idempotent, keys, valid) ==
    IF idempotent THEN Len(keys) = 1 /\ keys[1] \in valid ELSE keys = <<>>

\* validateClaims.  ValidateWithLeeway looks at exp and nbf with the tolerance
\* on either side; the lifetime itself is bounded without any.
ValidateClaims(a, op, request, nonce, now) ==
    /\ a.addressed
    /\ now - ClockSkew <= a.exp
    /\ a.nbf <= now + ClockSkew
    /\ a.iat <= now + ClockSkew
    /\ a.exp - a.iat > 0
    /\ a.exp - a.iat <= MaximumAge
    /\ a.op = op
    /\ a.request = request
    /\ a.nonce = nonce

\* Authenticate up to the resolution of the principal.
Accepts(a, op, request, nonce, now) ==
    a.verified /\ ValidateClaims(a, op, request, nonce, now)
=============================================================================
