-------------------------- MODULE PresentationGate --------------------------
(***************************************************************************)
(* The checks a presentation passes before a business rule may see it:     *)
(* services/verifier/src/core/{checks,algorithms,claim-policy,trust,       *)
(* credential-status}.mjs, in the order server.mjs applies them.           *)
(*                                                                         *)
(* A body is what GET /vp/status answers for an answered transaction:      *)
(*   verified  the upstream verdict                                        *)
(*   error     "none", or what upstream says went wrong                    *)
(*   passed    the names of the checks reported 'OK' (a check that is      *)
(*             missing and one that failed are refused alike)              *)
(*   algs      the signature algorithms reported, as a set                 *)
(*   claims    a function from DCQL query ids to disclosed credentials     *)
(* and a disclosed credential is                                           *)
(*   names     the names of its disclosed claims                           *)
(*   iss       its issuer claim                                            *)
(*   credential  the identifier it carries at its Authority.               *)
(***************************************************************************)
EXTENDS Naturals, Sequences

CONSTANTS
    ApprovedAlgs,   \* config/policy/algorithms.json, as loaded
    TrustPolicy,    \* issuer DID -> [roles: set, authority: BOOLEAN]
    NoRole,         \* a request that declares no role (Age)
    NoCredential    \* a credential that carries no Authority identifier

(***************************************************************************)
(* Step 1: the cryptographic verdict, read from upstream.                  *)
(***************************************************************************)
RequiredChecks == {"holderSignature", "nonce", "audience",
    "credentialSignatures", "holderBinding", "revocation", "dcql"}

\* The three refusal signatures of a wallet that says no.
IsRefusal(error) == error \in {"access_denied", "user_cancelled", "missing vp_token"}

Declined(body) == ~body.verified /\ IsRefusal(body.error)

ChecksPass(body) == body.verified /\ RequiredChecks \subseteq body.passed

(***************************************************************************)
(* Step 1b: every reported algorithm is approved, and there is one.        *)
(***************************************************************************)
AlgorithmsApproved(algs) == algs # {} /\ algs \subseteq ApprovedAlgs

(***************************************************************************)
(* Step 2: exactly the claims that were requested, nothing more.           *)
(***************************************************************************)
ExactClaims(expected, received) ==
    /\ received \subseteq expected
    /\ expected \subseteq received

(***************************************************************************)
(* Step 3: the issuer is on the allowlist, and FOR THIS SLOT.  An issuer   *)
(* that declares no role satisfies no request that names one.              *)
(***************************************************************************)
Trusted(iss, role) ==
    /\ iss \in DOMAIN TrustPolicy
    /\ role = NoRole \/ role \in TrustPolicy[iss].roles

\* The checks of one requested credential that need no other service.
SlotPasses(body, request) ==
    /\ request.id \in DOMAIN body.claims
    /\ ExactClaims(request.expectedClaims, body.claims[request.id].names)
    /\ Trusted(body.claims[request.id].iss, request.role)

(***************************************************************************)
(* Step 3b: the standing of the credential at its Authority.  A credential *)
(* with no identifier, or an issuer nothing vouches for, is refused        *)
(* without asking; only ACTIVE is usable, and no answer is no pass.        *)
(***************************************************************************)
Checkable(disclosed) ==
    /\ disclosed.credential # NoCredential
    /\ TrustPolicy[disclosed.iss].authority

UsableUnlessRevoked(standing) == standing # "REVOKED"

Usable(standing) == standing = "ACTIVE"

\* The whole synchronous part of the gate, as one predicate.
GatePasses(body, requests) ==
    /\ ChecksPass(body)
    /\ AlgorithmsApproved(body.algs)
    /\ \A k \in DOMAIN requests : SlotPasses(body, requests[k])

=============================================================================
