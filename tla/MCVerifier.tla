----------------------------- MODULE MCVerifier -----------------------------
(***************************************************************************)
(* Small instances of Verifier.  The agriculture session asks for two      *)
(* credentials and checks the standing of both; the age session asks for   *)
(* one, names no role and checks no standing.                              *)
(***************************************************************************)
EXTENDS VerifierInvariant, TLC

FarmerRequest == [id |-> "farmer_cred", role |-> "farmer", statusClaim |-> TRUE,
    expectedClaims |-> {"farmerReference", "registrationStatus", "authorityCredentialId", "iss"}]
LandRequest == [id |-> "land_cred", role |-> "land", statusClaim |-> TRUE,
    expectedClaims |-> {"farmerReference", "ownershipStatus", "cropType", "cultivatedArea",
                        "authorityCredentialId", "iss"}]
AgeRequest == [id |-> "age_cred", role |-> NoRole, statusClaim |-> FALSE,
    expectedClaims |-> {"ageOver18", "iss"}]

MCTrustPolicy ==
    [i \in {"farmer registry", "land registry", "age issuer"} |->
        CASE i = "farmer registry" -> [roles |-> {"farmer"}, authority |-> TRUE]
          [] i = "land registry" -> [roles |-> {"land"}, authority |-> TRUE]
          [] i = "age issuer" -> [roles |-> {}, authority |-> FALSE]]

MCApproved == {"ES256", "EdDSA"}

Farmer == [names |-> FarmerRequest.expectedClaims, iss |-> "farmer registry", credential |-> "f1"]
Land == [names |-> LandRequest.expectedClaims, iss |-> "land registry", credential |-> "l1"]
Age == [names |-> AgeRequest.expectedClaims, iss |-> "age issuer", credential |-> NoCredential]

Verified(claims, outcome) ==
    [verified |-> TRUE, error |-> "none", passed |-> RequiredChecks,
     algs |-> {"ES256"}, claims |-> claims, outcome |-> outcome]

FarmClaims(farmer, land) ==
    [i \in {"farmer_cred", "land_cred"} |-> IF i = "farmer_cred" THEN farmer ELSE land]

Good == Verified(FarmClaims(Farmer, Land), "ELIGIBLE")
\* The farmer registry's credential offered in the land slot.
Swapped == Verified(FarmClaims(Farmer, [Land EXCEPT !.iss = "farmer registry"]), "ELIGIBLE")
Unlinked == Verified(FarmClaims(Farmer, [Land EXCEPT !.credential = NoCredential]), "ELIGIBLE")
\* The rule refuses, or throws: a claim that must be a number came as a string.
Ineligible == [Good EXCEPT !.outcome = "NOT_ELIGIBLE"]
Strings == [Good EXCEPT !.outcome = "throws"]
WeakAlg == [Good EXCEPT !.algs = {"ES256", "none"}]
Faulty == [Good EXCEPT !.verified = FALSE, !.error = "nonce mismatch", !.passed = {}]
Refused == [Good EXCEPT !.verified = FALSE, !.error = "access_denied", !.passed = {},
                        !.claims = <<>>]
OverAge == Verified([i \in {"age_cred"} |-> Age], "ELIGIBLE")

MCRequests == [s \in {"farm", "age"} |->
    IF s = "farm" THEN <<FarmerRequest, LandRequest>> ELSE <<AgeRequest>>]

\* For the agriculture session, whatever it is decided by; what its polls may tell apart;
\* and for the age session.
MCPresentation == {Good, Swapped, Unlinked, WeakAlg, Strings, Faulty}
MCPolled == {Good, Ineligible, Refused}
MCLiveAnswers == {OverAge}

\* The GET handlers run the same code.
Symmetry == Permutations(Read)

=============================================================================
