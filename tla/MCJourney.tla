------------------------------ MODULE MCJourney -------------------------------
(***************************************************************************)
(* WalletJourney on the agriculture use case: two registries resolved from *)
(* the Authority, one issuer by its DID, and containers that differ in     *)
(* whether the standing is checked and whether the environment is complete.*)
(***************************************************************************)
EXTENDS JourneyInvariant, TLC

CONSTANTS d1, d2

MCFile == <<
    [var |-> "AGE_ISSUER_DID", authority |-> NoIssuer, roles |-> {}],
    [var |-> NoVar, authority |-> "farmer-authority", roles |-> {"farmer"}],
    [var |-> NoVar, authority |-> "land-authority", roles |-> {"land"}]>>

Container(age, status) ==
    [vars |-> [v \in {"AGE_ISSUER_DID"} |-> age], baseUrl |-> TRUE, statusClaim |-> status]

MCDeployment == {Container(d1, TRUE), Container(d1, FALSE), Container(NoDID, TRUE)}

MCRole == {"farmer", "land"}
MCDomainClaims == [r \in MCRole |-> {"record"}]
MCCarried ==
    [k \in {"hand", "film"} |-> [r \in MCRole |->
        {"record", "withheld"} \cup (IF k = "film" THEN {"standing"} ELSE {})]]
=============================================================================
