------------------------------ MODULE FarmCredit ------------------------------
(***************************************************************************)
(* The farm-credit rule: domains/agriculture/index.mjs and money.mjs.      *)
(* A presentation maps <<role, claim>> to a value.                         *)
(***************************************************************************)
EXTENDS Decimals

CONSTANTS
    Rates,          \* rupees per acre of each crop the policy lends against
    MaxRatePerAcre

\* What loadCropPolicy() accepts at start; with anything else the verifier does not start.
CropPolicyLoads(rates, cap) ==
    /\ cap \in Nat \ {0}
    /\ DOMAIN rates # {}
    /\ \A crop \in DOMAIN rates : rates[crop] \in 1 .. cap

ASSUME CropPolicyAssumption == CropPolicyLoads(Rates, MaxRatePerAcre)

FarmerClaims == {"farmerReference", "registrationStatus"}
LandClaims == {"farmerReference", "ownershipStatus", "cropType", "cultivatedArea"}
FarmClaim == ({"farmer"} \X FarmerClaims) \cup ({"land"} \X LandClaims)

Area == <<"land", "cultivatedArea">>
Crop == <<"land", "cropType">>

OwnershipStatuses == {"ACTIVE", "INACTIVE", "DISPUTED", "TRANSFERRED"}

\* acresToHundredths() does not throw.
IsAcreage(area) == area # Malformed /\ area >= 0 /\ Precise(area)

RoundsUp(hundredths, rate) == (hundredths * rate + 99) \div 100

PartsOfTenths(hundredths, rate) ==
    (hundredths \div 100) * rate + ((hundredths % 100) * rate + 5) \div 10

\* maximumLoan(): whole rupees, half-up.
MaximumLoan(hundredths, rate) == (hundredths * rate + 50) \div 100

NotCorrelated(c) == "passes"

\* Correlation comes first, and is never a business answer.
Correlated(c) ==
    LET farmer == c[<<"farmer", "farmerReference">>]
    IN  IF farmer # Malformed /\ farmer = c[<<"land", "farmerReference">>]
        THEN "passes" ELSE "REJECTED"

\* Booleans are compared as such: a string is malformed, and never true.
Registered(c) ==
    LET status == c[<<"farmer", "registrationStatus">>]
    IN  Checked(status # Malformed, status = TRUE)

Owned(c) ==
    LET status == c[<<"land", "ownershipStatus">>]
    IN  Checked(status \in OwnershipStatuses, status = "ACTIVE")

Cultivated(c) == Checked(IsAcreage(c[Area]), Rounded(c[Area]) # 0)

\* A crop without a rate is a business answer, also when it is not a string.
Funded(c) == Checked(TRUE, c[Crop] \in DOMAIN Rates)

DecideFarmCredit(c) ==
    Then(Correlated(c), Then(Registered(c), Then(Owned(c), Then(Cultivated(c),
        Then(Funded(c), "ELIGIBLE")))))

Loan(c) == MaximumLoan(Rounded(c[Area]), Rates[c[Crop]])

=============================================================================
