------------------------------ MODULE MCDecisions -----------------------------
(***************************************************************************)
(* Decisions with claims at the boundaries: just on, just off and a        *)
(* tolerated fraction off each threshold; acreages whose loans end in half *)
(* a rupee; and birthdays on and next to a 29 February.                    *)
(***************************************************************************)
EXTENDS Decisions

MCRates == [crop \in {"PADDY", "WHEAT"} |-> IF crop = "PADDY" THEN 33 ELSE 50]

\* In tenths of a hundredth; the last digit is what a schema does not permit.
Marks == {-10, 0, 59990, 59994, 59999, 60000, 60001, 69990, 69999, 70000, 70005, 100000, 100010,
          Malformed}
Acreages == {-5, 0, 1, 5, 10, 11, 990, 1010, 1500, 1503, 1990, 2000, 4099, 4101, Malformed}

Statuses == {"COMPLETED", "FAILED", Malformed}

MCValues ==
    [f \in FarmClaim \cup EducationClaim |->
        CASE f[2] = "farmerReference" -> {"farmer 1", "farmer 2", Malformed}
          [] f[2] = "registrationStatus" -> {TRUE, FALSE, Malformed}
          [] f[2] = "ownershipStatus" -> {"ACTIVE", "DISPUTED", Malformed}
          [] f[2] = "cropType" -> {"PADDY", "WHEAT", "GROUNDNUT", Malformed}
          [] f[2] = "cultivatedArea" -> Acreages
          [] f[2] = "learnerId" -> {"learner 1", "learner 2", Malformed}
          [] f[2] = "completionStatus" -> Statuses
          [] f[2] = "degreeLevel" -> {"BACHELOR", "MASTER", Malformed}
          [] f[2] = "fieldOfStudy" -> {"COMPUTER_SCIENCE", "CIVIL", Malformed}
          [] f[2] = "percentage" -> Marks]

MCQualified ==
    [f \in FarmClaim \cup EducationClaim |->
        CASE f[2] = "farmerReference" -> "farmer 1"
          [] f[2] = "registrationStatus" -> TRUE
          [] f[2] = "ownershipStatus" -> "ACTIVE"
          [] f[2] = "cropType" -> "PADDY"
          [] f[2] = "cultivatedArea" -> 1500
          [] f[2] = "learnerId" -> "learner 1"
          [] f[2] = "completionStatus" -> "COMPLETED"
          [] f[2] = "degreeLevel" -> "BACHELOR"
          [] f[2] = "fieldOfStudy" -> "COMPUTER_SCIENCE"
          [] f[2] = "percentage" -> 70000]

MCDate(y, m, d) == [year |-> y, month |-> m, day |-> d]

MCBirth == {MCDate(2000, 2, 28), MCDate(2000, 2, 29), MCDate(2000, 3, 1), MCDate(2000, 12, 31),
            MCDate(2001, 2, 29), MCDate(2018, 6, 1), MCDate(99, 1, 1), Unreadable}

MCFirstDay == MCDate(2018, 1, 1)
MCLastDay == MCDate(2022, 1, 2)

=============================================================================
