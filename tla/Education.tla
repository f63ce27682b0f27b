------------------------------- MODULE Education ------------------------------
(***************************************************************************)
(* The two education rules: domains/education/index.mjs, percentage.mjs.   *)
(* A presentation maps <<role, claim>> to a value.                         *)
(***************************************************************************)
EXTENDS Decimals

Role == {"school", "college", "university"}
EducationPolicy == {"education/masters", "education/job"}

CompletionStatuses == {"COMPLETED", "IN_PROGRESS", "DISCONTINUED", "FAILED"}
DegreeLevels == {"BACHELOR", "MASTER", "DOCTORATE", "INTEGRATED"}
AcceptedFields == {"COMPUTER_SCIENCE", "INFORMATION_TECHNOLOGY", "SOFTWARE_ENGINEERING"}
FieldsOfStudy ==
    AcceptedFields \cup {"ELECTRONICS", "MECHANICAL", "CIVIL", "COMMERCE", "BIOTECHNOLOGY"}

Percentage == Role \X {"percentage"}

\* What a policy requests (MASTERS_CLAIMS, JOB_CLAIMS).
RequestedClaims(policy) ==
    (Role \X {"learnerId", "completionStatus"})
        \cup ({"university"} \X {"degreeLevel", "fieldOfStudy", "percentage"})
        \cup (IF policy = "education/masters" THEN Percentage ELSE {})

EducationClaim == RequestedClaims("education/masters")

JobAsksAll(policy) ==
    [role \in Role |->
        IF role = "university" /\ policy = "education/masters" THEN 70 * Whole ELSE 60 * Whole]

\* The thresholds a policy declares.
Thresholds(policy) ==
    IF policy = "education/masters"
    THEN [role \in Role |-> IF role = "university" THEN 70 * Whole ELSE 60 * Whole]
    ELSE [role \in {"university"} |-> 60 * Whole]

\* percentageToHundredths() does not throw.
IsPercentage(v) == v # Malformed /\ v >= 0 /\ v <= 100 * Whole /\ Precise(v)

\* correlatedLearnerId()
SameLearner(c) ==
    LET learner == c[<<"school", "learnerId">>]
    IN  IF learner # Malformed /\ \A role \in Role : c[<<role, "learnerId">>] = learner
        THEN "passes" ELSE "REJECTED"

\* All three are held against the vocabulary before any is judged.
AllCompleted(c) ==
    Checked(\A role \in Role : c[<<role, "completionStatus">>] \in CompletionStatuses,
            \A role \in Role : c[<<role, "completionStatus">>] = "COMPLETED")

IsBachelor(c) ==
    LET level == c[<<"university", "degreeLevel">>]
    IN  Checked(level \in DegreeLevels, level = "BACHELOR")

InAcceptedField(c) ==
    LET field == c[<<"university", "fieldOfStudy">>]
    IN  Checked(field \in FieldsOfStudy, field \in AcceptedFields)

Above(v, threshold) == Rounded(v) > Rounded(threshold)

AsText(v, threshold) == v < 100 * Whole /\ Rounded(v) >= Rounded(threshold)

\* meetsThreshold(): hundredths are compared, and the boundary passes.
AtOrAbove(v, threshold) == Rounded(v) >= Rounded(threshold)

Meets(c, policy, role) ==
    IF role \in DOMAIN Thresholds(policy)
    THEN LET v == c[<<role, "percentage">>]
         IN  Checked(IsPercentage(v), AtOrAbove(v, Thresholds(policy)[role]))
    ELSE "passes"

DecideEducation(c, policy) ==
    Then(SameLearner(c), Then(AllCompleted(c), Then(IsBachelor(c), Then(InAcceptedField(c),
        Then(Meets(c, policy, "school"), Then(Meets(c, policy, "college"),
            Then(Meets(c, policy, "university"), "ELIGIBLE")))))))

=============================================================================
