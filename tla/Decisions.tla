------------------------------- MODULE Decisions ------------------------------
(***************************************************************************)
(* The business rules of the verifier at work, as decide() of a use case   *)
(* in server.mjs calls them, on claims that passed the gate.               *)
(*                                                                         *)
(* An applicant for credit, a course or a job presents again and again,    *)
(* and one claim of the credentials changes in between.  A citizen asks    *)
(* for an age credential, and presents it any number of days later.        *)
(***************************************************************************)
EXTENDS FarmCredit, Education, AgeClaims, FiniteSets

CONSTANTS
    Values,       \* the values each claim of an applicant can have
    Qualified,    \* claims with which every rule approves
    MaxFlaws,     \* bound: claims that differ from Qualified at one time
    Birth,        \* dates of birth in the registry
    FirstDay,
    LastDay,      \* bound: the calendar stops here
    NoClaims

ASSUME ValuesAssumption ==
    /\ Malformed \notin Int \cup BOOLEAN
    /\ \A f \in FarmClaim \cup EducationClaim : Qualified[f] \in Values[f]
    /\ \A f \in {Area} \cup Percentage : Values[f] \subseteq Int \cup {Malformed}

\* What a date of birth of the right form looks like; whether there is such a day is another
\* question (IsCalendarDate).
WrittenDate == [year : Int, month : Int, day : Int]
Date == [year : Nat, month : 1 .. 12, day : 1 .. 31]

ASSUME CalendarAssumption ==
    /\ Birth \subseteq WrittenDate \cup {Unreadable} /\ Unreadable \notin WrittenDate
    /\ FirstDay \in Date
    /\ NoClaims \notin [AgeThresholds -> BOOLEAN]

UseCase == {"age", "agriculture"} \cup EducationPolicy

VARIABLES
    useCase,
    claims,       \* what was presented last; the age assertions in the wallet
    answer,       \* what the rule said of it
    birth,        \* the citizen's date of birth in the registry
    today

vars == <<useCase, claims, answer, birth, today>>

ClaimsOf(case) == IF case = "agriculture" THEN FarmClaim ELSE EducationClaim

\* USE_CASES[useCase].decide(verified)
Decide(case, c) ==
    IF case = "agriculture" THEN DecideFarmCredit(c) ELSE DecideEducation(c, case)

Init ==
    /\ useCase \in UseCase
    /\ today = FirstDay
    /\ \/ /\ useCase = "age"
          /\ birth \in Birth
          /\ claims = NoClaims /\ answer = "none"
       \/ /\ useCase # "age"
          /\ birth = Unreadable
          /\ claims = [f \in ClaimsOf(useCase) |-> Qualified[f]]
          /\ answer = Decide(useCase, claims)

-----------------------------------------------------------------------------
Flaws(c) == Cardinality({f \in DOMAIN c : c[f] # Qualified[f]})

\* The applicant presents again, with one claim changed.
PresentsAgain(f, v) ==
    /\ useCase # "age"
    /\ f \in ClaimsOf(useCase)
    /\ claims' = [claims EXCEPT ![f] = v]
    /\ Flaws(claims') <= MaxFlaws
    /\ answer' = Decide(useCase, claims')
    /\ UNCHANGED <<useCase, birth, today>>

\* issueOffer(): the assertions are derived before the two calls that follow, and what these
\* take is days that pass before the credential is used.  A citizen or a credential type that
\* is not found exactly once ends the request without an offer.
IssueOffer ==
    /\ useCase = "age"
    /\ Derivable(birth, today)
    /\ claims' = AgeAssertions(birth, today)
    /\ UNCHANGED <<useCase, answer, birth, today>>

\* The wallet presents the credential, or one of a trusted issuer that wrote the claim as text.
PresentsAge(ageOver18) ==
    /\ useCase = "age" /\ claims # NoClaims
    /\ ageOver18 \in {claims[18], Malformed}
    /\ answer' = DecideAge(ageOver18)
    /\ UNCHANGED <<useCase, claims, birth, today>>

\* The next day of the calendar.
Tomorrow(date) ==
    IF date.day < DaysIn(date.month, date.year) THEN [date EXCEPT !.day = @ + 1]
    ELSE IF date.month < 12 THEN [year |-> date.year, month |-> date.month + 1, day |-> 1]
    ELSE [year |-> date.year + 1, month |-> 1, day |-> 1]

DayPasses ==
    /\ useCase = "age"
    /\ today # LastDay
    /\ today' = Tomorrow(today)
    /\ UNCHANGED <<useCase, claims, answer, birth>>

Next ==
    \/ \E f \in DOMAIN Values : \E v \in Values[f] : PresentsAgain(f, v)
    \/ IssueOffer
    \/ \E ageOver18 \in {TRUE, FALSE, Malformed} : PresentsAge(ageOver18)
    \/ DayPasses

Spec == Init /\ [][Next]_vars

-----------------------------------------------------------------------------
(***************************************************************************)
(* Properties.                                                             *)
(***************************************************************************)
Answer == {"none", "APPROVED", "DENIED", "ELIGIBLE", "NOT_ELIGIBLE", "REJECTED"}

\* Claims, answer and calendar keep their types.
TypeOK ==
    /\ useCase \in UseCase
    /\ answer \in Answer
    /\ today \in Date /\ birth \in Birth \cup {Unreadable}
    /\ useCase = "age" => claims \in [AgeThresholds -> BOOLEAN] \cup {NoClaims}
    /\ useCase # "age" =>
        /\ DOMAIN claims = ClaimsOf(useCase)
        /\ \A f \in ClaimsOf(useCase) : claims[f] \in Values[f]

\* What the policy published, without an order: each check qualifies.
Qualifies(case, c) ==
    IF case = "agriculture"
    THEN /\ c[<<"farmer", "farmerReference">>] = c[<<"land", "farmerReference">>]
         /\ c[<<"farmer", "farmerReference">>] # Malformed
         /\ c[<<"farmer", "registrationStatus">>] = TRUE
         /\ c[<<"land", "ownershipStatus">>] = "ACTIVE"
         /\ IsAcreage(c[Area]) /\ 2 * c[Area] >= Fine
         /\ c[Crop] \in DOMAIN Rates
    ELSE /\ \E learner \in Values[<<"school", "learnerId">>] \ {Malformed} :
                \A role \in Role : c[<<role, "learnerId">>] = learner
         /\ \A role \in Role : c[<<role, "completionStatus">>] = "COMPLETED"
         /\ c[<<"university", "degreeLevel">>] = "BACHELOR"
         /\ c[<<"university", "fieldOfStudy">>] \in AcceptedFields
         /\ \A role \in DOMAIN Thresholds(case) :
                /\ IsPercentage(c[<<role, "percentage">>])
                /\ c[<<role, "percentage">>] + Slack >= Thresholds(case)[role]

\* ELIGIBLE is answered exactly when every requirement of the policy is met, whatever else
\* is wrong with the other claims and in whatever order the rule looks at them; a mark on the
\* threshold passes, also one a binary fraction puts just under it.
EligibleExactly ==
    useCase # "age" => (answer = "ELIGIBLE" <=> Qualifies(useCase, claims))

\* The credentials of a presentation name one subject.
OneSubject(case, c) ==
    \A f, g \in {f \in ClaimsOf(case) : f[2] \in {"farmerReference", "learnerId"}} :
        c[f] = c[g] /\ c[f] # Malformed

\* Credentials that do not belong together are a verification failure, never a business
\* answer: NOT_ELIGIBLE is said of one farmer or learner only.
AnswerIsAboutOneSubject ==
    useCase # "age" /\ answer = "NOT_ELIGIBLE" => OneSubject(useCase, claims)

\* The loan is the claimed acreage times the rate to within half a rupee, through both
\* roundings, the acreage's (acresToHundredths) and the rupees' (maximumLoan).
LoanIsFair ==
    useCase = "agriculture" /\ answer = "ELIGIBLE" =>
        LET rate == Rates[claims[Crop]]
            error == 100 * Fine * Loan(claims) - claims[Area] * rate
        IN  error \in (-(50 * Fine + Slack * rate)) .. (50 * Fine + Slack * rate)

\* A farmer who presents more land of one crop is never offered less.
MoreLandNeverLess ==
    [][useCase = "agriculture" /\ answer = "ELIGIBLE" /\ answer' = "ELIGIBLE"
        /\ claims'[Crop] = claims[Crop] /\ claims'[Area] >= claims[Area]
            => Loan(claims') >= Loan(claims)]_vars

\* A rule depends on nothing its portal does not request: a claim the job portal did not ask
\* for never changes its answer.
DisclosureFollowsPurpose ==
    [][(useCase \in EducationPolicy
        /\ \A f \in RequestedClaims(useCase) : claims'[f] = claims[f]) => answer' = answer]_vars

\* Better marks never cost a learner the eligibility.
BetterMarksNeverHurt ==
    [][(useCase \in EducationPolicy /\ answer = "ELIGIBLE"
        /\ (\A f \in EducationClaim \ Percentage : claims'[f] = claims[f])
        /\ (\A f \in Percentage : claims'[f] = claims[f]
                \/ (IsPercentage(claims'[f]) /\ IsPercentage(claims[f]) /\ claims'[f] >= claims[f])))
            => answer' = "ELIGIBLE"]_vars

\* Years between two dates, as the difference of YYYYMMDD counts them.
Number(date) == 10000 * date.year + 100 * date.month + date.day
IsOver(years) == Number(today) - Number(birth) >= 10000 * years

\* The assertions in a new credential are true on the day, for every threshold and also for
\* those born on a 29 February.
AgeIsExact ==
    [][useCase = "age" /\ claims' # claims =>
        \A threshold \in AgeThresholds : claims'[threshold] = IsOver(threshold)]_vars

\* Nobody under 18 is approved, however old the credential is that says otherwise.
ApprovedIsOver18 == answer = "APPROVED" => IsOver(18)

\* What a rule said is what it says of the claims on the table.
AnswerIsDecided == useCase # "age" => answer = Decide(useCase, claims)

\* The assertions in a wallet stay true as days pass.
AssertionsLast ==
    useCase = "age" /\ claims # NoClaims =>
        \A threshold \in AgeThresholds : claims[threshold] => IsOver(threshold)

\* Nothing is asserted or approved for a citizen whose date of birth could not be read.
BirthIsRead ==
    /\ useCase = "age" /\ claims # NoClaims => IsCalendarDate(birth)
    /\ useCase = "age" /\ answer = "APPROVED" => claims # NoClaims

\* The inductive invariant.
IInv == TypeOK /\ AnswerIsDecided /\ BirthIsRead /\ AssertionsLast /\ ApprovedIsOver18

=============================================================================
