---------------------------- MODULE Decisions_proofs ---------------------------
(***************************************************************************)
(* What the business rules answer, for every presentation, policy and      *)
(* calendar: arithmetic first, then the rules, then the machine.           *)
(***************************************************************************)
EXTENDS Decisions, TLAPS

-----------------------------------------------------------------------------
(***************************************************************************)
(* Arithmetic.                                                             *)
(***************************************************************************)
\* The defining bounds of an integer quotient.
LEMMA Quotient ==
    ASSUME NEW n \in Int, NEW d \in Nat, d > 0
    PROVE  n \div d \in Int /\ d * (n \div d) <= n /\ n < d * (n \div d) + d
  BY SMT

\* They determine it: a smaller or a larger quotient is off by the divisor.
LEMMA TwoMultiples ==
    ASSUME NEW d \in Nat, NEW p \in Int, NEW q \in Int, d * p < d * q + d, d > 0
    PROVE  p <= q
<1> SUFFICES ASSUME p >= q + 1 PROVE FALSE
  OBVIOUS
<1>1. d * p >= d * (q + 1)
  BY SMT
<1>2. d * (q + 1) = d * q + d
  BY SMT
<1> QED BY <1>1, <1>2, SMT

\* Rounding a number of hundredths gives it back.
LEMMA RoundedExact ==
    ASSUME NEW k \in Nat
    PROVE  Fine * k \in Nat /\ Rounded(Fine * k) = k
<1> DEFINE n == 2 * (Fine * k) + Fine
           q == n \div (2 * Fine)
<1>1. Fine \in Nat /\ Fine > 0 /\ Fine * k \in Nat
  BY DecimalsAssumption, SMT
<1>2. q \in Int /\ (2 * Fine) * q <= n /\ n < (2 * Fine) * q + 2 * Fine
  <2>1. n \in Int /\ 2 * Fine \in Nat /\ 2 * Fine > 0
    BY <1>1, SMT
  <2> QED BY <2>1, Quotient
<1> HIDE DEF q
<1>3. Fine * q < Fine * k + Fine /\ Fine * k < Fine * q + Fine
  <2>1. (2 * Fine) * q = 2 * (Fine * q)
    BY <1>1, <1>2, SMT
  <2>2. Fine * q \in Int
    BY <1>1, <1>2, SMT
  <2> QED BY <1>1, <1>2, <2>1, <2>2, SMT
<1>4. q <= k /\ k <= q
  BY <1>1, <1>2, <1>3, TwoMultiples
<1> QED BY <1>1, <1>2, <1>4 DEF Rounded, q, n

\* A number with at most two decimals is its rounding to within the tolerance.
LEMMA RoundedClose ==
    ASSUME NEW v \in Int, v >= 0, Precise(v)
    PROVE  /\ Rounded(v) \in Nat
           /\ v - Fine * Rounded(v) <= Slack /\ Fine * Rounded(v) - v <= Slack
<1>1. Fine \in Nat /\ Fine > 0 /\ Slack \in Nat /\ 2 * Slack < Fine
  BY DecimalsAssumption, SMT
<1>2. Rounded(v) \in Int
  <2>1. 2 * v + Fine \in Int /\ 2 * Fine \in Nat /\ 2 * Fine > 0
    BY <1>1, SMT
  <2> QED BY <2>1, Quotient DEF Rounded
<1>3. Fine * Rounded(v) \in Int
  BY <1>1, <1>2, SMT
<1>4. v - Fine * Rounded(v) <= Slack /\ Fine * Rounded(v) - v <= Slack
  BY <1>1, <1>3, SMT DEF Precise
<1>5. Fine * 0 < Fine * Rounded(v) + Fine
  BY <1>1, <1>3, <1>4, SMT
<1>6. 0 <= Rounded(v)
  BY <1>1, <1>2, <1>5, TwoMultiples
<1> QED BY <1>2, <1>4, <1>6

\* Rounding keeps the order of such numbers.
LEMMA RoundedMonotone ==
    ASSUME NEW v \in Int, NEW w \in Int, v >= 0, Precise(v), w >= 0, Precise(w), v <= w
    PROVE  Rounded(v) <= Rounded(w)
<1>1. Fine \in Nat /\ Fine > 0 /\ Slack \in Nat /\ 2 * Slack < Fine
  BY DecimalsAssumption, SMT
<1>2. /\ Rounded(v) \in Nat /\ Fine * Rounded(v) - v <= Slack
      /\ Rounded(w) \in Nat /\ w - Fine * Rounded(w) <= Slack
  BY RoundedClose
<1>3. Fine * Rounded(v) \in Int /\ Fine * Rounded(w) \in Int
  BY <1>1, <1>2, SMT
<1>4. Fine * Rounded(v) < Fine * Rounded(w) + Fine
  BY <1>1, <1>2, <1>3, SMT
<1> QED BY <1>1, <1>2, <1>4, TwoMultiples

\* Multiplication keeps the order.
LEMMA Times ==
    ASSUME NEW d \in Nat, NEW x \in Int, NEW y \in Int, x <= y
    PROVE  d * x \in Int /\ d * y \in Int /\ d * x <= d * y
<1>1. d * (y - x) >= 0
  BY SMT
<1>2. d * (y - x) = d * y - d * x
  BY SMT
<1> QED BY <1>1, <1>2, SMT

\* A rounding is not zero from half a hundredth on.
LEMMA RoundedPositive ==
    ASSUME NEW v \in Int, v >= 0, Precise(v)
    PROVE  Rounded(v) # 0 <=> 2 * v >= Fine
<1>1. Fine \in Nat /\ Fine > 0 /\ Slack \in Nat /\ 2 * Slack < Fine
  BY DecimalsAssumption, SMT
<1>2. Rounded(v) \in Nat /\ v - Fine * Rounded(v) <= Slack /\ Fine * Rounded(v) - v <= Slack
  BY RoundedClose
<1>3. CASE Rounded(v) = 0
  BY <1>1, <1>2, <1>3, SMT
<1>4. CASE Rounded(v) # 0
  <2>1. Fine * 1 <= Fine * Rounded(v)
    BY <1>1, <1>2, <1>4, Times, SMT
  <2> QED BY <1>1, <1>2, <1>4, <2>1, SMT
<1> QED BY <1>3, <1>4

\* Against a threshold of whole hundredths, the rounding decides as the number does to within
\* the tolerance.
LEMMA ThresholdExact ==
    ASSUME NEW v \in Int, v >= 0, Precise(v), NEW k \in Nat
    PROVE  AtOrAbove(v, Fine * k) <=> v + Slack >= Fine * k
<1>1. Fine \in Nat /\ Fine > 0 /\ Slack \in Nat /\ 2 * Slack < Fine
  BY DecimalsAssumption, SMT
<1>2. Rounded(v) \in Nat /\ v - Fine * Rounded(v) <= Slack /\ Fine * Rounded(v) - v <= Slack
  BY RoundedClose
<1>3. Fine * k \in Nat /\ Rounded(Fine * k) = k
  BY RoundedExact
<1>4. Fine * Rounded(v) \in Int
  BY <1>1, <1>2, SMT
<1>5. ASSUME Rounded(v) >= k PROVE v + Slack >= Fine * k
  <2>1. Fine * k <= Fine * Rounded(v)
    BY <1>1, <1>2, <1>5, Times
  <2> QED BY <1>1, <1>2, <1>3, <1>4, <2>1, SMT
<1>6. ASSUME v + Slack >= Fine * k PROVE Rounded(v) >= k
  <2>1. Fine * k < Fine * Rounded(v) + Fine
    BY <1>1, <1>2, <1>3, <1>4, <1>6, SMT
  <2>2. k <= Rounded(v)
    BY <1>1, <1>2, <2>1, TwoMultiples
  <2> QED BY <1>2, <2>2
<1> QED BY <1>3, <1>5, <1>6 DEF AtOrAbove

\* The loan is within half a rupee of the rounded acreage's, in hundredths of a rupee.
LEMMA LoanBounds ==
    ASSUME NEW hundredths \in Nat, NEW rate \in Nat
    PROVE  /\ MaximumLoan(hundredths, rate) \in Int /\ hundredths * rate \in Nat
           /\ 100 * MaximumLoan(hundredths, rate) <= hundredths * rate + 50
           /\ 100 * MaximumLoan(hundredths, rate) >= hundredths * rate - 50
<1> DEFINE n == hundredths * rate + 50
<1>1. hundredths * rate \in Nat /\ n \in Int
  BY SMT
<1>2. n \div 100 \in Int /\ 100 * (n \div 100) <= n /\ n < 100 * (n \div 100) + 100
  BY <1>1, Quotient
<1> QED BY <1>1, <1>2, SMT DEF MaximumLoan

\* More land of a crop is not less money.
LEMMA LoanMonotone ==
    ASSUME NEW less \in Nat, NEW more \in Nat, NEW rate \in Nat, less <= more
    PROVE  MaximumLoan(less, rate) <= MaximumLoan(more, rate)
<1> DEFINE m == less * rate + 50
           n == more * rate + 50
<1>1. rate * less <= rate * more
  BY Times
<1>2. m \in Int /\ n \in Int /\ m <= n
  BY <1>1, SMT
<1>3. /\ m \div 100 \in Int /\ 100 * (m \div 100) <= m
      /\ n \div 100 \in Int /\ n < 100 * (n \div 100) + 100
  BY <1>2, Quotient
<1>4. m \div 100 <= n \div 100
  BY <1>2, <1>3, SMT
<1> QED BY <1>4 DEF MaximumLoan

-----------------------------------------------------------------------------
(***************************************************************************)
(* The farm-credit rule.                                                   *)
(***************************************************************************)
\* What the checks of the rule can say.
LEMMA FarmChecks ==
    ASSUME NEW c
    PROVE  /\ Correlated(c) \in {"passes", "REJECTED"}
           /\ Registered(c) \in {"passes", "NOT_ELIGIBLE", "REJECTED"}
           /\ Owned(c) \in {"passes", "NOT_ELIGIBLE", "REJECTED"}
           /\ Cultivated(c) \in {"passes", "NOT_ELIGIBLE", "REJECTED"}
           /\ Funded(c) \in {"passes", "NOT_ELIGIBLE", "REJECTED"}
  BY DEF Correlated, Registered, Owned, Cultivated, Funded, Checked

\* The rule approves when all of them pass, and turns a farmer down only after correlation.
LEMMA FarmAnswers ==
    ASSUME NEW c
    PROVE  /\ DecideFarmCredit(c) \in {"ELIGIBLE", "NOT_ELIGIBLE", "REJECTED"}
           /\ DecideFarmCredit(c) = "ELIGIBLE" <=>
                /\ Correlated(c) = "passes" /\ Registered(c) = "passes" /\ Owned(c) = "passes"
                /\ Cultivated(c) = "passes" /\ Funded(c) = "passes"
           /\ DecideFarmCredit(c) = "NOT_ELIGIBLE" => Correlated(c) = "passes"
<1>1. CASE Correlated(c) = "REJECTED"
  BY <1>1 DEF DecideFarmCredit, Then
<1>2. CASE Correlated(c) = "passes"
  <2>1. CASE Registered(c) # "passes"
    BY <1>2, <2>1, FarmChecks DEF DecideFarmCredit, Then
  <2>2. CASE Registered(c) = "passes" /\ Owned(c) # "passes"
    BY <1>2, <2>2, FarmChecks DEF DecideFarmCredit, Then
  <2>3. CASE Registered(c) = "passes" /\ Owned(c) = "passes" /\ Cultivated(c) # "passes"
    BY <1>2, <2>3, FarmChecks DEF DecideFarmCredit, Then
  <2>4. CASE Registered(c) = "passes" /\ Owned(c) = "passes" /\ Cultivated(c) = "passes"
    BY <1>2, <2>4, FarmChecks DEF DecideFarmCredit, Then
  <2> QED BY <2>1, <2>2, <2>3, <2>4
<1> QED BY <1>1, <1>2, FarmChecks

\* The types of the claims the arithmetic is about.
LEMMA FarmTypes ==
    ASSUME NEW c, \A f \in FarmClaim : c[f] \in Values[f]
    PROVE  /\ c[Area] \in Int \cup {Malformed}
           /\ c[Area] # Malformed => c[Area] \in Int
<1>1. Area \in FarmClaim /\ Area \in {Area} \cup Percentage
  BY SMT DEF FarmClaim, FarmerClaims, LandClaims, Area
<1>2. Values[Area] \subseteq Int \cup {Malformed}
  BY <1>1, ValuesAssumption
<1> QED BY <1>1, <1>2

\* A presentation is approved exactly when it meets every requirement of the policy.
LEMMA FarmExactly ==
    ASSUME NEW c, \A f \in FarmClaim : c[f] \in Values[f]
    PROVE  DecideFarmCredit(c) = "ELIGIBLE" <=> Qualifies("agriculture", c)
<1> DEFINE farmer == c[<<"farmer", "farmerReference">>]
           status == c[<<"farmer", "registrationStatus">>]
<1>1. Correlated(c) = "passes" <=> farmer = c[<<"land", "farmerReference">>] /\ farmer # Malformed
  BY DEF Correlated
<1>2. Registered(c) = "passes" <=> status = TRUE
  <2>1. TRUE # Malformed
    BY ValuesAssumption
  <2>2. CASE status = TRUE
    BY <2>1, <2>2 DEF Registered, Checked
  <2>3. CASE status # TRUE
    BY <2>3 DEF Registered, Checked
  <2> QED BY <2>2, <2>3
<1>3. Owned(c) = "passes" <=> c[<<"land", "ownershipStatus">>] = "ACTIVE"
  BY DEF Owned, Checked, OwnershipStatuses
<1>4. Cultivated(c) = "passes" <=> IsAcreage(c[Area]) /\ 2 * c[Area] >= Fine
  <2>1. CASE IsAcreage(c[Area])
    <3>1. c[Area] \in Int /\ c[Area] >= 0 /\ Precise(c[Area])
      BY <2>1, FarmTypes DEF IsAcreage
    <3>2. Rounded(c[Area]) # 0 <=> 2 * c[Area] >= Fine
      BY <3>1, RoundedPositive
    <3> QED BY <2>1, <3>2 DEF Cultivated, Checked
  <2>2. CASE ~IsAcreage(c[Area])
    BY <2>2 DEF Cultivated, Checked
  <2> QED BY <2>1, <2>2
<1>5. Funded(c) = "passes" <=> c[Crop] \in DOMAIN Rates
  BY DEF Funded, Checked
<1> QED BY <1>1, <1>2, <1>3, <1>4, <1>5, FarmAnswers DEF Qualifies

\* Whatever was correlated names one farmer.
LEMMA OneFarmer ==
    ASSUME NEW c, Correlated(c) = "passes"
    PROVE  OneSubject("agriculture", c)
<1> DEFINE farmer == <<"farmer", "farmerReference">>
           land == <<"land", "farmerReference">>
<1>1. c[farmer] = c[land] /\ c[farmer] # Malformed
  BY DEF Correlated
<1>2. ASSUME NEW f \in FarmClaim, f[2] \in {"farmerReference", "learnerId"}
      PROVE  f = farmer \/ f = land
  BY <1>2, SMT DEF FarmClaim, FarmerClaims, LandClaims
<1> QED BY <1>1, <1>2 DEF OneSubject, ClaimsOf

-----------------------------------------------------------------------------
(***************************************************************************)
(* The education rules.                                                    *)
(***************************************************************************)
\* What the checks of the rules can say.
LEMMA EducationChecks ==
    ASSUME NEW c, NEW policy
    PROVE  /\ SameLearner(c) \in {"passes", "REJECTED"}
           /\ AllCompleted(c) \in {"passes", "NOT_ELIGIBLE", "REJECTED"}
           /\ IsBachelor(c) \in {"passes", "NOT_ELIGIBLE", "REJECTED"}
           /\ InAcceptedField(c) \in {"passes", "NOT_ELIGIBLE", "REJECTED"}
           /\ \A role : Meets(c, policy, role) \in {"passes", "NOT_ELIGIBLE", "REJECTED"}
  BY DEF SameLearner, AllCompleted, IsBachelor, InAcceptedField, Meets, Checked

\* The rules approve when all of them pass, and turn a learner down only after correlation.
LEMMA EducationAnswers ==
    ASSUME NEW c, NEW policy
    PROVE  /\ DecideEducation(c, policy) \in {"ELIGIBLE", "NOT_ELIGIBLE", "REJECTED"}
           /\ DecideEducation(c, policy) = "ELIGIBLE" <=>
                /\ SameLearner(c) = "passes" /\ AllCompleted(c) = "passes"
                /\ IsBachelor(c) = "passes" /\ InAcceptedField(c) = "passes"
                /\ \A role \in Role : Meets(c, policy, role) = "passes"
           /\ DecideEducation(c, policy) = "NOT_ELIGIBLE" => SameLearner(c) = "passes"
<1> DEFINE marks == Then(Meets(c, policy, "school"), Then(Meets(c, policy, "college"),
                        Then(Meets(c, policy, "university"), "ELIGIBLE")))
           studies == Then(IsBachelor(c), Then(InAcceptedField(c), marks))
<1>1. /\ marks \in {"ELIGIBLE", "NOT_ELIGIBLE", "REJECTED"}
      /\ marks = "ELIGIBLE" <=> \A role \in Role : Meets(c, policy, role) = "passes"
  <2>1. /\ Meets(c, policy, "school") \in {"passes", "NOT_ELIGIBLE", "REJECTED"}
        /\ Meets(c, policy, "college") \in {"passes", "NOT_ELIGIBLE", "REJECTED"}
        /\ Meets(c, policy, "university") \in {"passes", "NOT_ELIGIBLE", "REJECTED"}
    BY EducationChecks
  <2>2. (\A role \in Role : Meets(c, policy, role) = "passes") <=>
            /\ Meets(c, policy, "school") = "passes" /\ Meets(c, policy, "college") = "passes"
            /\ Meets(c, policy, "university") = "passes"
    BY DEF Role
  <2> QED BY <2>1, <2>2 DEF Then
<1> HIDE DEF marks
<1>2. /\ studies \in {"ELIGIBLE", "NOT_ELIGIBLE", "REJECTED"}
      /\ studies = "ELIGIBLE" <=>
            IsBachelor(c) = "passes" /\ InAcceptedField(c) = "passes" /\ marks = "ELIGIBLE"
  BY <1>1, EducationChecks DEF Then
<1>3. DecideEducation(c, policy) = Then(SameLearner(c), Then(AllCompleted(c), studies))
  BY DEF DecideEducation, marks
<1> HIDE DEF studies
<1> QED BY <1>1, <1>2, <1>3, EducationChecks DEF Then

\* The types of the claims the arithmetic is about.
LEMMA MarkTypes ==
    ASSUME NEW c, \A f \in EducationClaim : c[f] \in Values[f], NEW role \in Role
    PROVE  c[<<role, "percentage">>] \in Int \cup {Malformed}
<1>1. <<role, "percentage">> \in EducationClaim \cap Percentage
  BY DEF EducationClaim, RequestedClaims, Percentage, Role
<1>2. Values[<<role, "percentage">>] \subseteq Int \cup {Malformed}
  BY <1>1, ValuesAssumption
<1> QED BY <1>1, <1>2

\* The thresholds are whole hundredths of a percent.
LEMMA ThresholdsWhole ==
    ASSUME NEW policy, NEW role \in DOMAIN Thresholds(policy)
    PROVE  role \in Role /\ \E k \in Nat : Thresholds(policy)[role] = Fine * k
<1>1. Fine \in Nat /\ 60 * Whole = Fine * 6000 /\ 70 * Whole = Fine * 7000
  BY DecimalsAssumption, SMT DEF Whole
<1>2. /\ role \in Role
      /\ Thresholds(policy)[role] = 60 * Whole \/ Thresholds(policy)[role] = 70 * Whole
  BY DEF Thresholds, Role
<1> QED BY <1>1, <1>2

\* A well-formed mark passes exactly when it is not below its threshold, to within the tolerance.
LEMMA MeetsExactly ==
    ASSUME NEW c, \A f \in EducationClaim : c[f] \in Values[f], NEW policy,
           NEW role \in DOMAIN Thresholds(policy)
    PROVE  Meets(c, policy, role) = "passes" <=>
               /\ IsPercentage(c[<<role, "percentage">>])
               /\ c[<<role, "percentage">>] + Slack >= Thresholds(policy)[role]
<1> DEFINE v == c[<<role, "percentage">>]
<1>1. CASE IsPercentage(v)
  <2>1. PICK k \in Nat : Thresholds(policy)[role] = Fine * k
    BY ThresholdsWhole
  <2>2. v \in Int /\ v >= 0 /\ Precise(v)
    BY <1>1, ThresholdsWhole, MarkTypes DEF IsPercentage
  <2>3. AtOrAbove(v, Thresholds(policy)[role]) <=> v + Slack >= Thresholds(policy)[role]
    BY <2>1, <2>2, ThresholdExact
  <2> QED BY <1>1, <2>3 DEF Meets, Checked
<1>2. CASE ~IsPercentage(v)
  BY <1>2 DEF Meets, Checked
<1> QED BY <1>1, <1>2

\* A presentation is approved exactly when it meets every requirement of the policy.
LEMMA EducationExactly ==
    ASSUME NEW c, \A f \in EducationClaim : c[f] \in Values[f], NEW policy \in EducationPolicy
    PROVE  DecideEducation(c, policy) = "ELIGIBLE" <=> Qualifies(policy, c)
<1> DEFINE learner == <<"school", "learnerId">>
<1>1. SameLearner(c) = "passes" <=>
          \E l \in Values[learner] \ {Malformed} : \A role \in Role : c[<<role, "learnerId">>] = l
  <2>1. c[learner] \in Values[learner] /\ "school" \in Role
    BY DEF EducationClaim, RequestedClaims, Role
  <2>2. ASSUME SameLearner(c) = "passes"
        PROVE  c[learner] # Malformed /\ \A role \in Role : c[<<role, "learnerId">>] = c[learner]
    BY <2>2 DEF SameLearner
  <2>3. ASSUME NEW l \in Values[learner] \ {Malformed},
               \A role \in Role : c[<<role, "learnerId">>] = l
        PROVE  SameLearner(c) = "passes"
    <3>1. c[learner] = l
      BY <2>1, <2>3
    <3> QED BY <2>3, <3>1 DEF SameLearner
  <2> QED BY <2>1, <2>2, <2>3
<1>2. AllCompleted(c) = "passes" <=>
          \A role \in Role : c[<<role, "completionStatus">>] = "COMPLETED"
  BY DEF AllCompleted, Checked, CompletionStatuses
<1>3. IsBachelor(c) = "passes" <=> c[<<"university", "degreeLevel">>] = "BACHELOR"
  BY DEF IsBachelor, Checked, DegreeLevels
<1>4. InAcceptedField(c) = "passes" <=> c[<<"university", "fieldOfStudy">>] \in AcceptedFields
  BY DEF InAcceptedField, Checked, FieldsOfStudy
<1>5. (\A role \in Role : Meets(c, policy, role) = "passes") <=>
          \A role \in DOMAIN Thresholds(policy) :
              /\ IsPercentage(c[<<role, "percentage">>])
              /\ c[<<role, "percentage">>] + Slack >= Thresholds(policy)[role]
  <2>1. \A role \in Role \ DOMAIN Thresholds(policy) : Meets(c, policy, role) = "passes"
    BY DEF Meets
  <2>2. DOMAIN Thresholds(policy) \subseteq Role
    BY ThresholdsWhole
  <2> QED BY <2>1, <2>2, MeetsExactly
<1>6. policy # "agriculture"
  BY DEF EducationPolicy
<1> QED BY <1>1, <1>2, <1>3, <1>4, <1>5, <1>6, EducationAnswers DEF Qualifies

\* Whatever was correlated names one learner.
LEMMA OneLearner ==
    ASSUME NEW c, NEW policy \in EducationPolicy, SameLearner(c) = "passes"
    PROVE  OneSubject(policy, c)
<1>1. PICK learner : learner # Malformed /\ \A role \in Role : c[<<role, "learnerId">>] = learner
  BY DEF SameLearner
<1>2. ASSUME NEW f \in EducationClaim, f[2] \in {"farmerReference", "learnerId"}
      PROVE  \E role \in Role : f = <<role, "learnerId">>
  <2>1. f \in Role \X {"learnerId", "completionStatus", "degreeLevel", "fieldOfStudy", "percentage"}
    BY DEF EducationClaim, RequestedClaims, Percentage, Role
  <2>2. PICK role \in Role, name \in {"learnerId", "completionStatus", "degreeLevel",
                                      "fieldOfStudy", "percentage"} : f = <<role, name>>
    BY <2>1
  <2>3. name = "learnerId"
    BY <1>2, <2>2
  <2> QED BY <2>2, <2>3
<1>3. \A f \in EducationClaim : f[2] \in {"farmerReference", "learnerId"} => c[f] = learner
  BY <1>1, <1>2
<1> QED BY <1>1, <1>3 DEF OneSubject, ClaimsOf, EducationPolicy

\* A rule reads nothing its portal does not request.
LEMMA ReadsWhatItRequests ==
    ASSUME NEW policy \in EducationPolicy, NEW c, NEW d,
           \A f \in RequestedClaims(policy) : d[f] = c[f]
    PROVE  DecideEducation(d, policy) = DecideEducation(c, policy)
<1>1. \A role \in Role :
          /\ d[<<role, "learnerId">>] = c[<<role, "learnerId">>]
          /\ d[<<role, "completionStatus">>] = c[<<role, "completionStatus">>]
  <2>1. \A role \in Role : /\ <<role, "learnerId">> \in RequestedClaims(policy)
                           /\ <<role, "completionStatus">> \in RequestedClaims(policy)
    BY DEF RequestedClaims
  <2> QED BY <2>1
<1>2. /\ d[<<"university", "degreeLevel">>] = c[<<"university", "degreeLevel">>]
      /\ d[<<"university", "fieldOfStudy">>] = c[<<"university", "fieldOfStudy">>]
  BY DEF RequestedClaims
<1>3. \A role \in DOMAIN Thresholds(policy) :
          d[<<role, "percentage">>] = c[<<role, "percentage">>]
  <2>1. ASSUME NEW role \in DOMAIN Thresholds(policy)
        PROVE  <<role, "percentage">> \in RequestedClaims(policy)
    <3>1. CASE policy = "education/masters"
      BY <2>1, <3>1 DEF Thresholds, RequestedClaims, Percentage
    <3>2. CASE policy # "education/masters"
      BY <2>1, <3>2 DEF Thresholds, RequestedClaims
    <3> QED BY <3>1, <3>2
  <2> QED BY <2>1
<1>4. SameLearner(d) = SameLearner(c)
  BY <1>1 DEF SameLearner, Role
<1>5. AllCompleted(d) = AllCompleted(c)
  <2>1. /\ (\A role \in Role : d[<<role, "completionStatus">>] \in CompletionStatuses)
               <=> (\A role \in Role : c[<<role, "completionStatus">>] \in CompletionStatuses)
        /\ (\A role \in Role : d[<<role, "completionStatus">>] = "COMPLETED")
               <=> (\A role \in Role : c[<<role, "completionStatus">>] = "COMPLETED")
    BY <1>1
  <2> QED BY <2>1 DEF AllCompleted, Checked
<1>6. IsBachelor(d) = IsBachelor(c) /\ InAcceptedField(d) = InAcceptedField(c)
  BY <1>2 DEF IsBachelor, InAcceptedField
<1>7. \A role : Meets(d, policy, role) = Meets(c, policy, role)
  BY <1>3 DEF Meets
<1> QED BY <1>4, <1>5, <1>6, <1>7 DEF DecideEducation

\* A mark that passes still passes when it is raised.
LEMMA RaisedMarksMeet ==
    ASSUME NEW c, \A f \in EducationClaim : c[f] \in Values[f],
           NEW d, \A f \in EducationClaim : d[f] \in Values[f],
           NEW policy, NEW role \in Role, Meets(c, policy, role) = "passes",
           IsPercentage(c[<<role, "percentage">>]), IsPercentage(d[<<role, "percentage">>]),
           d[<<role, "percentage">>] >= c[<<role, "percentage">>]
    PROVE  Meets(d, policy, role) = "passes"
<1>1. CASE role \in DOMAIN Thresholds(policy)
  <2>1. PICK k \in Nat : Thresholds(policy)[role] = Fine * k
    BY <1>1, ThresholdsWhole
  <2>2. Fine * k \in Nat
    BY RoundedExact
  <2>3. /\ c[<<role, "percentage">>] \in Int /\ d[<<role, "percentage">>] \in Int
        /\ Slack \in Nat
    BY MarkTypes, DecimalsAssumption DEF IsPercentage
  <2>4. c[<<role, "percentage">>] + Slack >= Fine * k
    BY <1>1, <2>1, MeetsExactly
  <2>5. d[<<role, "percentage">>] + Slack >= Fine * k
    BY <2>2, <2>3, <2>4, SMT
  <2> QED BY <1>1, <2>1, <2>5, MeetsExactly
<1>2. CASE role \notin DOMAIN Thresholds(policy)
  BY <1>2 DEF Meets
<1> QED BY <1>1, <1>2

\* Raising marks keeps a learner eligible.
LEMMA RaisedMarks ==
    ASSUME NEW policy \in EducationPolicy,
           NEW c, \A f \in EducationClaim : c[f] \in Values[f],
           NEW d, \A f \in EducationClaim : d[f] \in Values[f],
           \A f \in EducationClaim \ Percentage : d[f] = c[f],
           \A f \in Percentage : d[f] = c[f]
               \/ (IsPercentage(d[f]) /\ IsPercentage(c[f]) /\ d[f] >= c[f]),
           DecideEducation(c, policy) = "ELIGIBLE"
    PROVE  DecideEducation(d, policy) = "ELIGIBLE"
<1>1. /\ SameLearner(c) = "passes" /\ AllCompleted(c) = "passes"
      /\ IsBachelor(c) = "passes" /\ InAcceptedField(c) = "passes"
      /\ \A role \in Role : Meets(c, policy, role) = "passes"
  BY EducationAnswers
<1>2. \A role \in Role : \A name \in {"learnerId", "completionStatus"} :
          d[<<role, name>>] = c[<<role, name>>]
  <2>1. ASSUME NEW role \in Role, NEW name \in {"learnerId", "completionStatus"}
        PROVE  <<role, name>> \in EducationClaim \ Percentage
    BY <2>1 DEF EducationClaim, RequestedClaims, Percentage
  <2> QED BY <2>1
<1>3. \A name \in {"degreeLevel", "fieldOfStudy"} :
          d[<<"university", name>>] = c[<<"university", name>>]
  <2>1. ASSUME NEW name \in {"degreeLevel", "fieldOfStudy"}
        PROVE  <<"university", name>> \in EducationClaim \ Percentage
    BY <2>1 DEF EducationClaim, RequestedClaims, Percentage
  <2> QED BY <2>1
<1>4. SameLearner(d) = "passes"
  BY <1>1, <1>2 DEF SameLearner, Role
<1>5. AllCompleted(d) = "passes"
  BY <1>1, <1>2 DEF AllCompleted, Checked
<1>6. IsBachelor(d) = "passes" /\ InAcceptedField(d) = "passes"
  BY <1>1, <1>3 DEF IsBachelor, InAcceptedField
<1>7. ASSUME NEW role \in Role PROVE Meets(d, policy, role) = "passes"
  <2>1. <<role, "percentage">> \in Percentage
    BY DEF Percentage
  <2>2. CASE d[<<role, "percentage">>] = c[<<role, "percentage">>]
    BY <1>1, <2>2 DEF Meets
  <2>3. CASE d[<<role, "percentage">>] # c[<<role, "percentage">>]
    BY <1>1, <2>1, <2>3, RaisedMarksMeet
  <2> QED BY <2>2, <2>3
<1> QED BY <1>4, <1>5, <1>6, <1>7, EducationAnswers

-----------------------------------------------------------------------------
(***************************************************************************)
(* Ages and days.                                                          *)
(***************************************************************************)
\* A month has 28 to 31 days.
LEMMA MonthLength ==
    ASSUME NEW month, NEW year
    PROVE  DaysIn(month, year) \in 28 .. 31
  BY SMT DEF DaysIn

\* A date by its parts.
LEMMA Parts ==
    ASSUME NEW date \in Date
    PROVE  \E y \in Nat, m \in 1 .. 12, d \in 1 .. 31 :
               /\ date = [year |-> y, month |-> m, day |-> d]
               /\ Number(date) = 10000 * y + 100 * m + d
<1>1. date.year \in Nat /\ date.month \in 1 .. 12 /\ date.day \in 1 .. 31
  BY DEF Date
<1>2. date = [year |-> date.year, month |-> date.month, day |-> date.day]
  BY DEF Date
<1> QED BY <1>1, <1>2 DEF Number

\* A date of birth that is accepted is a date.
LEMMA CalendarDates ==
    ASSUME NEW date \in WrittenDate \cup {Unreadable}, IsCalendarDate(date)
    PROVE  date \in Date
<1>1. date \in WrittenDate /\ date.year \in Int /\ date.day \in Int
  BY DEF IsCalendarDate, WrittenDate
<1>2. /\ 100 <= date.year /\ date.month \in 1 .. 12
      /\ date.day \in 1 .. DaysIn(date.month, date.year)
  BY DEF IsCalendarDate
<1>3. date.year \in Nat
  BY <1>1, <1>2, SMT
<1>4. date.day \in 1 .. 31
  BY <1>1, <1>2, MonthLength, SMT
<1> QED BY <1>1, <1>2, <1>3, <1>4 DEF WrittenDate, Date

\* Completed years, counted with months and days, are those between the two dates.
LEMMA YearsExact ==
    ASSUME NEW from \in Date, NEW on \in Date, NEW years \in Int
    PROVE  CompletedYears(from, on) >= years <=> Number(on) - Number(from) >= 10000 * years
<1>1. PICK y \in Nat, m \in 1 .. 12, d \in 1 .. 31 :
          /\ from = [year |-> y, month |-> m, day |-> d]
          /\ Number(from) = 10000 * y + 100 * m + d
  BY Parts
<1>2. PICK z \in Nat, n \in 1 .. 12, e \in 1 .. 31 :
          /\ on = [year |-> z, month |-> n, day |-> e]
          /\ Number(on) = 10000 * z + 100 * n + e
  BY Parts
<1>3. BeforeBirthday(from, on) <=> 100 * n + e < 100 * m + d
  <2>1. BeforeBirthday(from, on) <=> n < m \/ (n = m /\ e < d)
    BY <1>1, <1>2 DEF BeforeBirthday
  <2> QED BY <2>1, SMT
<1>4. CompletedYears(from, on) = (z - y) - (IF BeforeBirthday(from, on) THEN 1 ELSE 0)
  BY <1>1, <1>2 DEF CompletedYears
<1>5. CASE BeforeBirthday(from, on)
  BY <1>1, <1>2, <1>3, <1>4, <1>5, SMT
<1>6. CASE ~BeforeBirthday(from, on)
  BY <1>1, <1>2, <1>3, <1>4, <1>6, SMT
<1> QED BY <1>5, <1>6

\* The calendar moves forward.
LEMMA DaysMove ==
    ASSUME NEW date \in Date
    PROVE  /\ Tomorrow(date) \in Date
           /\ Number(date) \in Int /\ Number(Tomorrow(date)) \in Int
           /\ Number(Tomorrow(date)) >= Number(date)
<1>1. PICK y \in Nat, m \in 1 .. 12, d \in 1 .. 31 :
          /\ date = [year |-> y, month |-> m, day |-> d]
          /\ Number(date) = 10000 * y + 100 * m + d
  BY Parts
<1>2. date.year = y /\ date.month = m /\ date.day = d
  BY <1>1
<1>3. PICK length \in 28 .. 31 : DaysIn(date.month, date.year) = length
  BY MonthLength
<1>4. CASE d < length
  <2>1. PICK e \in 1 .. 31 : e = d + 1
    BY <1>4, SMT
  <2>2. Tomorrow(date) = [year |-> y, month |-> m, day |-> e]
    BY <1>1, <1>2, <1>3, <1>4, <2>1 DEF Tomorrow
  <2>3. Tomorrow(date) \in Date /\ Number(Tomorrow(date)) = 10000 * y + 100 * m + e
    BY <1>1, <2>1, <2>2 DEF Date, Number
  <2> QED BY <1>1, <2>1, <2>3, SMT
<1>5. CASE ~(d < length) /\ m < 12
  <2>1. PICK n \in 1 .. 12, e \in 1 .. 31 : n = m + 1 /\ e = 1
    BY <1>5, SMT
  <2>2. Tomorrow(date) = [year |-> y, month |-> n, day |-> e]
    BY <1>2, <1>3, <1>5, <2>1 DEF Tomorrow
  <2>3. Tomorrow(date) \in Date /\ Number(Tomorrow(date)) = 10000 * y + 100 * n + e
    BY <1>1, <2>1, <2>2 DEF Date, Number
  <2> QED BY <1>1, <2>1, <2>3, SMT
<1>6. CASE ~(d < length) /\ ~(m < 12)
  <2>1. PICK z \in Nat, n \in 1 .. 12, e \in 1 .. 31 : z = y + 1 /\ n = 1 /\ e = 1
    BY SMT
  <2>2. Tomorrow(date) = [year |-> z, month |-> n, day |-> e]
    BY <1>2, <1>3, <1>6, <2>1 DEF Tomorrow
  <2>3. Tomorrow(date) \in Date /\ Number(Tomorrow(date)) = 10000 * z + 100 * n + e
    BY <1>1, <2>1, <2>2 DEF Date, Number
  <2> QED BY <1>1, <2>1, <2>3, SMT
<1> QED BY <1>4, <1>5, <1>6

-----------------------------------------------------------------------------
(***************************************************************************)
(* The machine.                                                            *)
(***************************************************************************)
\* What a rule on claims of these types says.
LEMMA Decided ==
    ASSUME NEW case \in UseCase, case # "age", NEW c
    PROVE  Decide(case, c) \in {"ELIGIBLE", "NOT_ELIGIBLE", "REJECTED"}
  BY FarmAnswers, EducationAnswers DEF Decide

LEMMA InitIInv == Init => IInv
<1> SUFFICES ASSUME Init PROVE IInv
  OBVIOUS
<1>1. CASE useCase = "age"
  BY <1>1, CalendarAssumption
     DEF Init, IInv, TypeOK, AnswerIsDecided, BirthIsRead, AssertionsLast, ApprovedIsOver18,
         UseCase, Answer
<1>2. CASE useCase # "age"
  <2>1. /\ useCase \in UseCase /\ birth = Unreadable /\ today \in Date
        /\ claims = [f \in ClaimsOf(useCase) |-> Qualified[f]] /\ answer = Decide(useCase, claims)
    BY <1>2, CalendarAssumption DEF Init
  <2>2. \A f \in ClaimsOf(useCase) : claims[f] \in Values[f]
    BY <2>1, ValuesAssumption DEF ClaimsOf
  <2>3. answer \in {"ELIGIBLE", "NOT_ELIGIBLE", "REJECTED"}
    BY <1>2, <2>1, Decided
  <2> QED BY <1>2, <2>1, <2>2, <2>3
          DEF IInv, TypeOK, AnswerIsDecided, BirthIsRead, AssertionsLast, ApprovedIsOver18, Answer
<1> QED BY <1>1, <1>2

\* A new credential says what is so on the day.
LEMMA NewAssertions ==
    ASSUME IInv, IssueOffer, NEW threshold \in AgeThresholds
    PROVE  claims'[threshold] = IsOver(threshold)
<1>1. IsCalendarDate(birth) /\ today \in Date /\ birth \in WrittenDate \cup {Unreadable}
  BY CalendarAssumption DEF IInv, TypeOK, IssueOffer, Derivable
<1>2. birth \in Date
  BY <1>1, CalendarDates
<1>3. CompletedYears(birth, today) >= threshold <=> IsOver(threshold)
  BY <1>1, <1>2, YearsExact, threshold \in Int DEF IsOver, AgeThresholds
<1>4. claims'[threshold] = (CompletedYears(birth, today) >= threshold)
  BY DEF IssueOffer, AgeAssertions
<1> QED BY <1>3, <1>4 DEF IsOver

LEMMA NextIInv == IInv /\ [Next]_vars => IInv'
<1> SUFFICES ASSUME IInv, [Next]_vars PROVE IInv'
  OBVIOUS
<1> USE DEF IInv
<1>1. ASSUME NEW f \in DOMAIN Values, NEW v \in Values[f], PresentsAgain(f, v) PROVE IInv'
  <2>1. /\ useCase' = useCase /\ useCase # "age" /\ birth' = birth /\ today' = today
        /\ f \in ClaimsOf(useCase) /\ claims' = [claims EXCEPT ![f] = v]
        /\ answer' = Decide(useCase, claims')
    BY <1>1 DEF PresentsAgain
  <2>2. /\ DOMAIN claims' = ClaimsOf(useCase)
        /\ \A g \in ClaimsOf(useCase) : claims'[g] \in Values[g]
    BY <1>1, <2>1 DEF TypeOK
  <2>3. answer' \in {"ELIGIBLE", "NOT_ELIGIBLE", "REJECTED"}
    BY <2>1, Decided DEF TypeOK
  <2> QED BY <2>1, <2>2, <2>3
          DEF TypeOK, AnswerIsDecided, BirthIsRead, AssertionsLast, ApprovedIsOver18, Answer
<1>2. ASSUME IssueOffer PROVE IInv'
  <2>1. /\ useCase = "age" /\ useCase' = useCase /\ answer' = answer /\ birth' = birth
        /\ today' = today /\ IsCalendarDate(birth)
    BY <1>2 DEF IssueOffer, Derivable
  <2>2. claims' \in [AgeThresholds -> BOOLEAN] /\ claims' # NoClaims
    <3>1. claims' \in [AgeThresholds -> BOOLEAN]
      BY <1>2 DEF IssueOffer, AgeAssertions
    <3> QED BY <3>1, CalendarAssumption
  <2>3. TypeOK'
    BY <2>1, <2>2 DEF TypeOK
  <2>4. AssertionsLast'
    <3>1. \A threshold \in AgeThresholds : claims'[threshold] = IsOver(threshold)
      BY <1>2, NewAssertions
    <3>2. \A threshold \in AgeThresholds : IsOver(threshold)' <=> IsOver(threshold)
      BY <2>1 DEF IsOver
    <3> QED BY <3>1, <3>2 DEF AssertionsLast
  <2> QED BY <2>1, <2>2, <2>3, <2>4 DEF AnswerIsDecided, BirthIsRead, ApprovedIsOver18, IsOver
<1>3. ASSUME NEW ageOver18 \in {TRUE, FALSE, Malformed}, PresentsAge(ageOver18) PROVE IInv'
  <2>1. /\ useCase = "age" /\ useCase' = useCase /\ claims' = claims /\ birth' = birth
        /\ today' = today /\ claims # NoClaims /\ answer' = DecideAge(ageOver18)
        /\ ageOver18 = claims[18] \/ ageOver18 = Malformed
    BY <1>3 DEF PresentsAge
  <2>2. answer' \in {"REJECTED", "APPROVED", "DENIED"}
    BY <2>1 DEF DecideAge
  <2>3. answer' = "APPROVED" => claims[18]
    BY <2>1 DEF DecideAge
  <2>4. answer' = "APPROVED" => IsOver(18)
    BY <2>1, <2>3 DEF AssertionsLast, AgeThresholds
  <2> QED BY <2>1, <2>2, <2>4
          DEF TypeOK, AnswerIsDecided, BirthIsRead, AssertionsLast, ApprovedIsOver18, Answer, IsOver
<1>4. ASSUME DayPasses PROVE IInv'
  <2>1. /\ useCase = "age" /\ useCase' = useCase /\ claims' = claims /\ birth' = birth
        /\ answer' = answer /\ today' = Tomorrow(today)
    BY <1>4 DEF DayPasses
  <2>2. /\ today \in Date /\ today' \in Date
        /\ Number(today) \in Int /\ Number(today') \in Int /\ Number(today') >= Number(today)
    BY <2>1, DaysMove DEF TypeOK
  <2>3. IsCalendarDate(birth) => Number(birth) \in Int
    <3>1. birth \in WrittenDate \cup {Unreadable}
      BY CalendarAssumption DEF TypeOK
    <3>2. ASSUME IsCalendarDate(birth) PROVE Number(birth) \in Int
      <4>1. birth \in Date
        BY <3>1, <3>2, CalendarDates
      <4> QED BY <4>1, DaysMove
    <3> QED BY <3>2
  <2>4. ASSUME claims # NoClaims, NEW years \in {18, 21}, IsOver(years) PROVE IsOver(years)'
    <3>1. Number(birth) \in Int
      BY <2>1, <2>3, <2>4 DEF BirthIsRead
    <3>2. Number(today) - Number(birth) >= 10000 * years
      BY <2>4 DEF IsOver
    <3>3. Number(today') - Number(birth) >= 10000 * years
      BY <2>2, <3>1, <3>2, SMT
    <3> QED BY <2>1, <3>3 DEF IsOver
  <2>5. AssertionsLast'
    BY <2>1, <2>4 DEF AssertionsLast, AgeThresholds
  <2>6. ApprovedIsOver18'
    BY <2>1, <2>4 DEF ApprovedIsOver18, BirthIsRead
  <2> QED BY <2>1, <2>2, <2>5, <2>6 DEF TypeOK, AnswerIsDecided, BirthIsRead
<1>5. CASE UNCHANGED vars
  BY <1>5 DEF vars, TypeOK, AnswerIsDecided, BirthIsRead, AssertionsLast, ApprovedIsOver18, IsOver
<1> QED BY <1>1, <1>2, <1>3, <1>4, <1>5 DEF Next

\* Every answer is the rule's on claims of the right types, and the assertions in a wallet stay
\* true: the invariant the theorems below rest on.
THEOREM Invariance == Spec => []IInv
<1>1. Init => IInv
  BY InitIInv
<1>2. IInv /\ [Next]_vars => IInv'
  BY NextIInv
<1> QED BY <1>1, <1>2, PTL DEF Spec

\* Claims, answer and calendar keep their types.
THEOREM TypeCorrect == Spec => []TypeOK
<1>1. IInv => TypeOK
  BY DEF IInv
<1> QED BY <1>1, Invariance, PTL

\* ELIGIBLE is answered exactly when each requirement of the published policy is met, for every
\* policy, tolerance and presentation.
THEOREM Eligibility == Spec => []EligibleExactly
<1>1. IInv => EligibleExactly
  <2> SUFFICES ASSUME IInv, useCase # "age"
               PROVE  answer = "ELIGIBLE" <=> Qualifies(useCase, claims)
    BY DEF EligibleExactly
  <2>1. /\ answer = Decide(useCase, claims) /\ useCase \in UseCase
        /\ \A f \in ClaimsOf(useCase) : claims[f] \in Values[f]
    BY DEF IInv, TypeOK, AnswerIsDecided
  <2>2. CASE useCase = "agriculture"
    BY <2>1, <2>2, FarmExactly DEF Decide, ClaimsOf
  <2>3. CASE useCase \in EducationPolicy
    <3>1. useCase # "agriculture"
      BY <2>3 DEF EducationPolicy
    <3> QED BY <2>1, <2>3, <3>1, EducationExactly DEF Decide, ClaimsOf
  <2> QED BY <2>1, <2>2, <2>3 DEF UseCase
<1> QED BY <1>1, Invariance, PTL

\* NOT_ELIGIBLE is never said of credentials that do not belong together.
THEOREM Correlation == Spec => []AnswerIsAboutOneSubject
<1>1. IInv => AnswerIsAboutOneSubject
  <2> SUFFICES ASSUME IInv, useCase # "age", answer = "NOT_ELIGIBLE"
               PROVE  OneSubject(useCase, claims)
    BY DEF AnswerIsAboutOneSubject
  <2>1. answer = Decide(useCase, claims) /\ useCase \in UseCase
    BY DEF IInv, TypeOK, AnswerIsDecided
  <2>2. CASE useCase = "agriculture"
    BY <2>1, <2>2, FarmAnswers, OneFarmer DEF Decide
  <2>3. CASE useCase \in EducationPolicy
    <3>1. useCase # "agriculture"
      BY <2>3 DEF EducationPolicy
    <3> QED BY <2>1, <2>3, <3>1, EducationAnswers, OneLearner DEF Decide
  <2> QED BY <2>1, <2>2, <2>3 DEF UseCase
<1> QED BY <1>1, Invariance, PTL

\* What the farm rule approved has an acreage to compute with and a rate.
LEMMA Approved ==
    ASSUME IInv, useCase = "agriculture", answer = "ELIGIBLE"
    PROVE  /\ claims[Area] \in Int /\ claims[Area] >= 0 /\ Precise(claims[Area])
           /\ Rates[claims[Crop]] \in Nat
<1>1. \A f \in FarmClaim : claims[f] \in Values[f]
  BY DEF IInv, TypeOK, ClaimsOf
<1>2. DecideFarmCredit(claims) = "ELIGIBLE"
  BY DEF IInv, AnswerIsDecided, Decide
<1>3. IsAcreage(claims[Area]) /\ claims[Crop] \in DOMAIN Rates
  BY <1>1, <1>2, FarmExactly DEF Qualifies
<1>4. Rates[claims[Crop]] \in Nat
  <2>1. MaxRatePerAcre \in Nat /\ Rates[claims[Crop]] \in 1 .. MaxRatePerAcre
    BY <1>3, CropPolicyAssumption DEF CropPolicyLoads
  <2> QED BY <2>1, SMT
<1> QED BY <1>1, <1>3, <1>4, FarmTypes DEF IsAcreage

\* The arithmetic of a loan: the acreage's rounding, times the rate, and then the rupees'.
LEMMA FairLoan ==
    ASSUME NEW area \in Int, area >= 0, Precise(area), NEW rate \in Nat
    PROVE  100 * Fine * MaximumLoan(Rounded(area), rate) - area * rate
               \in (-(50 * Fine + Slack * rate)) .. (50 * Fine + Slack * rate)
<1> DEFINE r == Rounded(area)
           loan == MaximumLoan(r, rate)
<1>1. Fine \in Nat /\ Fine > 0 /\ Slack \in Nat
  BY DecimalsAssumption, SMT
<1>2. r \in Nat /\ area - Fine * r <= Slack /\ Fine * r - area <= Slack
  BY RoundedClose
<1>3. /\ loan \in Int /\ r * rate \in Nat
      /\ 100 * loan <= r * rate + 50 /\ 100 * loan >= r * rate - 50
  BY <1>2, LoanBounds
<1> HIDE DEF r, loan
<1>4. /\ Fine * (100 * loan) <= Fine * (r * rate + 50)
      /\ Fine * (r * rate - 50) <= Fine * (100 * loan)
  BY <1>1, <1>3, Times, SMT
<1>5. /\ Fine * (r * rate + 50) = (Fine * r) * rate + 50 * Fine
      /\ Fine * (r * rate - 50) = (Fine * r) * rate - 50 * Fine
      /\ Fine * (100 * loan) = 100 * Fine * loan
  BY <1>1, <1>2, <1>3, SMT
<1>6. /\ rate * (Fine * r - area) <= rate * Slack
      /\ rate * (area - Fine * r) <= rate * Slack
  BY <1>1, <1>2, Times, SMT
<1>7. /\ rate * (Fine * r - area) = (Fine * r) * rate - area * rate
      /\ rate * (area - Fine * r) = area * rate - (Fine * r) * rate
      /\ rate * Slack = Slack * rate
  BY <1>1, <1>2, SMT
<1> DEFINE a == area * rate
           b == (Fine * r) * rate
           c == 100 * Fine * loan
           e == Slack * rate
<1>8. a \in Int /\ b \in Int /\ c \in Int /\ e \in Int
  BY <1>1, <1>2, <1>3, SMT
<1>9. c <= b + 50 * Fine /\ b - 50 * Fine <= c /\ b - a <= e /\ a - b <= e
  BY <1>4, <1>5, <1>6, <1>7
<1> HIDE DEF a, b, c, e
<1>10. c - a \in (-(50 * Fine + e)) .. (50 * Fine + e)
  BY <1>1, <1>8, <1>9, SMT
<1> QED BY <1>10 DEF a, c, e, r, loan

\* The loan is fair to within half a rupee, for every rate, acreage and tolerance.
THEOREM FairLoans == Spec => []LoanIsFair
<1>1. IInv => LoanIsFair
  BY Approved, FairLoan DEF LoanIsFair, Loan
<1> QED BY <1>1, Invariance, PTL

\* Nobody under 18 is approved with a credential that was ever issued to them.
THEOREM NobodyUnderAge == Spec => []ApprovedIsOver18
<1>1. IInv => ApprovedIsOver18
  BY DEF IInv
<1> QED BY <1>1, Invariance, PTL

\* Assertions are exact on the day they are issued, for every date of birth and day.
THEOREM ExactAges == Spec => AgeIsExact
<1>1. ASSUME IInv, [Next]_vars, useCase = "age", claims' # claims, NEW threshold \in AgeThresholds
      PROVE  claims'[threshold] = IsOver(threshold)
  <2>1. IssueOffer
    BY <1>1 DEF Next, vars, PresentsAgain, PresentsAge, DayPasses
  <2> QED BY <1>1, <2>1, NewAssertions
<1>2. IInv /\ [Next]_vars =>
        [useCase = "age" /\ claims' # claims =>
            \A threshold \in AgeThresholds : claims'[threshold] = IsOver(threshold)]_vars
  BY <1>1
<1> QED BY <1>2, Invariance, PTL DEF Spec, AgeIsExact

\* An applicant stays with one use case.
LEMMA OneUseCase == [Next]_vars => useCase' = useCase
  BY DEF Next, vars, PresentsAgain, IssueOffer, PresentsAge, DayPasses

\* More land of a crop is never less credit, for every rate and acreage.
THEOREM MoreLand == Spec => MoreLandNeverLess
<1>1. ASSUME IInv, IInv', useCase' = useCase, useCase = "agriculture",
             answer = "ELIGIBLE", answer' = "ELIGIBLE",
             claims'[Crop] = claims[Crop], claims'[Area] >= claims[Area]
      PROVE  Loan(claims') >= Loan(claims)
  <2> DEFINE rate == Rates[claims[Crop]]
  <2>1. /\ claims[Area] \in Int /\ claims[Area] >= 0 /\ Precise(claims[Area]) /\ rate \in Nat
    BY <1>1, Approved
  <2>2. /\ claims'[Area] \in Int /\ claims'[Area] >= 0 /\ Precise(claims'[Area])
    <3>1. \A f \in FarmClaim : claims'[f] \in Values[f]
      BY <1>1 DEF IInv, TypeOK, ClaimsOf
    <3>2. DecideFarmCredit(claims') = "ELIGIBLE"
      BY <1>1 DEF IInv, AnswerIsDecided, Decide
    <3>3. IsAcreage(claims'[Area])
      BY <3>1, <3>2, FarmExactly DEF Qualifies
    <3> QED BY <3>1, <3>3, FarmTypes DEF IsAcreage
  <2>3. claims[Area] <= claims'[Area]
    BY <1>1, <2>1, <2>2, SMT
  <2>4. /\ Rounded(claims[Area]) \in Nat /\ Rounded(claims'[Area]) \in Nat
        /\ Rounded(claims[Area]) <= Rounded(claims'[Area])
    BY <2>1, <2>2, <2>3, RoundedClose, RoundedMonotone
  <2> DEFINE less == MaximumLoan(Rounded(claims[Area]), rate)
             more == MaximumLoan(Rounded(claims'[Area]), rate)
  <2>5. less \in Int /\ more \in Int /\ less <= more
    BY <2>1, <2>4, LoanBounds, LoanMonotone
  <2>6. Loan(claims) = less /\ Loan(claims') = more
    BY <1>1 DEF Loan
  <2> QED BY <2>5, <2>6, SMT
<1>2. IInv /\ IInv' /\ [Next]_vars =>
        [useCase = "agriculture" /\ answer = "ELIGIBLE" /\ answer' = "ELIGIBLE"
            /\ claims'[Crop] = claims[Crop] /\ claims'[Area] >= claims[Area]
                => Loan(claims') >= Loan(claims)]_vars
  BY <1>1, OneUseCase
<1> QED BY <1>2, Invariance, PTL DEF Spec, MoreLandNeverLess

\* No rule depends on a claim its portal does not request.
THEOREM Disclosure == Spec => DisclosureFollowsPurpose
<1>1. ASSUME IInv, IInv', useCase' = useCase, useCase \in EducationPolicy,
             \A f \in RequestedClaims(useCase) : claims'[f] = claims[f]
      PROVE  answer' = answer
  <2>1. useCase # "age" /\ useCase # "agriculture"
    BY <1>1 DEF EducationPolicy
  <2>2. /\ answer = DecideEducation(claims, useCase)
        /\ answer' = DecideEducation(claims', useCase)
    BY <1>1, <2>1 DEF IInv, AnswerIsDecided, Decide
  <2>3. DecideEducation(claims', useCase) = DecideEducation(claims, useCase)
    BY <1>1, ReadsWhatItRequests
  <2> QED BY <2>2, <2>3
<1>2. IInv /\ IInv' /\ [Next]_vars =>
        [(useCase \in EducationPolicy
            /\ \A f \in RequestedClaims(useCase) : claims'[f] = claims[f])
                => answer' = answer]_vars
  BY <1>1, OneUseCase
<1> QED BY <1>2, Invariance, PTL DEF Spec, DisclosureFollowsPurpose

\* Raising a mark keeps a learner eligible, for every threshold of whole hundredths.
THEOREM BetterMarks == Spec => BetterMarksNeverHurt
<1>1. ASSUME IInv, IInv', useCase' = useCase, useCase \in EducationPolicy, answer = "ELIGIBLE",
             \A f \in EducationClaim \ Percentage : claims'[f] = claims[f],
             \A f \in Percentage : claims'[f] = claims[f]
                 \/ (IsPercentage(claims'[f]) /\ IsPercentage(claims[f])
                        /\ claims'[f] >= claims[f])
      PROVE  answer' = "ELIGIBLE"
  <2>1. useCase # "age" /\ useCase # "agriculture"
    BY <1>1 DEF EducationPolicy
  <2>2. /\ answer = DecideEducation(claims, useCase)
        /\ answer' = DecideEducation(claims', useCase)
    BY <1>1, <2>1 DEF IInv, AnswerIsDecided, Decide
  <2>3. /\ \A f \in EducationClaim : claims[f] \in Values[f]
        /\ \A f \in EducationClaim : claims'[f] \in Values[f]
    BY <1>1, <2>1 DEF IInv, TypeOK, ClaimsOf
  <2>4. DecideEducation(claims', useCase) = "ELIGIBLE"
    BY <1>1, <2>2, <2>3, RaisedMarks
  <2> QED BY <2>2, <2>4
<1>2. IInv /\ IInv' /\ [Next]_vars =>
        [(useCase \in EducationPolicy /\ answer = "ELIGIBLE"
            /\ (\A f \in EducationClaim \ Percentage : claims'[f] = claims[f])
            /\ (\A f \in Percentage : claims'[f] = claims[f]
                    \/ (IsPercentage(claims'[f]) /\ IsPercentage(claims[f])
                            /\ claims'[f] >= claims[f])))
                => answer' = "ELIGIBLE"]_vars
  BY <1>1, OneUseCase
<1> QED BY <1>2, Invariance, PTL DEF Spec, BetterMarksNeverHurt

=============================================================================
