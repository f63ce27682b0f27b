SPECIFICATION Spec
CONSTANTS
  Fine = 10
  Slack = 1
  Malformed = Malformed
  Rates <- MCRates
  MaxRatePerAcre = 50
  Unreadable = Unreadable
  Values <- MCValues
  Qualified <- MCQualified
  MaxFlaws = 3
  Birth <- MCBirth
  FirstDay <- MCFirstDay
  LastDay <- MCLastDay
  NoClaims = NoClaims
INVARIANTS
  EligibleExactly
  AnswerIsAboutOneSubject
  LoanIsFair
  ApprovedIsOver18
PROPERTIES
  MoreLandNeverLess
  DisclosureFollowsPurpose
  BetterMarksNeverHurt
  AgeIsExact
CHECK_DEADLOCK FALSE
