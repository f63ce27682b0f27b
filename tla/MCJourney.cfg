SPECIFICATION FairSpec
CONSTANTS
  File <- MCFile
  Var = {"AGE_ISSUER_DID"}
  Issuer = {"farmer-authority", "land-authority"}
  d1 = d1
  d2 = d2
  DID = {d1, d2}
  NoDID = NoDID
  NoVar = NoVar
  NoIssuer = NoIssuer
  Waiting = Waiting
  Deployment <- MCDeployment
  MaxUpsets = 2
  Session = {s1}
  NoSession = NoSession
  Role <- MCRole
  Claim = {"record", "withheld", "standing"}
  DomainClaims <- MCDomainClaims
  StatusClaim = "standing"
  Kind = {"hand", "film"}
  Carried <- MCCarried
  MustHold = {"farmer"}
  OneSigner = FALSE
  Applications = 2
  MaxChanges = 1
INVARIANTS
  TrustVouched
  DisclosesAsAsked
  IndependentIssuers
PROPERTIES
  VerdictTurnsOnStanding
  KeepsPromise
  ListensAgain
