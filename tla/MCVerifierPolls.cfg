SPECIFICATION FairSpec
CONSTANTS
  ApprovedAlgs <- MCApproved
  TrustPolicy <- MCTrustPolicy
  NoRole = NoRole
  NoCredential = NoCredential
  Session = {"farm"}
  Read = {r1, r2}
  Credential = {"f1", "l1"}
  Presentation <- MCPolled
  Requests <- MCRequests
  TTL = 1
  MaxTime = 1
  Standing = {"ACTIVE", "SUSPENDED"}
  NoSession = NoSession
  Absent = Absent
  Pending = Pending
  Gone = Gone
  Failed = Failed
INVARIANTS
  DecisionsAgree
PROPERTIES
  KeepsPromise
  ReadAnswered
