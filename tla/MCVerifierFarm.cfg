SPECIFICATION Spec
CONSTANTS
  ApprovedAlgs <- MCApproved
  TrustPolicy <- MCTrustPolicy
  NoRole = NoRole
  NoCredential = NoCredential
  Session = {"farm"}
  Read = {r1, r2}
  Credential = {"f1", "l1"}
  Presentation <- MCPresentation
  Requests <- MCRequests
  TTL = 2
  MaxTime = 3
  Standing = {"ACTIVE", "SUSPENDED", "REVOKED"}
  NoSession = NoSession
  Absent = Absent
  Pending = Pending
  Gone = Gone
  Failed = Failed
SYMMETRY Symmetry
INVARIANTS
  AnswerReadable
PROPERTIES
  DecisionEarned
  DecisionStanding
  ClosedStaysClosed
  ReadsAdvance
