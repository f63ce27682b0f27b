SPECIFICATION Spec
CONSTANTS
  ApprovedAlgs <- MCApproved
  TrustPolicy <- MCTrustPolicy
  NoRole = NoRole
  NoCredential = NoCredential
  Session = {"age"}
  Read = {r1}
  Credential = {}
  Presentation <- MCLiveAnswers
  Requests <- MCRequests
  TTL = 2
  MaxTime = 3
  Standing = {"ACTIVE"}
  NoSession = NoSession
  Absent = Absent
  Pending = Pending
  Gone = Gone
  Failed = Failed
PROPERTY NoDecisionAfterCancel
