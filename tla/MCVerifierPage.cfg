SPECIFICATION FairSpec
CONSTANTS
  Session = {s1, s2}
  Poll = {p1, p2}
  Cancel = {c1}
  Verdict = {"APPROVED", "DENIED"}
  NoVerdict = NoVerdict
  NoSession = NoSession
INVARIANTS ShownIsOwn StillAsking
PROPERTY ResultShown
