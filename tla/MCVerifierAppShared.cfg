SPECIFICATION Spec
CONSTANTS
  Session = {s1}
  Poll = {p1}
  Cancel = {c1}
  Start = {k1}
  Verdict = {"APPROVED"}
  NoVerdict = NoVerdict
  NoSession = NoSession
INVARIANTS NothingShared
