SPECIFICATION FairSpec
CONSTANTS
  Session = {s1, s2}
  Poll = {p1}
  Cancel = {c1}
  Start = {k1, k2}
  Verdict = {"APPROVED"}
  NoVerdict = NoVerdict
  NoSession = NoSession
INVARIANTS DecisionWasJustified StillAsking
PROPERTY SpinnerEnds
