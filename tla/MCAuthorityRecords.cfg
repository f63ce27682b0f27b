SPECIFICATION FairSpec
CONSTANTS
  Token = {t1,t2}
  NoToken = NoToken
  Lifetime = {3}
  Untold = {3}
  AssumedLifetime = 2
  MarginCap = 10
  ExchangeTimeout = 1
  Request = {r1}
  Subject = {s1}
  Profile = {p1}
  Osid = {o1,o2}
  NoOsid = NoOsid
  Anchor = {a1,a2}
  NoAnchor = NoAnchor
  NoAsk = NoAsk
INVARIANTS SoleMatchIssued
PROPERTIES KeepsPromise SentFresh ResolveEnds
