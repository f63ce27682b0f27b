SPECIFICATION Spec
CONSTANTS
  Token = {t1,t2,t3,t4}
  NoToken = NoToken
  Lifetime = {1}
  Untold = {}
  AssumedLifetime = 60
  MarginCap = 10
  ExchangeTimeout = 1
  Request = {r1,r2}
  Subject = {s1}
  Profile = {p1}
  Osid = {o1}
  NoOsid = NoOsid
  Anchor = {a1,a2}
  NoAnchor = NoAnchor
  NoAsk = NoAsk
PROPERTIES DropsRefused
