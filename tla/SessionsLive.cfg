SPECIFICATION FairSpec
CONSTANTS
  t1 = t1
  t2 = t2
  r1 = r1
  r2 = r2
  p1 = p1
  p2 = p2
  Tokens = {t1}
  Requests = {r1, r2}
  Providers = {p1}
  Kinds = {"oauth2", "basicLogin", "ldap"}
  Lifetimes <- MCLifetimes
  Margin = 1
  MaxClock = 3
  MaxSerial = 3
  MaxLogins = 1
INVARIANTS NewestTokens
PROPERTIES SessionKeptWhileUseful WaitersSettle DeadSessionsSwept
