SPECIFICATION Spec
CONSTANTS
  t1 = t1
  t2 = t2
  r1 = r1
  r2 = r2
  p1 = p1
  p2 = p2
  Tokens = {t1}
  Requests = {r1}
  Providers = {p1}
  Kinds = {"oauth2"}
  Lifetimes = {2}
  Margin = 1
  MaxClock = 3
  MaxSerial = 2
  MaxLogins = 1
INVARIANT EndedStaysEnded
