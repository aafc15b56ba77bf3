SPECIFICATION Spec
CONSTANTS
  t1 = t1
  t2 = t2
  r1 = r1
  r2 = r2
  p1 = p1
  p2 = p2
  Tokens = {t1, t2}
  Requests = {r1, r2}
  Providers = {p1, p2}
  Kinds = {"oauth2"}
  Lifetimes = {0, 2}
  Margin = 1
  MaxClock = 2
  MaxSerial = 2
  MaxLogins = 1
SYMMETRY Interchangeable
INVARIANTS TypeOK SingleFlight
PROPERTIES GrantIsSound ImplementsLifecycle OverForGood
