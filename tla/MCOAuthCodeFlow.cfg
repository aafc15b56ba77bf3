SPECIFICATION FairSpec
CONSTANTS
  s1 = s1
  s2 = s2
  c1 = c1
  c2 = c2
  p1 = p1
  p2 = p2
  app = app
  url = url
  States = {s1, s2}
  Callbacks = {c1, c2}
  Providers = {p1, p2}
  Apps = {app}
  Urls = {url}
  TTL = 1
  MaxClock = 3
  MaxStarts = 1
INVARIANTS TypeOK
PROPERTIES StaleAttemptsRefused ImplementsAttempt AbandonedSwept
