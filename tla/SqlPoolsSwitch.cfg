SPECIFICATION Spec
CONSTANTS
  n1 = n1
  n2 = n2
  a = a
  b = b
  r1 = r1
  r2 = r2
  s1 = s1
  s2 = s2
  k1 = k1
  k2 = k2
  Names = {n1, n2}
  Configs = {a}
  Requests = {r1, r2}
  Switches = {s1}
  Pools = {k1, k2}
  NoPool = NoPool
  PoolSize = 1
INVARIANT NothingLeaks
