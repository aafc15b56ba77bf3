SPECIFICATION Spec
CONSTANTS
  fn = fn
  good = good
  broken = broken
  i1 = i1
  i2 = i2
  gen = gen
  a1 = a1
  a2 = a2
  p1 = p1
  p2 = p2
  Malformed = Malformed
  Fns = {fn}
  Codes = {good, broken}
  Works = {good}
  Ids = {i1, i2, gen, a1, a2}
  Paths = {p1, p2}
  MaxFaults = 1
  MaxWaiting = 1
  FileOf <- FileNumbers
  Inputs <- SmallInputs
  Bodies <- SmallBodies
  Generated <- SmallGenerated
  Folders <- SmallFolders
INVARIANT RouteFits
