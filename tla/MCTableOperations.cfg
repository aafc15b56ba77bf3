SPECIFICATION Spec
CONSTANTS
  k = k
  l = l
  unknown = unknown
  c1 = c1
  c2 = c2
  Columns = {k, l}
  PrimaryKey = {k, l}
  Values = {0, 1}
  FieldNames = {k, l, unknown}
  Callers = {c1, c2}
  Bad = Bad
  NaN = NaN
  Infinity = Infinity
  DefaultLimit = 1
  MaxLimit = 2
  NoProcedures = FALSE
  Reserved = {l}
  Bodies <- SmallBodies
  Numbers <- SmallNumbers
  Filters <- SmallFilters
SYMMETRY Interchangeable
INVARIANTS TypeOK AllOrNothing PageBounds
PROPERTY SeenWhole
