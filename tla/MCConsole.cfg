SPECIFICATION Spec
CONSTANTS
  x = x
  y = y
  r1 = r1
  r2 = r2
  pwd = pwd
  plain = plain
  v = v
  w = w
  h1 = h1
  h2 = h2
  Ids = {x,y}
  NoId = NoId
  RouteIds = {r1, r2}
  NoRoute = NoRoute
  Keys = {pwd, plain}
  Secretive = {pwd}
  NoKey = NoKey
  Values = {v, w}
  Numerals = {w}
  Blank = Blank
  Redacted = Redacted
  Handlers = {h1, h2}
  MaxBegun = 2
  Names <- SmallNames
  MaxEdits <- SmallEdits
  Folders <- SmallFolders
SYMMETRY Interchangeable
INVARIANTS TypeOK ScreenAgrees QuietShows
PROPERTY SecretsSurvive
