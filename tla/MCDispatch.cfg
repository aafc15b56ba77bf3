SPECIFICATION Spec
CONSTANTS
  r1 = r1
  r2 = r2
  r3 = r3
  a1 = a1
  a2 = a2
  soap = soap
  own = own
  bad = bad
  none = none
  http = http
  gs = gs
  gh = gh
  p1 = p1
  p2 = p2
  w = w
  d = d
  op = op
  root = root
  AuthToken = AuthToken
  NoGateway = NoGateway
  NoProvider = NoProvider
  NoAddress = NoAddress
  NotSent = NotSent
  Requests = {r1, r2, r3}
  Apps = {a1, a2}
  Integrations = {soap, own, bad, none, http}
  Gateways = {gs, gh}
  Params = {AuthToken}
  Providers = {p1, p2}
  Addresses = {w, d}
  Operations = {op, none}
  Paths = {root, soap, own, bad, none, http}
  Urls = {soap, own, bad, none, http}
  Mounts <- SmallMounts
  Matches <- SmallMatches
  Describes <- SmallDescribes
  Configs <- SmallConfigs
SYMMETRY Interchangeable
INVARIANTS TypeOK AuthorizedCall SentAsOwn
PROPERTY OneConfiguration
