SPECIFICATION Spec
CONSTANTS
  r1 = r1
  r2 = r2
  app = app
  audit = audit
  one = one
  other = other
  Requests = {r1, r2}
  Databases = {app, audit}
  Lists = {one, other}
  Partial = partial
  FreshTime = 1
  TTL = 1
  RequestTime = 1
SYMMETRY CacheSymmetry
INVARIANTS TypeOK VerifiedRecently SwitchForgets
