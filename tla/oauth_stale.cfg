SPECIFICATION Spec
CONSTANTS
  Users = {u1}
  States = {s1, s2}
  Closers = {}
  TTL = 1
  Horizon = 3
  Grants = {g1, g2}
  Requests = {r1, r2}
  Faults = {}
  NoUser = NoUser
  NoState = NoState
  NoGrant = NoGrant
PROPERTIES ServedValid
