SPECIFICATION Spec
CONSTANTS
  Users = {u1, u2}
  States = {s1, s2, s3}
  Closers = {}
  TTL = 1
  Horizon = 3
  Grants = {g1, g2, g3}
  Requests = {r1, r2}
  Faults = {"db", "omit", "crash"}
  NoUser = NoUser
  NoState = NoState
  NoGrant = NoGrant
SYMMETRY Permuted
INVARIANTS TypeOK OwnTokens StateRedeemedOnce RevokeSpares
PROPERTIES DisconnectFinal ImplementsGrants
