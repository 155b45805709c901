SPECIFICATION StoreSpec
CONSTANTS
  Users = {u1}
  States = {s1}
  Closers = {c1, c2}
  TTL = 1
  Horizon = 3
  NoUser = NoUser
INVARIANTS CloseIdempotent
