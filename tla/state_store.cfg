SPECIFICATION FairStore
CONSTANTS
  Users = {u1}
  States = {s1, s2, s3}
  Closers = {c1}
  TTL = 2
  Horizon = 6
  NoUser = NoUser
PROPERTIES StatesSwept
