SPECIFICATION CalmSpec
CONSTANTS
  Client = {c1, c2}
  Token = {t1, t2, t3}
  NoToken = NoToken
  Ttl = 1
  Timeouts = {2}
  ReadsExpire = TRUE
  ReadsFail = TRUE
PROPERTIES AcquireReturns LockIsFreed
