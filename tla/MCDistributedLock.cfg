SPECIFICATION Spec
CONSTANTS
  Client = {c1, c2, c3}
  Token = {t1, t2, t3, t4}
  NoToken = NoToken
  Ttl = 1
  Timeouts = {0, 2}
  ReadsExpire = TRUE
  ReadsFail = TRUE
SYMMETRY Symmetry
INVARIANTS TypeOK ExclusiveUntilLapse
PROPERTIES OnlyOwnerDeletes ImplementsMutex
