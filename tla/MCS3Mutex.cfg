SPECIFICATION MutexSpec
CONSTANTS
  Client = {c1, c2, c3}
  LockId = {i1, i2, i3, i4}
  NoId = NoId
  Ttl = 1
  Grace = 1
  MaxTime = 3
SYMMETRY Symmetry
CHECK_DEADLOCK FALSE
INVARIANTS MutexTypeOK LiveHoldersExclusive
PROPERTIES LiveRecordStays
