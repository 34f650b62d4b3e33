SPECIFICATION SchemaSpec
CONSTANTS
  Client = {p1, p2}
  LockId = {i1, i2, i3}
  NoId = NoId
  Ttl = 1
  Grace = 2
  MaxTime = 1
  a = a
  b = b
  x = x
  Definitions <- Lists
  Nothing = Nothing
  MaxIndex = 3
CONSTRAINT StillPromised
SYMMETRY Symmetry
CHECK_DEADLOCK FALSE
INVARIANTS SchemaTypeOK SerialChangesAreSafe
PROPERTIES RegistryOnlyGrows
