CONSTANTS
  Client = {c1, c2}
  Value = {v1, v2, v3}
  None = None
  Keep = Keep
  Absent = Absent
  This = This
  Other = {other}
  MaxFaults = 1
SPECIFICATION PartitionsSpec
INVARIANTS
  PartitionsTypeOK
  IndexMatches
SYMMETRY Symmetry
