SPECIFICATION SeqSpec
CONSTANTS
  c1 = c1
  c2 = c2
  c3 = c3
  p1 = p1
  p2 = p2
  Client <- Callers
  Process <- Processes
  Home <- CallerHome
  Token = {t1, t2, t3, t4}
  NoToken = NoToken
  Ttl = 1
  Timeouts = {0, 1}
  ReadsExpire = FALSE
  ReadsFail = TRUE
  Fast <- FastProcesses
  Start = 1
  BatchSize = 2
  Increment = 1
  ResetTo = {1, 4}
  MaxValue = 3
CONSTRAINT StillPromised
SYMMETRY Symmetry
INVARIANTS SeqTypeOK UniqueIds BatchesAreReserved
PROPERTIES CounterNeverFallsBack
CHECK_DEADLOCK FALSE
