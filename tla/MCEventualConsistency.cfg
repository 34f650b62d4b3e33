CONSTANTS
  plus = plus
  assign = assign
  later = later
  Client = {w1, w2}
  Worker = {w1, w2}
  Caller = {w1, w2}
  Txn <- MCTxn
  Op <- MCOp
  Stamp <- MCStamp
  Ticket = {k1, k2}
  None = None
  Retries = 1
  MaxFaults = 1
SPECIFICATION ConsistencySpec
INVARIANTS
  ConsistencyTypeOK
  CountedOnce
  NothingIsLost
  JobsAreAlone
SYMMETRY Symmetry
