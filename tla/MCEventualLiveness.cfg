CONSTANTS
  plus = plus
  assign = assign
  later = later
  Client = {w1}
  Worker = {w1}
  Caller = {}
  Txn <- MCTxns
  Op <- MCOp
  Stamp <- MCStamp
  Ticket = {k1, k2}
  None = None
  Retries = 1
  MaxFaults = 1
SPECIFICATION FairConsistencySpec
PROPERTY PendingIsApplied
