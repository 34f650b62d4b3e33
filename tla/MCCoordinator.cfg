SPECIFICATION BudgetSpec
CONSTANTS
  Service = {1, 2}
  Plugins = {2}
  Heartbeat <- MCHeartbeat
  None = None
  Lease = 2
  Grace = 0
  WorkerTtl = 2
  MaxEpoch = 1
  Budget = 3
INVARIANTS CoordinatorTypeOK 
PROPERTIES RenewedOnlyWhenOver LeadersAgree
