SPECIFICATION QueueSpec
CONSTANTS
  Client = {w1, w2}
  Process = {w1, w2}
  Home <- OwnProcess
  Token = {1, 2, 3, 4, 5}
  None = None
  Mode = "hybrid"
  MaxAttempts = 2
  Visibility = 1
  Backoff = 1
  MarkerTtl = 3
  CallsFail = FALSE
  MaxTime = 2
SYMMETRY Symmetry
CONSTRAINT LockHeld
INVARIANTS ExactlyOnce
CHECK_DEADLOCK FALSE
