SPECIFICATION Spec
CONSTANTS
  Jobs = {j1, j2}
  Workers = {w1, w2}
  NoJob = NoJob
  NoWorker = NoWorker
  Laggard = w2
  NewType = j2
  Attempts = 2
  MaxAttempts <- MCMaxAttempts
  Handles <- MCHandles
  Batch = 2
  StaleAfter = 1
  BackoffBase = 1
  BackoffMax = 2
  MaxDelay = 1
  MaxLag = 1
  MaxFaults = 2
  HeartbeatsReliable = TRUE
INVARIANTS TypeOK ExclusiveExecution ExecutorOwnsRow AttemptsBounded
PROPERTIES ImplementsJobService
