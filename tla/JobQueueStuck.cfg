SPECIFICATION FairSpec
CONSTANTS
  Jobs = {j1}
  Workers = {w1, w2, w3}
  NoJob = NoJob
  NoWorker = NoWorker
  Laggard = NoWorker
  NewType = j1
  Attempts = 3
  MaxAttempts <- MCMaxAttempts
  Handles <- MCHandles
  Batch = 1
  StaleAfter = 1
  BackoffBase = 1
  BackoffMax = 1
  MaxDelay = 0
  MaxLag = 0
  MaxFaults = 2
  HeartbeatsReliable = FALSE
PROPERTIES EveryJobSettles
