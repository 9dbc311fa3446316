SPECIFICATION HoldFairSpec
CONSTANTS
  Jobs = {j1}
  Workers = {w1, w2}
  NoJob = NoJob
  NoWorker = NoWorker
  Attempts = 2
  MaxAttempts <- MCMaxAttempts
  Handles <- MCHandles
  Batch = 1
  StaleAfter = 1
  BackoffBase = 1
  BackoffMax = 1
  MaxDelay = 1
  MaxLag = 0
  MaxFaults = 1
  MaxDbFaults = 1
  Ceiling = 0
  HeartbeatsReliable = FALSE
  JobsApi = TRUE
  ReleasesPrompt = FALSE
INVARIANTS SucceededMeansReturned ReleasedMeansSpooled SendsCostAttempts
PROPERTIES TerminalIsFinal SettledHoldStays EveryJobSettles 
