SPECIFICATION HoldSpec
CONSTANTS
  Jobs = {j1, j2}
  Workers = {w1, w2}
  NoJob = NoJob
  NoWorker = NoWorker
  Attempts = 2
  MaxAttempts <- MCMaxAttempts
  Handles <- MCHandles
  Batch = 1
  StaleAfter = 1
  BackoffBase = 1
  BackoffMax = 1
  MaxDelay = 1
  MaxLag = 0
  MaxFaults = 1
  MaxDbFaults = 1
  Ceiling = 0
  HeartbeatsReliable = TRUE
  JobsApi = FALSE
  ReleasesPrompt = TRUE
SYMMETRY Symmetry
INVARIANTS SendsAccounted NeverReleasedEarly NotForgotten
PROPERTIES NoSendAfterSettled
