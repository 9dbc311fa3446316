SPECIFICATION Spec
CONSTANTS
  Chains = {c1}
  Workers = {w1, w2}
  Scanners = {x1}
  Nobody = Nobody
  MaxAttempts = 2
  QueueAttempts = 2
  Cap = 1
  MaxFaults = 0
  ReportsAfterCommit = FALSE
SYMMETRY Symmetry
INVARIANT ResentMeansUnknown
