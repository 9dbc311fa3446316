SPECIFICATION MoSpec
CONSTANTS
  PollSlots = 2
  PollWorkers = {w1}
  Consoles = {}
  NoPoller = NoPoller
  PollLimit = 2
  PageSize = 1
  MaxMo = 2
  MaxPollFaults = 0
  Malformed = {}
  KeepsUp = TRUE
CHECK_DEADLOCK FALSE
INVARIANT OnMeansPolled
