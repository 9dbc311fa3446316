SPECIFICATION MoSpec
CONSTANTS
  PollSlots = 2
  PollWorkers = {w1}
  Consoles = {x1}
  NoPoller = NoPoller
  PollLimit = 2
  PageSize = 1
  MaxMo = 2
  MaxPollFaults = 0
  Malformed = {}
  KeepsUp = FALSE
CHECK_DEADLOCK FALSE
INVARIANT NothingSkipped
