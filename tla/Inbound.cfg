SPECIFICATION MCSpec
CONSTANTS
  PollSlots = 2
  PollWorkers = {w1}
  Consoles = {x1}
  NoPoller = NoPoller
  PollLimit = 2
  PageSize = 1
  MaxMo = 3
  MaxPollFaults = 1
  Malformed = {3}
  KeepsUp = TRUE
  Couriers = {w1, w2}
  NoCourier = NoCourier
  CallLimit = 2
  CallJobLimit = 3
  MaxRedispatch = 1
  MaxRetries = 1
  MaxCallJobs = 2
  MaxCallFaults = 1
  Receipts = {r1, r2}
  Forwarders = {w1}
  FwdSweeps = {x1, x2}
  NoForwarder = NoForwarder
  FwdLimit = 2
  MaxFwdFaults = 1
CHECK_DEADLOCK FALSE
INVARIANTS ChainAlive OneChain CallsBounded PendingIsCarried
PROPERTIES ImplementsLogReader RowsIngested DeliveredStays DeliverySettles EveryReceiptTried
