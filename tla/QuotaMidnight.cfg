SPECIFICATION SendSpec
CONSTANTS
  Sends = {s1, s2}
  NoSend = NoSend
  Keys = {TRUE, FALSE}
  KeyOf <- MCKeyOf
  Alone = s2
  QuotaLimit = 1
  StartBalance = 2
  MaxTopUps = 0
  MaxDays = 1
  MaxLapses = 0
  MaxSendFaults = 0
  ShortSends = FALSE
CHECK_DEADLOCK FALSE
INVARIANT QuotaHolds
