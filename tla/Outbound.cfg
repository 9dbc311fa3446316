SPECIFICATION MCFairSpec
CONSTANTS
  Sends = {s1, s2, s3, s4}
  NoSend = NoSend
  Keys = {TRUE, FALSE}
  KeyOf <- MCKeyOf
  Alone = s4
  QuotaLimit = 2
  StartBalance = 2
  MaxTopUps = 1
  MaxDays = 1
  MaxLapses = 1
  MaxSendFaults = 1
  ShortSends = TRUE
  Recipients = {p1, p2, p3}
  Runners = {x1, x2}
  MaxCampFaults = 1
  Deployers = {d1, d2}
  Pids = {1, 2}
  MaxVersion = 3
  ScopeOf <- MCScopeOf
  MaxDeploys = 2
  MaxInode = 5
  MaxDeployFaults = 1
  Requests = {r1, r2, r3, r4, r5}
  NoRequest = NoRequest
  Odd = r5
  Hash <- MCHash
  StaleAfter = 2
  MaxKeyFaults = 2
  Prompt = TRUE
  Chains = {k1}
  Workers = {w1, w2}
  Scanners = {z1}
  Nobody = Nobody
  MaxAttempts = 2
  QueueAttempts = 2
  Cap = 1
  MaxFaults = 1
  ReportsAfterCommit = TRUE
CHECK_DEADLOCK FALSE
INVARIANTS
  OnePerWindow AccountsMatch CampaignHonest ConfigSound
  OneHandler EffectsAccounted AnswersAgree
  SubmissionsCounted RecordsAreTrue ResentMeansUnknown NoSendUnrecorded
PROPERTY ImplementsLogReader ClosedStaysClosed OpenChainSettles ImplementsSendService
