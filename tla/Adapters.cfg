SPECIFICATION AdaptersSpec
CONSTANTS
  NPrompts = 3
  Durations = {0, 1, 2, 5}
  Second = 4
  Rates <- MCRates
  Replies <- MCReplies
  Failures <- MCFailures
  Statuses = {"pulling manifest", "verifying"}
  Digests = {"a1", "a2", "b1"}
  KeyOf <- MCKeyOf
  Totals = {0, 2}
  MaxLines = 3
  Scans = {s1, s2, s3}
  DeviceCount = 2
  Optional = {"utilization", "temperature"}
  MaxFailures = 2
INVARIANTS SuccessIsAFullRun PercentilesAreNearestRank OllamaRateIsMeasured ClientLearnsOutcome BarsFollowTheStream AllOrNone ScansDoNotDisturb InitsAreReturned
PROPERTIES PullEnds
CHECK_DEADLOCK FALSE
