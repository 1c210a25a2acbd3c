\* Every decision and every recommendation under three policy files and eight environments.
CONSTANTS
  MaxProofAge = 2
  Month = 5
  BpsScale = 2
  MaxBps = 4
  MaxSkew = 2
  One = 3
  TierLimit <- Limits
  Defaults <- Reference
  Files <- PolicyFiles
  Envs <- Environments
  Calls <- PolicyCalls
  MarketCalls <- MarketBodies
SPECIFICATION MarketSpec
INVARIANTS
  LooseningKeepsAllowed
  RetryStaysAdmissible
  DeviceClockBound
  OnlyBoughtIsLost
  TradesSettleOrRepeat
