\* One worker over PostgreSQL, three calls, every fault a proof and its retries.
CONSTANTS
  Workers = {w1}
  Calls = {c1, c2, c3}
  NoCall = NoCall
  Devices = {dev, other}
  Nonces = {n1}
  Bodies <- RetriedBodies
  NoBody = NoBody
  Backend = "postgres"
  AllowMock = FALSE
  MaxProofAge = 0
  MaxClockSkew = 0
  NonceTTL = 0
  MaxPower = 50
  MinPower = 1
  Gates = {"ai_anomaly_flagged", "mint_paused"}
  Faults = {"storage", "crash", "policy_config", "no_key", "bad_key"}
  MaxTime = 1
  MaxPause = 1
  dev = dev
  other = other
  n1 = n1
  n2 = n2
SPECIFICATION Spec
INVARIANTS
  NonceClaimedOnce
PROPERTIES
  ImplementsNonceGuard
SYMMETRY CallSymmetry
CHECK_DEADLOCK FALSE
