\* Two workers over PostgreSQL, two calls, every fault.
CONSTANTS
  Workers = {w1, w2}
  Calls = {c1, c2}
  NoCall = NoCall
  Devices = {dev}
  Nonces = {n1, n2}
  Bodies <- RacingBodies
  NoBody = NoBody
  Backend = "postgres"
  AllowMock = FALSE
  MaxProofAge = 0
  MaxClockSkew = 0
  NonceTTL = 1
  MaxPower = 50
  MinPower = 1
  Gates = {}
  Faults = {"storage", "crash", "bad_key"}
  MaxTime = 1
  MaxPause = 1
  dev = dev
  other = other
  n1 = n1
  n2 = n2
SPECIFICATION FairSpec
INVARIANTS
  TypeOK
  SpentByVerifiedProof
  StoredIsEarned
  AnsweredIsReadable
  DanglingOnlyAfterFailure
  DecisionIsOnRecord
PROPERTIES
  ReplacedByLegacyOrOwner
  EveryCallEnds
CHECK_DEADLOCK FALSE
