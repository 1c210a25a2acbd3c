\* One worker over Redis, with a ttl that the code does not have: nonces outlive
\* every proof they may come from.
CONSTANTS
  Workers = {w1}
  Calls = {c1, c2, c3}
  NoCall = NoCall
  Devices = {dev}
  Nonces = {n1}
  Bodies <- MixedBodies
  NoBody = NoBody
  Backend = "redis"
  AllowMock = TRUE
  MaxProofAge = 1
  MaxClockSkew = 1
  NonceTTL = 4
  MaxPower = 50
  MinPower = 1
  Gates = {}
  Faults = {"crash"}
  MaxTime = 5
  MaxPause = 1
  dev = dev
  other = other
  n1 = n1
  n2 = n2
SPECIFICATION Spec
INVARIANTS
  ProofGrantedOnce
  SpentByVerifiedProof
  StoredIsEarned
SYMMETRY CallSymmetry
CHECK_DEADLOCK FALSE
