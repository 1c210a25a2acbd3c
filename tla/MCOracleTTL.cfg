\* One worker over Redis with the code's ttl: nonces live as long as MaxProofAge.
\* Proofs are stamped ahead of the clock, within the skew the policy allows.
CONSTANTS
  Workers = {w1}
  Calls = {c1, c2}
  NoCall = NoCall
  Devices = {dev}
  Nonces = {n1}
  Bodies <- SkewedBodies
  NoBody = NoBody
  Backend = "redis"
  AllowMock = FALSE
  MaxProofAge = 2
  MaxClockSkew = 1
  NonceTTL = 2
  MaxPower = 50
  MinPower = 1
  Gates = {}
  Faults = {}
  MaxTime = 5
  MaxPause = 1
  dev = dev
  other = other
  n1 = n1
  n2 = n2
SPECIFICATION Spec
INVARIANTS
  ProofGrantedOnce
CHECK_DEADLOCK FALSE
