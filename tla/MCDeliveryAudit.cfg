\* The same, and one attestation is enough.
CONSTANTS
  NoKey = NoKey
  Keys = {k1, k2}
  OracleKey = oracle
  Nonces = {"n1", "n2"}
  Manifests <- NamedManifests
  Proofs <- BuiltProofs
  Clock = {10, 13}
  MaxProofAge = 2
  MaxClockSkew = 1
  RoundedDown = {8014}
  MaxDocs = 1
  k1 = k1
  k2 = k2
SPECIFICATION Spec
INVARIANTS
  StoredProofIsIncoming
CHECK_DEADLOCK FALSE
