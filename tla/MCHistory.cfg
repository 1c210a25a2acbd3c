\* Up to five reports of one device, a history of four.
CONSTANTS
  HistoryLimit = 4
  MinSpikeSamples = 3
  SpikeFactor = 2
  NonceGapTolerance = 1
  One = 3
  Numbers = {0, 1, 2, 3}
  Powers = {0, 1, 2}
  Thresholds = {2, 3}
  MaxReports = 5
SPECIFICATION Spec
CHECK_DEADLOCK FALSE
INVARIANTS
  VerdictIgnoresEnumeration
  SteadyReportPasses
  RefusalsEnd
