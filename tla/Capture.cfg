SPECIFICATION FairSpec
CONSTANTS
  N = 2
  RequestTimeout = 2
  ConnectBudget = 2
  Margin = 1
CHECK_DEADLOCK FALSE
INVARIANTS InOrder DeadlineSuffices ManifestMeansComplete ExitTells NoSecretWritten
PROPERTIES FinalStays CaptureEnds
