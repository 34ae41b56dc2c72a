SPECIFICATION Spec
CONSTANTS
  Version <- MCVersion
  Config <- OneConfig
  Platform <- Linux
  PrefixKind = {"relative"}
  MaxRuns = 1
INVARIANT NoFaultMeansSuccess
CHECK_DEADLOCK FALSE
