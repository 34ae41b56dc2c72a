SPECIFICATION Spec
CONSTANTS
  Version <- MCVersion
  Config <- OneConfig
  Platform <- NetBSD
  PrefixKind = {"absolute"}
  MaxRuns = 1
INVARIANT NoFaultMeansSuccess
CHECK_DEADLOCK FALSE
