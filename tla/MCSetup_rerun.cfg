SPECIFICATION AnySpec
CONSTANTS
  Version <- MCVersion
  Config <- ThreeConfigs
  Platform <- Linux
  PrefixKind = {"absolute"}
  MaxRuns = 2
INVARIANT TypeOK
INVARIANT SuccessIsComplete
INVARIANT CleanBuild
INVARIANT NoFaultMeansSuccess
INVARIANT ReceiptIsTrue
PROPERTY ReceiptIsLast
PROPERTY ImplementsProvision
PROPERTY RunsEnd
CHECK_DEADLOCK FALSE
