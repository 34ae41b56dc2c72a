SPECIFICATION Spec
CONSTANTS
  Version <- MCVersion
  Config <- OneConfig
  Platform <- Any
  PrefixKind = {"absolute", "relative"}
  MaxRuns = 2
  PathLength <- ShortAndLong
  JobsDigits <- FewAndMany
INVARIANT LandsInOwnTree
INVARIANT CutsAreKnown
INVARIANT PathsWhole
CHECK_DEADLOCK FALSE
