SPECIFICATION Spec
CONSTANTS
  Names <- MixedNames
  MaxEntries = 3
INVARIANT TypeOK
INVARIANT AppliedAsWritten
INVARIANT AllOrNothing
INVARIANT NoDangling
INVARIANT NoLeak
INVARIANT NullOnlyWithoutValue
CHECK_DEADLOCK FALSE
