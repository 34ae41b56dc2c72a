SPECIFICATION Spec
CONSTANTS
  Names <- ExampleNames
  MaxEntries = 2
INVARIANT DocumentedKeysApply
CHECK_DEADLOCK FALSE
