SPECIFICATION FairSpec
CONSTANTS
  Proc = {p, q}
  Version <- MCVersion
  Tag <- Tags
  Asset <- Mirrored
  NChunks = 2
  Inode = {1, 2, 3, 4}
  ByName = FALSE
INVARIANT TypeOK
INVARIANT SingleWriter
INVARIANT BrokenOnlyInside
PROPERTY LeftoversHarmless
PROPERTY NeverOlder
PROPERTY ByHandIsPossible
PROPERTY UpgradeEnds
CHECK_DEADLOCK FALSE
