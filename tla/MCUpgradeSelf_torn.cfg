SPECIFICATION FairSpec
CONSTANTS
  Proc = {p}
  Version <- MCVersion
  Tag <- Tags
  Asset <- Mirrored
  NChunks = 2
  Inode = {1, 2, 3, 4}
  ByName = FALSE
PROPERTY UpToDateIsTrue
CHECK_DEADLOCK FALSE
