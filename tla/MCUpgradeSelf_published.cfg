SPECIFICATION FairSpec
CONSTANTS
  Proc = {p}
  Version <- MCVersion
  Tag <- Published
  Asset <- Published
  NChunks = 2
  Inode = {1, 2, 3, 4}
  ByName = FALSE
PROPERTY NewReleaseInstalls
CHECK_DEADLOCK FALSE
