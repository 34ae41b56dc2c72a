SPECIFICATION FairSpec
CONSTANTS
  Entry <- MCEntry
  Top = "top"
  Outside <- MCOutside
  Tree <- MCTree
  MaxLinks = 2
  MaxNoise = 1
INVARIANT TypeOK
INVARIANT OnlyReachedRemoved
PROPERTY SuccessMeansGone
PROPERTY CalmSucceeds
PROPERTY ListedOnce
PROPERTY WalkEnds
CHECK_DEADLOCK FALSE
