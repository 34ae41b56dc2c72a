SPECIFICATION FairSpec
CONSTANTS
  p1 = p1
  p2 = p2
  f1 = f1
  f2 = f2
  a = a
  b = b
  Proc = {p1}
  File = {f1, f2}
  Blob = {a, b}
  NChunks = 3
  Request <- AloneRequest
INVARIANT TypeOK
INVARIANT OnlyVerified
INVARIANT CacheHeals
PROPERTY GoodFileKept
PROPERTY ImplementsVerifiedSource
PROPERTY CallsReturn
