SPECIFICATION Spec
CONSTANTS
  p1 = p1
  p2 = p2
  f1 = f1
  f2 = f2
  a = a
  b = b
  Proc = {p1, p2}
  File = {f1}
  Blob = {a}
  NChunks = 2
  Request <- SharedRequest
INVARIANT NoTornSuccess
