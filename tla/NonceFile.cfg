SPECIFICATION Spec
CONSTANTS
  s1 = s1
  s2 = s2
  s3 = s3
  r1 = r1
  r2 = r2
  pa = pa
  pb = pb
  Dir = Dir
  None = None
  Sessions = {s1, s2, s3}
  Readers = {r1, r2}
  Paths = {pa, pb}
  PathOf <- SharedPath
  Targets <- FileAndDir
  MaxTime = 1
INVARIANTS OwnWhileWriting NoTornNonce ConsumedIsGone
PROPERTIES NeverRewritten
CHECK_DEADLOCK FALSE
