\* A name that is a prefix of another.
SPECIFICATION TableSpec
CONSTANTS
  Proc = {p1, p2, p3}
  Blocks = {b1, b2, b3}
  Name <- PrefixNames
  NameSize = 2
  InitValue = {0, 1}
  MaxValue = 1
  SemHead = SemHead
  NULL = NULL
INVARIANTS
  SameNameSameSemaphore
CHECK_DEADLOCK FALSE
