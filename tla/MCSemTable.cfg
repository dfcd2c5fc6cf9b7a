\* Two names, and a block more than names, so that recycling shuffles them.
SPECIFICATION TableSpec
CONSTANTS
  Proc = {p1, p2, p3}
  Blocks = {b1, b2, b3}
  Name <- EqualLengths
  NameSize = 2
  InitValue = {0, 1}
  MaxValue = 1
  SemHead = SemHead
  NULL = NULL
INVARIANTS
  PointersAreList
  SameNameSameSemaphore
  HandlesAreLive
  RecycledWakeups
CHECK_DEADLOCK FALSE
