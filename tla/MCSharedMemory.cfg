\* Three processes: two that share a page and one that comes and goes; two keys, which
\* a process can both attach, and so few frames that memory runs out.  The program has a
\* page of its file, and its data ends inside the next page.
SPECIFICATION MemorySpec
CONSTANTS
  Proc = {p1, p2, p3}
  Init0 = p1
  Key = {k1, k2}
  NrPages = 3
  NrVirtual = 3
  PAGE_SIZE = 2
  Executables <- MCInsidePage
  Careful = TRUE
  MaxLost = 1
  MaxUses = 2
  NULL = NULL
SYMMETRY Symmetry
INVARIANTS
  CountsAddUp
  WritableIsPrivateOrShared
  AttachedInSegment
PROPERTIES
  PrivateCountsInStep
CHECK_DEADLOCK FALSE
