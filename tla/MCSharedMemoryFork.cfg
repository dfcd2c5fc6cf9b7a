\* An identifier is handed on by fork, and parent and child attach it.
SPECIFICATION MemorySpec
CONSTANTS
  Proc = {p1, p2, p3}
  Init0 = p1
  Key = {k1}
  NrPages = 4
  NrVirtual = 2
  PAGE_SIZE = 2
  Executables <- MCExecutables
  Careful = FALSE
  MaxLost = 1
  MaxUses = 3
  NULL = NULL
INVARIANTS
  MappedIsNotFree
CHECK_DEADLOCK FALSE
