\* pc.c has 4 consumers, 10 slots and 512 items: three consumers race for the
\* last item, and four items go round the two slots twice.
SPECIFICATION PCSpec
CONSTANTS
  CHILD_NUMBER = 3
  BUFFER_SIZE = 2
  MAX_DATA_NUMBER = 4
  NULL = NULL
  MaxForkFailures = 1
  MaxIOErrors = 1
INVARIANTS
  MutualExclusion
  ConsumedInOrder
  UnlinkedIsUnused
PROPERTIES
  Termination
\* The program ends.
CHECK_DEADLOCK FALSE
