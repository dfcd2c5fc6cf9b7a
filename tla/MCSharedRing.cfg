\* The programs have 10 places and 512 items: seven items go round three
\* places more than twice, and set-ups fail twice.  The data of the programs ends
\* a word into a page, in the first page or in the second.
SPECIFICATION RingSpec
CONSTANTS
  BUFFERSIZE = 3
  MAXDATA = 7
  NrPages = 2
  PAGE_SIZE = 4
  NrVirtual = 2
  Brks = {1, 5}
  OFFSET = 1
  MaxFailures = 2
  NULL = NULL
INVARIANTS
  RingInOrder
  NobodyMissesSemaphores
PROPERTIES
  RingTermination
\* The programs end.
CHECK_DEADLOCK FALSE
