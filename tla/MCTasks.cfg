\* init and two processes, or one of raised priority; pid 4 is the last before
\* last_pid wraps.  Both processes may read the tty, one behind the other.
SPECIFICATION TasksSpec
CONSTANTS
  NR_TASKS = 4
  MaxPid = 4
  BootPid = 3
  MaxPriority = 2
  MaxLoad = 2
  MaxSignals = 2
  NULL = NULL
INVARIANTS
  TaskTypeOK
  PidsUnique
  FathersLive
  ClaimableNotAsleep
  LogTellsState
  HeadIsReading
PROPERTIES
  RunnableRuns
