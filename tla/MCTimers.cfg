\* Two processes and two drives, or one of them with a timer, or three timers that
\* are put before, between and behind each other.  A motor needs three ticks, one
\* more than a new selection gives it.
SPECIFICATION TimersSpec
CONSTANTS
  Proc = {p1, p2}
  Drives = {0, 1}
  Drive0 = 0
  TIME_REQUESTS = 3
  OnTicks = 3
  SelectTicks = 2
  HoldTicks = 2
  OffTicks = 1
  MaxJiffies = 3
  MaxBusy = 4
  NULL = NULL
INVARIANTS
  TimersOnTime
  MotorReady
  MotorSleepersWoken
\* The kernel may panic.
CHECK_DEADLOCK FALSE
