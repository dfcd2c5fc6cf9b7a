--------------------------------- MODULE Timers ---------------------------------
(****************************************************************************)
(* The kernel timers and the floppy motors of kernel/sched.c: add_timer,    *)
(* the part of do_timer that serves devices, and floppy_on, floppy_off and  *)
(* ticks_to_floppy_on.  Their callers (floppy.c) are outside the repository *)
(* and make their calls in any order.                                       *)
(*                                                                          *)
(* The linked entries of timer_list[] are the sequence `timers`, from       *)
(* next_timer on; which of the TIME_REQUESTS places an entry has does not   *)
(* matter.  With its fn an entry has two fields the code has not: `due`,    *)
(* the ticks until it should be called (0 when that is over), and `exact`,  *)
(* that nothing was put in front of it.                                     *)
(*                                                                          *)
(* floppy_on sleeps on wait_motor[d], a queue as in Semaphore.  The sti()   *)
(* at the end of ticks_to_floppy_on lets a tick in between the test of      *)
(* floppy_on's loop and sleep_on: `gap` is the process that is there.       *)
(****************************************************************************)
EXTENDS Integers, Sequences, FiniteSets

CONSTANTS Proc,           \* the processes that call floppy_on
          Drives,         \* the drives (the code has 0..3)
          Drive0,         \* the drive that current_DOR selects at first
          TIME_REQUESTS,  \* entries of timer_list[] (the code has 64)
          OnTicks,        \* HZ/2, until a motor is up to speed
          SelectTicks,    \* the code has 2
          HoldTicks,      \* the code has 10000
          OffTicks,       \* 3*HZ
          MaxJiffies,     \* bound on the time asked for
          MaxBusy,        \* bound on entries, processes in floppy_on and motors together
          NULL

ASSUME TimersAssumption ==
    /\ {TIME_REQUESTS, OnTicks, SelectTicks, HoldTicks, OffTicks} \subseteq Nat \ {0}
    /\ MaxJiffies \in Nat /\ MaxBusy \in Nat
    /\ Drive0 \in Drives /\ NULL \notin Drives
    /\ NULL \notin Proc

VARIABLES timers,
          panicked,     \* "No more time requests free"
          motor, sel,   \* current_DOR: the motors that are on, the drive selected
          selected,     \* of floppy.c: the selection is in use
          mon_timer, moff_timer,
          wait_motor, state, tmp, at,   \* as m_wait, state, tmp and at of Semaphore
          gap,
          spun,         \* spun[d]: the ticks motor d has been on, up to OnTicks
          missed        \* missed[d]: the motor's time ran out on a process in the gap

floppyVars == <<motor, sel, selected, mon_timer, moff_timer, spun>>
sleepVars == <<wait_motor, state, tmp, at, gap>>
timersVars == <<timers, panicked, floppyVars, sleepVars, missed>>

TimersInit ==
    /\ timers = <<>> /\ panicked = FALSE
    /\ motor = {} /\ sel = Drive0 /\ selected = FALSE
    /\ mon_timer = [d \in Drives |-> 0] /\ moff_timer = [d \in Drives |-> 0]
    /\ wait_motor = [d \in Drives |-> NULL]
    /\ state = [p \in Proc |-> "running"]
    /\ tmp = [p \in Proc |-> NULL] /\ at = [p \in Proc |-> NULL]
    /\ gap = NULL
    /\ spun = [d \in Drives |-> 0] /\ missed = [d \in Drives |-> FALSE]

----------------------------------------------------------------------------
\* The list.

\* The ticks until entry k of s is called: an entry counts from the one before it.
Until(s, k) == LET sum[j \in 0..Len(s)] == IF j = 0 THEN 0 ELSE sum[j - 1] + s[j].jiffies
               IN sum[k]

\* The entries that the loop of add_timer carries a new one past: what is left of
\* its time is more than theirs.
Passed(s, n) == {k \in 1..Len(s) : \A j \in 1..k : s[j].jiffies < n - Until(s, j - 1)}

\* Mutant of Inserted: the loop swaps the times and leaves the functions in place.
InsertedTimesOnly(s, n) ==
    LET k == Cardinality(Passed(s, n))
        new == [jiffies |-> n - Until(s, k), due |-> n, exact |-> TRUE]
        t == SubSeq(s, 1, k) \o <<new>> \o SubSeq(s, k + 1, Len(s))
    IN [i \in 1..Len(t) |->
          IF i = 1 THEN [new EXCEPT !.jiffies = t[1].jiffies]
          ELSE IF i <= k + 1 THEN [s[i - 1] EXCEPT !.jiffies = t[i].jiffies] ELSE t[i]]

\* The entries with a new one, of n ticks; those behind it are not counted down.
Inserted(s, n) ==
    LET k == Cardinality(Passed(s, n))
        new == [jiffies |-> n - Until(s, k), due |-> n, exact |-> TRUE]
    IN SubSeq(s, 1, k) \o <<new>>
          \o [i \in 1..(Len(s) - k) |-> [s[i + k] EXCEPT !.exact = FALSE]]

\* What the bound counts, with s, a and m for timers, at and motor.
Busy(s, a, m) == Len(s) + Cardinality({p \in Proc : a[p] # NULL}) + Cardinality(m)

\* add_timer on the entries s, one being free; when the time is over the function
\* is called at once.
Added(s, n) == IF n <= 0 THEN s ELSE Inserted(s, n)

add_timer(n) == /\ ~panicked
                /\ IF n > 0 /\ Len(timers) = TIME_REQUESTS
                   THEN panicked' = TRUE /\ UNCHANGED timers
                   ELSE timers' = Added(timers, n) /\ UNCHANGED panicked
                /\ Busy(timers', at, motor) <= MaxBusy
                /\ UNCHANGED <<floppyVars, sleepVars, missed>>

\* do_timer, the list: the first entry is counted down, and those whose time is
\* over are called; the function, whose entry is free by then, may ask for
\* another time.
Counted == [k \in DOMAIN timers |->
              [timers[k] EXCEPT !.jiffies = IF k = 1 THEN @ - 1 ELSE @, 
                                !.due = IF @ > 0 THEN @ - 1 ELSE 0]]
Over == {k \in DOMAIN timers : \A j \in 1..k : Counted[j].jiffies <= 0}

ListTick == LET left == SubSeq(Counted, Cardinality(Over) + 1, Len(timers))
            IN /\ \E n \in IF Over = {} THEN {0} ELSE 0..MaxJiffies : timers' = Added(left, n)
               /\ UNCHANGED panicked

----------------------------------------------------------------------------
\* The motors.

\* Mutant of TicksToFloppyOn: a motor that is switched on gets the short time.
TicksToFloppyOnShort(d) ==
    LET select == IF selected THEN sel ELSE d
    IN /\ moff_timer' = [moff_timer EXCEPT ![d] = HoldTicks]
       /\ mon_timer' = IF d \in motor /\ select = sel THEN mon_timer
                       ELSE [mon_timer EXCEPT ![d] = IF @ < SelectTicks THEN SelectTicks ELSE @]
       /\ motor' = motor \cup {d} /\ sel' = select
       /\ spun' = IF d \in motor THEN spun ELSE [spun EXCEPT ![d] = 0]
       /\ UNCHANGED selected

\* ticks_to_floppy_on: the answer is mon_timer'[d].
TicksToFloppyOn(d) ==
    LET select == IF selected THEN sel ELSE d
    IN /\ moff_timer' = [moff_timer EXCEPT ![d] = HoldTicks]
       /\ mon_timer' = IF d \notin motor THEN [mon_timer EXCEPT ![d] = OnTicks]
                       ELSE IF select # sel /\ mon_timer[d] < SelectTicks
                       THEN [mon_timer EXCEPT ![d] = SelectTicks] ELSE mon_timer
       /\ motor' = motor \cup {d} /\ sel' = select
       /\ spun' = IF d \in motor THEN spun ELSE [spun EXCEPT ![d] = 0]
       /\ UNCHANGED selected

\* Called by itself, from an interrupt too.
Ask(d) == /\ ~panicked /\ TicksToFloppyOn(d)
          /\ Busy(timers, at, motor') <= MaxBusy
          /\ UNCHANGED <<timers, panicked, sleepVars, missed>>

floppy_off(d) == /\ ~panicked
                 /\ moff_timer' = [moff_timer EXCEPT ![d] = OffTicks]
                 /\ UNCHANGED <<timers, panicked, motor, sel, selected, mon_timer, spun>>
                 /\ UNCHANGED <<sleepVars, missed>>

\* floppy.c takes the selection, and gives it up.
Select == /\ ~panicked /\ selected' = ~selected
          /\ UNCHANGED <<timers, panicked, motor, sel, mon_timer, moff_timer, spun>>
          /\ UNCHANGED <<sleepVars, missed>>

\* The loop of floppy_on after a call of ticks_to_floppy_on: return, or sleep next.
LoopTest(p, d) == IF mon_timer'[d] = 0
                  THEN at' = [at EXCEPT ![p] = NULL] /\ gap' = NULL
                  ELSE at' = [at EXCEPT ![p] = d] /\ gap' = p

floppy_on(p, d) == /\ ~panicked /\ gap = NULL
                   /\ state[p] = "running" /\ at[p] = NULL
                   /\ TicksToFloppyOn(d)
                   /\ LoopTest(p, d)
                   /\ Busy(timers, at', motor') <= MaxBusy
                   /\ UNCHANGED <<timers, panicked, wait_motor, state, tmp, missed>>

\* sleep_on up to schedule().
GapSleep(p) == /\ ~panicked /\ gap = p /\ gap' = NULL
               /\ tmp' = [tmp EXCEPT ![p] = wait_motor[at[p]]]
               /\ wait_motor' = [wait_motor EXCEPT ![at[p]] = p]
               /\ state' = [state EXCEPT ![p] = "uninterruptible"]
               /\ UNCHANGED <<timers, panicked, floppyVars, at, missed>>

\* Mutant of Resume: sleep_on without `if (tmp) tmp->state=0`.
ResumeAlone(p) == /\ ~panicked /\ gap = NULL
                  /\ state[p] = "running" /\ at[p] # NULL
                  /\ tmp' = [tmp EXCEPT ![p] = NULL]
                  /\ TicksToFloppyOn(at[p])
                  /\ LoopTest(p, at[p])
                  /\ UNCHANGED <<timers, panicked, wait_motor, state, missed>>

\* schedule() returns: the next in the queue is set running, the loop goes on.
Resume(p) == /\ ~panicked /\ gap = NULL
             /\ state[p] = "running" /\ at[p] # NULL
             /\ state' = IF tmp[p] = NULL THEN state ELSE [state EXCEPT ![tmp[p]] = "running"]
             /\ tmp' = [tmp EXCEPT ![p] = NULL]
             /\ TicksToFloppyOn(at[p])
             /\ LoopTest(p, at[p])
             /\ UNCHANGED <<timers, panicked, wait_motor, missed>>

\* The drives whose motor comes up to speed with this tick, and those whose motor
\* is switched off.
Ready == {d \in motor : mon_timer[d] = 1}
TurnedOff == {d \in motor : mon_timer[d] = 0 /\ moff_timer[d] = 0}

\* do_floppy_timer
FloppyTick ==
    /\ motor' = motor \ TurnedOff
    /\ mon_timer' = [d \in Drives |-> IF d \in motor /\ mon_timer[d] > 0
                                      THEN mon_timer[d] - 1 ELSE mon_timer[d]]
    /\ moff_timer' = [d \in Drives |-> IF d \in motor /\ mon_timer[d] = 0 /\ moff_timer[d] > 0
                                       THEN moff_timer[d] - 1 ELSE moff_timer[d]]
    /\ spun' = [d \in Drives |-> IF d \in TurnedOff THEN 0
                                 ELSE IF d \in motor /\ spun[d] < OnTicks THEN spun[d] + 1
                                 ELSE spun[d]]
    /\ state' = [p \in Proc |-> IF \E d \in Ready : wait_motor[d] = p THEN "running"
                                ELSE state[p]]
    /\ wait_motor' = [d \in Drives |-> IF d \in Ready THEN NULL ELSE wait_motor[d]]
    /\ missed' = [d \in Drives |-> IF d \in Ready THEN gap # NULL /\ at[gap] = d ELSE missed[d]]
    /\ UNCHANGED <<sel, selected, tmp, at, gap>>

\* do_timer: first the list, then the motors.
do_timer == ~panicked /\ ListTick /\ FloppyTick

TimersNext == \/ do_timer
              \/ Select
              \/ \E n \in 0..MaxJiffies : add_timer(n)
              \/ \E d \in Drives : Ask(d) \/ floppy_off(d)
              \/ \E p \in Proc : \/ GapSleep(p) \/ Resume(p)
                                 \/ \E d \in Drives : floppy_on(p, d)

TimersSpec == TimersInit /\ [][TimersNext]_timersVars

----------------------------------------------------------------------------
\* No function is called early, and it is called in the tick that was asked for
\* unless a later request was put in front of it: the in-place swaps of add_timer
\* keep times and functions together through any sequence of requests.
TimersOnTime ==
    \A k \in DOMAIN timers :
        /\ timers[k].jiffies > 0
        /\ Until(timers, k) >= timers[k].due
        /\ timers[k].exact => Until(timers, k) = timers[k].due

\* ticks_to_floppy_on answers 0, and floppy_on returns, only when the motor has
\* been on for HZ/2: whatever other drives, selections, floppy_off and restarts of
\* the motor do to the two timers meanwhile.
MotorReady ==
    \A d \in Drives : d \in motor /\ mon_timer[d] = 0 => spun[d] = OnTicks

\* A process that sleeps for a motor is woken: the motor is on and its time runs,
\* or a process that was woken before will pass the wake-up on; except when the
\* time ran out in the gap between the test and sleep_on.
MotorSleepersWoken ==
    \A p \in Proc : state[p] = "uninterruptible" =>
        \/ at[p] \in motor /\ mon_timer[at[p]] > 0
        \/ \E q \in Proc : at[q] = at[p] /\ state[q] = "running"
        \/ missed[at[p]]
================================================================================
