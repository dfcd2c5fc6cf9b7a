--------------------------------- MODULE Tasks ---------------------------------
(****************************************************************************)
(* The life of a process: fork, schedule, the timer, signals, waitpid and   *)
(* exit of Lab 3 (kernel/sched.c, fork.c, exit.c) and the return path of    *)
(* kernel/system_call.s.                                                    *)
(*                                                                          *)
(* There is one processor and `current` is the task on it.  In user mode a  *)
(* timer tick may take it away; kernel code keeps it until it calls         *)
(* schedule().  One action is therefore what `current` does up to its next  *)
(* call of schedule() or its return to user mode, and `at` says where its   *)
(* kernel stack stands:                                                     *)
(*   "user"     user mode                                                   *)
(*   "ret"      a system call is done, the counter is looked at next        *)
(*   "signals"  ret_from_sys_call, a pending signal is looked at next       *)
(*   "waitpid"  in schedule() of sys_waitpid                                *)
(*   "tty"      in schedule() of interruptible_sleep_on, reading a tty      *)
(*   "exit"     in schedule() of do_exit                                    *)
(* A task at "exit" has no next action: should one be set running again     *)
(* (ExitReturned), the model follows it no further.                         *)
(*                                                                          *)
(* Time is not counted: an alarm that is set may have run out at any call   *)
(* of schedule().  `log` is the last letter that /var/process.log has about *)
(* the process.                                                             *)
(****************************************************************************)
EXTENDS Integers, FiniteSets

CONSTANTS NR_TASKS,     \* entries of task[]
          MaxPid,       \* the largest pid (the code has 2^31 - 1)
          BootPid,      \* the last pid handed out before the model starts
          MaxPriority,  \* bound on the priority that sys_nice may reach
          MaxLoad,      \* bound on calls of fork plus tasks of raised priority
          MaxSignals,   \* bound on processes with an alarm or its signal at a time
          NULL

Slot == 0..(NR_TASKS - 1)
Pid == 0..MaxPid

\* A task_struct: counters never exceed twice the largest priority, although a
\* task that sleeps through many refills is given more each time.
TaskRecord ==
    [pid : Pid, father : -1..MaxPid,
     state : {"running", "interruptible", "zombie"},
     counter : 0..(2 * MaxPriority), priority : 1..MaxPriority,
     signal : SUBSET {"SIGALRM", "SIGCHLD"}, alarm : BOOLEAN,
     at : {"user", "ret", "signals", "waitpid", "tty", "exit"},
     want : -1..MaxPid, tmp : Slot \cup {NULL},
     log : {"N", "J", "R", "W", "E"}]

ASSUME TasksAssumption ==
    /\ NR_TASKS \in Nat /\ NR_TASKS > 1
    /\ MaxPid \in Nat /\ MaxPid >= NR_TASKS
    /\ BootPid \in 1..MaxPid
    /\ MaxPriority \in Nat \ {0}
    /\ MaxLoad \in Nat /\ MaxSignals \in Nat
    /\ NULL \notin Slot /\ NULL \notin TaskRecord

VARIABLES task,       \* task[s]: the task_struct in slot s, or NULL
          current,    \* the slot of the running task
          last_pid,   \* the pid handed out last
          proc_list,  \* the wait queue of the tty: the slot at its head, or NULL
          forks       \* calls of fork so far

vars == <<task, current, last_pid, proc_list, forks>>

\* task 0 is in pause() for ever and init is task 1; many processes may have come
\* and gone since.
TasksInit ==
    LET idle == [pid |-> 0, father |-> -1, state |-> "interruptible", counter |-> 0,
                 priority |-> 1, signal |-> {}, alarm |-> FALSE, at |-> "user",
                 want |-> -1, tmp |-> NULL, log |-> "R"]
    IN /\ task = [s \in Slot |->
                    IF s = 0 THEN idle
                    ELSE IF s = 1 THEN [idle EXCEPT !.pid = 1, !.father = 0, !.counter = 1,
                                                    !.state = "running", !.log = "J"]
                    ELSE NULL]
       /\ current = 0
       /\ last_pid = BootPid
       /\ proc_list = NULL
       /\ forks = 0

----------------------------------------------------------------------------
\* fprintk of one letter about task record u.
Logged(u, letter) == [u EXCEPT !.log = letter]

\* Mutant of SetRunning: the wake-up is not logged.
SetRunningUnlogged(t, s) ==
    IF s = NULL \/ t[s] = NULL THEN t ELSE [t EXCEPT ![s].state = "running"]

\* The pointers of wait queues: `(**p).state=0` through a pointer to slot s.
SetRunning(t, s) ==
    IF s = NULL \/ t[s] = NULL THEN t
    ELSE [t EXCEPT ![s] = Logged([@ EXCEPT !.state = "running"], "J")]

Others(t) == {s \in Slot \ {0} : t[s] # NULL}
Runnable(t) == {s \in Others(t) : t[s].state = "running"}

\* schedule(), first loop: alarms that have run out, and interruptible tasks
\* that have a signal.
Signalled(t, expired) ==
    [s \in Slot |->
        IF s \notin Others(t) THEN t[s]
        ELSE LET u == IF s \notin expired THEN t[s]
                      ELSE [t[s] EXCEPT !.signal = @ \cup {"SIGALRM"}, !.alarm = FALSE]
             IN IF u.signal # {} /\ u.state = "interruptible"
                THEN Logged([u EXCEPT !.state = "running"], "J") ELSE u]

\* Mutant of Refilled: what is left is not halved.
RefilledWhole(t) ==
    IF Runnable(t) # {} /\ \A s \in Runnable(t) : t[s].counter = 0
    THEN [s \in Slot |-> IF s \notin Others(t) THEN t[s]
                         ELSE [t[s] EXCEPT !.counter = @ + t[s].priority]]
    ELSE t

\* schedule(), second loop: when all runnable tasks have used up their time,
\* every task, asleep or not, gets half of what it has left and its priority.
Refilled(t) ==
    IF Runnable(t) # {} /\ \A s \in Runnable(t) : t[s].counter = 0
    THEN [s \in Slot |-> IF s \notin Others(t) THEN t[s]
                         ELSE [t[s] EXCEPT !.counter = (@ \div 2) + t[s].priority]]
    ELSE t

\* Mutant of NextTask: the first runnable task found, whatever its counter.
NextTaskFound(t) ==
    IF Runnable(t) = {} THEN 0
    ELSE CHOOSE s \in Runnable(t) : \A r \in Runnable(t) : r <= s

\* The runnable task with the largest counter, of equals the one in the last
\* slot; task 0 when there is none.
NextTask(t) ==
    IF Runnable(t) = {} THEN 0
    ELSE CHOOSE s \in Runnable(t) :
            \A r \in Runnable(t) \ {s} :
                t[r].counter < t[s].counter \/ (t[r].counter = t[s].counter /\ r < s)

\* schedule(), called with the tasks as they are in t.
Schedule(t) ==
    \E now \in {t} :
    \E expired \in SUBSET {s \in Others(now) : now[s].alarm} :
    \E woken \in {Signalled(now, expired)} :
    \E u \in {Refilled(woken)} :
    \E next \in {NextTask(u)} :
       /\ current' = next
       /\ task' = IF next = current THEN u
                  ELSE [u EXCEPT ![current] = IF @ # NULL /\ @.state = "running"
                                              THEN Logged(@, "J") ELSE @,
                                 ![next] = Logged(@, "R")]

----------------------------------------------------------------------------
\* The timer.

UserMode(c) == current = c /\ c # 0 /\ task[c].at = "user"
\* init(), in main.c, forks and waits; the other calls are made by others.
NotInit(c) == UserMode(c) /\ task[c].pid # 1
Decremented(n) == IF n > 1 THEN n - 1 ELSE 0

\* do_timer in kernel mode: the task keeps the processor, whatever its counter.
TickKernel(c) ==
    /\ current = c /\ c # 0 /\ task[c].at # "user"
    /\ task' = [task EXCEPT ![c].counter = Decremented(@)]
    /\ UNCHANGED <<current, last_pid, proc_list, forks>>

\* pause() of task 0, again and again.
Idle == /\ current = 0
        /\ Schedule(task)
        /\ UNCHANGED <<last_pid, proc_list, forks>>

----------------------------------------------------------------------------
\* fork

\* Mutant of NextPid: a pid in use may be handed out again after the wrap.
NextPidUnchecked == IF last_pid = MaxPid THEN 1 ELSE last_pid + 1

\* find_empty_process: the next pid that no task has, counting on from 1 after
\* the largest.
NextPid ==
    LET Used(n) == \E s \in Slot : task[s] # NULL /\ task[s].pid = n
        Distance(n) == (n - last_pid + MaxPid - 1) % MaxPid
        Unused == {n \in Pid \ {0} : ~Used(n)}
    IN CHOOSE n \in Unused : \A m \in Unused : Distance(n) <= Distance(m)

\* What the bound on the model counts, with t and n for task and forks.
Load(t, n) == n + Cardinality({s \in Others(t) : t[s].priority > 1})

\* The other bound: the tasks in t that a SIGALRM awaits.
Alarmed(t) == {s \in Others(t) : t[s].alarm \/ "SIGALRM" \in t[s].signal}

EmptySlots == {s \in Slot \ {0} : task[s] = NULL}

\* sys_fork, no slot or no memory is left: the pid is used up all the same.
ForkFails(c) ==
    /\ UserMode(c)
    /\ last_pid' = NextPid
    /\ task' = [task EXCEPT ![c].at = "ret"]
    /\ forks' = forks + 1
    /\ Load(task', forks') <= MaxLoad
    /\ UNCHANGED <<current, proc_list>>

\* copy_process: the child starts in user mode, in the first empty slot.
Fork(c) ==
    /\ UserMode(c)
    /\ EmptySlots # {}
    /\ LET nr == CHOOSE s \in EmptySlots : \A r \in EmptySlots : s <= r
           child == [task[c] EXCEPT !.pid = NextPid, !.father = task[c].pid,
                                    !.counter = task[c].priority, !.signal = {},
                                    !.alarm = FALSE, !.log = "N"]
       IN task' = [task EXCEPT ![nr] = Logged(child, "J"), ![c].at = "ret"]
    /\ last_pid' = NextPid
    /\ forks' = forks + 1
    /\ Load(task', forks') <= MaxLoad
    /\ UNCHANGED <<current, proc_list>>

----------------------------------------------------------------------------
\* exit

\* Mutant of Reparented: only zombies go to init.
ReparentedZombies(t, c) ==
    [s \in Slot |-> IF t[s] # NULL /\ t[s].father = t[c].pid /\ t[s].state = "zombie"
                    THEN [t[s] EXCEPT !.father = 1] ELSE t[s]]

\* do_exit: the children of c become init's, which is told of zombies.
Reparented(t, c) ==
    LET mine == {s \in Slot : t[s] # NULL /\ t[s].father = t[c].pid}
        u == [s \in Slot |-> IF s \in mine THEN [t[s] EXCEPT !.father = 1] ELSE t[s]]
    IN IF \E s \in mine : t[s].state = "zombie"
       THEN [u EXCEPT ![1].signal = @ \cup {"SIGCHLD"}] ELSE u

\* Mutant of FatherToldOf: the father is found but not signalled.
FatherUntold(t, c) ==
    IF t[c].father # 0 /\ \E s \in Slot : t[s] # NULL /\ t[s].pid = t[c].father
    THEN t ELSE [t EXCEPT ![c] = NULL]

\* tell_father: without a father the task releases itself.
FatherToldOf(t, c) ==
    LET fathers == {s \in Slot : t[s] # NULL /\ t[s].pid = t[c].father}
        f == CHOOSE s \in fathers : \A r \in fathers : s <= r
    IN IF t[c].father = 0 \/ fathers = {} THEN [t EXCEPT ![c] = NULL]
       ELSE [t EXCEPT ![f].signal = @ \cup {"SIGCHLD"}]

\* do_exit.  Task 1 is assumed to be there always.  The alarm and the signals
\* of a zombie have no effect and are not kept.
DoExit(t, c) ==
       \E u \in {Reparented(t, c)} :
       \E zombie \in {[u[c] EXCEPT !.state = "zombie", !.at = "exit", !.alarm = FALSE,
                                   !.signal = {}]} :
          Schedule(FatherToldOf([u EXCEPT ![c] = Logged(zombie, "E")], c))

Exit(c) == /\ NotInit(c)
           /\ DoExit(task, c)
           /\ UNCHANGED <<last_pid, proc_list, forks>>

----------------------------------------------------------------------------
\* waitpid

\* One turn of sys_waitpid over the tasks in t.  want is -1 or a pid.
WaitTurn(t, c, want, wnohang) ==
    LET children == {s \in Others(t) \ {c} : /\ t[s].father = t[c].pid
                                              /\ want \in {-1, t[s].pid}}
        zombies == {s \in children : t[s].state = "zombie"}
        last == CHOOSE s \in zombies : \A r \in zombies : r <= s
        sleeper == [t[c] EXCEPT !.state = "interruptible", !.at = "waitpid", !.want = want]
        done == [t EXCEPT ![c].at = "ret", ![c].want = -1]
    IN IF zombies # {} THEN Schedule([done EXCEPT ![last] = NULL])  \* release
       ELSE IF children = {} \/ wnohang THEN task' = done /\ UNCHANGED current
       ELSE Schedule([t EXCEPT ![c] = Logged(sleeper, "W")])

Waitpid(c) == /\ UserMode(c)
              /\ \E want \in {-1} \cup {task[s].pid : s \in Others(task)}, h \in BOOLEAN :
                    WaitTurn(task, c, want, h)
              /\ UNCHANGED <<last_pid, proc_list, forks>>

\* schedule() in sys_waitpid returns: another turn, or -EINTR.
WaitpidResume(c) ==
    /\ current = c /\ task[c].at = "waitpid"
    /\ \E t \in {[task EXCEPT ![c].signal = @ \ {"SIGCHLD"}]} :
          IF t[c].signal = {} THEN WaitTurn(t, c, t[c].want, FALSE)
          ELSE /\ task' = [t EXCEPT ![c].at = "ret", ![c].want = -1]
               /\ UNCHANGED current
    /\ UNCHANGED <<last_pid, proc_list, forks>>

----------------------------------------------------------------------------
\* Signals and the remaining calls.

\* sys_kill, of one process, of all (pid -1), or refused.  SIGALRM stands for
\* every signal that ends a task.  Nobody signals init, and zombies do not care.
Kill(c) ==
    /\ NotInit(c)
    /\ LET living == {s \in Others(task) \ {1} : task[s].state # "zombie"}
       IN \E targets \in {{s} : s \in living} \cup {living, {}} :
            task' = [s \in Slot |->
                       LET u == IF s \in targets
                                THEN [task[s] EXCEPT !.signal = @ \cup {"SIGALRM"}] ELSE task[s]
                       IN IF s = c THEN [u EXCEPT !.at = "ret"] ELSE u]
    /\ Cardinality(Alarmed(task')) <= MaxSignals
    /\ UNCHANGED <<current, last_pid, proc_list, forks>>

\* sys_alarm.
Alarm(c) ==
    /\ NotInit(c)
    /\ \E on \in BOOLEAN : task' = [task EXCEPT ![c].alarm = on, ![c].at = "ret"]
    /\ Cardinality(Alarmed(task')) <= MaxSignals
    /\ UNCHANGED <<current, last_pid, proc_list, forks>>

\* sys_nice: the priority stays positive.
Nice(c) ==
    /\ NotInit(c)
    /\ \E p \in 1..MaxPriority : task' = [task EXCEPT ![c].priority = p, ![c].at = "ret"]
    /\ Load(task', forks) <= MaxLoad
    /\ UNCHANGED <<current, last_pid, proc_list, forks>>

\* sys_pause.
Pause(c) ==
    /\ NotInit(c)
    /\ Schedule([task EXCEPT ![c] = Logged([@ EXCEPT !.state = "interruptible",
                                                     !.at = "ret"], "W")])
    /\ UNCHANGED <<last_pid, proc_list, forks>>

\* interruptible_sleep_on, called to read from the tty.
TtyRead(c) ==
    /\ NotInit(c)
    /\ proc_list' = c
    /\ Schedule([task EXCEPT ![c] = Logged([@ EXCEPT !.state = "interruptible", !.at = "tty",
                                                     !.tmp = proc_list], "W")])
    /\ UNCHANGED <<last_pid, forks>>

\* Mutant of TtyReadResume: without `*p=NULL`.
TtyReadResumeKeepsHead(c) ==
    /\ current = c /\ task[c].at = "tty"
    /\ task' = [SetRunning(task, task[c].tmp) EXCEPT ![c].at = "ret", ![c].tmp = NULL]
    /\ UNCHANGED <<current, last_pid, proc_list, forks>>

\* Its schedule() returns: back to sleep behind a later reader, or done.
TtyReadResume(c) ==
    /\ current = c /\ task[c].at = "tty"
    /\ IF proc_list \notin {NULL, c}
       THEN /\ Schedule([SetRunning(task, proc_list) EXCEPT
                           ![c] = Logged([@ EXCEPT !.state = "interruptible"], "W")])
            /\ UNCHANGED proc_list
       ELSE /\ task' = [SetRunning(task, task[c].tmp) EXCEPT ![c].at = "ret", ![c].tmp = NULL]
            /\ proc_list' = NULL
            /\ UNCHANGED current
    /\ UNCHANGED <<last_pid, forks>>

\* wake_up(&proc_list), by the keyboard interrupt.
Keyboard ==
    /\ proc_list # NULL
    /\ task' = SetRunning(task, proc_list)
    /\ proc_list' = NULL
    /\ UNCHANGED <<current, last_pid, forks>>

\* ret_from_sys_call: the lowest pending signal.  SIGCHLD is ignored, the other
\* one runs a handler or ends the task.
Deliver(t, c) ==
    LET Without(sig) == [t EXCEPT ![c].signal = @ \ {sig}, ![c].at = "user"]
    IN IF "SIGALRM" \in t[c].signal
       THEN \/ task' = Without("SIGALRM") /\ UNCHANGED current
            \/ DoExit(Without("SIGALRM"), c)
       ELSE task' = Without("SIGCHLD") /\ UNCHANGED current

\* The end of system_call: schedule() when the task sleeps or its time is used up.
Return(c) ==
    /\ current = c /\ c # 0 /\ task[c].at = "ret"
    /\ IF task[c].state # "running" \/ task[c].counter = 0
       THEN Schedule([task EXCEPT ![c].at = "signals"])
       ELSE Deliver(task, c)
    /\ UNCHANGED <<last_pid, proc_list, forks>>

\* Back from that schedule(), or from the one in do_timer.
ReturnScheduled(c) ==
    /\ current = c /\ c # 0 /\ task[c].at = "signals"
    /\ Deliver(task, c)
    /\ UNCHANGED <<last_pid, proc_list, forks>>

\* do_timer in user mode: the task loses the processor when its time is up.
TickUser(c) ==
    /\ UserMode(c)
    /\ \E t \in {[task EXCEPT ![c].counter = Decremented(@)]} :
          IF t[c].counter > 0 THEN Deliver(t, c)
          ELSE Schedule([t EXCEPT ![c].at = "signals"])
    /\ UNCHANGED <<last_pid, proc_list, forks>>

\* What current does in kernel mode.
KernelStep(c) == WaitpidResume(c) \/ TtyReadResume(c)
                 \/ Return(c) \/ ReturnScheduled(c)

SystemCall(c) ==
    \/ Fork(c) \/ ForkFails(c) \/ Exit(c) \/ Waitpid(c) \/ Kill(c)
    \/ Alarm(c) \/ Nice(c) \/ Pause(c) \/ TtyRead(c)

TasksNext == \/ \E c \in Slot : \/ KernelStep(c) \/ SystemCall(c)
                                \/ TickUser(c) \/ TickKernel(c)
             \/ Idle
             \/ Keyboard

\* Kernel code runs on, and a task that has the processor again and again is
\* hit by the timer again and again.
TasksFairness == /\ WF_vars(Idle)
                 /\ WF_vars(\E c \in Slot : KernelStep(c))
                 /\ \A c \in Slot \ {0} : SF_vars(TickUser(c) \/ TickKernel(c))

TasksSpec == TasksInit /\ [][TasksNext]_vars /\ TasksFairness

----------------------------------------------------------------------------
\* The types.  In particular no counter grows without bound.
TaskTypeOK ==
    /\ task \in [Slot -> TaskRecord \cup {NULL}]
    /\ current \in Slot
    /\ last_pid \in Pid
    /\ proc_list \in Slot \cup {NULL}
    /\ forks \in 0..MaxLoad

\* Pids are unique, also after last_pid has wrapped.
PidsUnique ==
    \A s, r \in {s \in Slot : task[s] # NULL} : task[s].pid = task[r].pid => s = r

\* The father of every task is there and has not exited: tell_father always
\* finds one ("BAD BAD - no father found" is never printed).
FathersLive ==
    \A s \in Others(task) :
        \E f \in Slot : /\ task[f] # NULL
                        /\ task[f].pid = task[s].father
                        /\ task[f].state # "zombie"

\* The head of the tty's queue is a process that reads and has not exited, whatever
\* signals take out of the chain: wake_up and the test of sched.c:202 follow no pointer
\* to one that has gone.
HeadIsReading ==
    proc_list # NULL => /\ task[proc_list] # NULL /\ task[proc_list].at = "tty"
                        /\ task[proc_list].state # "zombie"

\* A zombie has been set running: a reader kept it as tmp when a signal took it out of the
\* chain and it exited (sched.c:208).  The model does not follow what it does then.
ExitReturned ==
    \E s \in Others(task) : task[s].at = "exit" /\ task[s].state # "zombie"

\* s waits for a child that has exited.
HasClaimable(s) ==
    \E z \in Others(task) : /\ task[z].state = "zombie"
                            /\ task[z].father = task[s].pid
                            /\ task[s].want \in {-1, task[z].pid}

\* Nobody sleeps in waitpid with a child to claim: the exit of a child, or of a
\* father whose zombie is inherited, is never missed.
ClaimableNotAsleep ==
    \A s \in Others(task) :
        task[s].at = "waitpid" /\ HasClaimable(s) => task[s].state = "running"

\* A task that is runnable gets the processor, unless it is no longer: counters
\* of sleepers grow, but nobody is passed over for ever.  (There is a bound on
\* forks: each child starts with a full counter.)
RunnableRuns ==
    \A s \in Slot \ {0} :
        s \in Runnable(task) ~> (current = s \/ s \notin Runnable(task) \/ ExitReturned)

\* The log is true: a process that it says is asleep (W) or has exited (E) is, and
\* no other is, and one that it says runs (R) has the processor.
LogTellsState ==
    \A s \in Others(task) :
        /\ task[s].log = "W" <=> task[s].state = "interruptible"
        /\ task[s].log = "E" <=> task[s].state = "zombie"
        /\ task[s].log = "R" => current = s
================================================================================
