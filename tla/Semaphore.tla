------------------------------- MODULE Semaphore -------------------------------
(****************************************************************************)
(* sem_wait and sem_post of kernel/sem.c over sleep_on and wake_up of       *)
(* kernel/sched.c.                                                          *)
(*                                                                          *)
(* The kernel has one processor and never preempts a process that is in     *)
(* kernel mode (do_timer returns without scheduling when cpl is 0), so a    *)
(* system call is atomic up to the schedule() inside sleep_on.  One action  *)
(* is the code between two such points, and any process whose state is      *)
(* TASK_RUNNING may be the next to take one.                                *)
(*                                                                          *)
(* A wait queue is a single pointer, m_wait, to the process that went to    *)
(* sleep last.  The older sleepers hang off it through the local variable   *)
(* tmp of each sleep_on frame: a process that returns from schedule() sets  *)
(* its tmp running, and so the whole chain wakes up one by one.             *)
(****************************************************************************)
EXTENDS Naturals

CONSTANTS Proc,      \* the processes that use semaphores
          Sem,       \* the semaphores they have opened
          NULL,      \* the null pointer
          MaxValue   \* bound of the model on m_value (the code has 2^32 - 1)

ASSUME NullAssumption == NULL \notin Proc /\ NULL \notin Sem
ASSUME BoundAssumption == MaxValue \in Nat

VARIABLES m_value,   \* m_value[s]: sem_t.m_value
          m_wait,    \* m_wait[s]: sem_t.m_wait, the head of the wait queue
          state,     \* state[p]: task_struct.state
          tmp,       \* tmp[p]: the local of p's sleep_on frame, NULL outside it
          at         \* at[p]: the argument of the sem_wait p is suspended in, or NULL

vars == <<m_value, m_wait, state, tmp, at>>

TASK_RUNNING == "running"
TASK_UNINTERRUPTIBLE == "uninterruptible"
TASK_ZOMBIE == "zombie"
TaskState == {TASK_RUNNING, TASK_UNINTERRUPTIBLE, TASK_ZOMBIE}

Init == /\ m_value \in [Sem -> 0..MaxValue]
        /\ m_wait = [s \in Sem |-> NULL]
        /\ state = [p \in Proc |-> TASK_RUNNING]
        /\ tmp = [p \in Proc |-> NULL]
        /\ at = [p \in Proc |-> NULL]

\* p runs user code: it is runnable and not inside sem_wait.
InUserMode(p) == state[p] = TASK_RUNNING /\ at[p] = NULL

----------------------------------------------------------------------------
\* The queue primitives of kernel/sched.c, as the values they compute.

\* sleep_on up to schedule(): p becomes the head and remembers the old head.
Enqueue(p, s) == /\ tmp' = [tmp EXCEPT ![p] = m_wait[s]]
                 /\ m_wait' = [m_wait EXCEPT ![s] = p]

\* Mutant of WakeTmp: sleep_on without `if (tmp) tmp->state=0`.
WakeTmpForgotten(p) == state

\* sleep_on after schedule(): the task states once p has set its tmp running.
WakeTmp(p) ==
    IF tmp[p] = NULL THEN state ELSE [state EXCEPT ![tmp[p]] = TASK_RUNNING]

\* Mutant of WakeUp: wake_up without `*p=NULL`.
WakeUpKeepsHead(s) ==
    /\ state' = IF m_wait[s] = NULL THEN state
                ELSE [state EXCEPT ![m_wait[s]] = TASK_RUNNING]
    /\ UNCHANGED m_wait

\* wake_up: only the head is set running, and the queue pointer is cleared.
WakeUp(s) ==
    /\ state' = IF m_wait[s] = NULL THEN state
                ELSE [state EXCEPT ![m_wait[s]] = TASK_RUNNING]
    /\ m_wait' = [m_wait EXCEPT ![s] = NULL]

----------------------------------------------------------------------------
\* sys_sem_wait when a unit is left: no sleep.
SemWaitAcquire(p, s) ==
    /\ InUserMode(p)
    /\ m_value[s] > 0
    /\ m_value' = [m_value EXCEPT ![s] = @ - 1]
    /\ UNCHANGED <<m_wait, state, tmp, at>>

\* sys_sem_wait when none is left: the first round of its while loop.
SemWaitBlock(p, s) ==
    /\ InUserMode(p)
    /\ m_value[s] = 0
    /\ Enqueue(p, s)
    /\ state' = [state EXCEPT ![p] = TASK_UNINTERRUPTIBLE]
    /\ at' = [at EXCEPT ![p] = s]
    /\ UNCHANGED m_value

\* Mutant of ResumeAcquire: `if` in place of `while` in sys_sem_wait.
ResumeAcquireNoRetest(p, s) ==
    /\ at[p] = s
    /\ state[p] = TASK_RUNNING
    /\ state' = WakeTmp(p)
    /\ tmp' = [tmp EXCEPT ![p] = NULL]
    /\ m_value' = [m_value EXCEPT ![s] = @ - 1]
    /\ at' = [at EXCEPT ![p] = NULL]
    /\ UNCHANGED m_wait

\* p, set running, returns from schedule(): it wakes its tmp and the loop of
\* sys_sem_wait finds a unit, so that the call returns.
ResumeAcquire(p, s) ==
    /\ at[p] = s
    /\ state[p] = TASK_RUNNING
    /\ m_value[s] > 0
    /\ state' = WakeTmp(p)
    /\ tmp' = [tmp EXCEPT ![p] = NULL]
    /\ m_value' = [m_value EXCEPT ![s] = @ - 1]
    /\ at' = [at EXCEPT ![p] = NULL]
    /\ UNCHANGED m_wait

\* The same, but somebody has taken the unit meanwhile: p sleeps again.
ResumeBlock(p, s) ==
    /\ at[p] = s
    /\ state[p] = TASK_RUNNING
    /\ m_value[s] = 0
    /\ Enqueue(p, s)
    /\ state' = [WakeTmp(p) EXCEPT ![p] = TASK_UNINTERRUPTIBLE]
    /\ UNCHANGED <<m_value, at>>

\* Mutant of SemPost: no wake_up.
SemPostSilent(p, s) ==
    /\ InUserMode(p)
    /\ m_value[s] < MaxValue
    /\ m_value' = [m_value EXCEPT ![s] = @ + 1]
    /\ UNCHANGED <<m_wait, state, tmp, at>>

\* sys_sem_post.
SemPost(p, s) ==
    /\ InUserMode(p)
    /\ m_value[s] < MaxValue
    /\ m_value' = [m_value EXCEPT ![s] = @ + 1]
    /\ WakeUp(s)
    /\ UNCHANGED <<tmp, at>>

\* do_exit, seen from the queues: the process is never to run again.
Exit(p) ==
    /\ InUserMode(p)
    /\ state' = [state EXCEPT ![p] = TASK_ZOMBIE]
    /\ UNCHANGED <<m_value, m_wait, tmp, at>>

\* What p does once it is chosen by schedule() inside sleep_on.
Resume(p) == \E s \in Sem : ResumeAcquire(p, s) \/ ResumeBlock(p, s)

Next == \E p \in Proc :
          \/ \E s \in Sem : \/ SemWaitAcquire(p, s)
                            \/ SemWaitBlock(p, s)
                            \/ ResumeAcquire(p, s)
                            \/ ResumeBlock(p, s)
                            \/ SemPost(p, s)
          \/ Exit(p)

Safety == Init /\ [][Next]_vars

\* schedule() picks every task that stays TASK_RUNNING sooner or later: the
\* others use up their counters, and counters are refilled only when all the
\* runnable ones are zero.  Nothing obliges a process in user mode to call.
Fairness == \A p \in Proc : WF_vars(Resume(p))

Spec == Safety /\ Fairness

----------------------------------------------------------------------------
Sleeping(p) == state[p] = TASK_UNINTERRUPTIBLE

\* The types; in particular m_value, unsigned in the code, is never decremented
\* below zero.
TypeOK == /\ m_value \in [Sem -> 0..MaxValue]
          /\ m_wait \in [Sem -> Proc \cup {NULL}]
          /\ state \in [Proc -> TaskState]
          /\ tmp \in [Proc -> Proc \cup {NULL}]
          /\ at \in [Proc -> Sem \cup {NULL}]

\* If a semaphore has a unit left while a process sleeps on it, then some
\* process that was woken for it is still on its way to the loop test of
\* sys_sem_wait: it will take the unit and pass the wake-up on.  A chain of
\* tmp pointers that is dropped anywhere breaks this.
NoLostWakeup ==
    \A s \in Sem :
        (m_value[s] > 0 /\ \E p \in Proc : at[p] = s /\ Sleeping(p))
            => \E q \in Proc : at[q] = s /\ state[q] = TASK_RUNNING

\* Every sleeper is pointed to exactly once, by the queue it sleeps on or by
\* the tmp of a process in the same queue, and nothing else is pointed to: so
\* `(**p).state=0` and `tmp->state=0` only ever hit a process that sleeps there.
SleeperReferencedOnce ==
    /\ \A s \in Sem : m_wait[s] # NULL
          => Sleeping(m_wait[s]) /\ at[m_wait[s]] = s
    /\ \A q \in Proc : tmp[q] # NULL
          => Sleeping(tmp[q]) /\ at[tmp[q]] = at[q] /\ at[q] # NULL
    /\ \A p \in Proc : Sleeping(p)
          => \/ /\ m_wait[at[p]] = p
                /\ \A q \in Proc : tmp[q] # p
             \/ /\ m_wait[at[p]] # p
                /\ \E q \in Proc : \A r \in Proc : tmp[r] = p <=> r = q

\* A step never sets a process running that has exited: the pointers in m_wait
\* and in the sleep_on frames outlive many calls, and must not go stale.
NeverRevivesZombie ==
    [][\A p \in Proc : state[p] = TASK_ZOMBIE => state'[p] = TASK_ZOMBIE]_vars

\* While a semaphore keeps a positive value, its sleepers drain: one wake_up
\* per post is enough although it wakes only the latest sleeper.
SleepersDrain ==
    \A s \in Sem :
        (m_value[s] > 0 /\ \E p \in Proc : at[p] = s)
            ~> (m_value[s] = 0 \/ \A p \in Proc : at[p] # s)

\* sem.c implements the counting semaphore: a process inside sem_wait, asleep
\* or on its way to the loop test, is a blocked one.
Counting == INSTANCE CountingSemaphore WITH value <- m_value, blockedOn <- at

\* Refinement, with the abstract fairness: units that stay are handed out.
ImplementsCounting == Counting!AbsSpec
================================================================================
