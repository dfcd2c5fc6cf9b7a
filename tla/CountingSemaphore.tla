---------------------------- MODULE CountingSemaphore ----------------------------
(****************************************************************************)
(* What kernel/sem.c promises its callers, without wait queues, task states *)
(* or chains of wake-ups: a set of counters, and for every process the      *)
(* semaphore it is blocked on.  A blocked process may be granted a unit     *)
(* whenever the counter is positive, and if units stay available while      *)
(* processes stay blocked, one of them is granted one.  Which one is left   *)
(* open: sem_wait lets a newcomer overtake, and wakes the latest sleeper    *)
(* first.                                                                   *)
(****************************************************************************)
EXTENDS Naturals

CONSTANTS Proc,      \* the processes
          Sem,       \* the semaphores
          NULL       \* neither of them

VARIABLES value,     \* value[s]: the units left
          blockedOn  \* blockedOn[p]: the semaphore p waits for, or NULL

absVars == <<value, blockedOn>>

AbsInit == /\ value \in [Sem -> Nat]
           /\ blockedOn = [p \in Proc |-> NULL]

\* P when a unit is left.
Acquire(p, s) == /\ blockedOn[p] = NULL
                 /\ value[s] > 0
                 /\ value' = [value EXCEPT ![s] = @ - 1]
                 /\ UNCHANGED blockedOn

\* P when none is left.
Block(p, s) == /\ blockedOn[p] = NULL
               /\ value[s] = 0
               /\ blockedOn' = [blockedOn EXCEPT ![p] = s]
               /\ UNCHANGED value

\* A blocked process takes a unit and returns.
Grant(p, s) == /\ blockedOn[p] = s
               /\ value[s] > 0
               /\ value' = [value EXCEPT ![s] = @ - 1]
               /\ blockedOn' = [blockedOn EXCEPT ![p] = NULL]

\* V
Release(p, s) == /\ blockedOn[p] = NULL
                 /\ value' = [value EXCEPT ![s] = @ + 1]
                 /\ UNCHANGED blockedOn

AbsNext == \E p \in Proc, s \in Sem :
              Acquire(p, s) \/ Block(p, s) \/ Grant(p, s) \/ Release(p, s)

AbsSafety == AbsInit /\ [][AbsNext]_absVars

AbsFairness == \A s \in Sem : WF_absVars(\E p \in Proc : Grant(p, s))

AbsSpec == AbsSafety /\ AbsFairness
==================================================================================
