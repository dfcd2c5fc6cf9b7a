---------------------------- MODULE SemaphoreProof ----------------------------
(****************************************************************************)
(* Proofs about module Semaphore, for any sets of processes and semaphores. *)
(*                                                                          *)
(* NoLostWakeup is about the chains of tmp pointers, which live in the      *)
(* stack frames of sleeping processes, and is not inductive.  The inductive *)
(* invariant Chains says that there is a function `below` that gives, for   *)
(* every process in sem_wait, the sleepers that hang off it: the chains are *)
(* well founded, do not meet, and every sleeper is in the chain of its      *)
(* queue's head or of a process that is already set running.                *)
(****************************************************************************)
EXTENDS Semaphore, TLAPS

\* Every sleeper is in a sem_wait call and a process outside one has no tmp.
FramesOK ==
    \A p \in Proc : /\ Sleeping(p) => at[p] # NULL
                    /\ state[p] = TASK_ZOMBIE => at[p] = NULL
                    /\ at[p] = NULL => tmp[p] = NULL

\* below[q] is what tmp pointers reach from q.
IsBelow(below) ==
    \A q \in Proc :
        below[q] = IF tmp[q] = NULL THEN {} ELSE {tmp[q]} \cup below[tmp[q]]

\* A process in a chain sleeps on the semaphore of the chain, was reached
\* through one tmp pointer, and chains do not return to where they start.
ChainOK(below) ==
    \A q \in Proc : \A x \in below[q] :
        /\ Sleeping(x)
        /\ at[x] = at[q]
        /\ x # q
        /\ x = tmp[q] \/ \E r \in below[q] : tmp[r] = x

\* No two processes hold the same tmp.
TmpInjective ==
    \A q, r \in Proc : tmp[q] # NULL /\ tmp[q] = tmp[r] => q = r

\* The head of a queue sleeps there and is in nobody's chain.
HeadOK(below) ==
    \A s \in Sem : m_wait[s] # NULL =>
        /\ Sleeping(m_wait[s])
        /\ at[m_wait[s]] = s
        /\ \A q \in Proc : m_wait[s] \notin below[q]

\* Every sleeper is the head of its queue, or below the head or below a
\* process in the same queue that has been set running.
Covered(below) ==
    \A p \in Proc : Sleeping(p) =>
        \/ m_wait[at[p]] = p
        \/ m_wait[at[p]] # NULL /\ p \in below[m_wait[at[p]]]
        \/ \E q \in Proc : /\ at[q] = at[p]
                           /\ state[q] = TASK_RUNNING
                           /\ p \in below[q]

\* A queue is only filled while the value is zero, and sem_post empties it.
PositiveIsEmpty == \A s \in Sem : m_value[s] > 0 => m_wait[s] = NULL

Chains(below) == /\ IsBelow(below)
                 /\ ChainOK(below)
                 /\ HeadOK(below)
                 /\ Covered(below)

IInv == /\ TypeOK
        /\ FramesOK
        /\ TmpInjective
        /\ PositiveIsEmpty
        /\ \E below \in [Proc -> SUBSET Proc] : Chains(below)

----------------------------------------------------------------------------
\* Type correctness: the decrement of sys_sem_wait is guarded in every branch,
\* and all pointers that are followed point to processes.
LEMMA TypeStep == TypeOK /\ [Next]_vars => TypeOK'
<1> SUFFICES ASSUME TypeOK, [Next]_vars PROVE TypeOK'
    OBVIOUS
<1> USE NullAssumption, BoundAssumption
<1>1. ASSUME NEW p \in Proc, NEW s \in Sem, SemWaitAcquire(p, s) PROVE TypeOK'
  BY <1>1 DEF TypeOK, SemWaitAcquire
<1>2. ASSUME NEW p \in Proc, NEW s \in Sem, SemWaitBlock(p, s) PROVE TypeOK'
  BY <1>2 DEF TypeOK, SemWaitBlock, Enqueue, TaskState
<1>3. ASSUME NEW p \in Proc, NEW s \in Sem, ResumeAcquire(p, s) PROVE TypeOK'
  BY <1>3 DEF TypeOK, ResumeAcquire, WakeTmp, TaskState
<1>4. ASSUME NEW p \in Proc, NEW s \in Sem, ResumeBlock(p, s) PROVE TypeOK'
  BY <1>4 DEF TypeOK, ResumeBlock, Enqueue, WakeTmp, TaskState
<1>5. ASSUME NEW p \in Proc, NEW s \in Sem, SemPost(p, s) PROVE TypeOK'
  BY <1>5 DEF TypeOK, SemPost, WakeUp, TaskState
<1>6. ASSUME NEW p \in Proc, Exit(p) PROVE TypeOK'
  BY <1>6 DEF TypeOK, Exit, TaskState
<1>7. CASE UNCHANGED vars
  BY <1>7 DEF TypeOK, vars
<1>8. QED
  BY <1>1, <1>2, <1>3, <1>4, <1>5, <1>6, <1>7 DEF Next

\* Every reachable state is well typed; in particular m_value, an unsigned
\* long in the code, is never decremented below zero.
THEOREM TypeCorrect == Safety => []TypeOK
<1>1. Init => TypeOK
  BY NullAssumption, BoundAssumption DEF Init, TypeOK, TaskState
<1>2. QED
  BY <1>1, TypeStep, PTL DEF Safety

----------------------------------------------------------------------------
\* The invariant holds initially: all queues and chains are empty.
LEMMA IInvInit == Init => IInv
<1> SUFFICES ASSUME Init PROVE IInv
    OBVIOUS
<1> USE NullAssumption, BoundAssumption
<1> DEFINE none == [q \in Proc |-> {}]
<1>1. TypeOK /\ FramesOK /\ TmpInjective /\ PositiveIsEmpty
  BY DEF Init, TypeOK, TaskState, FramesOK, TmpInjective, PositiveIsEmpty, Sleeping,
         TASK_RUNNING, TASK_UNINTERRUPTIBLE, TASK_ZOMBIE
<1>2. none \in [Proc -> SUBSET Proc]
  OBVIOUS
<1>3. Chains(none)
  BY DEF Init, Chains, IsBelow, ChainOK, HeadOK, Covered, Sleeping,
         TASK_RUNNING, TASK_UNINTERRUPTIBLE
<1>4. QED
  BY <1>1, <1>2, <1>3 DEF IInv

\* A running process is in nobody's chain, and its tmp is in its own chain only:
\* setting either running leaves every other chain asleep.
LEMMA RunningTmp ==
    ASSUME IInv, NEW below \in [Proc -> SUBSET Proc], Chains(below),
           NEW p \in Proc, state[p] = TASK_RUNNING,
           NEW q \in Proc
    PROVE  /\ p \notin below[q]
           /\ tmp[q] # p
           /\ tmp[p] # NULL /\ q # p => tmp[p] \notin below[q]
<1> USE DEF IInv, Chains, TypeOK
<1>1. \A r \in Proc : p \notin below[r]
  BY DEF ChainOK, Sleeping, TASK_RUNNING, TASK_UNINTERRUPTIBLE
<1>2. tmp[q] # p
  BY <1>1, NullAssumption DEF IsBelow
<1>3. ASSUME tmp[p] # NULL, q # p, tmp[p] \in below[q] PROVE FALSE
  <2>1. tmp[p] # tmp[q]
    BY <1>3 DEF TmpInjective
  <2>2. PICK r \in below[q] : tmp[r] = tmp[p]
    BY <1>3, <2>1 DEF ChainOK
  <2>3. r = p
    BY <2>2, <1>3 DEF TmpInjective
  <2>4. QED
    BY <2>3, <1>1
<1>4. QED
  BY <1>1, <1>2, <1>3

----------------------------------------------------------------------------
\* One lemma per action.

\* A sem_wait that finds a unit touches no chain.
LEMMA SemWaitAcquireStep ==
    ASSUME IInv, NEW p \in Proc, NEW s \in Sem, SemWaitAcquire(p, s) PROVE IInv'
<1>1. TypeOK'
  BY TypeStep DEF IInv, Next
<1>2. FramesOK' /\ TmpInjective'
  BY DEF IInv, SemWaitAcquire, FramesOK, TmpInjective, Sleeping
<1>3. PositiveIsEmpty'
  BY DEF IInv, TypeOK, SemWaitAcquire, PositiveIsEmpty
<1>4. PICK below \in [Proc -> SUBSET Proc] : Chains(below)
  BY DEF IInv
<1>5. Chains(below)'
  BY <1>4 DEF SemWaitAcquire, Chains, IsBelow, ChainOK, HeadOK, Covered, Sleeping
<1>6. QED
  BY <1>1, <1>2, <1>3, <1>5 DEF IInv

\* do_exit runs in a process that is in no chain.
LEMMA ExitStep ==
    ASSUME IInv, NEW p \in Proc, Exit(p) PROVE IInv'
<1> USE DEF TASK_RUNNING, TASK_UNINTERRUPTIBLE, TASK_ZOMBIE
<1>1. TypeOK'
  BY TypeStep DEF IInv, Next
<1>2. FramesOK' /\ TmpInjective' /\ PositiveIsEmpty'
  BY DEF IInv, TypeOK, Exit, InUserMode, FramesOK, TmpInjective, PositiveIsEmpty,
         Sleeping
<1>3. PICK below \in [Proc -> SUBSET Proc] : Chains(below)
  BY DEF IInv
<1>4. \A q \in Proc : Sleeping(q)' <=> Sleeping(q)
  BY DEF IInv, TypeOK, Exit, InUserMode, Sleeping
<1>5. IsBelow(below)'
  BY <1>3 DEF Exit, Chains, IsBelow
<1>6. ChainOK(below)'
  <2> SUFFICES ASSUME NEW q \in Proc, NEW x \in below[q]
               PROVE  /\ Sleeping(x)' /\ at[x] = at[q] /\ x # q
                      /\ x = tmp[q] \/ \E r \in below[q] : tmp[r] = x
    BY DEF ChainOK, Exit
  <2>1. x \in Proc
    OBVIOUS
  <2>2. QED
    BY <1>3, <1>4, <2>1 DEF Chains, ChainOK
<1>7. HeadOK(below)'
  <2> SUFFICES ASSUME NEW u \in Sem, m_wait[u] # NULL
               PROVE  /\ state'[m_wait[u]] = TASK_UNINTERRUPTIBLE /\ at[m_wait[u]] = u
                      /\ \A q \in Proc : m_wait[u] \notin below[q]
    BY DEF HeadOK, Exit, Sleeping
  <2>1. m_wait[u] \in Proc
    BY DEF IInv, TypeOK
  <2>2. QED
    BY <1>3, <1>4, <2>1 DEF Chains, HeadOK, Sleeping
<1>8. Covered(below)'
  <2> SUFFICES ASSUME NEW x \in Proc, Sleeping(x)
               PROVE  \/ m_wait'[at'[x]] = x
                      \/ m_wait'[at'[x]] # NULL /\ x \in below[m_wait'[at'[x]]]
                      \/ \E q \in Proc : /\ at'[q] = at'[x]
                                         /\ state'[q] = TASK_RUNNING
                                         /\ x \in below[q]
    BY <1>4 DEF Covered
  <2>1. at[x] # NULL /\ at[p] = NULL
    BY DEF IInv, FramesOK, Exit, InUserMode
  <2>2. QED
    BY <1>3, <2>1 DEF IInv, TypeOK, Exit, Chains, Covered
<1>9. QED
  BY <1>1, <1>2, <1>3, <1>5, <1>6, <1>7, <1>8 DEF IInv, Chains

\* sem_post sets the head running: its chain is now covered by it.
LEMMA SemPostStep ==
    ASSUME IInv, NEW p \in Proc, NEW s \in Sem, SemPost(p, s) PROVE IInv'
<1> USE DEF TASK_RUNNING, TASK_UNINTERRUPTIBLE, TASK_ZOMBIE
<1>1. TypeOK'
  BY TypeStep DEF IInv, Next
<1>2. PICK below \in [Proc -> SUBSET Proc] : Chains(below)
  BY DEF IInv
<1> DEFINE h == m_wait[s]
<1>3. h \in Proc \cup {NULL}
  BY DEF IInv, TypeOK
<1>4. h # NULL => Sleeping(h) /\ at[h] = s /\ \A q \in Proc : h \notin below[q]
  BY <1>2 DEF Chains, HeadOK
<1>5. \A q \in Proc : state'[q] = IF q = h THEN TASK_RUNNING ELSE state[q]
  BY NullAssumption DEF IInv, TypeOK, SemPost, WakeUp
<1>6. m_wait' = [m_wait EXCEPT ![s] = NULL] /\ tmp' = tmp /\ at' = at
  BY DEF SemPost, WakeUp
<1>7. FramesOK' /\ TmpInjective'
  BY <1>4, <1>5, <1>6 DEF IInv, FramesOK, TmpInjective, Sleeping
<1>8. PositiveIsEmpty'
  BY <1>6 DEF IInv, TypeOK, SemPost, PositiveIsEmpty
<1>9. IsBelow(below)'
  BY <1>2, <1>6 DEF Chains, IsBelow
<1>10. ChainOK(below)'
  <2> SUFFICES ASSUME NEW q \in Proc, NEW x \in below[q]
               PROVE  /\ Sleeping(x)' /\ at[x] = at[q] /\ x # q
                      /\ x = tmp[q] \/ \E r \in below[q] : tmp[r] = x
    BY <1>6 DEF ChainOK
  <2>1. x \in Proc /\ x # h
    BY <1>3, <1>4, NullAssumption
  <2>2. QED
    BY <1>2, <1>5, <2>1 DEF Chains, ChainOK, Sleeping
<1>11. HeadOK(below)'
  <2> SUFFICES ASSUME NEW u \in Sem, m_wait'[u] # NULL
               PROVE  /\ Sleeping(m_wait[u])' /\ at[m_wait[u]] = u
                      /\ \A q \in Proc : m_wait[u] \notin below[q]
                      /\ m_wait'[u] = m_wait[u]
    BY <1>6 DEF HeadOK, Sleeping
  <2>1. u # s /\ m_wait'[u] = m_wait[u]
    BY <1>6 DEF IInv, TypeOK
  <2>2. Sleeping(m_wait[u]) /\ at[m_wait[u]] = u /\ m_wait[u] \in Proc
    BY <1>2, <2>1 DEF Chains, HeadOK, IInv, TypeOK
  <2>3. m_wait[u] # h
    BY <1>3, <1>4, <2>1, <2>2
  <2>4. QED
    BY <1>2, <1>5, <1>6, <2>1, <2>2, <2>3 DEF Chains, HeadOK, Sleeping
<1>12. Covered(below)'
  <2> SUFFICES ASSUME NEW x \in Proc, Sleeping(x)'
               PROVE  \/ m_wait'[at[x]] = x
                      \/ m_wait'[at[x]] # NULL /\ x \in below[m_wait'[at[x]]]
                      \/ \E q \in Proc : /\ at[q] = at[x]
                                         /\ state'[q] = TASK_RUNNING
                                         /\ x \in below[q]
    BY <1>6 DEF Covered
  <2>1. Sleeping(x) /\ x # h
    BY <1>5 DEF Sleeping
  <2>2. at[x] \in Sem
    BY <2>1 DEF IInv, TypeOK, FramesOK
  <2>3. CASE \E q \in Proc : at[q] = at[x] /\ state[q] = TASK_RUNNING /\ x \in below[q]
    BY <1>5, <2>3
  <2>4. CASE at[x] = s /\ h # NULL /\ x \in below[h]
    BY <1>3, <1>4, <1>5, <2>4
  <2>5. CASE at[x] # s
    BY <1>2, <1>5, <1>6, <2>1, <2>2, <2>5 DEF IInv, TypeOK, Chains, Covered
  <2>6. QED
    BY <1>2, <2>1, <2>2, <2>3, <2>4, <2>5 DEF Chains, Covered
<1>13. QED
  BY <1>1, <1>2, <1>7, <1>8, <1>9, <1>10, <1>11, <1>12 DEF IInv, Chains

\* p goes to sleep at the head of the queue of s.  This is what SemWaitBlock
\* does, and ResumeBlock after it has set its own tmp running: b is that tmp.
\* The chain of p becomes the old head and the chain of the old head.
LEMMA SleepStep ==
    ASSUME IInv, TypeOK',
           NEW p \in Proc, NEW s \in Sem,
           state[p] = TASK_RUNNING,
           at[p] \in {s, NULL}, at[p] = NULL => tmp[p] = NULL,
           m_value[s] = 0, m_value' = m_value,
           Enqueue(p, s),
           state' = [WakeTmp(p) EXCEPT ![p] = TASK_UNINTERRUPTIBLE],
           at' = [at EXCEPT ![p] = s]
    PROVE  IInv'
<1> USE NullAssumption DEF TASK_RUNNING, TASK_UNINTERRUPTIBLE, TASK_ZOMBIE
<1>1. PICK below \in [Proc -> SUBSET Proc] : Chains(below)
  BY DEF IInv
<1> DEFINE h == m_wait[s]
           b == tmp[p]
           hbelow == IF h = NULL THEN {} ELSE {h} \cup below[h]
<1>2. h \in Proc \cup {NULL} /\ b \in Proc \cup {NULL}
  BY DEF IInv, TypeOK
<1>3. h # NULL => Sleeping(h) /\ at[h] = s /\ \A q \in Proc : h \notin below[q]
  BY <1>1 DEF Chains, HeadOK
<1>4. b # NULL => b \in below[p] /\ Sleeping(b) /\ at[b] = at[p] /\ at[p] = s /\ b # p
  BY <1>1, <1>2 DEF Chains, IsBelow, ChainOK
<1>5. \A q \in Proc : /\ p \notin below[q] /\ tmp[q] # p
                      /\ b # NULL /\ q # p => b \notin below[q]
  BY <1>1, RunningTmp
<1>6. h # NULL => h # p /\ h # b
  BY <1>2, <1>3, <1>4 DEF Sleeping
<1>7. \A q \in Proc : state'[q] = IF q = p THEN TASK_UNINTERRUPTIBLE
                                  ELSE IF q = b THEN TASK_RUNNING ELSE state[q]
  BY <1>2, <1>4 DEF IInv, TypeOK, WakeTmp
<1>8. \A q \in Proc : tmp'[q] = IF q = p THEN h ELSE tmp[q]
  BY DEF IInv, TypeOK, Enqueue
<1>9. \A q \in Proc : at'[q] = IF q = p THEN s ELSE at[q]
  BY DEF IInv, TypeOK
<1>10. \A u \in Sem : m_wait'[u] = IF u = s THEN p ELSE m_wait[u]
  BY DEF IInv, TypeOK, Enqueue
<1>11. \A q \in Proc : Sleeping(q)' <=> q = p \/ (q # b /\ Sleeping(q))
  BY <1>2, <1>4, <1>7 DEF Sleeping
<1>12. PICK nb \in [Proc -> SUBSET Proc] : nb = [below EXCEPT ![p] = hbelow]
  BY <1>2
<1>13. \A q \in Proc : nb[q] = IF q = p THEN hbelow ELSE below[q]
  BY <1>12
<1>14. \A x \in hbelow : x \in Proc /\ x # p /\ x # b /\ Sleeping(x) /\ at[x] = s
  <2> SUFFICES ASSUME NEW x \in hbelow, h # NULL
               PROVE  x \in Proc /\ x # p /\ x # b /\ Sleeping(x) /\ at[x] = s
    OBVIOUS
  <2>1. CASE x = h
    BY <1>2, <1>3, <1>6, <2>1
  <2>2. CASE x \in below[h]
    BY <1>1, <1>2, <1>3, <1>5, <1>6, <2>2 DEF Chains, ChainOK
  <2>3. QED
    BY <2>1, <2>2
<1>15. FramesOK'
  BY <1>2, <1>4, <1>7, <1>8, <1>9 DEF IInv, FramesOK, Sleeping
<1>16. TmpInjective'
  <2>1. h # NULL => \A q \in Proc : tmp[q] # h
    BY <1>1, <1>2, <1>3 DEF Chains, IsBelow
  <2>2. QED
    BY <1>8, <2>1 DEF IInv, TmpInjective
<1>17. PositiveIsEmpty'
  BY <1>10 DEF IInv, TypeOK, PositiveIsEmpty
<1>18. IsBelow(nb)'
  <2> SUFFICES ASSUME NEW q \in Proc
               PROVE  nb[q] = IF tmp'[q] = NULL THEN {} ELSE {tmp'[q]} \cup nb[tmp'[q]]
    BY DEF IsBelow
  <2>1. CASE q = p
    BY <1>2, <1>6, <1>8, <1>13, <2>1
  <2>2. CASE q # p
    <3>1. tmp'[q] = tmp[q] /\ tmp[q] # p /\ tmp[q] \in Proc \cup {NULL}
      BY <1>5, <1>8, <2>2 DEF IInv, TypeOK
    <3>2. below[q] = IF tmp[q] = NULL THEN {} ELSE {tmp[q]} \cup below[tmp[q]]
      BY <1>1 DEF Chains, IsBelow
    <3>3. QED
      BY <1>13, <2>2, <3>1, <3>2
  <2>3. QED
    BY <2>1, <2>2
<1>19. ChainOK(nb)'
  <2> SUFFICES ASSUME NEW q \in Proc, NEW x \in nb[q]
               PROVE  /\ Sleeping(x)' /\ at'[x] = at'[q] /\ x # q
                      /\ x = tmp'[q] \/ \E r \in nb[q] : tmp'[r] = x
    BY DEF ChainOK
  <2>1. CASE q # p
    <3>1. x \in below[q] /\ x \in Proc /\ x # p /\ x # b
      BY <1>2, <1>5, <1>13, <2>1
    <3>2. Sleeping(x) /\ at[x] = at[q] /\ x # q
      BY <1>1, <3>1 DEF Chains, ChainOK
    <3>3. x = tmp[q] \/ \E r \in below[q] : tmp[r] = x
      BY <1>1, <3>1 DEF Chains, ChainOK
    <3>4. \A r \in below[q] : r \in Proc /\ r # p
      BY <1>5
    <3>5. QED
      BY <1>8, <1>9, <1>11, <1>13, <2>1, <3>1, <3>2, <3>3, <3>4
  <2>2. CASE q = p
    <3>1. x \in hbelow /\ h \in Proc
      BY <1>2, <1>13, <2>2
    <3>2. Sleeping(x)' /\ at'[x] = at'[q] /\ x # q
      BY <1>9, <1>11, <1>14, <2>2, <3>1
    <3>3. CASE x = h
      BY <1>8, <2>2, <3>2, <3>3
    <3>4. CASE x \in below[h]
      <4>1. x = tmp[h] \/ \E r \in below[h] : tmp[r] = x
        BY <1>1, <3>1, <3>4 DEF Chains, ChainOK
      <4>2. h \in hbelow /\ \A r \in below[h] : r \in hbelow
        BY <1>2, <3>1
      <4>3. \A r \in hbelow : tmp'[r] = tmp[r]
        BY <1>8, <1>14
      <4>4. QED
        BY <1>13, <2>2, <3>2, <4>1, <4>2, <4>3
    <3>5. QED
      BY <1>2, <3>1, <3>3, <3>4
  <2>3. QED
    BY <2>1, <2>2
<1>20. HeadOK(nb)'
  <2> SUFFICES ASSUME NEW u \in Sem, m_wait'[u] # NULL, NEW g, g = m_wait'[u]
               PROVE  /\ state'[g] = TASK_UNINTERRUPTIBLE /\ at'[g] = u
                      /\ \A q \in Proc : g \notin nb[q]
    BY DEF HeadOK, Sleeping
  <2>1. CASE u = s
    <3>1. g = p
      BY <1>10, <2>1
    <3>2. QED
      BY <1>5, <1>7, <1>9, <1>13, <1>14, <2>1, <3>1
  <2>2. CASE u # s
    <3>1. g = m_wait[u] /\ g \in Proc
      BY <1>10, <2>2 DEF IInv, TypeOK
    <3>2. Sleeping(g) /\ at[g] = u /\ \A q \in Proc : g \notin below[q]
      BY <1>1, <3>1 DEF Chains, HeadOK
    <3>3. g # p /\ g # b
      BY <1>4, <2>2, <3>2 DEF Sleeping
    <3>4. g \notin hbelow
      BY <1>14, <2>2, <3>2
    <3>5. QED
      BY <1>7, <1>9, <1>13, <3>1, <3>2, <3>3, <3>4 DEF Sleeping
  <2>3. QED
    BY <2>1, <2>2
<1>21. Covered(nb)'
  <2> SUFFICES ASSUME NEW x \in Proc, Sleeping(x)'
               PROVE  \/ m_wait'[at'[x]] = x
                      \/ m_wait'[at'[x]] # NULL /\ x \in nb[m_wait'[at'[x]]]
                      \/ \E q \in Proc : /\ at'[q] = at'[x]
                                         /\ state'[q] = TASK_RUNNING
                                         /\ x \in nb[q]
    BY DEF Covered
  <2>1. CASE x = p
    BY <1>9, <1>10, <2>1
  <2> SUFFICES ASSUME x # p
               PROVE  \/ m_wait'[at'[x]] = x
                      \/ m_wait'[at'[x]] # NULL /\ x \in nb[m_wait'[at'[x]]]
                      \/ \E q \in Proc : /\ at'[q] = at'[x]
                                         /\ state'[q] = TASK_RUNNING
                                         /\ x \in nb[q]
    BY <2>1
  <2>2. Sleeping(x) /\ x # b /\ at'[x] = at[x] /\ at[x] \in Sem
    BY <1>9, <1>11 DEF IInv, FramesOK, TypeOK
  <2>3. CASE m_wait[at[x]] = x
    <3>1. CASE at[x] = s
      BY <1>2, <1>10, <1>13, <2>2, <2>3, <3>1
    <3>2. CASE at[x] # s
      BY <1>10, <2>2, <2>3, <3>2
    <3>3. QED
      BY <3>1, <3>2
  <2>4. CASE m_wait[at[x]] # NULL /\ x \in below[m_wait[at[x]]]
    <3>1. CASE at[x] = s
      BY <1>10, <1>13, <2>2, <2>4, <3>1
    <3>2. CASE at[x] # s
      <4>1. m_wait[at[x]] \in Proc /\ m_wait[at[x]] # p
        BY <1>1, <2>2, <2>4 DEF Chains, HeadOK, Sleeping, IInv, TypeOK
      <4>2. QED
        BY <1>10, <1>13, <2>2, <2>4, <3>2, <4>1
    <3>3. QED
      BY <3>1, <3>2
  <2>5. CASE \E q \in Proc : at[q] = at[x] /\ state[q] = TASK_RUNNING /\ x \in below[q]
    <3>1. PICK q \in Proc : at[q] = at[x] /\ state[q] = TASK_RUNNING /\ x \in below[q]
      BY <2>5
    <3>2. CASE q # p
      BY <1>7, <1>9, <1>13, <2>2, <3>1, <3>2
    <3>3. CASE q = p
      <4>1. b # NULL /\ x \in below[b]
        BY <1>1, <2>2, <3>1, <3>3 DEF Chains, IsBelow
      <4>2. b \in Proc /\ b # p /\ state'[b] = TASK_RUNNING /\ at'[b] = at[x]
        BY <1>2, <1>4, <1>7, <1>9, <3>1, <3>3, <4>1
      <4>3. QED
        BY <1>13, <2>2, <4>1, <4>2
    <3>4. QED
      BY <3>2, <3>3
  <2>6. QED
    BY <1>1, <2>2, <2>3, <2>4, <2>5 DEF Chains, Covered
<1>22. QED
  BY <1>12, <1>15, <1>16, <1>17, <1>18, <1>19, <1>20, <1>21 DEF IInv, Chains

\* The first sleep of a sem_wait: the process has no chain of its own yet.
LEMMA SemWaitBlockStep ==
    ASSUME IInv, NEW p \in Proc, NEW s \in Sem, SemWaitBlock(p, s) PROVE IInv'
<1>1. TypeOK'
  BY TypeStep DEF IInv, Next
<1>2. at[p] = NULL /\ tmp[p] = NULL /\ state[p] = TASK_RUNNING
  BY DEF IInv, FramesOK, SemWaitBlock, InUserMode
<1>3. WakeTmp(p) = state
  BY <1>2 DEF WakeTmp
<1>4. QED
  BY <1>1, <1>2, <1>3, SleepStep DEF SemWaitBlock

\* Back to sleep after a lost race: the old tmp is set running with its chain.
LEMMA ResumeBlockStep ==
    ASSUME IInv, NEW p \in Proc, NEW s \in Sem, ResumeBlock(p, s) PROVE IInv'
<1>1. TypeOK'
  BY TypeStep DEF IInv, Next
<1>2. at' = [at EXCEPT ![p] = s]
  BY DEF IInv, TypeOK, ResumeBlock
<1>3. at[p] # NULL
  BY NullAssumption DEF ResumeBlock
<1>4. QED
  BY <1>1, <1>2, <1>3, SleepStep DEF ResumeBlock

\* p leaves sem_wait with a unit and hands its chain to its tmp.
LEMMA ResumeAcquireStep ==
    ASSUME IInv, NEW p \in Proc, NEW s \in Sem, ResumeAcquire(p, s) PROVE IInv'
<1> USE NullAssumption DEF TASK_RUNNING, TASK_UNINTERRUPTIBLE, TASK_ZOMBIE
<1>1. TypeOK'
  BY TypeStep DEF IInv, Next
<1>2. PICK below \in [Proc -> SUBSET Proc] : Chains(below)
  BY DEF IInv
<1> DEFINE b == tmp[p]
<1>3. state[p] = TASK_RUNNING /\ at[p] = s /\ b \in Proc \cup {NULL}
  BY DEF IInv, TypeOK, ResumeAcquire
<1>4. b # NULL => b \in below[p] /\ Sleeping(b) /\ at[b] = s /\ b # p
  BY <1>2, <1>3 DEF Chains, IsBelow, ChainOK
<1>5. \A q \in Proc : /\ p \notin below[q] /\ tmp[q] # p
                      /\ b # NULL /\ q # p => b \notin below[q]
  BY <1>2, <1>3, RunningTmp
<1>6. \A q \in Proc : state'[q] = IF q = b THEN TASK_RUNNING ELSE state[q]
  BY <1>3 DEF IInv, TypeOK, ResumeAcquire, WakeTmp
<1>7. \A q \in Proc : /\ tmp'[q] = IF q = p THEN NULL ELSE tmp[q]
                      /\ at'[q] = IF q = p THEN NULL ELSE at[q]
  BY DEF IInv, TypeOK, ResumeAcquire
<1>8. m_wait' = m_wait
  BY DEF ResumeAcquire
<1>9. PICK nb \in [Proc -> SUBSET Proc] : nb = [below EXCEPT ![p] = {}]
  OBVIOUS
<1>10. \A q \in Proc : nb[q] = IF q = p THEN {} ELSE below[q]
  BY <1>9
<1>11. FramesOK'
  BY <1>3, <1>4, <1>6, <1>7 DEF IInv, FramesOK, Sleeping
<1>12. TmpInjective'
  BY <1>7 DEF IInv, TmpInjective
<1>13. PositiveIsEmpty'
  BY <1>8 DEF IInv, TypeOK, ResumeAcquire, PositiveIsEmpty
<1>14. IsBelow(nb)'
  <2> SUFFICES ASSUME NEW q \in Proc
               PROVE  nb[q] = IF tmp'[q] = NULL THEN {} ELSE {tmp'[q]} \cup nb[tmp'[q]]
    BY DEF IsBelow
  <2>1. CASE q = p
    BY <1>7, <1>10, <2>1
  <2>2. CASE q # p
    <3>1. tmp'[q] = tmp[q] /\ tmp[q] # p /\ tmp[q] \in Proc \cup {NULL}
      BY <1>5, <1>7, <2>2 DEF IInv, TypeOK
    <3>2. below[q] = IF tmp[q] = NULL THEN {} ELSE {tmp[q]} \cup below[tmp[q]]
      BY <1>2 DEF Chains, IsBelow
    <3>3. QED
      BY <1>10, <2>2, <3>1, <3>2
  <2>3. QED
    BY <2>1, <2>2
<1>15. ChainOK(nb)'
  <2> SUFFICES ASSUME NEW q \in Proc, NEW x \in nb[q]
               PROVE  /\ Sleeping(x)' /\ at'[x] = at'[q] /\ x # q
                      /\ x = tmp'[q] \/ \E r \in nb[q] : tmp'[r] = x
    BY DEF ChainOK
  <2>1. q # p /\ x \in below[q] /\ x \in Proc /\ x # p /\ x # b
    BY <1>3, <1>5, <1>10
  <2>2. Sleeping(x) /\ at[x] = at[q] /\ x # q
    BY <1>2, <2>1 DEF Chains, ChainOK
  <2>3. x = tmp[q] \/ \E r \in below[q] : tmp[r] = x
    BY <1>2, <2>1 DEF Chains, ChainOK
  <2>4. \A r \in below[q] : r \in Proc /\ r # p
    BY <1>5
  <2>5. QED
    BY <1>6, <1>7, <1>10, <2>1, <2>2, <2>3, <2>4 DEF Sleeping
<1>16. HeadOK(nb)'
  <2> SUFFICES ASSUME NEW u \in Sem, m_wait[u] # NULL, NEW g, g = m_wait[u]
               PROVE  /\ state'[g] = TASK_UNINTERRUPTIBLE /\ at'[g] = u
                      /\ \A q \in Proc : g \notin nb[q]
    BY <1>8 DEF HeadOK, Sleeping
  <2>1. g \in Proc
    BY DEF IInv, TypeOK
  <2>2. Sleeping(g) /\ at[g] = u /\ \A q \in Proc : g \notin below[q]
    BY <1>2 DEF Chains, HeadOK
  <2>3. g # p /\ g # b
    BY <1>3, <1>4, <2>1, <2>2 DEF Sleeping
  <2>4. QED
    BY <1>6, <1>7, <1>10, <2>1, <2>2, <2>3 DEF Sleeping
<1>17. Covered(nb)'
  <2> SUFFICES ASSUME NEW x \in Proc, Sleeping(x)'
               PROVE  \/ m_wait[at'[x]] = x
                      \/ m_wait[at'[x]] # NULL /\ x \in nb[m_wait[at'[x]]]
                      \/ \E q \in Proc : /\ at'[q] = at'[x]
                                         /\ state'[q] = TASK_RUNNING
                                         /\ x \in nb[q]
    BY <1>8 DEF Covered
  <2>1. Sleeping(x) /\ x # b /\ x # p
    BY <1>3, <1>6 DEF Sleeping
  <2>2. at'[x] = at[x] /\ at[x] \in Sem
    BY <1>7, <2>1 DEF IInv, FramesOK, TypeOK
  <2>3. CASE m_wait[at[x]] # NULL /\ x \in below[m_wait[at[x]]]
    <3>1. m_wait[at[x]] \in Proc /\ m_wait[at[x]] # p
      BY <1>2, <1>3, <2>2, <2>3 DEF Chains, HeadOK, Sleeping, IInv, TypeOK
    <3>2. QED
      BY <1>10, <2>2, <2>3, <3>1
  <2>4. CASE \E q \in Proc : at[q] = at[x] /\ state[q] = TASK_RUNNING /\ x \in below[q]
    <3>1. PICK q \in Proc : at[q] = at[x] /\ state[q] = TASK_RUNNING /\ x \in below[q]
      BY <2>4
    <3>2. CASE q # p
      BY <1>6, <1>7, <1>10, <2>2, <3>1, <3>2
    <3>3. CASE q = p
      <4>1. b # NULL /\ x \in below[b]
        BY <1>2, <2>1, <3>1, <3>3 DEF Chains, IsBelow
      <4>2. b \in Proc /\ b # p /\ state'[b] = TASK_RUNNING /\ at'[b] = at[x]
        BY <1>3, <1>4, <1>6, <1>7, <3>1, <3>3, <4>1
      <4>3. QED
        BY <1>10, <2>2, <4>1, <4>2
    <3>4. QED
      BY <3>2, <3>3
  <2>5. QED
    BY <1>2, <2>1, <2>2, <2>3, <2>4 DEF Chains, Covered
<1>18. QED
  BY <1>1, <1>9, <1>11, <1>12, <1>13, <1>14, <1>15, <1>16, <1>17 DEF IInv, Chains

----------------------------------------------------------------------------
\* Every step keeps the invariant.
LEMMA IInvStep == IInv /\ [Next]_vars => IInv'
<1> SUFFICES ASSUME IInv, [Next]_vars PROVE IInv'
    OBVIOUS
<1>1. CASE UNCHANGED vars
  <2>1. TypeOK' /\ FramesOK' /\ TmpInjective' /\ PositiveIsEmpty'
    BY <1>1 DEF vars, IInv, TypeOK, FramesOK, TmpInjective, PositiveIsEmpty, Sleeping
  <2>2. PICK below \in [Proc -> SUBSET Proc] : Chains(below)
    BY DEF IInv
  <2>3. Chains(below)'
    BY <1>1, <2>2 DEF vars, Chains, IsBelow, ChainOK, HeadOK, Covered, Sleeping
  <2>4. QED
    BY <2>1, <2>3 DEF IInv
<1>2. CASE Next
  BY <1>2, SemWaitAcquireStep, SemWaitBlockStep, ResumeAcquireStep, ResumeBlockStep,
     SemPostStep, ExitStep DEF Next
<1>3. QED
  BY <1>1, <1>2

\* The invariant holds in every reachable state.
LEMMA IInvCorrect == Safety => []IInv
BY IInvInit, IInvStep, PTL DEF Safety

\* Every sleeper of a queue that has a unit hangs off a process set running.
LEMMA WakeupsLemma == IInv => NoLostWakeup
<1> SUFFICES ASSUME IInv, NEW s \in Sem, m_value[s] > 0,
                    NEW p \in Proc, at[p] = s, Sleeping(p)
             PROVE  \E q \in Proc : at[q] = s /\ state[q] = TASK_RUNNING
  BY DEF NoLostWakeup
<1>1. m_wait[s] = NULL
  BY DEF IInv, PositiveIsEmpty
<1>2. p # NULL
  BY NullAssumption
<1>3. QED
  BY <1>1, <1>2 DEF IInv, Chains, Covered

\* No wake-up is lost: sem_post wakes only the latest sleeper and clears the
\* queue, yet a unit and a sleeper never coexist without a process that was set
\* running and is still to test the value and to wake the next one.
THEOREM WakeupsNotLost == Safety => []NoLostWakeup
BY WakeupsLemma, IInvCorrect, PTL

\* Chains that do not meet and cover all sleepers leave one pointer to each.
LEMMA PointersLemma == IInv => SleeperReferencedOnce
<1> SUFFICES ASSUME IInv PROVE SleeperReferencedOnce
  OBVIOUS
<1>1. PICK below \in [Proc -> SUBSET Proc] : Chains(below)
  BY DEF IInv
<1>2. \A s \in Sem : m_wait[s] # NULL
         => Sleeping(m_wait[s]) /\ at[m_wait[s]] = s
  BY <1>1 DEF Chains, HeadOK
<1>3. \A q \in Proc : tmp[q] # NULL => tmp[q] \in below[q]
  BY <1>1 DEF Chains, IsBelow
<1>4. \A q \in Proc : tmp[q] # NULL
         => Sleeping(tmp[q]) /\ at[tmp[q]] = at[q] /\ at[q] # NULL
  BY <1>1, <1>3 DEF Chains, ChainOK, IInv, FramesOK
<1>5. ASSUME NEW p \in Proc, Sleeping(p)
      PROVE  \/ /\ m_wait[at[p]] = p
                /\ \A q \in Proc : tmp[q] # p
             \/ /\ m_wait[at[p]] # p
                /\ \E q \in Proc : \A r \in Proc : tmp[r] = p <=> r = q
  <2>1. at[p] \in Sem /\ p # NULL
    BY <1>5, NullAssumption DEF IInv, FramesOK, TypeOK
  <2>2. CASE m_wait[at[p]] = p
    <3>1. \A q \in Proc : p \notin below[q]
      BY <1>1, <2>1, <2>2 DEF Chains, HeadOK
    <3>2. QED
      BY <1>3, <2>1, <2>2, <3>1
  <2>3. CASE m_wait[at[p]] # p
    <3>1. m_wait[at[p]] \in Proc \cup {NULL}
      BY <2>1 DEF IInv, TypeOK
    <3>2. \E q \in Proc : p \in below[q]
      BY <1>1, <1>5, <2>3, <3>1 DEF Chains, Covered
    <3>3. PICK q \in Proc : p \in below[q]
      BY <3>2
    <3>4. p = tmp[q] \/ \E r \in below[q] : tmp[r] = p
      BY <1>1, <3>3 DEF Chains, ChainOK
    <3>5. PICK r \in Proc : tmp[r] = p
      BY <3>4
    <3>6. \A x \in Proc : tmp[x] = p <=> x = r
      BY <2>1, <3>5 DEF IInv, TmpInjective
    <3>7. QED
      BY <2>3, <3>6
  <2>4. QED
    BY <2>2, <2>3
<1>6. QED
  BY <1>2, <1>4, <1>5 DEF SleeperReferencedOnce

\* The pointers of the wait queues are exact: one to every sleeper, none to
\* anybody else.
THEOREM PointersExact == Safety => []SleeperReferencedOnce
BY PointersLemma, IInvCorrect, PTL

\* A process that has exited is never set running again through a stale pointer.
THEOREM ZombiesStay == Safety => NeverRevivesZombie
<1>1. ASSUME IInv, [Next]_vars
      PROVE  \A p \in Proc : state[p] = TASK_ZOMBIE => state'[p] = TASK_ZOMBIE
  <2> USE NullAssumption DEF TASK_RUNNING, TASK_UNINTERRUPTIBLE, TASK_ZOMBIE
  <2>1. TypeOK /\ SleeperReferencedOnce
    BY <1>1, PointersLemma DEF IInv
  <2>2. ASSUME NEW p \in Proc PROVE tmp[p] # NULL => state[tmp[p]] = TASK_UNINTERRUPTIBLE
    BY <2>1 DEF SleeperReferencedOnce, Sleeping
  <2>3. ASSUME NEW s \in Sem
        PROVE  m_wait[s] # NULL => state[m_wait[s]] = TASK_UNINTERRUPTIBLE
    BY <2>1 DEF SleeperReferencedOnce, Sleeping
  <2>4. ASSUME NEW p \in Proc, NEW s \in Sem,
               \/ SemWaitAcquire(p, s) \/ SemWaitBlock(p, s)
        PROVE  \A x \in Proc : state[x] = TASK_ZOMBIE => state'[x] = TASK_ZOMBIE
    BY <2>1, <2>4 DEF TypeOK, SemWaitAcquire, SemWaitBlock, InUserMode
  <2>5. ASSUME NEW p \in Proc, NEW s \in Sem,
               \/ ResumeAcquire(p, s) \/ ResumeBlock(p, s)
        PROVE  \A x \in Proc : state[x] = TASK_ZOMBIE => state'[x] = TASK_ZOMBIE
    BY <2>1, <2>2, <2>5 DEF TypeOK, ResumeAcquire, ResumeBlock, WakeTmp
  <2>6. ASSUME NEW p \in Proc, NEW s \in Sem, SemPost(p, s)
        PROVE  \A x \in Proc : state[x] = TASK_ZOMBIE => state'[x] = TASK_ZOMBIE
    BY <2>1, <2>3, <2>6 DEF TypeOK, SemPost, WakeUp
  <2>7. ASSUME NEW p \in Proc, Exit(p)
        PROVE  \A x \in Proc : state[x] = TASK_ZOMBIE => state'[x] = TASK_ZOMBIE
    BY <2>1, <2>7 DEF TypeOK, Exit
  <2>8. CASE UNCHANGED vars
    BY <2>8 DEF vars
  <2>9. QED
    BY <1>1, <2>4, <2>5, <2>6, <2>7, <2>8 DEF Next
<1>2. QED
  BY <1>1, IInvCorrect, PTL DEF Safety, NeverRevivesZombie

\* Every step of sem_wait and sem_post is a step of the counting semaphore or
\* leaves it alone; going back to sleep after a lost race is such a stutter.
THEOREM CountingRefined == Safety => Counting!AbsSafety
<1> USE NullAssumption, BoundAssumption
<1>1. Init => Counting!AbsInit
  BY DEF Init, Counting!AbsInit
<1>2. ASSUME TypeOK, [Next]_vars PROVE [Counting!AbsNext]_(Counting!absVars)
  <2> USE DEF Counting!AbsNext, Counting!absVars
  <2>1. ASSUME NEW p \in Proc, NEW s \in Sem, SemWaitAcquire(p, s)
        PROVE  Counting!Acquire(p, s)
    BY <2>1 DEF SemWaitAcquire, InUserMode, Counting!Acquire
  <2>2. ASSUME NEW p \in Proc, NEW s \in Sem, SemWaitBlock(p, s)
        PROVE  Counting!Block(p, s)
    BY <2>2 DEF SemWaitBlock, InUserMode, Counting!Block
  <2>3. ASSUME NEW p \in Proc, NEW s \in Sem, ResumeAcquire(p, s)
        PROVE  Counting!Grant(p, s)
    BY <2>3 DEF ResumeAcquire, Counting!Grant
  <2>4. ASSUME NEW p \in Proc, NEW s \in Sem, ResumeBlock(p, s)
        PROVE  UNCHANGED <<m_value, at>>
    BY <2>4 DEF ResumeBlock
  <2>5. ASSUME NEW p \in Proc, NEW s \in Sem, SemPost(p, s)
        PROVE  Counting!Release(p, s)
    BY <2>5 DEF SemPost, InUserMode, Counting!Release
  <2>6. ASSUME NEW p \in Proc, Exit(p) PROVE UNCHANGED <<m_value, at>>
    BY <2>6 DEF Exit
  <2>7. CASE UNCHANGED vars
    BY <2>7 DEF vars
  <2>8. QED
    BY <1>2, <2>1, <2>2, <2>3, <2>4, <2>5, <2>6, <2>7 DEF Next
<1>3. QED
  BY <1>1, <1>2, TypeCorrect, PTL DEF Safety, Counting!AbsSafety
================================================================================
