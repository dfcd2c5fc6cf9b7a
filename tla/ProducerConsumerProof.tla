------------------------ MODULE ProducerConsumerProof ------------------------
(****************************************************************************)
(* Proofs about pc.c, for any number of consumers, slots and items: the     *)
(* buffer is locked while it is used, the items are consumed in order, and  *)
(* the semaphores are removed when nobody uses them.                        *)
(*                                                                          *)
(* What the kernel does with its wait queues is taken from SemaphoreProof,  *)
(* whose theorems hold for every set of processes and semaphores.           *)
(****************************************************************************)
EXTENDS ProducerConsumer, TLAPS, FiniteSetTheorems

KP == INSTANCE SemaphoreProof WITH Proc <- Procs, Sem <- Sems,
          MaxValue <- MAX_DATA_NUMBER + BUFFER_SIZE + CHILD_NUMBER

\* The processes that have called exit.
Dead == {p \in Procs : state[p] = K!TASK_ZOMBIE}

\* The statements of main and of consumer().
ProducerLabels == {"fork", "wait empty", "wait mutex", "lseek slot", "write slot",
                   "post mutex", "post full", "unlink empty", "unlink full",
                   "exit", "gone"}
ConsumerLabels == {"unborn", "wait full", "wait mutex", "lseek pos", "read pos",
                   "lseek slot", "read slot", "lseek store", "store pos",
                   "free others", "post mutex", "post mutex, leave", "post empty",
                   "exit", "gone", "reaped"}

Label == ProducerLabels \cup ConsumerLabels

VarTypes ==
    /\ m_value \in [Sems -> Nat]
    /\ at \in [Procs -> Sems \cup {NULL}]
    /\ state \in [Procs -> K!TaskState]
    /\ pc \in [Procs -> Label]
    /\ i \in 0..CHILD_NUMBER
    /\ ioErrors \subseteq Procs
    /\ linked \subseteq Sems

\* Where a process is that the kernel suspends in sem_wait.
Suspended ==
    /\ \/ at[Producer] = NULL
       \/ at[Producer] = "bufferMutex" /\ pc[Producer] = "lseek slot"
       \/ at[Producer] = "empty" /\ pc[Producer] = "wait mutex"
    /\ \A c \in Consumer :
          \/ at[c] = NULL
          \/ at[c] = "bufferMutex" /\ pc[c] = "lseek pos"
          \/ at[c] = "full" /\ pc[c] = "wait mutex"

Labels ==
    /\ pc[Producer] \in ProducerLabels
    /\ \A c \in Consumer : pc[c] \in ConsumerLabels
    /\ pc[Producer] = "fork" => \A c \in Consumer : c > i => pc[c] = "unborn"
    /\ Suspended
    /\ \A p \in Dead : pc[p] \in {"gone", "reaped"}
    /\ \A p \in ioErrors : pc[p] \in {"exit", "gone", "reaped"}

\* bufferMutex is a lock.
Mutex ==
    \/ m_value["bufferMutex"] = 1 /\ \A p \in Procs : ~Holds(p)
    \/ /\ m_value["bufferMutex"] = 0
       /\ \E h \in Procs : Holds(h) /\ \A p \in Procs : Holds(p) => p = h

\* main comes to remove a semaphore when all its children have been claimed.
Removed ==
    linked # Sems =>
        /\ pc[Producer] \in {"unlink empty", "unlink full", "exit", "gone"}
        /\ \A c \in Consumer : pc[c] \in {"unborn", "reaped"}
UnlinkAfterReap ==
    pc[Producer] \in {"unlink empty", "unlink full"} =>
        \A c \in Consumer : pc[c] \in {"unborn", "reaped"}

LockInv == VarTypes /\ Labels /\ Mutex /\ Removed /\ UnlinkAfterReap

\* What the holder of the lock has done with the file offset and its copy of the
\* position.
ProducerPlace ==
    /\ pc[Producer] \in {"wait mutex", "lseek slot", "write slot"} => data < MAX_DATA_NUMBER
    /\ pc[Producer] = "write slot" => f_pos = data % BUFFER_SIZE
ConsumerPlace(c) ==
    /\ pc[c] \in {"read pos", "store pos"} => f_pos = BUFFER_SIZE
    /\ pc[c] \in {"lseek slot", "read slot"} =>
          consumerPos[c] = Len(output) /\ Len(output) < MAX_DATA_NUMBER
    /\ pc[c] = "read slot" => f_pos = consumerPos[c] % BUFFER_SIZE
    /\ pc[c] \in {"lseek store", "store pos"} => consumerPos[c] = Len(output)
    /\ pc[c] = "free others" => Len(output) = MAX_DATA_NUMBER

\* The stored position is the number of items consumed, unless it is being
\* brought up to date or a process has left with the lock.
Stored ==
    \/ ioErrors # {}
    \/ \E c \in Consumer : pc[c] \in {"lseek store", "store pos"}
    \/ buffer[BUFFER_SIZE] = Len(output)

\* The units of `empty` that are under way, and those of `full`: each process has
\* one at most.
One(condition) == IF condition THEN 1 ELSE 0
TakesSlot == One(\/ pc[Producer] \in {"lseek slot", "write slot"}
                 \/ pc[Producer] = "wait mutex" /\ at[Producer] # "empty")
OwesSlot(c) == One(pc[c] \in {"lseek store", "store pos", "post mutex", "post empty"})
OwesItem == One(pc[Producer] \in {"post mutex", "post full"})
TakesItem(c) == One(\/ pc[c] \in {"lseek pos", "read pos", "lseek slot", "read slot"}
                    \/ pc[c] = "wait mutex" /\ at[c] # "full")
SlotsOwed == {c \in Consumer : OwesSlot(c) = 1}
ItemsTaken == {c \in Consumer : TakesItem(c) = 1}

\* Slots are free, about to be used, in use or about to be free; items are
\* announced, about to be consumed or about to be announced, as long as there are
\* items to come: afterwards `full` is posted to free the other consumers.
SlotsAddUp ==
    m_value["empty"] + TakesSlot + (data - Len(output)) + Cardinality(SlotsOwed) <= BUFFER_SIZE
ItemsAddUp ==
    \/ Len(output) = MAX_DATA_NUMBER
    \/ m_value["full"] + Cardinality(ItemsTaken) + OwesItem <= data - Len(output)

DataTypes ==
    /\ buffer \in [0..BUFFER_SIZE -> Int]
    /\ f_pos \in Int
    /\ data \in 0..MAX_DATA_NUMBER
    /\ consumerPos \in [Consumer -> Int]
    /\ output \in Seq(Int)

FileInv ==
    /\ DataTypes
    /\ Len(output) <= data
    /\ ProducerPlace
    /\ \A c \in Consumer : ConsumerPlace(c)
    /\ Stored
    /\ ConsumedInOrder

OrderInv == FileInv /\ SlotsAddUp /\ ItemsAddUp

----------------------------------------------------------------------------
\* main runs one process, and consumer() the others.
LEMMA TwoPrograms == /\ Producer \notin Consumer
                     /\ Procs = {Producer} \cup Consumer
                     /\ Consumer \subseteq Int
BY SizeAssumption DEF Procs, Producer, Consumer

----------------------------------------------------------------------------
\* What the kernel's steps do to m_value, to at and to the dead.

\* A call of sem_wait.
LEMMA KernelWait ==
    ASSUME VarTypes, NEW p \in Procs, NEW s \in Sems,
           K!SemWaitAcquire(p, s) \/ K!SemWaitBlock(p, s)
    PROVE  /\ p \notin Dead /\ at[p] = NULL
           /\ state' \in [Procs -> K!TaskState] /\ Dead' \subseteq Dead
           /\ \/ /\ m_value[s] > 0 /\ m_value' = [m_value EXCEPT ![s] = @ - 1]
                 /\ at' = at
              \/ m_value' = m_value /\ at' = [at EXCEPT ![p] = s]
BY DEF VarTypes, Dead, K!SemWaitAcquire, K!SemWaitBlock, K!Enqueue, K!InUserMode,
       K!TASK_RUNNING, K!TASK_UNINTERRUPTIBLE, K!TASK_ZOMBIE, K!TaskState

\* The return from sleep_on.
LEMMA KernelResume ==
    ASSUME VarTypes, NEW p \in Procs, K!Resume(p)
    PROVE  /\ at[p] \in Sems
           /\ state' \in [Procs -> K!TaskState] /\ Dead' \subseteq Dead
           /\ \/ /\ m_value[at[p]] > 0 /\ m_value' = [m_value EXCEPT ![at[p]] = @ - 1]
                 /\ at' = [at EXCEPT ![p] = NULL]
              \/ m_value' = m_value /\ at' = at
BY DEF VarTypes, Dead, K!Resume, K!ResumeAcquire, K!ResumeBlock, K!Enqueue, K!WakeTmp,
       K!TASK_RUNNING, K!TASK_UNINTERRUPTIBLE, K!TASK_ZOMBIE, K!TaskState

\* A call of sem_post.
LEMMA KernelPost ==
    ASSUME VarTypes, NEW p \in Procs, NEW s \in Sems, K!SemPost(p, s)
    PROVE  /\ p \notin Dead /\ at[p] = NULL
           /\ state' \in [Procs -> K!TaskState] /\ Dead' \subseteq Dead
           /\ m_value' = [m_value EXCEPT ![s] = @ + 1] /\ at' = at
BY DEF VarTypes, Dead, K!SemPost, K!WakeUp, K!InUserMode,
       K!TASK_RUNNING, K!TASK_UNINTERRUPTIBLE, K!TASK_ZOMBIE, K!TaskState

----------------------------------------------------------------------------
\* The lock, when one process makes a step: it goes on holding or not holding it,
\* takes it, or gives it back.
LEMMA MutexByOne ==
    ASSUME Mutex, NEW p \in Procs,
           \A q \in Procs \ {p} : Holds(q)' <=> Holds(q),
           \/ /\ m_value'["bufferMutex"] = m_value["bufferMutex"]
              /\ Holds(p)' <=> Holds(p)
           \/ /\ m_value["bufferMutex"] > 0
              /\ m_value'["bufferMutex"] = m_value["bufferMutex"] - 1
              /\ Holds(p)'
           \/ /\ m_value'["bufferMutex"] = m_value["bufferMutex"] + 1
              /\ Holds(p) /\ ~Holds(p)'
    PROVE  Mutex'
<1> USE DEF Mutex
<1>1. CASE /\ m_value'["bufferMutex"] = m_value["bufferMutex"]
           /\ Holds(p)' <=> Holds(p)
  BY <1>1
<1>2. CASE /\ m_value["bufferMutex"] > 0
           /\ m_value'["bufferMutex"] = m_value["bufferMutex"] - 1
           /\ Holds(p)'
  BY <1>2
<1>3. CASE /\ m_value'["bufferMutex"] = m_value["bufferMutex"] + 1
           /\ Holds(p) /\ ~Holds(p)'
  <2>1. m_value["bufferMutex"] = 0 /\ \A q \in Procs : Holds(q) => q = p
    BY <1>3
  <2>2. \A q \in Procs : ~Holds(q)'
    BY <1>3, <2>1
  <2>3. QED
    BY <1>3, <2>1, <2>2
<1>4. QED
  BY <1>1, <1>2, <1>3
\* The calls of sem_wait in pc.c.
Waits(p, from, s, to) ==
    \/ /\ p = Producer
       /\ \/ from = "wait empty" /\ s = "empty" /\ to = "wait mutex" /\ data < MAX_DATA_NUMBER
          \/ from = "wait mutex" /\ s = "bufferMutex" /\ to = "lseek slot"
    \/ /\ p \in Consumer
       /\ \/ from = "wait full" /\ s = "full" /\ to = "wait mutex"
          \/ from = "wait mutex" /\ s = "bufferMutex" /\ to = "lseek pos"

\* sem_wait: the lock is taken when bufferMutex is, and not otherwise.
LEMMA WaitKeepsLock ==
    ASSUME LockInv, NEW p \in Procs, NEW s \in Sems, NEW from, NEW to,
           Waits(p, from, s, to), Wait(p, from, s, to)
    PROVE  LockInv'
<1> USE NullIsNobody, TwoPrograms DEF Sems
<1>2. VarTypes /\ Labels /\ Mutex /\ Removed /\ UnlinkAfterReap
  BY DEF LockInv
<1>a. /\ to # "fork"
      /\ p = Producer => to \in ProducerLabels
      /\ p \in Consumer => to \in ConsumerLabels
  BY DEF Waits, ProducerLabels, ConsumerLabels
<1>1. /\ pc[p] = from /\ pc' = [pc EXCEPT ![p] = to]
      /\ pc' \in [Procs -> Label] /\ pc'[p] = to
      /\ \A q \in Procs \ {p} : pc'[q] = pc[q]
      /\ UNCHANGED <<i, linked, ioErrors>>
  BY <1>2, <1>a DEF Wait, Goto, VarTypes, Label
<1>3. /\ p \notin Dead /\ at[p] = NULL
      /\ state' \in [Procs -> K!TaskState] /\ Dead' \subseteq Dead
      /\ \/ /\ m_value[s] > 0 /\ m_value' = [m_value EXCEPT ![s] = @ - 1]
            /\ at' = at
         \/ m_value' = m_value /\ at' = [at EXCEPT ![p] = s]
  BY <1>2, KernelWait DEF Wait
<1>b. /\ m_value' \in [Sems -> Nat] /\ at' \in [Procs -> Sems \cup {NULL}]
      /\ \A q \in Procs \ {p} : at'[q] = at[q]
      /\ at'[p] \in {NULL, s}
  <2>1. CASE m_value[s] > 0 /\ m_value' = [m_value EXCEPT ![s] = @ - 1] /\ at' = at
    BY <1>2, <1>3, <2>1 DEF VarTypes
  <2>2. CASE m_value' = m_value /\ at' = [at EXCEPT ![p] = s]
    BY <1>2, <1>3, <2>2 DEF VarTypes
  <2>3. QED
    BY <1>3, <2>1, <2>2
<1>4. VarTypes'
  BY <1>1, <1>2, <1>3, <1>b DEF VarTypes
<1>5. Labels'
  <2>1. pc'[Producer] \in ProducerLabels /\ \A c \in Consumer : pc'[c] \in ConsumerLabels
    BY <1>1, <1>2, <1>a DEF Labels
  <2>2. pc'[Producer] = "fork" => \A c \in Consumer : c > i => pc'[c] = "unborn"
    BY <1>1, <1>2 DEF VarTypes, Labels, Waits
  <2>3. Suspended'
    <3>1. CASE p = Producer
      <4>1. \/ at'[Producer] = NULL
            \/ at'[Producer] = "bufferMutex" /\ pc'[Producer] = "lseek slot"
            \/ at'[Producer] = "empty" /\ pc'[Producer] = "wait mutex"
        BY <1>1, <1>b, <3>1 DEF Waits
      <4>2. \A c \in Consumer : at'[c] = at[c] /\ pc'[c] = pc[c]
        BY <1>1, <1>b, <3>1
      <4>3. QED
        BY <1>2, <4>1, <4>2 DEF Labels, Suspended
    <3>2. CASE p \in Consumer
      BY <1>1, <1>2, <1>b, <3>2 DEF Labels, Suspended, Waits
    <3>3. QED
      BY <3>1, <3>2
  <2>4. \A q \in Dead' : pc'[q] \in {"gone", "reaped"}
    BY <1>1, <1>2, <1>3 DEF VarTypes, Labels, Dead
  <2>5. \A q \in ioErrors : pc'[q] \in {"exit", "gone", "reaped"}
    BY <1>1, <1>2 DEF VarTypes, Labels, Waits
  <2>6. QED
    BY <1>1, <2>1, <2>2, <2>3, <2>4, <2>5 DEF Labels
<1>6. Mutex'
  <2>1. \A q \in Procs \ {p} : Holds(q)' <=> Holds(q)
    BY <1>1, <1>2, <1>3 DEF VarTypes, Holds
  <2>2. p \notin ioErrors
    BY <1>1, <1>2 DEF Labels, Waits
  <2>3. CASE at' = at /\ s # "bufferMutex"
    <3>1. m_value'["bufferMutex"] = m_value["bufferMutex"]
      BY <1>2, <1>3, <2>3 DEF VarTypes
    <3>2. ~Holds(p) /\ ~Holds(p)'
      BY <1>1, <2>2, <2>3 DEF Holds, Waits
    <3>3. QED
      BY <1>2, <2>1, <3>1, <3>2, MutexByOne
  <2>4. CASE at' = at /\ s = "bufferMutex" /\ m_value' = [m_value EXCEPT ![s] = @ - 1]
    <3>1. m_value'["bufferMutex"] = m_value["bufferMutex"] - 1 /\ m_value["bufferMutex"] > 0
      BY <1>2, <1>3, <2>4 DEF VarTypes
    <3>2. Holds(p)'
      BY <1>1, <1>3, <2>4 DEF Holds, Waits
    <3>3. QED
      BY <1>2, <2>1, <3>1, <3>2, MutexByOne
  <2>5. CASE m_value' = m_value /\ at' = [at EXCEPT ![p] = s]
    BY <1>1, <1>2, <2>1, <2>2, <2>5, MutexByOne DEF VarTypes, Holds, Waits
  <2>6. QED
    BY <1>2, <1>3, <2>3, <2>4, <2>5 DEF VarTypes
<1>7. Removed' /\ UnlinkAfterReap'
  BY <1>1, <1>2, <1>3 DEF VarTypes, Removed, UnlinkAfterReap, Waits
<1>8. QED
  BY <1>4, <1>5, <1>6, <1>7 DEF LockInv
\* A step of a running process from one statement of its loop to another, that
\* does not enter the kernel's queues.
LEMMA LabelsByOne ==
    ASSUME LockInv, VarTypes', NEW p \in Procs, NEW to,
           pc' = [pc EXCEPT ![p] = to],
           at' = at, at[p] = NULL, Dead' \subseteq Dead, p \notin Dead,
           ioErrors' = ioErrors, linked' = linked, i' = i,
           pc[p] \notin {"fork", "unborn", "unlink empty", "unlink full", "exit", "gone", "reaped"},
           to \notin {"fork", "unborn", "unlink empty", "unlink full", "gone", "reaped"},
           p = Producer => to \in ProducerLabels,
           p \in Consumer => to \in ConsumerLabels
    PROVE  Labels' /\ Removed' /\ UnlinkAfterReap'
<1> USE NullIsNobody, TwoPrograms
<1>1. VarTypes /\ Labels /\ Removed /\ UnlinkAfterReap
  BY DEF LockInv
<1>2. pc'[p] = to /\ \A q \in Procs \ {p} : pc'[q] = pc[q]
  BY <1>1 DEF VarTypes
<1>3. p \notin ioErrors
  BY <1>1 DEF Labels
<1>4. Labels'
  <2>1. pc'[Producer] \in ProducerLabels /\ \A c \in Consumer : pc'[c] \in ConsumerLabels
    BY <1>1, <1>2 DEF Labels
  <2>2. pc'[Producer] = "fork" => \A c \in Consumer : c > i => pc'[c] = "unborn"
    BY <1>1, <1>2 DEF Labels
  <2>3. Suspended'
    BY <1>1, <1>2 DEF Labels, Suspended
  <2>4. \A q \in Dead' : pc'[q] \in {"gone", "reaped"}
    BY <1>1, <1>2 DEF Labels, Dead
  <2>5. \A q \in ioErrors : pc'[q] \in {"exit", "gone", "reaped"}
    BY <1>1, <1>2, <1>3 DEF VarTypes, Labels
  <2>6. QED
    BY <2>1, <2>2, <2>3, <2>4, <2>5 DEF Labels
<1>5. linked # Sems => p # Producer /\ p \notin Consumer
  BY <1>1 DEF Removed
<1>6. UnlinkAfterReap'
  BY <1>1, <1>2 DEF UnlinkAfterReap
<1>7. QED
  BY <1>1, <1>4, <1>5, <1>6 DEF Removed

\* The calls of sem_post.
Posts(p, s, to) ==
    \/ /\ p = Producer
       /\ \/ pc[p] = "post mutex" /\ s = "bufferMutex" /\ to = "post full"
          \/ pc[p] = "post full" /\ s = "full" /\ to = "wait empty"
    \/ /\ p \in Consumer
       /\ \/ pc[p] = "free others" /\ s = "full" /\ to = "free others"
          \/ pc[p] \in {"free others", "post mutex, leave"} /\ s = "bufferMutex" /\ to = "exit"
          \/ pc[p] = "post mutex" /\ s = "bufferMutex" /\ to = "post empty"
          \/ pc[p] = "post empty" /\ s = "empty" /\ to = "wait full"

\* sem_post: the lock is given back with bufferMutex, and not otherwise.
LEMMA PostKeepsLock ==
    ASSUME LockInv, NEW p \in Procs, NEW s \in Sems, NEW to,
           Posts(p, s, to), K!SemPost(p, s), pc' = [pc EXCEPT ![p] = to],
           UNCHANGED <<i, linked, ioErrors>>
    PROVE  LockInv'
<1> USE NullIsNobody, TwoPrograms DEF Sems
<1>1. VarTypes /\ Labels /\ Mutex
  BY DEF LockInv
<1>2. /\ p \notin Dead /\ at[p] = NULL
      /\ state' \in [Procs -> K!TaskState] /\ Dead' \subseteq Dead
      /\ m_value' = [m_value EXCEPT ![s] = @ + 1] /\ at' = at
  BY <1>1, KernelPost
<1>3. /\ pc[p] \notin {"fork", "unborn", "unlink empty", "unlink full", "exit", "gone", "reaped"}
      /\ to \notin {"fork", "unborn", "unlink empty", "unlink full", "gone", "reaped"}
      /\ p = Producer => to \in ProducerLabels
      /\ p \in Consumer => to \in ConsumerLabels
  BY DEF Posts, ProducerLabels, ConsumerLabels
<1>4. VarTypes'
  <2>1. m_value' \in [Sems -> Nat]
    BY <1>1, <1>2 DEF VarTypes
  <2>2. pc' \in [Procs -> Label]
    BY <1>1, <1>3 DEF VarTypes, Label
  <2>3. QED
    BY <1>1, <1>2, <2>1, <2>2 DEF VarTypes
<1>5. Labels' /\ Removed' /\ UnlinkAfterReap'
  BY <1>2, <1>3, <1>4, LabelsByOne
<1>6. pc'[p] = to /\ (\A q \in Procs \ {p} : pc'[q] = pc[q]) /\ p \notin ioErrors
  BY <1>1, <1>3 DEF VarTypes, Labels
<1>7. \A q \in Procs \ {p} : Holds(q)' <=> Holds(q)
  BY <1>2, <1>6 DEF Holds
<1>8. Mutex'
  <2>1. CASE s = "bufferMutex"
    <3>1. m_value'["bufferMutex"] = m_value["bufferMutex"] + 1
      BY <1>1, <1>2, <2>1 DEF VarTypes
    <3>2. Holds(p) /\ ~Holds(p)'
      BY <1>2, <1>6, <2>1 DEF Holds, Posts
    <3>3. QED
      BY <1>1, <1>7, <3>1, <3>2, MutexByOne
  <2>2. CASE s # "bufferMutex"
    <3>1. m_value'["bufferMutex"] = m_value["bufferMutex"]
      BY <1>1, <1>2, <2>2 DEF VarTypes
    <3>2. Holds(p) <=> Holds(p)'
      BY <1>2, <1>6, <2>2 DEF Holds, Posts
    <3>3. QED
      BY <1>1, <1>7, <3>1, <3>2, MutexByOne
  <2>3. QED
    BY <2>1, <2>2
<1>9. QED
  BY <1>4, <1>5, <1>8 DEF LockInv
\* The statements between sem_wait(bufferMutex) and its sem_post.
Region == {"lseek slot", "write slot", "post mutex", "lseek pos", "read pos", "read slot",
           "lseek store", "store pos", "free others", "post mutex, leave"}

\* The calls of lseek, read and write, all made with the lock.
LEMMA FileCallKeepsLock ==
    ASSUME LockInv, VarTypes', NEW p \in Procs, NEW to, K!InUserMode(p),
           pc[p] \in Region, to \in Region, pc' = [pc EXCEPT ![p] = to],
           p = Producer => to \in ProducerLabels,
           p \in Consumer => to \in ConsumerLabels,
           UNCHANGED <<kernelVars, i, linked, ioErrors>>
    PROVE  LockInv'
<1> USE NullIsNobody, TwoPrograms
<1>1. VarTypes /\ Labels /\ Mutex
  BY DEF LockInv
<1>2. /\ p \notin Dead /\ at[p] = NULL /\ Dead' = Dead
      /\ m_value' = m_value /\ at' = at
  BY <1>1 DEF Dead, kernelVars, K!InUserMode, K!TASK_RUNNING, K!TASK_ZOMBIE
<1>3. /\ pc[p] \notin {"fork", "unborn", "unlink empty", "unlink full", "exit", "gone", "reaped"}
      /\ to \notin {"fork", "unborn", "unlink empty", "unlink full", "gone", "reaped"}
  BY DEF Region
<1>4. Labels' /\ Removed' /\ UnlinkAfterReap'
  BY <1>2, <1>3, LabelsByOne
<1>5. pc'[p] = to /\ (\A q \in Procs \ {p} : pc'[q] = pc[q])
  BY <1>1 DEF VarTypes
<1>6. \A q \in Procs : Holds(q)' <=> Holds(q)
  BY <1>2, <1>5 DEF Holds, Region
<1>7. Mutex'
  BY <1>1, <1>2, <1>6, MutexByOne
<1>8. QED
  BY <1>4, <1>7 DEF LockInv

\* A process that leaves after a failed call takes the lock with it.
LEMMA IOErrorKeepsLock ==
    ASSUME LockInv, NEW p \in Procs, IOError(p)
    PROVE  LockInv'
<1> USE NullIsNobody, TwoPrograms
<1>1. VarTypes /\ Labels /\ Mutex /\ Removed /\ UnlinkAfterReap
  BY DEF LockInv
<1>2. /\ pc[p] \in Region /\ pc' = [pc EXCEPT ![p] = "exit"]
      /\ ioErrors' = ioErrors \cup {p}
      /\ UNCHANGED <<kernelVars, i, linked>>
      /\ K!InUserMode(p)
  BY DEF IOError, Goto, Region
<1>3. /\ p \notin Dead /\ at[p] = NULL /\ Dead' = Dead
      /\ m_value' = m_value /\ at' = at /\ state' = state
  BY <1>1, <1>2 DEF Dead, kernelVars, K!InUserMode, K!TASK_RUNNING, K!TASK_ZOMBIE
<1>4. pc'[p] = "exit" /\ (\A q \in Procs \ {p} : pc'[q] = pc[q])
  BY <1>1, <1>2 DEF VarTypes
<1>5. pc[p] \notin {"fork", "unborn", "unlink empty", "unlink full", "exit", "gone", "reaped"}
  BY <1>2 DEF Region
<1>6. VarTypes'
  <2>1. pc' \in [Procs -> Label]
    BY <1>1, <1>2 DEF VarTypes, Label, ProducerLabels
  <2>2. QED
    BY <1>1, <1>2, <1>3, <2>1 DEF VarTypes
<1>7. Labels'
  <2>1. pc'[Producer] \in ProducerLabels /\ \A c \in Consumer : pc'[c] \in ConsumerLabels
    BY <1>1, <1>4 DEF Labels, ProducerLabels, ConsumerLabels
  <2>2. pc'[Producer] = "fork" => \A c \in Consumer : c > i => pc'[c] = "unborn"
    BY <1>1, <1>4, <1>5 DEF Labels
  <2>3. Suspended'
    BY <1>1, <1>3, <1>4 DEF Labels, Suspended
  <2>4. \A q \in Dead' : pc'[q] \in {"gone", "reaped"}
    BY <1>1, <1>3, <1>4 DEF Labels, Dead
  <2>5. \A q \in ioErrors' : pc'[q] \in {"exit", "gone", "reaped"}
    BY <1>1, <1>2, <1>4 DEF VarTypes, Labels
  <2>6. QED
    BY <1>2, <2>1, <2>2, <2>3, <2>4, <2>5 DEF Labels
<1>8. Mutex'
  <2>1. \A q \in Procs : Holds(q)' <=> Holds(q)
    BY <1>2, <1>3, <1>4 DEF Holds, Region
  <2>2. QED
    BY <1>1, <1>3, <2>1, MutexByOne
<1>9. Removed' /\ UnlinkAfterReap'
  BY <1>1, <1>2, <1>4, <1>5 DEF Removed, UnlinkAfterReap
<1>10. QED
  BY <1>6, <1>7, <1>8, <1>9 DEF LockInv

\* do_exit.
LEMMA LeaveKeepsLock ==
    ASSUME LockInv, NEW p \in Procs, Leave(p)
    PROVE  LockInv'
<1> USE NullIsNobody, TwoPrograms
<1>1. VarTypes /\ Labels /\ Mutex /\ Removed /\ UnlinkAfterReap
  BY DEF LockInv
<1>2. /\ pc[p] = "exit" /\ pc' = [pc EXCEPT ![p] = "gone"]
      /\ UNCHANGED <<m_value, at, i, linked, ioErrors>>
      /\ at[p] = NULL
  BY DEF Leave, Goto, K!Exit, K!InUserMode
<1>3. Dead' = Dead \cup {p} /\ state' \in [Procs -> K!TaskState]
  BY <1>1 DEF Leave, K!Exit, VarTypes, Dead, K!TaskState, K!TASK_ZOMBIE
<1>4. pc'[p] = "gone" /\ (\A q \in Procs \ {p} : pc'[q] = pc[q])
  BY <1>1, <1>2 DEF VarTypes
<1>5. VarTypes'
  <2>1. pc' \in [Procs -> Label]
    BY <1>1, <1>2 DEF VarTypes, Label, ProducerLabels
  <2>2. QED
    BY <1>1, <1>2, <1>3, <2>1 DEF VarTypes
<1>6. Labels'
  <2>1. pc'[Producer] \in ProducerLabels /\ \A c \in Consumer : pc'[c] \in ConsumerLabels
    BY <1>1, <1>4 DEF Labels, ProducerLabels, ConsumerLabels
  <2>2. pc'[Producer] = "fork" => \A c \in Consumer : c > i => pc'[c] = "unborn"
    BY <1>1, <1>2, <1>4 DEF Labels
  <2>3. Suspended'
    BY <1>1, <1>2, <1>4 DEF Labels, Suspended
  <2>4. \A q \in Dead' : pc'[q] \in {"gone", "reaped"}
    BY <1>1, <1>3, <1>4 DEF Labels, Dead
  <2>5. \A q \in ioErrors : pc'[q] \in {"exit", "gone", "reaped"}
    BY <1>1, <1>2, <1>4 DEF VarTypes, Labels
  <2>6. QED
    BY <1>2, <2>1, <2>2, <2>3, <2>4, <2>5 DEF Labels
<1>7. Mutex'
  <2>1. \A q \in Procs : Holds(q)' <=> Holds(q)
    BY <1>2, <1>4 DEF Holds
  <2>2. QED
    BY <1>1, <1>2, <2>1, MutexByOne
<1>8. Removed' /\ UnlinkAfterReap'
  BY <1>1, <1>2, <1>4 DEF Removed, UnlinkAfterReap
<1>9. QED
  BY <1>5, <1>6, <1>7, <1>8 DEF LockInv
\* The children are numbered in the order of their forks.
LEMMA NextChild ==
    ASSUME NEW k \in 0..CHILD_NUMBER, NEW c \in Consumer, c = k + 1
    PROVE  /\ c \in 0..CHILD_NUMBER /\ k \in Int /\ c > k
           /\ \A d \in Consumer : d > c => d > k /\ d # c
BY SizeAssumption DEF Consumer

\* fork, in the parent, whether it fails or not.
LEMMA ForkKeepsLock ==
    ASSUME LockInv, NEW c \in Consumer, NEW label \in {"wait full", "unborn"}, ForkTurn(c, label)
    PROVE  LockInv'
<1> USE NullIsNobody, TwoPrograms, SizeAssumption
<1>1. VarTypes /\ Labels /\ Mutex /\ Removed /\ UnlinkAfterReap
  BY DEF LockInv
<1> DEFINE next == IF c = CHILD_NUMBER THEN "wait empty" ELSE "fork"
<1>2. /\ pc[Producer] = "fork" /\ c = i + 1 /\ i' = c
      /\ pc' = [pc EXCEPT ![c] = label, ![Producer] = next]
      /\ UNCHANGED <<kernelVars, linked, ioErrors>>
  BY <1>1 DEF ForkTurn, VarTypes
<1>3. next \in {"wait empty", "fork"}
  OBVIOUS
<1> HIDE DEF next
<1>a. c \in 0..CHILD_NUMBER /\ i \in Int /\ c > i
  BY <1>1, <1>2, NextChild DEF VarTypes
<1>4. pc[c] = "unborn"
  BY <1>1, <1>2, <1>a DEF Labels
<1>5. /\ pc'[Producer] = next /\ pc'[c] = label
      /\ \A q \in Procs \ {c, Producer} : pc'[q] = pc[q]
  BY <1>1, <1>2 DEF VarTypes
<1>6. /\ m_value' = m_value /\ at' = at /\ state' = state /\ Dead' = Dead
      /\ at[c] = NULL /\ at[Producer] = NULL
  BY <1>1, <1>2, <1>4 DEF kernelVars, Dead, Labels, Suspended
<1>7. VarTypes'
  <2>1. pc' \in [Procs -> Label]
    BY <1>1, <1>2, <1>3 DEF VarTypes, Label, ProducerLabels, ConsumerLabels
  <2>2. QED
    BY <1>1, <1>2, <1>a, <1>6, <2>1 DEF VarTypes
<1>8. Labels'
  <2>1. pc'[Producer] \in ProducerLabels /\ \A d \in Consumer : pc'[d] \in ConsumerLabels
    BY <1>1, <1>3, <1>5 DEF Labels, ProducerLabels, ConsumerLabels
  <2>2. pc'[Producer] = "fork" => \A d \in Consumer : d > i' => pc'[d] = "unborn"
    <3>1. \A d \in Consumer : d > i' => d > i /\ d # c
      BY <1>1, <1>2, NextChild DEF VarTypes
    <3>2. QED
      BY <1>1, <1>2, <1>5, <3>1 DEF Labels
  <2>3. Suspended'
    BY <1>1, <1>5, <1>6 DEF Labels, Suspended
  <2>4. \A q \in Dead' : pc'[q] \in {"gone", "reaped"}
    BY <1>1, <1>2, <1>4, <1>5, <1>6 DEF Labels, Dead
  <2>5. \A q \in ioErrors : pc'[q] \in {"exit", "gone", "reaped"}
    BY <1>1, <1>2, <1>4, <1>5 DEF VarTypes, Labels
  <2>6. QED
    BY <1>2, <2>1, <2>2, <2>3, <2>4, <2>5 DEF Labels
<1>9. Mutex'
  <2>1. \A q \in Procs : Holds(q)' <=> Holds(q)
    BY <1>2, <1>3, <1>4, <1>5, <1>6 DEF Holds
  <2>2. QED
    BY <1>1, <1>6, <2>1, MutexByOne
<1>10. Removed' /\ UnlinkAfterReap'
  BY <1>1, <1>2, <1>3, <1>5 DEF Removed, UnlinkAfterReap
<1>11. QED
  BY <1>7, <1>8, <1>9, <1>10 DEF LockInv

\* waitpid, in main.
LEMMA ReapKeepsLock ==
    ASSUME LockInv, NEW c \in Consumer, Reap(c)
    PROVE  LockInv'
<1> USE NullIsNobody, TwoPrograms
<1>1. VarTypes /\ Labels /\ Mutex /\ Removed /\ UnlinkAfterReap
  BY DEF LockInv
<1>2. /\ pc[Producer] = "wait empty" /\ c \in Dead /\ pc[c] # "reaped"
      /\ pc' = [pc EXCEPT ![c] = "reaped"]
      /\ UNCHANGED <<kernelVars, i, linked, ioErrors>>
  BY DEF Reap, Children, Dead
<1>3. pc[c] = "gone"
  BY <1>1, <1>2 DEF Labels
<1>4. pc'[c] = "reaped" /\ \A q \in Procs \ {c} : pc'[q] = pc[q]
  BY <1>1, <1>2 DEF VarTypes
<1>5. /\ m_value' = m_value /\ at' = at /\ state' = state /\ Dead' = Dead
      /\ at[c] = NULL
  BY <1>1, <1>2, <1>3 DEF kernelVars, Dead, Labels, Suspended
<1>6. VarTypes'
  <2>1. pc' \in [Procs -> Label]
    BY <1>1, <1>2 DEF VarTypes, Label, ConsumerLabels
  <2>2. QED
    BY <1>1, <1>2, <1>5, <2>1 DEF VarTypes
<1>7. Labels'
  <2>1. pc'[Producer] \in ProducerLabels /\ \A d \in Consumer : pc'[d] \in ConsumerLabels
    BY <1>1, <1>4 DEF Labels, ConsumerLabels
  <2>2. pc'[Producer] = "fork" => \A d \in Consumer : d > i => pc'[d] = "unborn"
    BY <1>2, <1>4
  <2>3. Suspended'
    BY <1>1, <1>4, <1>5 DEF Labels, Suspended
  <2>4. \A q \in Dead' : pc'[q] \in {"gone", "reaped"}
    BY <1>1, <1>4, <1>5 DEF Labels, Dead
  <2>5. \A q \in ioErrors : pc'[q] \in {"exit", "gone", "reaped"}
    BY <1>1, <1>4 DEF VarTypes, Labels
  <2>6. QED
    BY <1>2, <2>1, <2>2, <2>3, <2>4, <2>5 DEF Labels
<1>8. Mutex'
  <2>1. \A q \in Procs : Holds(q)' <=> Holds(q)
    BY <1>2, <1>3, <1>4, <1>5 DEF Holds
  <2>2. QED
    BY <1>1, <1>5, <2>1, MutexByOne
<1>9. Removed' /\ UnlinkAfterReap'
  BY <1>1, <1>2, <1>4 DEF Removed, UnlinkAfterReap
<1>10. QED
  BY <1>6, <1>7, <1>8, <1>9 DEF LockInv

\* The three calls of sem_unlink: no child is left when the first is made.
LEMMA UnlinkKeepsLock ==
    ASSUME LockInv, UnlinkMutex \/ UnlinkEmpty \/ UnlinkFull
    PROVE  LockInv'
<1> USE NullIsNobody, TwoPrograms
<1>1. VarTypes /\ Labels /\ Mutex /\ Removed /\ UnlinkAfterReap
  BY DEF LockInv
<1>2. PICK to \in {"unlink empty", "unlink full", "exit"} :
          /\ pc' = [pc EXCEPT ![Producer] = to]
          /\ linked' \subseteq linked
          /\ UNCHANGED <<kernelVars, i, ioErrors>>
          /\ at[Producer] = NULL
  BY DEF UnlinkMutex, UnlinkEmpty, UnlinkFull, Unlink, Goto, K!InUserMode
<1>3. /\ pc[Producer] \in {"wait empty", "unlink empty", "unlink full"}
      /\ \A c \in Consumer : pc[c] \in {"unborn", "reaped"}
  <2>1. CASE UnlinkMutex
    BY <1>1, <2>1 DEF UnlinkMutex, Unlink, Goto, Children
  <2>2. CASE UnlinkEmpty \/ UnlinkFull
    BY <1>1, <2>2 DEF UnlinkEmpty, UnlinkFull, Unlink, Goto, UnlinkAfterReap
  <2>3. QED
    BY <2>1, <2>2
<1>4. pc'[Producer] = to /\ \A q \in Procs \ {Producer} : pc'[q] = pc[q]
  BY <1>1, <1>2 DEF VarTypes
<1>5. /\ m_value' = m_value /\ at' = at /\ state' = state /\ Dead' = Dead
  BY <1>2 DEF kernelVars, Dead
<1>6. VarTypes'
  <2>1. pc' \in [Procs -> Label]
    BY <1>1, <1>2 DEF VarTypes, Label, ProducerLabels
  <2>2. QED
    BY <1>1, <1>2, <1>5, <2>1 DEF VarTypes
<1>7. Labels'
  <2>1. pc'[Producer] \in ProducerLabels /\ \A d \in Consumer : pc'[d] \in ConsumerLabels
    BY <1>1, <1>4 DEF Labels, ProducerLabels
  <2>2. pc'[Producer] = "fork" => \A d \in Consumer : d > i => pc'[d] = "unborn"
    BY <1>2, <1>4
  <2>3. Suspended'
    BY <1>1, <1>2, <1>4, <1>5 DEF Labels, Suspended
  <2>4. \A q \in Dead' : pc'[q] \in {"gone", "reaped"}
    BY <1>1, <1>3, <1>4, <1>5 DEF Labels, Dead
  <2>5. \A q \in ioErrors : pc'[q] \in {"exit", "gone", "reaped"}
    BY <1>1, <1>3, <1>4 DEF VarTypes, Labels
  <2>6. QED
    BY <1>2, <2>1, <2>2, <2>3, <2>4, <2>5 DEF Labels
<1>8. Mutex'
  <2>1. \A q \in Procs : Holds(q)' <=> Holds(q)
    BY <1>2, <1>3, <1>4, <1>5 DEF Holds
  <2>2. QED
    BY <1>1, <1>5, <2>1, MutexByOne
<1>9. Removed' /\ UnlinkAfterReap'
  BY <1>1, <1>2, <1>3, <1>4 DEF Removed, UnlinkAfterReap
<1>10. QED
  BY <1>6, <1>7, <1>8, <1>9 DEF LockInv

\* The return from sleep_on, into sem_wait's loop.
LEMMA ResumeKeepsLock ==
    ASSUME LockInv, NEW p \in Procs, Resume(p)
    PROVE  LockInv'
<1> USE NullIsNobody, TwoPrograms DEF Sems
<1>1. VarTypes /\ Labels /\ Mutex /\ Removed /\ UnlinkAfterReap
  BY DEF LockInv
<1>2. UNCHANGED userVars /\ K!Resume(p)
  BY DEF Resume
<1>3. /\ at[p] \in Sems
      /\ state' \in [Procs -> K!TaskState] /\ Dead' \subseteq Dead
      /\ \/ /\ m_value[at[p]] > 0 /\ m_value' = [m_value EXCEPT ![at[p]] = @ - 1]
            /\ at' = [at EXCEPT ![p] = NULL]
         \/ m_value' = m_value /\ at' = at
  BY <1>1, <1>2, KernelResume
<1>4. CASE m_value' = m_value /\ at' = at
  <2>1. VarTypes'
    BY <1>1, <1>2, <1>3, <1>4 DEF VarTypes, userVars
  <2>2. Labels'
    BY <1>1, <1>2, <1>3, <1>4 DEF Labels, userVars, Suspended
  <2>3. Mutex'
    BY <1>1, <1>2, <1>4 DEF Mutex, Holds, userVars
  <2>4. QED
    BY <1>1, <1>2, <2>1, <2>2, <2>3 DEF LockInv, Removed, UnlinkAfterReap, userVars
<1>5. CASE /\ m_value[at[p]] > 0 /\ m_value' = [m_value EXCEPT ![at[p]] = @ - 1]
           /\ at' = [at EXCEPT ![p] = NULL]
  <2>1. at'[p] = NULL /\ \A q \in Procs \ {p} : at'[q] = at[q]
    BY <1>1, <1>5 DEF VarTypes
  <2>2. VarTypes'
    <3>1. at' \in [Procs -> Sems \cup {NULL}] /\ m_value' \in [Sems -> Nat]
      BY <1>1, <1>3, <1>5 DEF VarTypes
    <3>2. QED
      BY <1>1, <1>2, <1>3, <3>1 DEF VarTypes, userVars
  <2>3. Labels'
    <3>1. Suspended'
      BY <1>1, <1>2, <2>1 DEF Labels, Suspended, userVars
    <3>2. QED
      BY <1>1, <1>2, <1>3, <3>1 DEF Labels, userVars
  <2>4. \A q \in Procs \ {p} : Holds(q)' <=> Holds(q)
    BY <1>2, <2>1 DEF Holds, userVars
  <2>5. Mutex'
    <3>1. CASE at[p] = "bufferMutex"
      <4>1. m_value["bufferMutex"] > 0 /\ m_value'["bufferMutex"] = m_value["bufferMutex"] - 1
        BY <1>1, <1>5, <3>1 DEF VarTypes
      <4>2. pc[p] \in {"lseek slot", "lseek pos"}
        BY <1>1, <3>1 DEF Labels, Suspended
      <4>3. Holds(p)'
        BY <1>2, <2>1, <4>2 DEF Holds, userVars
      <4>4. QED
        BY <1>1, <2>4, <4>1, <4>3, MutexByOne
    <3>2. CASE at[p] # "bufferMutex"
      <4>1. m_value'["bufferMutex"] = m_value["bufferMutex"]
        BY <1>1, <1>3, <1>5, <3>2 DEF VarTypes
      <4>2. pc[p] = "wait mutex"
        BY <1>1, <1>3, <3>2 DEF Labels, Suspended
      <4>3. Holds(p)' <=> Holds(p)
        BY <1>2, <4>2 DEF Holds, userVars
      <4>4. QED
        BY <1>1, <2>4, <4>1, <4>3, MutexByOne
    <3>3. QED
      BY <3>1, <3>2
  <2>6. QED
    BY <1>1, <1>2, <2>2, <2>3, <2>5 DEF LockInv, Removed, UnlinkAfterReap, userVars
<1>6. QED
  BY <1>3, <1>4, <1>5
----------------------------------------------------------------------------
\* main's calls of lseek and write.
LEMMA MainFileCall ==
    ASSUME LockInv, ProducerLseek \/ ProducerWrite
    PROVE  LockInv'
<1> USE NullIsNobody, TwoPrograms
<1>1. VarTypes /\ Labels
  BY DEF LockInv
<1>2. PICK to \in {"write slot", "post mutex"} :
          /\ pc[Producer] \in {"lseek slot", "write slot"}
          /\ pc' = [pc EXCEPT ![Producer] = to]
          /\ K!InUserMode(Producer)
          /\ UNCHANGED <<kernelVars, i, linked, ioErrors>>
  BY DEF ProducerLseek, Lseek, ProducerWrite, Goto
<1>3. VarTypes'
  <2>1. pc' \in [Procs -> Label]
    BY <1>1, <1>2 DEF VarTypes, Label, ProducerLabels
  <2>2. QED
    BY <1>1, <1>2, <2>1 DEF VarTypes, kernelVars
<1>4. Producer \in Procs /\ Producer \notin Consumer /\ pc[Producer] \in Region /\ to \in Region
  BY <1>2 DEF Region
<1>5. to \in ProducerLabels
  BY <1>2 DEF ProducerLabels
<1>6. QED
  BY <1>2, <1>3, <1>4, <1>5, FileCallKeepsLock

\* consumer()'s calls of lseek, read and write.
LEMMA ConsumerFileCall ==
    ASSUME LockInv, NEW c \in Consumer,
           \/ ConsumerLseekPos(c) \/ ConsumerReadPos(c) \/ ConsumerLseekSlot(c)
           \/ ConsumerReadSlot(c) \/ ConsumerLseekStore(c) \/ ConsumerStorePos(c)
    PROVE  LockInv'
<1> USE NullIsNobody, TwoPrograms
<1>1. VarTypes /\ Labels
  BY DEF LockInv
<1>2. PICK to \in {"read pos", "post mutex, leave", "lseek slot", "read slot", "lseek store",
                   "store pos", "free others", "post mutex"} :
          /\ pc[c] \in {"lseek pos", "read pos", "lseek slot", "read slot", "lseek store",
                        "store pos"}
          /\ pc' = [pc EXCEPT ![c] = to]
          /\ K!InUserMode(c)
          /\ UNCHANGED <<kernelVars, i, linked, ioErrors>>
  <2>1. CASE ConsumerLseekPos(c) \/ ConsumerLseekSlot(c) \/ ConsumerLseekStore(c)
    BY <2>1 DEF ConsumerLseekPos, ConsumerLseekSlot, ConsumerLseekStore, Lseek, Goto
  <2>2. CASE ConsumerReadPos(c)
    BY <2>2 DEF ConsumerReadPos, Goto
  <2>3. CASE ConsumerReadSlot(c)
    BY <2>3 DEF ConsumerReadSlot, Goto
  <2>4. CASE ConsumerStorePos(c)
    BY <2>4 DEF ConsumerStorePos, Goto
  <2>5. QED
    BY <2>1, <2>2, <2>3, <2>4
<1>3. VarTypes'
  <2>1. pc' \in [Procs -> Label]
    BY <1>1, <1>2 DEF VarTypes, Label, ConsumerLabels
  <2>2. QED
    BY <1>1, <1>2, <2>1 DEF VarTypes, kernelVars
<1>4. c \in Procs /\ c # Producer /\ pc[c] \in Region /\ to \in Region
  BY <1>2 DEF Region
<1>5. to \in ConsumerLabels
  BY <1>2 DEF ConsumerLabels
<1>6. QED
  BY <1>2, <1>3, <1>4, <1>5, FileCallKeepsLock

\* Every step keeps the invariant of the lock.
LEMMA LockInvStep == LockInv /\ [PCNext]_pcVars => LockInv'
<1> SUFFICES ASSUME LockInv, [PCNext]_pcVars PROVE LockInv'
  OBVIOUS
<1> USE TwoPrograms
<1>1. CASE \/ ProducerWaitEmpty \/ ProducerWaitMutex
           \/ \E c \in Consumer : ConsumerWaitFull(c) \/ ConsumerWaitMutex(c)
  <2>1. PICK p, s, from, to : /\ p \in Procs /\ s \in Sems
                             /\ Waits(p, from, s, to) /\ Wait(p, from, s, to)
    <3>1. CASE ProducerWaitEmpty
      <4>1. Waits(Producer, "wait empty", "empty", "wait mutex")
            /\ Wait(Producer, "wait empty", "empty", "wait mutex")
        BY <3>1 DEF ProducerWaitEmpty, Waits
      <4>2. QED
        BY <4>1 DEF Sems
    <3>2. CASE ProducerWaitMutex
      <4>1. Waits(Producer, "wait mutex", "bufferMutex", "lseek slot")
            /\ Wait(Producer, "wait mutex", "bufferMutex", "lseek slot")
        BY <3>2 DEF ProducerWaitMutex, Waits
      <4>2. QED
        BY <4>1 DEF Sems
    <3>3. ASSUME NEW c \in Consumer, ConsumerWaitFull(c)
          PROVE  \E p \in Procs, s \in Sems : \E from, to :
                     Waits(p, from, s, to) /\ Wait(p, from, s, to)
      <4>1. Waits(c, "wait full", "full", "wait mutex") /\ Wait(c, "wait full", "full", "wait mutex")
        BY <3>3 DEF ConsumerWaitFull, Waits
      <4>2. QED
        BY <4>1 DEF Sems
    <3>4. ASSUME NEW c \in Consumer, ConsumerWaitMutex(c)
          PROVE  \E p \in Procs, s \in Sems : \E from, to :
                     Waits(p, from, s, to) /\ Wait(p, from, s, to)
      <4>1. Waits(c, "wait mutex", "bufferMutex", "lseek pos")
            /\ Wait(c, "wait mutex", "bufferMutex", "lseek pos")
        BY <3>4 DEF ConsumerWaitMutex, Waits
      <4>2. QED
        BY <4>1 DEF Sems
    <3>5. QED
      BY <1>1, <3>1, <3>2, <3>3, <3>4
  <2>2. QED
    BY <2>1, WaitKeepsLock
<1>2. CASE ProducerPostMutex \/ ProducerPostFull
  <2>1. PICK s, to : /\ s \in Sems /\ Posts(Producer, s, to) /\ K!SemPost(Producer, s)
                     /\ pc' = [pc EXCEPT ![Producer] = to]
                     /\ UNCHANGED <<i, linked, ioErrors>>
    BY <1>2 DEF ProducerPostMutex, ProducerPostFull, Post, Goto, Posts, Sems
  <2>2. QED
    BY <2>1, PostKeepsLock
<1>3. ASSUME NEW c \in Consumer,
             \/ ConsumerFreeOther(c) \/ ConsumerPostLast(c) \/ ConsumerPostLeave(c)
             \/ ConsumerPostMutex(c) \/ ConsumerPostEmpty(c)
      PROVE  LockInv'
  <2>1. PICK s, to : /\ s \in Sems /\ Posts(c, s, to) /\ K!SemPost(c, s)
                     /\ pc' = [pc EXCEPT ![c] = to]
                     /\ UNCHANGED <<i, linked, ioErrors>>
    <3>1. CASE ConsumerFreeOther(c)
      <4>1. pc \in [Procs -> Label]
        BY DEF LockInv, VarTypes
      <4>2. pc' = [pc EXCEPT ![c] = "free others"]
        BY <3>1, <4>1 DEF ConsumerFreeOther
      <4>3. Posts(c, "full", "free others") /\ K!SemPost(c, "full") /\ UNCHANGED <<i, linked, ioErrors>>
        BY <3>1 DEF ConsumerFreeOther, Posts
      <4>4. QED
        BY <4>2, <4>3 DEF Sems
    <3>2. CASE \/ ConsumerPostLast(c) \/ ConsumerPostLeave(c)
               \/ ConsumerPostMutex(c) \/ ConsumerPostEmpty(c)
      BY <3>2 DEF ConsumerPostLast, ConsumerPostLeave, ConsumerPostMutex, ConsumerPostEmpty,
                  Post, Goto, Posts, Sems
    <3>3. QED
      BY <1>3, <3>1, <3>2
  <2>2. QED
    BY <2>1, PostKeepsLock
<1>4. CASE ProducerLseek \/ ProducerWrite
  BY <1>4, MainFileCall
<1>5. ASSUME NEW c \in Consumer,
             \/ ConsumerLseekPos(c) \/ ConsumerReadPos(c) \/ ConsumerLseekSlot(c)
             \/ ConsumerReadSlot(c) \/ ConsumerLseekStore(c) \/ ConsumerStorePos(c)
      PROVE  LockInv'
  BY <1>5, ConsumerFileCall
<1>6. CASE UnlinkMutex \/ UnlinkEmpty \/ UnlinkFull
  BY <1>6, UnlinkKeepsLock
<1>7. ASSUME NEW c \in Consumer, Fork(c) \/ ForkFails(c) \/ Reap(c)
      PROVE  LockInv'
  BY <1>7, ForkKeepsLock, ReapKeepsLock DEF Fork, ForkFails
<1>8. ASSUME NEW p \in Procs, Resume(p) \/ Leave(p) \/ IOError(p)
      PROVE  LockInv'
  BY <1>8, ResumeKeepsLock, LeaveKeepsLock, IOErrorKeepsLock
<1>9. CASE UNCHANGED pcVars
  <2>1. UNCHANGED <<m_value, state, at, pc, i, ioErrors, linked>>
    BY <1>9 DEF pcVars, kernelVars, userVars
  <2>2. Dead' = Dead /\ \A p : Holds(p)' = Holds(p)
    BY <2>1 DEF Dead, Holds
  <2>3. VarTypes' /\ Labels'
    BY <2>1, <2>2 DEF LockInv, VarTypes, Labels, Suspended
  <2>4. Mutex' /\ Removed' /\ UnlinkAfterReap'
    BY <2>1, <2>2 DEF LockInv, Mutex, Removed, UnlinkAfterReap
  <2>5. QED
    BY <2>3, <2>4 DEF LockInv
<1>10. QED
  BY <1>1, <1>2, <1>3, <1>4, <1>5, <1>6, <1>7, <1>8, <1>9
     DEF PCNext, ProducerStep, ConsumerStep

\* At the start nobody holds the lock.
LEMMA LockInvInit == PCInit => LockInv
<1> SUFFICES ASSUME PCInit PROVE LockInv
  OBVIOUS
<1> USE NullIsNobody, SizeAssumption, TwoPrograms DEF PCInit
<1>1. VarTypes
  BY DEF VarTypes, Sems, Label, ProducerLabels, ConsumerLabels, K!TaskState, K!TASK_RUNNING
<1>2. Labels
  BY DEF Labels, Suspended, ProducerLabels, ConsumerLabels, Dead, K!TASK_RUNNING, K!TASK_ZOMBIE
<1>3. Mutex
  BY DEF Mutex, Holds, Sems
<1>4. QED
  BY <1>1, <1>2, <1>3 DEF LockInv, Removed, UnlinkAfterReap
----------------------------------------------------------------------------
\* The steps of pc.c are steps of the kernel, or leave it alone.

\* The kernel starts as module Semaphore says.
LEMMA KernelInit == PCInit => K!Init
<1> SUFFICES ASSUME PCInit PROVE K!Init
  OBVIOUS
<1>1. m_value \in [Sems -> 0..(MAX_DATA_NUMBER + BUFFER_SIZE + CHILD_NUMBER)]
  BY SizeAssumption DEF PCInit, Sems
<1>2. QED
  BY <1>1 DEF PCInit, K!Init

\* Every step of main and of a consumer is one of the kernel's steps.
LEMMA KernelStep == [PCNext]_pcVars => [KP!Next]_KP!vars
<1> SUFFICES ASSUME [PCNext]_pcVars PROVE [KP!Next]_KP!vars
  OBVIOUS
<1>0. Producer \in Procs /\ (\A c \in Consumer : c \in Procs)
      /\ "empty" \in Sems /\ "full" \in Sems /\ "bufferMutex" \in Sems
  BY TwoPrograms DEF Sems
<1>1. ASSUME NEW p \in Procs, NEW s \in Sems,
             \/ K!SemWaitAcquire(p, s) \/ K!SemWaitBlock(p, s) \/ K!SemPost(p, s)
             \/ K!Resume(p) \/ K!Exit(p)
      PROVE  KP!Next
  <2> USE DEF K!InUserMode, KP!InUserMode, K!WakeTmp, KP!WakeTmp, K!Enqueue, KP!Enqueue,
              K!WakeUp, KP!WakeUp, K!TASK_RUNNING, KP!TASK_RUNNING,
              K!TASK_UNINTERRUPTIBLE, KP!TASK_UNINTERRUPTIBLE, K!TASK_ZOMBIE, KP!TASK_ZOMBIE
  <2>1. /\ K!SemWaitAcquire(p, s) => KP!SemWaitAcquire(p, s)
        /\ K!SemWaitBlock(p, s) => KP!SemWaitBlock(p, s)
    BY ZenonT(30) DEF K!SemWaitAcquire, KP!SemWaitAcquire, K!SemWaitBlock, KP!SemWaitBlock
  <2>2. K!SemPost(p, s) => KP!SemPost(p, s)
    BY ZenonT(30) DEF K!SemPost, KP!SemPost
  <2>3. K!Exit(p) => KP!Exit(p)
    BY ZenonT(30) DEF K!Exit, KP!Exit
  <2>4. K!Resume(p) => \E t \in Sems : KP!ResumeAcquire(p, t) \/ KP!ResumeBlock(p, t)
    BY ZenonT(30) DEF K!Resume, K!ResumeAcquire, KP!ResumeAcquire, K!ResumeBlock, KP!ResumeBlock
  <2>5. QED
    BY <1>1, <2>1, <2>2, <2>3, <2>4 DEF KP!Next
<1>2. CASE UNCHANGED kernelVars
  BY <1>2 DEF kernelVars, KP!vars
<1>3. CASE \E p \in Procs : Resume(p) \/ Leave(p)
  BY <1>0, <1>1, <1>3 DEF Resume, Leave
<1>4. CASE ~UNCHANGED kernelVars /\ ProducerStep
  BY <1>0, <1>1, <1>4 DEF ProducerStep, ProducerWaitEmpty, ProducerWaitMutex, ProducerLseek, Lseek,
     ProducerWrite, ProducerPostMutex, ProducerPostFull, UnlinkMutex, UnlinkEmpty, UnlinkFull,
     Unlink, Fork, ForkFails, ForkTurn, Reap, Wait, Post
<1>5. ASSUME NEW c \in Consumer, ~UNCHANGED kernelVars, ConsumerStep(c)
      PROVE  KP!Next
  BY <1>0, <1>1, <1>5 DEF ConsumerStep, ConsumerWaitFull, ConsumerWaitMutex, ConsumerLseekPos, Lseek,
     ConsumerReadPos, ConsumerLseekSlot, ConsumerReadSlot, ConsumerLseekStore, ConsumerStorePos,
     ConsumerFreeOther, ConsumerPostLast, ConsumerPostLeave, ConsumerPostMutex, ConsumerPostEmpty,
     Wait, Post
<1>6. QED
  BY <1>2, <1>3, <1>4, <1>5 DEF PCNext, IOError, pcVars

\* pc.c finds the wait queues as SemaphoreProof proves them to be.
LEMMA QueuesKept == PCSpec => [](KP!TypeOK /\ KP!SleeperReferencedOnce)
<1>1. KP!NullAssumption /\ KP!BoundAssumption
  BY NullIsNobody, SizeAssumption DEF KP!NullAssumption, KP!BoundAssumption
<1>2. PCInit => KP!Init
  BY KernelInit DEF KP!Init, K!Init, KP!TASK_RUNNING, K!TASK_RUNNING
<1>3. KP!Safety => []KP!TypeOK /\ []KP!SleeperReferencedOnce
  BY <1>1, KP!TypeCorrect, KP!PointersExact
<1>4. QED
  BY <1>2, <1>3, KernelStep, PTL DEF PCSpec, KP!Safety

----------------------------------------------------------------------------
\* LockInv holds in every state.
LEMMA LockInvCorrect == PCSpec => []LockInv
BY LockInvInit, LockInvStep, PTL DEF PCSpec

\* At most one process is between sem_wait(bufferMutex) and its sem_post, for any
\* number of consumers and of failed I/O calls: no lseek is torn from the call
\* after it.
THEOREM LockIsExclusive == PCSpec => []MutualExclusion
<1>1. LockInv => MutualExclusion
  BY DEF LockInv, Mutex, MutualExclusion
<1>2. QED
  BY <1>1, LockInvCorrect, PTL

\* When main removes a semaphore, nobody waits on it or comes to wait on it.
THEOREM UnlinkedUnused == PCSpec => []UnlinkedIsUnused
<1>1. LockInv /\ KP!TypeOK /\ KP!SleeperReferencedOnce => UnlinkedIsUnused
  <2> SUFFICES ASSUME LockInv, KP!TypeOK, KP!SleeperReferencedOnce, NEW s \in Sems \ linked
               PROVE  /\ m_wait[s] = NULL
                      /\ \A c \in Consumer : pc[c] \in {"unborn", "reaped"}
    BY DEF UnlinkedIsUnused
  <2> USE NullIsNobody, TwoPrograms
  <2>1. /\ pc[Producer] \in {"unlink empty", "unlink full", "exit", "gone"}
        /\ \A c \in Consumer : pc[c] \in {"unborn", "reaped"}
    BY DEF LockInv, Removed, VarTypes
  <2>2. \A p \in Procs : at[p] = NULL
    BY <2>1 DEF LockInv, Labels, Suspended
  <2>3. m_wait[s] = NULL
    BY <2>2 DEF KP!SleeperReferencedOnce, KP!TypeOK, LockInv, VarTypes
  <2>4. QED
    BY <2>1, <2>3
<1>2. QED
  BY <1>1, LockInvCorrect, QueuesKept, PTL

----------------------------------------------------------------------------
\* Positions less than BUFFER_SIZE apart have slots of their own.
LEMMA Slots ==
    ASSUME NEW a \in Nat, NEW b \in Nat, a < b, b - a < BUFFER_SIZE
    PROVE  a % BUFFER_SIZE # b % BUFFER_SIZE
<1> SUFFICES ASSUME a % BUFFER_SIZE = b % BUFFER_SIZE PROVE FALSE
  OBVIOUS
<1> USE SizeAssumption
<1> DEFINE x == a \div BUFFER_SIZE
           y == b \div BUFFER_SIZE
<1>1. x \in Int /\ y \in Int
  OBVIOUS
<1>2. /\ a = BUFFER_SIZE * x + (a % BUFFER_SIZE)
      /\ b = BUFFER_SIZE * y + (b % BUFFER_SIZE)
      /\ a % BUFFER_SIZE \in Int
  OBVIOUS
<1> HIDE DEF x, y
<1>3. b - a = BUFFER_SIZE * (y - x)
  <2>1. BUFFER_SIZE * (y - x) = BUFFER_SIZE * y - BUFFER_SIZE * x
    BY <1>1
  <2>2. QED
    BY <1>1, <1>2, <2>1
<1>4. CASE y - x <= 0
  <2>1. BUFFER_SIZE * (y - x) <= 0
    BY <1>1, <1>4
  <2>2. QED
    BY <1>3, <2>1
<1>5. CASE y - x >= 1
  <2>1. BUFFER_SIZE * (y - x) >= BUFFER_SIZE
    BY <1>1, <1>5
  <2>2. QED
    BY <1>3, <2>1
<1>6. QED
  BY <1>1, <1>4, <1>5

\* A slot is not the word of the position.
LEMMA SlotInRing == ASSUME NEW a \in Nat PROVE a % BUFFER_SIZE \in 0..(BUFFER_SIZE - 1)
BY SizeAssumption

\* How the size of a set changes with the membership of one element.
LEMMA Tally ==
    ASSUME NEW S, NEW T, IsFiniteSet(S), NEW c, \A d : d # c => (d \in S <=> d \in T)
    PROVE  /\ Cardinality(S) \in Nat /\ Cardinality(T) \in Nat
           /\ Cardinality(T) + One(c \in S) = Cardinality(S) + One(c \in T)
<1>1. CASE c \in S <=> c \in T
  <2>1. S = T
    BY <1>1
  <2>2. QED
    BY <2>1, FS_CardinalityType DEF One
<1>2. CASE c \notin S /\ c \in T
  <2>1. T = S \cup {c}
    BY <1>2
  <2>2. QED
    BY <1>2, <2>1, FS_AddElement, FS_CardinalityType DEF One
<1>3. CASE c \in S /\ c \notin T
  <2>1. T = S \ {c}
    BY <1>3
  <2>2. IsFiniteSet(T) /\ Cardinality(T) = Cardinality(S) - 1
    BY <1>3, <2>1, FS_RemoveElement
  <2>3. Cardinality(S) \in Nat /\ Cardinality(T) \in Nat
    BY <2>2, FS_CardinalityType
  <2>4. QED
    BY <1>3, <2>2, <2>3 DEF One
<1>4. QED
  BY <1>1, <1>2, <1>3

\* The numbers that are added up.
LEMMA Numbers ==
    ASSUME LockInv, DataTypes
    PROVE  /\ m_value["empty"] \in Nat /\ m_value["full"] \in Nat
           /\ data \in Nat /\ Len(output) \in Nat
           /\ BUFFER_SIZE \in Nat /\ MAX_DATA_NUMBER \in Nat
           /\ IsFiniteSet(SlotsOwed) /\ IsFiniteSet(ItemsTaken)
           /\ Cardinality(SlotsOwed) \in Nat /\ Cardinality(ItemsTaken) \in Nat
           /\ TakesSlot \in {0, 1} /\ OwesItem \in {0, 1}
<1>1. IsFiniteSet(Consumer)
  BY SizeAssumption, FS_Interval DEF Consumer
<1>2. SlotsOwed \subseteq Consumer /\ ItemsTaken \subseteq Consumer
  BY DEF SlotsOwed, ItemsTaken
<1>3. IsFiniteSet(SlotsOwed) /\ IsFiniteSet(ItemsTaken)
  BY <1>1, <1>2, FS_Subset
<1>4. Cardinality(SlotsOwed) \in Nat /\ Cardinality(ItemsTaken) \in Nat
  BY <1>3, FS_CardinalityType
<1>5. TakesSlot \in {0, 1} /\ OwesItem \in {0, 1}
  BY DEF TakesSlot, OwesItem, One
<1>6. m_value["empty"] \in Nat /\ m_value["full"] \in Nat
  BY DEF LockInv, VarTypes, Sems
<1>7. data \in Nat /\ Len(output) \in Nat /\ BUFFER_SIZE \in Nat /\ MAX_DATA_NUMBER \in Nat
  BY SizeAssumption DEF DataTypes
<1>8. QED
  BY <1>3, <1>4, <1>5, <1>6, <1>7

\* The labels at which a consumer works on the file, or has just done so.
InFile == {"read pos", "lseek slot", "read slot", "lseek store", "store pos", "free others"}

\* Who holds the lock works on the file alone.
LEMMA Alone ==
    ASSUME LockInv, NEW p \in Procs, Holds(p)
    PROVE  /\ \A c \in Consumer \ {p} : pc[c] \notin InFile
           /\ p # Producer => pc[Producer] # "write slot"
           /\ p \notin ioErrors => ioErrors = {}
<1> USE NullIsNobody, TwoPrograms
<1>1. \A q \in Procs : Holds(q) => q = p
  BY DEF LockInv, Mutex
<1>2. \A c \in Consumer : pc[c] \in InFile => Holds(c)
  BY DEF LockInv, Labels, Suspended, InFile, Holds
<1>3. pc[Producer] = "write slot" => Holds(Producer)
  BY DEF LockInv, Labels, Suspended, Holds
<1>4. \A q \in ioErrors : q \in Procs /\ Holds(q)
  BY DEF LockInv, VarTypes, Holds
<1>5. QED
  BY <1>1, <1>2, <1>3, <1>4
----------------------------------------------------------------------------
\* A step that leaves the file, the data and what is printed alone: whoever moves
\* does not come to work on the file, and has not been in the middle of a store
\* unless it fails.
LEMMA QuietKeepsFile ==
    ASSUME LockInv, FileInv,
           UNCHANGED <<buffer, f_pos, data, consumerPos, output>>,
           ioErrors' = ioErrors \/ ioErrors' # {},
           \/ pc'[Producer] = pc[Producer]
           \/ pc'[Producer] \notin {"wait mutex", "lseek slot", "write slot"}
           \/ pc'[Producer] \in {"wait mutex", "lseek slot"} /\ data < MAX_DATA_NUMBER,
           \A c \in Consumer :
              \/ pc'[c] = pc[c]
              \/ /\ pc'[c] \notin InFile
                 /\ pc[c] \notin {"lseek store", "store pos"} \/ ioErrors' # {}
    PROVE  FileInv'
<1>1. DataTypes' /\ Len(output') <= data' /\ ConsumedInOrder'
  BY DEF FileInv, DataTypes, ConsumedInOrder
<1>2. ProducerPlace'
  BY DEF FileInv, ProducerPlace
<1>3. ASSUME NEW c \in Consumer PROVE ConsumerPlace(c)'
  <2>1. ConsumerPlace(c)
    BY DEF FileInv
  <2>2. CASE pc'[c] = pc[c]
    BY <2>1, <2>2 DEF ConsumerPlace
  <2>3. CASE pc'[c] \notin InFile
    BY <2>3 DEF ConsumerPlace, InFile
  <2>4. QED
    BY <2>2, <2>3
<1>4. Stored'
  BY DEF FileInv, Stored
<1>5. QED
  BY <1>1, <1>2, <1>3, <1>4 DEF FileInv

\* The accounts, when consumer c moves alone.
LEMMA ConsumerAccounts ==
    ASSUME LockInv, OrderInv, NEW c \in Consumer,
           \A q \in Procs \ {c} : pc'[q] = pc[q] /\ at'[q] = at[q],
           data' = data, m_value'["empty"] \in Int, m_value'["full"] \in Int, Len(output') \in Int,
           m_value'["empty"] - Len(output') + OwesSlot(c)'
              <= m_value["empty"] - Len(output) + OwesSlot(c),
           \/ Len(output') = MAX_DATA_NUMBER
           \/ /\ Len(output) # MAX_DATA_NUMBER
              /\ m_value'["full"] + TakesItem(c)' + Len(output')
                    <= m_value["full"] + TakesItem(c) + Len(output)
    PROVE  SlotsAddUp' /\ ItemsAddUp'
<1> USE TwoPrograms
<1>1. DataTypes /\ SlotsAddUp /\ ItemsAddUp
  BY DEF OrderInv, FileInv
<1>0. /\ m_value["empty"] \in Nat /\ m_value["full"] \in Nat
      /\ data \in Nat /\ Len(output) \in Nat
      /\ BUFFER_SIZE \in Nat /\ MAX_DATA_NUMBER \in Nat
      /\ IsFiniteSet(SlotsOwed) /\ IsFiniteSet(ItemsTaken)
      /\ Cardinality(SlotsOwed) \in Nat /\ Cardinality(ItemsTaken) \in Nat
      /\ TakesSlot \in {0, 1} /\ OwesItem \in {0, 1}
  BY <1>1, Numbers
<1>2. TakesSlot' = TakesSlot /\ OwesItem' = OwesItem
  BY DEF TakesSlot, OwesItem
<1>7. /\ OwesSlot(c) \in {0, 1} /\ TakesItem(c) \in {0, 1}
      /\ OwesSlot(c)' \in {0, 1} /\ TakesItem(c)' \in {0, 1}
  BY DEF OwesSlot, TakesItem, One
<1>3. \A d \in Consumer \ {c} : OwesSlot(d)' = OwesSlot(d) /\ TakesItem(d)' = TakesItem(d)
  BY DEF OwesSlot, TakesItem
<1>4. /\ \A d : d # c => (d \in SlotsOwed <=> d \in SlotsOwed')
      /\ \A d : d # c => (d \in ItemsTaken <=> d \in ItemsTaken')
      /\ (c \in SlotsOwed <=> OwesSlot(c) = 1) /\ (c \in SlotsOwed' <=> OwesSlot(c)' = 1)
      /\ (c \in ItemsTaken <=> TakesItem(c) = 1) /\ (c \in ItemsTaken' <=> TakesItem(c)' = 1)
  BY <1>3 DEF SlotsOwed, ItemsTaken
<1>5. /\ Cardinality(SlotsOwed') \in Nat
      /\ Cardinality(SlotsOwed') + OwesSlot(c) = Cardinality(SlotsOwed) + OwesSlot(c)'
  <2>1. /\ Cardinality(SlotsOwed') \in Nat
        /\ Cardinality(SlotsOwed') + One(c \in SlotsOwed)
              = Cardinality(SlotsOwed) + One(c \in SlotsOwed')
    BY <1>0, <1>4, Tally
  <2>2. QED
    BY <1>4, <1>7, <2>1 DEF One
<1>6. /\ Cardinality(ItemsTaken') \in Nat
      /\ Cardinality(ItemsTaken') + TakesItem(c) = Cardinality(ItemsTaken) + TakesItem(c)'
  <2>1. /\ Cardinality(ItemsTaken') \in Nat
        /\ Cardinality(ItemsTaken') + One(c \in ItemsTaken)
              = Cardinality(ItemsTaken) + One(c \in ItemsTaken')
    BY <1>0, <1>4, Tally
  <2>2. QED
    BY <1>4, <1>7, <2>1 DEF One
<1> DEFINE e == m_value["empty"]   e2 == m_value'["empty"]
           f == m_value["full"]    f2 == m_value'["full"]
           n == Len(output)        n2 == Len(output')
           s == OwesSlot(c)        s2 == OwesSlot(c)'
           t == TakesItem(c)       t2 == TakesItem(c)'
           k == Cardinality(SlotsOwed)    k2 == Cardinality(SlotsOwed')
           m == Cardinality(ItemsTaken)   m2 == Cardinality(ItemsTaken')
<1>8. /\ e \in Nat /\ e2 \in Int /\ n \in Nat /\ n2 \in Int /\ s \in {0, 1} /\ s2 \in {0, 1}
      /\ k \in Nat /\ k2 \in Nat /\ k2 + s = k + s2
      /\ e2 - n2 + s2 <= e - n + s
  BY <1>0, <1>5, <1>7
<1>9. /\ f \in Nat /\ f2 \in Int /\ n \in Nat /\ n2 \in Int /\ t \in {0, 1} /\ t2 \in {0, 1}
      /\ m \in Nat /\ m2 \in Nat /\ m2 + t = m + t2
      /\ \/ n2 = MAX_DATA_NUMBER
         \/ n # MAX_DATA_NUMBER /\ f2 + t2 + n2 <= f + t + n
  BY <1>0, <1>6, <1>7
<1>10. /\ e + TakesSlot + (data - n) + k <= BUFFER_SIZE
       /\ n = MAX_DATA_NUMBER \/ f + m + OwesItem <= data - n
  BY <1>1 DEF SlotsAddUp, ItemsAddUp
<1> HIDE DEF e, e2, f, f2, n, n2, s, s2, t, t2, k, k2, m, m2
<1>11. e2 + TakesSlot + (data - n2) + k2 <= BUFFER_SIZE
  BY <1>0, <1>8, <1>10
<1>12. n2 = MAX_DATA_NUMBER \/ f2 + m2 + OwesItem <= data - n2
  BY <1>0, <1>9, <1>10
<1>13. QED
  BY <1>2, <1>11, <1>12 DEF SlotsAddUp, ItemsAddUp, e2, f2, n2, k2, m2

\* The accounts, when main moves alone.
LEMMA ProducerAccounts ==
    ASSUME LockInv, OrderInv, UNCHANGED output,
           \A c \in Consumer : OwesSlot(c)' = OwesSlot(c) /\ TakesItem(c)' = TakesItem(c),
           m_value'["empty"] \in Int, m_value'["full"] \in Int, data' \in Int,
           m_value'["empty"] + TakesSlot' + data' <= m_value["empty"] + TakesSlot + data,
           m_value'["full"] + OwesItem' - data' <= m_value["full"] + OwesItem - data
    PROVE  SlotsAddUp' /\ ItemsAddUp'
<1>1. DataTypes /\ SlotsAddUp /\ ItemsAddUp
  BY DEF OrderInv, FileInv
<1>0. /\ m_value["empty"] \in Nat /\ m_value["full"] \in Nat
      /\ data \in Nat /\ Len(output) \in Nat
      /\ BUFFER_SIZE \in Nat /\ MAX_DATA_NUMBER \in Nat
      /\ IsFiniteSet(SlotsOwed) /\ IsFiniteSet(ItemsTaken)
      /\ Cardinality(SlotsOwed) \in Nat /\ Cardinality(ItemsTaken) \in Nat
      /\ TakesSlot \in {0, 1} /\ OwesItem \in {0, 1}
  BY <1>1, Numbers
<1>2. SlotsOwed' = SlotsOwed /\ ItemsTaken' = ItemsTaken
  BY DEF SlotsOwed, ItemsTaken
<1>3. TakesSlot' \in {0, 1} /\ OwesItem' \in {0, 1}
  BY DEF TakesSlot, OwesItem, One
<1> DEFINE e == m_value["empty"]   e2 == m_value'["empty"]
           f == m_value["full"]    f2 == m_value'["full"]
           n == Len(output)        d == data        d2 == data'
           s == TakesSlot          s2 == TakesSlot'
           t == OwesItem           t2 == OwesItem'
           k == Cardinality(SlotsOwed)
           m == Cardinality(ItemsTaken)
<1>4. /\ e \in Nat /\ e2 \in Int /\ n \in Nat /\ s \in {0, 1} /\ s2 \in {0, 1}
      /\ k \in Nat /\ d \in Nat /\ d2 \in Int
      /\ e2 + s2 + d2 <= e + s + d
  BY <1>0, <1>3
<1>5. /\ f \in Nat /\ f2 \in Int /\ t \in {0, 1} /\ t2 \in {0, 1} /\ m \in Nat
      /\ f2 + t2 - d2 <= f + t - d
  BY <1>0, <1>3
<1>6. /\ e + s + (d - n) + k <= BUFFER_SIZE
      /\ n = MAX_DATA_NUMBER \/ f + m + t <= d - n
  BY <1>1 DEF SlotsAddUp, ItemsAddUp
<1> HIDE DEF e, e2, f, f2, n, d, d2, s, s2, t, t2, k, m
<1>7. e2 + s2 + (d2 - n) + k <= BUFFER_SIZE
  BY <1>0, <1>4, <1>6
<1>8. n = MAX_DATA_NUMBER \/ f2 + m + t2 <= d2 - n
  BY <1>0, <1>4, <1>5, <1>6
<1>9. QED
  BY <1>2, <1>7, <1>8 DEF SlotsAddUp, ItemsAddUp, e2, f2, n, d2, s2, t2, k, m
\* A step of main that leaves the file alone.
LEMMA MainKeepsOrder ==
    ASSUME LockInv, OrderInv,
           UNCHANGED <<buffer, f_pos, data, consumerPos, output>>,
           ioErrors' = ioErrors \/ ioErrors' # {},
           \A c \in Consumer :
              /\ OwesSlot(c)' = OwesSlot(c) /\ TakesItem(c)' = TakesItem(c)
              /\ \/ pc'[c] = pc[c]
                 \/ /\ pc'[c] \notin InFile
                    /\ pc[c] \notin {"lseek store", "store pos"} \/ ioErrors' # {},
           \/ pc'[Producer] = pc[Producer]
           \/ pc'[Producer] \notin {"wait mutex", "lseek slot", "write slot"}
           \/ pc'[Producer] \in {"wait mutex", "lseek slot"} /\ data < MAX_DATA_NUMBER,
           m_value'["empty"] \in Int, m_value'["full"] \in Int,
           m_value'["empty"] + TakesSlot' <= m_value["empty"] + TakesSlot,
           m_value'["full"] + OwesItem' <= m_value["full"] + OwesItem
    PROVE  OrderInv'
<1>1. FileInv /\ DataTypes
  BY DEF OrderInv, FileInv
<1>2. FileInv'
  BY <1>1, QuietKeepsFile
<1>3. /\ m_value["empty"] \in Nat /\ m_value["full"] \in Nat
      /\ data \in Nat /\ data' = data /\ output' = output
  BY <1>1, Numbers
<1>4. TakesSlot \in {0, 1} /\ TakesSlot' \in {0, 1} /\ OwesItem \in {0, 1} /\ OwesItem' \in {0, 1}
  BY DEF TakesSlot, OwesItem, One
<1> DEFINE e == m_value["empty"]   e2 == m_value'["empty"]
           f == m_value["full"]    f2 == m_value'["full"]
           s == TakesSlot          s2 == TakesSlot'
           t == OwesItem           t2 == OwesItem'
           d == data               d2 == data'
<1>5. /\ e \in Nat /\ e2 \in Int /\ f \in Nat /\ f2 \in Int /\ d \in Nat /\ d2 = d
      /\ s \in {0, 1} /\ s2 \in {0, 1} /\ t \in {0, 1} /\ t2 \in {0, 1}
      /\ e2 + s2 <= e + s /\ f2 + t2 <= f + t
  BY <1>3, <1>4
<1>6. e2 + s2 + d2 <= e + s + d /\ f2 + t2 - d2 <= f + t - d /\ d2 \in Int
  <2> HIDE DEF e, e2, f, f2, s, s2, t, t2, d, d2
  <2>1. e2 + s2 + d2 <= e + s + d
    BY ONLY <1>5
  <2>2. f2 + t2 - d2 <= f + t - d
    BY ONLY <1>5
  <2>3. QED
    BY ONLY <1>5, <2>1, <2>2
<1>7. SlotsAddUp' /\ ItemsAddUp'
  BY <1>3, <1>6, ProducerAccounts
<1>8. QED
  BY <1>2, <1>7 DEF OrderInv

\* A step of a consumer that leaves the file alone.
LEMMA ConsumerKeepsOrder ==
    ASSUME LockInv, OrderInv, NEW c \in Consumer,
           UNCHANGED <<buffer, f_pos, data, consumerPos, output>>,
           ioErrors' = ioErrors \/ ioErrors' # {},
           \A q \in Procs \ {c} : pc'[q] = pc[q] /\ at'[q] = at[q],
           \/ pc'[c] = pc[c]
           \/ /\ pc'[c] \notin InFile
              /\ pc[c] \notin {"lseek store", "store pos"} \/ ioErrors' # {},
           m_value'["empty"] \in Int, m_value'["full"] \in Int,
           m_value'["empty"] + OwesSlot(c)' <= m_value["empty"] + OwesSlot(c),
           \/ Len(output) = MAX_DATA_NUMBER
           \/ m_value'["full"] + TakesItem(c)' <= m_value["full"] + TakesItem(c)
    PROVE  OrderInv'
<1>1. FileInv /\ DataTypes
  BY DEF OrderInv, FileInv
<1>2. FileInv'
  BY <1>1, TwoPrograms, QuietKeepsFile
<1>3. m_value["empty"] \in Nat /\ m_value["full"] \in Nat /\ Len(output) \in Nat
  BY <1>1, Numbers
<1>4. /\ OwesSlot(c) \in {0, 1} /\ OwesSlot(c)' \in {0, 1}
      /\ TakesItem(c) \in {0, 1} /\ TakesItem(c)' \in {0, 1}
  BY DEF OwesSlot, TakesItem, One
<1> DEFINE e == m_value["empty"]   e2 == m_value'["empty"]
           f == m_value["full"]    f2 == m_value'["full"]
           s == OwesSlot(c)        s2 == OwesSlot(c)'
           t == TakesItem(c)       t2 == TakesItem(c)'
           n == Len(output)        n2 == Len(output')
<1>5. /\ e \in Nat /\ e2 \in Int /\ f \in Nat /\ f2 \in Int /\ n \in Nat /\ n2 = n
      /\ s \in {0, 1} /\ s2 \in {0, 1} /\ t \in {0, 1} /\ t2 \in {0, 1}
      /\ e2 + s2 <= e + s
      /\ n = MAX_DATA_NUMBER \/ f2 + t2 <= f + t
  BY <1>3, <1>4
<1>6. /\ e2 - n2 + s2 <= e - n + s
      /\ \/ n2 = MAX_DATA_NUMBER
         \/ n # MAX_DATA_NUMBER /\ f2 + t2 + n2 <= f + t + n
  <2> HIDE DEF e, e2, f, f2, s, s2, t, t2, n, n2
  <2>1. e2 - n2 + s2 <= e - n + s
    BY ONLY <1>5
  <2>2. f2 + t2 <= f + t => f2 + t2 + n2 <= f + t + n
    BY ONLY <1>5
  <2>3. QED
    BY <1>5, <2>1, <2>2
<1>7. SlotsAddUp' /\ ItemsAddUp'
  <2>1. data' = data /\ output' = output
    OBVIOUS
  <2>2. Len(output') \in Int
    BY ONLY <1>3, <2>1
  <2>3. QED
    BY <1>3, <1>6, <2>1, <2>2, ConsumerAccounts
<1>8. QED
  BY <1>2, <1>7 DEF OrderInv

----------------------------------------------------------------------------
\* A call of sem_wait.
LEMMA WaitKeepsOrder ==
    ASSUME LockInv, OrderInv, NEW p \in Procs, NEW s \in Sems, NEW from, NEW to,
           Waits(p, from, s, to), Wait(p, from, s, to)
    PROVE  OrderInv'
<1> USE NullIsNobody, TwoPrograms DEF Sems
<1>1. VarTypes /\ FileInv /\ DataTypes
  BY DEF LockInv, OrderInv, FileInv
<1>2. /\ pc[p] = from /\ pc'[p] = to
      /\ \A q \in Procs \ {p} : pc'[q] = pc[q]
      /\ UNCHANGED <<buffer, f_pos, data, consumerPos, output, ioErrors>>
  BY <1>1 DEF Wait, Goto, VarTypes
<1>3. /\ at[p] = NULL
      /\ \/ /\ m_value[s] > 0 /\ m_value' = [m_value EXCEPT ![s] = @ - 1]
            /\ at' = at
         \/ m_value' = m_value /\ at' = [at EXCEPT ![p] = s]
  BY <1>1, KernelWait DEF Wait
<1>4. /\ m_value[s] \in Nat /\ m_value'[s] \in Int /\ \A t \in Sems \ {s} : m_value'[t] = m_value[t]
      /\ \A q \in Procs \ {p} : at'[q] = at[q]
      /\ \/ at'[p] = NULL /\ m_value'[s] = m_value[s] - 1
         \/ at'[p] = s /\ m_value'[s] = m_value[s]
  BY <1>1, <1>3 DEF VarTypes
<1>5. m_value["empty"] \in Nat /\ m_value["full"] \in Nat /\ data \in Nat /\ Len(output) \in Nat
  BY <1>1, Numbers
<1>6. /\ \/ pc'[Producer] = pc[Producer]
         \/ pc'[Producer] \in {"wait mutex", "lseek slot"} /\ data < MAX_DATA_NUMBER
      /\ \A c \in Consumer :
           \/ pc'[c] = pc[c]
           \/ pc'[c] \notin InFile /\ pc[c] \notin {"lseek store", "store pos"}
  BY <1>1, <1>2 DEF Waits, FileInv, ProducerPlace, InFile
<1>7. CASE p = Producer
  <2>1. \A c \in Consumer : pc'[c] = pc[c] /\ OwesSlot(c)' = OwesSlot(c) /\ TakesItem(c)' = TakesItem(c)
    BY <1>2, <1>4, <1>7 DEF OwesSlot, TakesItem
  <2>2. OwesItem' = 0 /\ OwesItem = 0 /\ m_value'["full"] = m_value["full"]
    BY <1>2, <1>4, <1>7 DEF OwesItem, One, Waits
  <2>3. m_value'["empty"] \in Int /\ m_value'["empty"] + TakesSlot' <= m_value["empty"] + TakesSlot
    <3>1. CASE s = "empty"
      <4>1. TakesSlot = 0 /\ TakesSlot' = One(at'[p] # "empty")
        BY <1>2, <1>7, <3>1 DEF TakesSlot, One, Waits
      <4>2. QED
        BY <1>4, <3>1, <4>1 DEF One
    <3>2. CASE s = "bufferMutex"
      <4>1. TakesSlot = 1 /\ TakesSlot' = 1
        BY <1>2, <1>3, <1>7, <3>2 DEF TakesSlot, One, Waits
      <4>2. QED
        BY <1>4, <1>5, <3>2, <4>1
    <3>3. QED
      BY <1>7, <3>1, <3>2 DEF Waits
  <2>4. m_value'["full"] \in Int /\ m_value'["full"] + OwesItem' <= m_value["full"] + OwesItem
    BY <1>5, <2>2
  <2>5. QED
    BY <1>2, <1>6, <2>1, <2>3, <2>4, MainKeepsOrder
<1>8. CASE p \in Consumer
  <2>1. OwesSlot(p) = 0 /\ OwesSlot(p)' = 0 /\ m_value'["empty"] = m_value["empty"]
    BY <1>2, <1>4, <1>8 DEF OwesSlot, One, Waits
  <2>2. m_value'["full"] \in Int /\ m_value'["full"] + TakesItem(p)' <= m_value["full"] + TakesItem(p)
    <3>1. CASE s = "full"
      <4>1. TakesItem(p) = 0 /\ TakesItem(p)' = One(at'[p] # "full")
        BY <1>2, <1>8, <3>1 DEF TakesItem, One, Waits
      <4>2. QED
        BY <1>4, <3>1, <4>1 DEF One
    <3>2. CASE s = "bufferMutex"
      <4>1. TakesItem(p) = 1 /\ TakesItem(p)' = 1
        BY <1>2, <1>3, <1>8, <3>2 DEF TakesItem, One, Waits
      <4>2. QED
        BY <1>4, <1>5, <3>2, <4>1
    <3>3. QED
      BY <1>8, <3>1, <3>2 DEF Waits
  <2>3. m_value'["empty"] \in Int /\ m_value'["empty"] + OwesSlot(p)' <= m_value["empty"] + OwesSlot(p)
    BY <1>5, <2>1
  <2>4. QED
    BY <1>2, <1>4, <1>6, <1>8, <2>2, <2>3, ConsumerKeepsOrder
<1>9. QED
  BY <1>7, <1>8
\* A call of sem_post.
LEMMA PostKeepsOrder ==
    ASSUME LockInv, OrderInv, NEW p \in Procs, NEW s \in Sems, NEW to,
           Posts(p, s, to), K!SemPost(p, s), pc' = [pc EXCEPT ![p] = to],
           UNCHANGED <<buffer, f_pos, data, consumerPos, output, ioErrors>>
    PROVE  OrderInv'
<1> USE NullIsNobody, TwoPrograms DEF Sems
<1>1. VarTypes /\ FileInv /\ DataTypes
  BY DEF LockInv, OrderInv, FileInv
<1>2. /\ pc'[p] = to
      /\ \A q \in Procs \ {p} : pc'[q] = pc[q] /\ at'[q] = at[q]
      /\ m_value[s] \in Nat /\ m_value'[s] = m_value[s] + 1
      /\ \A t \in Sems \ {s} : m_value'[t] = m_value[t]
  <2>1. m_value' = [m_value EXCEPT ![s] = @ + 1] /\ at' = at
    BY <1>1, KernelPost
  <2>2. QED
    BY <1>1, <2>1 DEF VarTypes
<1>3. m_value["empty"] \in Nat /\ m_value["full"] \in Nat
  BY <1>1, Numbers
<1>4. m_value'["empty"] \in Int /\ m_value'["full"] \in Int
  BY ONLY <1>2, <1>3 DEF Sems
<1>5. CASE p = Producer
  <2>1. \A c \in Consumer : pc'[c] = pc[c] /\ OwesSlot(c)' = OwesSlot(c) /\ TakesItem(c)' = TakesItem(c)
    BY <1>2, <1>5 DEF OwesSlot, TakesItem
  <2>2. pc'[Producer] \notin {"wait mutex", "lseek slot", "write slot"}
    BY <1>2, <1>5 DEF Posts
  <2>3. TakesSlot = 0 /\ TakesSlot' = 0 /\ m_value'["empty"] = m_value["empty"]
    BY <1>2, <1>5 DEF TakesSlot, One, Posts
  <2>4. OwesItem = 1 /\ IF s = "full" THEN OwesItem' = 0 ELSE s = "bufferMutex" /\ OwesItem' = 1
    BY <1>2, <1>5 DEF OwesItem, One, Posts
  <2>5. /\ m_value'["empty"] + TakesSlot' <= m_value["empty"] + TakesSlot
        /\ m_value'["full"] + OwesItem' <= m_value["full"] + OwesItem
    BY ONLY <1>2, <1>3, <2>3, <2>4 DEF Sems
  <2>6. QED
    BY <1>4, <2>1, <2>2, <2>5, MainKeepsOrder
<1>6. CASE p \in Consumer
  <2>1. \/ pc'[p] = pc[p]
        \/ pc'[p] \notin InFile /\ pc[p] \notin {"lseek store", "store pos"}
    BY <1>2, <1>6 DEF Posts, InFile
  <2>2. TakesItem(p) = 0 /\ TakesItem(p)' = 0
    BY <1>2, <1>6 DEF TakesItem, One, Posts
  <2>3. s = "full" => Len(output) = MAX_DATA_NUMBER
    BY <1>1, <1>6 DEF Posts, FileInv, ConsumerPlace
  <2>4. /\ OwesSlot(p) \in {0, 1}
        /\ IF s = "empty" THEN OwesSlot(p) = 1 /\ OwesSlot(p)' = 0 ELSE OwesSlot(p)' = OwesSlot(p)
    BY <1>2, <1>6 DEF OwesSlot, One, Posts
  <2>5. /\ m_value'["empty"] + OwesSlot(p)' <= m_value["empty"] + OwesSlot(p)
        /\ \/ Len(output) = MAX_DATA_NUMBER
           \/ m_value'["full"] + TakesItem(p)' <= m_value["full"] + TakesItem(p)
    BY ONLY <1>2, <1>3, <2>2, <2>3, <2>4 DEF Sems
  <2>6. QED
    BY <1>2, <1>4, <1>6, <2>1, <2>5, ConsumerKeepsOrder
<1>7. QED
  BY <1>5, <1>6

\* The return from sleep_on.
LEMMA ResumeKeepsOrder ==
    ASSUME LockInv, OrderInv, NEW p \in Procs, Resume(p)
    PROVE  OrderInv'
<1> USE NullIsNobody, TwoPrograms DEF Sems
<1>1. VarTypes /\ Labels /\ FileInv /\ DataTypes
  BY DEF LockInv, OrderInv, FileInv
<1>2. /\ UNCHANGED <<pc, buffer, f_pos, data, consumerPos, output, ioErrors>>
      /\ K!Resume(p)
  BY DEF Resume, userVars
<1>3. PICK s \in Sems :
        /\ at[p] = s /\ m_value[s] \in Nat
        /\ \A t \in Sems \ {s} : m_value'[t] = m_value[t]
        /\ \A q \in Procs \ {p} : at'[q] = at[q]
        /\ \/ at'[p] = NULL /\ m_value'[s] = m_value[s] - 1
           \/ at'[p] = s /\ m_value'[s] = m_value[s]
  <2>1. /\ at[p] \in Sems
        /\ \/ /\ m_value[at[p]] > 0 /\ m_value' = [m_value EXCEPT ![at[p]] = @ - 1]
              /\ at' = [at EXCEPT ![p] = NULL]
           \/ m_value' = m_value /\ at' = at
    BY <1>1, <1>2, KernelResume
  <2>2. QED
    BY <1>1, <2>1 DEF VarTypes
<1>4. m_value["empty"] \in Nat /\ m_value["full"] \in Nat
  BY <1>1, Numbers
<1>5. m_value'["empty"] \in Int /\ m_value'["full"] \in Int
  BY ONLY <1>3, <1>4 DEF Sems
<1>6. /\ UNCHANGED <<buffer, f_pos, data, consumerPos, output, ioErrors>>
      /\ \A q \in Procs : pc'[q] = pc[q]
  BY <1>2
<1>7. CASE p = Producer
  <2>1. \A c \in Consumer : pc'[c] = pc[c] /\ OwesSlot(c)' = OwesSlot(c) /\ TakesItem(c)' = TakesItem(c)
    BY <1>3, <1>6, <1>7 DEF OwesSlot, TakesItem
  <2>2. OwesItem' = OwesItem /\ OwesItem \in {0, 1}
    BY <1>6 DEF OwesItem, One
  <2>3. /\ s = "bufferMutex" => TakesSlot = 1 /\ TakesSlot' = 1
        /\ s = "empty" => TakesSlot = 0 /\ TakesSlot' = One(at'[p] # "empty")
        /\ s # "full"
    BY <1>1, <1>3, <1>6, <1>7 DEF TakesSlot, One, Labels, Suspended
  <2>4. /\ m_value'["empty"] + TakesSlot' <= m_value["empty"] + TakesSlot
        /\ m_value'["full"] + OwesItem' <= m_value["full"] + OwesItem
    BY ONLY <1>3, <1>4, <2>2, <2>3, NullIsNobody DEF Sems, One
  <2>5. QED
    BY <1>5, <1>6, <2>1, <2>4, MainKeepsOrder
<1>8. CASE p \in Consumer
  <2>1. OwesSlot(p)' = OwesSlot(p) /\ OwesSlot(p) \in {0, 1}
    BY <1>6, <1>8 DEF OwesSlot, One
  <2>2. /\ s = "bufferMutex" => TakesItem(p) = 1 /\ TakesItem(p)' = 1
        /\ s = "full" => TakesItem(p) = 0 /\ TakesItem(p)' = One(at'[p] # "full")
        /\ s # "empty"
    BY <1>1, <1>3, <1>6, <1>8 DEF TakesItem, One, Labels, Suspended
  <2>3. /\ m_value'["empty"] + OwesSlot(p)' <= m_value["empty"] + OwesSlot(p)
        /\ m_value'["full"] + TakesItem(p)' <= m_value["full"] + TakesItem(p)
    BY ONLY <1>3, <1>4, <2>1, <2>2, NullIsNobody DEF Sems, One
  <2>4. QED
    BY <1>3, <1>5, <1>6, <1>8, <2>3, ConsumerKeepsOrder
<1>9. QED
  BY <1>7, <1>8

\* Steps that touch neither the file nor a semaphore, other than an I/O error:
\* fork and waitpid, which move a child, sem_unlink and exit.
LEMMA OtherCallKeepsOrder ==
    ASSUME LockInv, OrderInv, m_value' = m_value, at' = at,
           UNCHANGED <<buffer, f_pos, data, consumerPos, output, ioErrors>>,
           \/ pc'[Producer] = pc[Producer]
           \/ pc'[Producer] \in {"fork", "wait empty", "unlink empty", "unlink full", "exit", "gone"},
           \A c \in Consumer :
              \/ pc'[c] = pc[c]
              \/ /\ pc[c] \in {"unborn", "exit", "gone", "reaped"}
                 /\ pc'[c] \in {"unborn", "wait full", "gone", "reaped"}
    PROVE  OrderInv'
<1>1. m_value["empty"] \in Nat /\ m_value["full"] \in Nat
  BY Numbers DEF OrderInv, FileInv
<1>2. ASSUME NEW c \in Consumer
      PROVE  /\ OwesSlot(c)' = OwesSlot(c) /\ TakesItem(c)' = TakesItem(c)
             /\ \/ pc'[c] = pc[c]
                \/ pc'[c] \notin InFile /\ pc[c] \notin {"lseek store", "store pos"}
  <2>1. CASE pc'[c] = pc[c]
    BY <2>1 DEF OwesSlot, TakesItem
  <2>2. CASE /\ pc[c] \in {"unborn", "exit", "gone", "reaped"}
             /\ pc'[c] \in {"unborn", "wait full", "gone", "reaped"}
    BY <2>2 DEF OwesSlot, TakesItem, One, InFile
  <2>3. QED
    BY <2>1, <2>2
<1>3. /\ TakesSlot' = TakesSlot \/ TakesSlot' = 0
      /\ OwesItem' = OwesItem \/ OwesItem' = 0
      /\ TakesSlot \in {0, 1} /\ OwesItem \in {0, 1}
  BY DEF TakesSlot, OwesItem, One
<1>4. m_value' = m_value
  OBVIOUS
<1>5. /\ m_value'["empty"] \in Int /\ m_value'["full"] \in Int
      /\ m_value'["empty"] + TakesSlot' <= m_value["empty"] + TakesSlot
      /\ m_value'["full"] + OwesItem' <= m_value["full"] + OwesItem
  BY ONLY <1>1, <1>3, <1>4
<1>6. QED
  BY <1>2, <1>5, MainKeepsOrder

\* fork, waitpid, sem_unlink and exit.
LEMMA OtherCallsKeepOrder ==
    ASSUME LockInv, OrderInv,
           \/ \E c \in Consumer : Fork(c) \/ ForkFails(c) \/ Reap(c)
           \/ UnlinkMutex \/ UnlinkEmpty \/ UnlinkFull
           \/ \E p \in Procs : Leave(p)
    PROVE  OrderInv'
<1> USE TwoPrograms
<1>1. pc \in [Procs -> Label] /\ Labels
  BY DEF LockInv, VarTypes
<1>2. ASSUME NEW c \in Consumer, NEW label \in {"wait full", "unborn"}, ForkTurn(c, label)
      PROVE  OrderInv'
  <2>1. /\ m_value' = m_value /\ at' = at
        /\ UNCHANGED <<buffer, f_pos, data, consumerPos, output, ioErrors>>
    BY <1>2 DEF ForkTurn, kernelVars
  <2>2. pc[c] = "unborn"
    <3>1. pc[Producer] = "fork" /\ c = i + 1 /\ i \in 0..CHILD_NUMBER
      BY <1>2 DEF ForkTurn, LockInv, VarTypes
    <3>2. c > i
      BY <3>1, NextChild
    <3>3. QED
      BY <1>1, <3>1, <3>2 DEF Labels
  <2>3. /\ pc'[Producer] \in {"fork", "wait empty"}
        /\ pc'[c] = label
        /\ \A q \in Consumer \ {c} : pc'[q] = pc[q]
    BY <1>1, <1>2 DEF ForkTurn
  <2>4. QED
    BY <2>1, <2>2, <2>3, OtherCallKeepsOrder
<1>3. ASSUME NEW c \in Consumer, Reap(c)
      PROVE  OrderInv'
  <2>1. /\ m_value' = m_value /\ at' = at
        /\ UNCHANGED <<buffer, f_pos, data, consumerPos, output, ioErrors>>
    BY <1>3 DEF Reap, kernelVars
  <2>2. pc[c] \in {"gone", "reaped"}
    BY <1>1, <1>3 DEF Reap, Labels, Dead
  <2>3. pc'[c] = "reaped" /\ \A q \in Procs \ {c} : pc'[q] = pc[q]
    BY <1>1, <1>3 DEF Reap
  <2>4. QED
    BY <2>1, <2>2, <2>3, OtherCallKeepsOrder
<1>4. CASE UnlinkMutex \/ UnlinkEmpty \/ UnlinkFull
  <2>1. /\ m_value' = m_value /\ at' = at
        /\ UNCHANGED <<buffer, f_pos, data, consumerPos, output, ioErrors>>
    BY <1>4 DEF UnlinkMutex, UnlinkEmpty, UnlinkFull, Unlink, kernelVars
  <2>2. /\ pc'[Producer] \in {"unlink empty", "unlink full", "exit"}
        /\ \A q \in Procs \ {Producer} : pc'[q] = pc[q]
    BY <1>1, <1>4 DEF UnlinkMutex, UnlinkEmpty, UnlinkFull, Unlink, Goto
  <2>3. QED
    BY <2>1, <2>2, OtherCallKeepsOrder
<1>5. ASSUME NEW p \in Procs, Leave(p)
      PROVE  OrderInv'
  <2>1. /\ m_value' = m_value /\ at' = at
        /\ UNCHANGED <<buffer, f_pos, data, consumerPos, output, ioErrors>>
    BY <1>5 DEF Leave, K!Exit
  <2>2. pc[p] = "exit" /\ pc'[p] = "gone" /\ \A q \in Procs \ {p} : pc'[q] = pc[q]
    BY <1>1, <1>5 DEF Leave, Goto
  <2>3. QED
    BY <2>1, <2>2, OtherCallKeepsOrder
<1>6. QED
  BY <1>2, <1>3, <1>4, <1>5 DEF Fork, ForkFails

\* A failed lseek, read or write: the process leaves with the lock, and with what it
\* has taken of `empty` or `full`.
LEMMA IOErrorKeepsOrder ==
    ASSUME LockInv, OrderInv, NEW p \in Procs, IOError(p)
    PROVE  OrderInv'
<1> USE TwoPrograms
<1>1. pc \in [Procs -> Label]
  BY DEF LockInv, VarTypes
<1>2. /\ m_value' = m_value /\ at' = at
      /\ UNCHANGED <<buffer, f_pos, data, consumerPos, output>>
      /\ ioErrors' # {}
  BY DEF IOError, kernelVars
<1>3. pc'[p] = "exit" /\ \A q \in Procs \ {p} : pc'[q] = pc[q]
  BY <1>1 DEF IOError, Goto
<1>4. m_value["empty"] \in Nat /\ m_value["full"] \in Nat
  BY Numbers DEF OrderInv, FileInv
<1>5. CASE p = Producer
  <2>1. \A c \in Consumer : pc'[c] = pc[c] /\ OwesSlot(c)' = OwesSlot(c) /\ TakesItem(c)' = TakesItem(c)
    BY <1>2, <1>3, <1>5 DEF OwesSlot, TakesItem
  <2>2. TakesSlot' = 0 /\ OwesItem' = 0 /\ TakesSlot \in {0, 1} /\ OwesItem \in {0, 1}
    BY <1>3, <1>5 DEF TakesSlot, OwesItem, One
  <2>3. /\ m_value'["empty"] \in Int /\ m_value'["full"] \in Int
        /\ m_value'["empty"] + TakesSlot' <= m_value["empty"] + TakesSlot
        /\ m_value'["full"] + OwesItem' <= m_value["full"] + OwesItem
    BY ONLY <1>2, <1>4, <2>2
  <2>4. QED
    BY <1>2, <1>3, <1>5, <2>1, <2>3, MainKeepsOrder
<1>6. CASE p \in Consumer
  <2>1. OwesSlot(p)' = 0 /\ TakesItem(p)' = 0 /\ OwesSlot(p) \in {0, 1} /\ TakesItem(p) \in {0, 1}
    BY <1>3, <1>6 DEF OwesSlot, TakesItem, One
  <2>2. /\ m_value'["empty"] \in Int /\ m_value'["full"] \in Int
        /\ m_value'["empty"] + OwesSlot(p)' <= m_value["empty"] + OwesSlot(p)
        /\ m_value'["full"] + TakesItem(p)' <= m_value["full"] + TakesItem(p)
    BY ONLY <1>2, <1>4, <2>1
  <2>3. \A q \in Procs \ {p} : pc'[q] = pc[q] /\ at'[q] = at[q]
    BY <1>2, <1>3
  <2>4. pc'[p] \notin InFile
    BY <1>3 DEF InFile
  <2>5. QED
    BY <1>2, <1>6, <2>2, <2>3, <2>4, ConsumerKeepsOrder
<1>7. QED
  BY <1>5, <1>6
----------------------------------------------------------------------------
\* main's lseek.
LEMMA ProducerLseekKeepsOrder ==
    ASSUME LockInv, OrderInv, ProducerLseek
    PROVE  OrderInv'
<1> USE TwoPrograms
<1>1. VarTypes /\ FileInv /\ DataTypes
  BY DEF LockInv, OrderInv, FileInv
<1>2. /\ pc[Producer] = "lseek slot" /\ at[Producer] = NULL
      /\ pc'[Producer] = "write slot" /\ \A c \in Consumer : pc'[c] = pc[c]
      /\ m_value' = m_value /\ at' = at /\ f_pos' = data % BUFFER_SIZE
      /\ UNCHANGED <<buffer, data, consumerPos, output, ioErrors>>
  BY <1>1 DEF ProducerLseek, Lseek, Goto, VarTypes, K!InUserMode, kernelVars
<1>3. \A c \in Consumer : pc'[c] \notin InFile
  BY <1>2, Alone DEF Holds
<1>a. m_value' = m_value /\ data' = data /\ f_pos' = data % BUFFER_SIZE
  BY <1>2
<1>4. m_value["empty"] \in Nat /\ m_value["full"] \in Nat /\ data \in Nat
  BY <1>1, Numbers
<1>5. FileInv'
  <2>1. DataTypes' /\ Len(output') <= data' /\ ConsumedInOrder'
    <3>1. f_pos' \in Int
      BY ONLY <1>a, <1>4, SlotInRing, SizeAssumption
    <3>2. QED
      BY <1>1, <1>2, <3>1 DEF FileInv, DataTypes, ConsumedInOrder
  <2>2. ProducerPlace'
    BY <1>1, <1>2 DEF FileInv, ProducerPlace
  <2>3. \A c \in Consumer : ConsumerPlace(c)'
    BY <1>3 DEF ConsumerPlace, InFile
  <2>4. Stored'
    BY <1>1, <1>2 DEF FileInv, Stored
  <2>5. QED
    BY <2>1, <2>2, <2>3, <2>4 DEF FileInv
<1>6. \A c \in Consumer : OwesSlot(c)' = OwesSlot(c) /\ TakesItem(c)' = TakesItem(c)
  BY <1>2 DEF OwesSlot, TakesItem
<1>7. TakesSlot' = 1 /\ TakesSlot = 1 /\ OwesItem' = 0 /\ OwesItem = 0
  BY <1>2 DEF TakesSlot, OwesItem, One
<1>8. /\ m_value'["empty"] \in Int /\ m_value'["full"] \in Int /\ data' \in Int
      /\ m_value'["empty"] + TakesSlot' + data' <= m_value["empty"] + TakesSlot + data
      /\ m_value'["full"] + OwesItem' - data' <= m_value["full"] + OwesItem - data
  BY ONLY <1>a, <1>4, <1>7
<1>9. SlotsAddUp' /\ ItemsAddUp'
  BY <1>2, <1>6, <1>8, ProducerAccounts
<1>10. QED
  BY <1>5, <1>9 DEF OrderInv

\* main's write: the slot it has waited for is free, and only that slot changes.
LEMMA ProducerWriteKeepsOrder ==
    ASSUME LockInv, OrderInv, ProducerWrite
    PROVE  OrderInv'
<1> USE TwoPrograms, SizeAssumption
<1>1. VarTypes /\ FileInv /\ DataTypes /\ SlotsAddUp
  BY DEF LockInv, OrderInv, FileInv
<1>2. /\ pc[Producer] = "write slot" /\ at[Producer] = NULL
      /\ pc'[Producer] = "post mutex" /\ \A c \in Consumer : pc'[c] = pc[c]
      /\ m_value' = m_value /\ at' = at
      /\ buffer' = [buffer EXCEPT ![f_pos] = data] /\ f_pos' = f_pos + 1 /\ data' = data + 1
      /\ UNCHANGED <<consumerPos, output, ioErrors>>
  BY <1>1 DEF ProducerWrite, Goto, VarTypes, K!InUserMode, kernelVars
<1>3. \A c \in Consumer : pc'[c] \notin InFile
  BY <1>2, Alone DEF Holds
<1>a. m_value' = m_value /\ data' = data + 1 /\ f_pos' = f_pos + 1 /\ output' = output
  BY <1>2
<1>4. /\ m_value["empty"] \in Nat /\ m_value["full"] \in Nat /\ data \in Nat /\ Len(output) \in Nat
      /\ Cardinality(SlotsOwed) \in Nat
  BY <1>1, Numbers
<1>5. data < MAX_DATA_NUMBER /\ f_pos = data % BUFFER_SIZE /\ f_pos \in 0..(BUFFER_SIZE - 1)
  BY <1>1, <1>2, <1>4, SlotInRing DEF FileInv, ProducerPlace
<1>6. Len(output) <= data /\ data - Len(output) < BUFFER_SIZE
  <2>1. TakesSlot = 1
    BY <1>2 DEF TakesSlot, One
  <2>2. m_value["empty"] + TakesSlot + (data - Len(output)) + Cardinality(SlotsOwed) <= BUFFER_SIZE
    BY <1>1 DEF SlotsAddUp
  <2>3. Len(output) <= data
    BY <1>1 DEF FileInv
  <2>4. QED
    BY ONLY <1>4, <2>1, <2>2, <2>3, SizeAssumption
<1>7. /\ buffer' \in [0..BUFFER_SIZE -> Int] /\ buffer'[f_pos] = data
      /\ \A w \in 0..BUFFER_SIZE : w # f_pos => buffer'[w] = buffer[w]
  <2>1. buffer \in [0..BUFFER_SIZE -> Int] /\ data \in Int /\ f_pos \in 0..BUFFER_SIZE
    BY <1>1, <1>4, <1>5 DEF DataTypes
  <2>2. QED
    BY ONLY <1>2, <2>1
<1>8. DataTypes'
  <2>1. f_pos' \in Int /\ data' \in 0..MAX_DATA_NUMBER
    BY ONLY <1>a, <1>4, <1>5, SizeAssumption
  <2>2. QED
    BY <1>1, <1>2, <1>7, <2>1 DEF DataTypes
<1>9. Len(output') <= data' /\ data' - Len(output') <= BUFFER_SIZE
  BY ONLY <1>a, <1>4, <1>6, SizeAssumption
<1>10. ConsumedInOrder'
  <2>1. ASSUME NEW n \in Len(output)..data PROVE buffer'[n % BUFFER_SIZE] = n
    <3>1. CASE n = data
      BY <1>5, <1>7, <3>1
    <3>2. CASE n < data
      <4>1. n \in Nat /\ n \in Len(output)..(data - 1) /\ data - n < BUFFER_SIZE
        BY ONLY <1>4, <1>6, <2>1, <3>2, SizeAssumption
      <4>2. buffer[n % BUFFER_SIZE] = n
        BY <1>1, <4>1 DEF FileInv, ConsumedInOrder
      <4>3. n % BUFFER_SIZE # f_pos
        BY <1>4, <1>5, <3>2, <4>1, Slots
      <4>4. n % BUFFER_SIZE \in 0..BUFFER_SIZE
        BY <4>1, SlotInRing
      <4>5. QED
        BY <1>7, <4>2, <4>3, <4>4
    <3>3. QED
      BY <1>4, <3>1, <3>2
  <2>2. Len(output')..(data' - 1) = Len(output)..data
    BY ONLY <1>a, <1>4
  <2>3. \A k \in 1..Len(output') : output'[k] = k - 1
    BY <1>1, <1>2 DEF FileInv, ConsumedInOrder
  <2>4. QED
    BY <1>9, <2>1, <2>2, <2>3 DEF ConsumedInOrder
<1>11. FileInv'
  <2>1. ProducerPlace'
    BY <1>2 DEF ProducerPlace
  <2>2. \A c \in Consumer : ConsumerPlace(c)'
    BY <1>3 DEF ConsumerPlace, InFile
  <2>3. Stored'
    <3>1. buffer'[BUFFER_SIZE] = buffer[BUFFER_SIZE]
      BY <1>5, <1>7
    <3>2. QED
      BY <1>1, <1>2, <3>1 DEF FileInv, Stored
  <2>4. QED
    BY <1>8, <1>9, <1>10, <2>1, <2>2, <2>3 DEF FileInv
<1>12. \A c \in Consumer : OwesSlot(c)' = OwesSlot(c) /\ TakesItem(c)' = TakesItem(c)
  BY <1>2 DEF OwesSlot, TakesItem
<1>13. TakesSlot' = 0 /\ TakesSlot = 1 /\ OwesItem' = 1 /\ OwesItem = 0
  BY <1>2 DEF TakesSlot, OwesItem, One
<1>14. /\ m_value'["empty"] \in Int /\ m_value'["full"] \in Int /\ data' \in Int
       /\ m_value'["empty"] + TakesSlot' + data' <= m_value["empty"] + TakesSlot + data
       /\ m_value'["full"] + OwesItem' - data' <= m_value["full"] + OwesItem - data
  BY ONLY <1>a, <1>4, <1>13
<1>15. SlotsAddUp' /\ ItemsAddUp'
  BY <1>2, <1>12, <1>14, ProducerAccounts
<1>16. QED
  BY <1>11, <1>15 DEF OrderInv
\* A consumer that works on the file does so alone, and no I/O call has failed.
LEMMA Inside ==
    ASSUME LockInv, OrderInv, NEW c \in Consumer,
           pc[c] \in {"lseek pos", "read pos", "lseek slot", "read slot", "lseek store", "store pos"},
           at[c] = NULL, data' = data,
           \A q \in Procs \ {c} : pc'[q] = pc[q]
    PROVE  /\ ioErrors = {} /\ ProducerPlace'
           /\ \A d \in Consumer \ {c} : pc[d] \notin InFile /\ ConsumerPlace(d)'
<1> USE TwoPrograms
<1>1. Holds(c)
  BY DEF Holds
<1>2. c \notin ioErrors
  BY DEF LockInv, Labels
<1>3. /\ \A d \in Consumer \ {c} : pc[d] \notin InFile
      /\ pc[Producer] # "write slot" /\ ioErrors = {}
  BY <1>1, <1>2, Alone
<1>4. \A d \in Consumer \ {c} : ConsumerPlace(d)'
  BY <1>3 DEF ConsumerPlace, InFile
<1>5. ProducerPlace'
  BY <1>3 DEF OrderInv, FileInv, ProducerPlace
<1>6. QED
  BY <1>3, <1>4, <1>5

\* A consumer's calls of lseek.
LEMMA ConsumerLseekKeepsOrder ==
    ASSUME LockInv, OrderInv, NEW c \in Consumer,
           ConsumerLseekPos(c) \/ ConsumerLseekSlot(c) \/ ConsumerLseekStore(c)
    PROVE  OrderInv'
<1> USE TwoPrograms
<1>1. VarTypes /\ FileInv /\ DataTypes /\ ConsumerPlace(c)
  BY DEF LockInv, OrderInv, FileInv
<1>2. PICK to :
      /\ pc'[c] = to /\ \A q \in Procs \ {c} : pc'[q] = pc[q]
      /\ at[c] = NULL /\ m_value' = m_value /\ at' = at
      /\ UNCHANGED <<buffer, data, consumerPos, output, ioErrors>>
      /\ \/ pc[c] = "lseek pos" /\ to = "read pos" /\ f_pos' = BUFFER_SIZE
         \/ pc[c] = "lseek slot" /\ to = "read slot" /\ f_pos' = consumerPos[c] % BUFFER_SIZE
         \/ pc[c] = "lseek store" /\ to = "store pos" /\ f_pos' = BUFFER_SIZE
  BY <1>1 DEF ConsumerLseekPos, ConsumerLseekSlot, ConsumerLseekStore, Lseek, Goto, VarTypes,
              K!InUserMode, kernelVars
<1>3. /\ m_value["empty"] \in Nat /\ m_value["full"] \in Nat /\ Len(output) \in Nat
      /\ BUFFER_SIZE \in Nat
  BY <1>1, Numbers
<1>4. data' = data /\ m_value' = m_value /\ output' = output
  BY <1>2
<1>5. ioErrors = {} /\ ProducerPlace' /\ \A d \in Consumer \ {c} : pc[d] \notin InFile /\ ConsumerPlace(d)'
  BY <1>2, <1>4, Inside
<1>6. DataTypes' /\ Len(output') <= data' /\ ConsumedInOrder'
  <2>1. f_pos' \in Int
    <3>1. pc[c] = "lseek slot" => consumerPos[c] = Len(output)
      BY <1>1 DEF ConsumerPlace
    <3>2. f_pos' = BUFFER_SIZE \/ f_pos' = Len(output) % BUFFER_SIZE
      BY <1>2, <3>1
    <3>3. QED
      BY ONLY <1>3, <3>2, SizeAssumption
  <2>2. QED
    BY <1>1, <1>2, <2>1 DEF FileInv, DataTypes, ConsumedInOrder
<1>7. ConsumerPlace(c)'
  BY <1>1, <1>2 DEF ConsumerPlace
<1>8. Stored'
  <2>1. CASE pc[c] = "lseek store"
    BY <1>2, <2>1 DEF Stored
  <2>2. CASE pc[c] # "lseek store"
    <3>1. buffer[BUFFER_SIZE] = Len(output)
      BY <1>1, <1>2, <1>5, <2>2 DEF FileInv, Stored, InFile
    <3>2. QED
      BY <1>2, <3>1 DEF Stored
  <2>3. QED
    BY <2>1, <2>2
<1>9. FileInv'
  BY <1>5, <1>6, <1>7, <1>8 DEF FileInv
<1>10. /\ OwesSlot(c)' = OwesSlot(c) /\ TakesItem(c)' = TakesItem(c)
       /\ OwesSlot(c) \in {0, 1} /\ TakesItem(c) \in {0, 1}
  BY <1>2 DEF OwesSlot, TakesItem, One
<1>11. /\ m_value'["empty"] \in Int /\ m_value'["full"] \in Int /\ Len(output') \in Int
       /\ m_value'["empty"] - Len(output') + OwesSlot(c)'
             <= m_value["empty"] - Len(output) + OwesSlot(c)
       /\ m_value'["full"] + TakesItem(c)' + Len(output')
             <= m_value["full"] + TakesItem(c) + Len(output)
  BY ONLY <1>3, <1>4, <1>10
<1>12. SlotsAddUp' /\ ItemsAddUp'
  BY <1>2, <1>4, <1>11, ConsumerAccounts
<1>13. QED
  BY <1>9, <1>12 DEF OrderInv
\* A consumer's read of the position: it is the number of items consumed.
LEMMA ConsumerReadPosKeepsOrder ==
    ASSUME LockInv, OrderInv, NEW c \in Consumer, ConsumerReadPos(c)
    PROVE  OrderInv'
<1> USE TwoPrograms
<1>1. VarTypes /\ FileInv /\ DataTypes /\ ConsumerPlace(c)
  BY DEF LockInv, OrderInv, FileInv
<1>2. /\ pc[c] = "read pos" /\ at[c] = NULL /\ \A q \in Procs \ {c} : pc'[q] = pc[q]
      /\ pc'[c] = (IF buffer[f_pos] >= MAX_DATA_NUMBER THEN "post mutex, leave" ELSE "lseek slot")
      /\ m_value' = m_value /\ at' = at /\ f_pos' = f_pos + 1
      /\ consumerPos' = [consumerPos EXCEPT ![c] = buffer[f_pos]]
      /\ UNCHANGED <<buffer, data, output, ioErrors>>
  BY <1>1 DEF ConsumerReadPos, Goto, VarTypes, K!InUserMode, kernelVars
<1>3. /\ m_value["empty"] \in Nat /\ m_value["full"] \in Nat /\ Len(output) \in Nat
      /\ BUFFER_SIZE \in Nat /\ MAX_DATA_NUMBER \in Nat
  BY <1>1, Numbers
<1>4. m_value' = m_value /\ data' = data /\ output' = output /\ f_pos' = f_pos + 1 /\ f_pos = BUFFER_SIZE
  BY <1>1, <1>2 DEF ConsumerPlace
<1>5. ioErrors = {} /\ ProducerPlace' /\ \A d \in Consumer \ {c} : pc[d] \notin InFile /\ ConsumerPlace(d)'
  <2>1. \A d \in Consumer \ {c} : consumerPos'[d] = consumerPos[d]
    BY <1>1, <1>2 DEF DataTypes
  <2>2. QED
    BY <1>2, <1>4, Inside
<1>6. buffer[f_pos] = Len(output)
  BY <1>1, <1>2, <1>4, <1>5 DEF FileInv, Stored, InFile
<1>7. consumerPos' \in [Consumer -> Int] /\ consumerPos'[c] = Len(output)
  <2>1. consumerPos \in [Consumer -> Int] /\ consumerPos' = [consumerPos EXCEPT ![c] = Len(output)]
    BY <1>1, <1>2, <1>6 DEF DataTypes
  <2>2. Len(output) \in Int
    BY ONLY <1>3
  <2>3. QED
    BY <2>1, <2>2
<1>8. DataTypes' /\ Len(output') <= data' /\ ConsumedInOrder'
  <2>1. f_pos' \in Int
    BY ONLY <1>3, <1>4
  <2>2. QED
    BY <1>1, <1>2, <1>7, <2>1 DEF FileInv, DataTypes, ConsumedInOrder
<1>9. \/ pc'[c] = "lseek slot" /\ Len(output) < MAX_DATA_NUMBER
      \/ pc'[c] = "post mutex, leave"
  <2>1. Len(output) >= MAX_DATA_NUMBER \/ Len(output) < MAX_DATA_NUMBER
    BY ONLY <1>3
  <2>2. QED
    BY <1>2, <1>3, <1>6, <2>1
<1>10. FileInv'
  <2>1. ConsumerPlace(c)'
    BY <1>4, <1>7, <1>9 DEF ConsumerPlace
  <2>2. Stored'
    BY <1>4, <1>2, <1>6 DEF Stored
  <2>3. QED
    BY <1>5, <1>8, <2>1, <2>2 DEF FileInv
<1>11. /\ OwesSlot(c)' = 0 /\ OwesSlot(c) = 0
       /\ TakesItem(c) = 1 /\ TakesItem(c)' \in {0, 1}
  BY <1>2, <1>9 DEF OwesSlot, TakesItem, One
<1>12. /\ m_value'["empty"] \in Int /\ m_value'["full"] \in Int /\ Len(output') \in Int
       /\ m_value'["empty"] - Len(output') + OwesSlot(c)'
             <= m_value["empty"] - Len(output) + OwesSlot(c)
       /\ m_value'["full"] + TakesItem(c)' + Len(output')
             <= m_value["full"] + TakesItem(c) + Len(output)
  BY ONLY <1>3, <1>4, <1>11
<1>13. SlotsAddUp' /\ ItemsAddUp'
  BY <1>2, <1>4, <1>12, ConsumerAccounts
<1>14. QED
  BY <1>10, <1>13 DEF OrderInv

\* A consumer's read of an item: it is the next one, and it is there.
LEMMA ConsumerReadSlotKeepsOrder ==
    ASSUME LockInv, OrderInv, NEW c \in Consumer, ConsumerReadSlot(c)
    PROVE  OrderInv'
<1> USE TwoPrograms
<1>1. VarTypes /\ FileInv /\ DataTypes /\ ConsumerPlace(c) /\ ItemsAddUp
  BY DEF LockInv, OrderInv, FileInv
<1>2. /\ pc[c] = "read slot" /\ at[c] = NULL /\ \A q \in Procs \ {c} : pc'[q] = pc[q]
      /\ pc'[c] = "lseek store"
      /\ m_value' = m_value /\ at' = at /\ f_pos' = f_pos + 1
      /\ consumerPos' = [consumerPos EXCEPT ![c] = @ + 1]
      /\ output' = Append(output, buffer[f_pos])
      /\ UNCHANGED <<buffer, data, ioErrors>>
  BY <1>1 DEF ConsumerReadSlot, Goto, VarTypes, K!InUserMode, kernelVars
<1>3. /\ m_value["empty"] \in Nat /\ m_value["full"] \in Nat /\ Len(output) \in Nat /\ data \in Nat
      /\ BUFFER_SIZE \in Nat /\ MAX_DATA_NUMBER \in Nat
      /\ IsFiniteSet(ItemsTaken) /\ Cardinality(ItemsTaken) \in Nat /\ OwesItem \in {0, 1}
  BY <1>1, Numbers
<1>4. /\ consumerPos[c] = Len(output) /\ Len(output) < MAX_DATA_NUMBER
      /\ f_pos = Len(output) % BUFFER_SIZE
  BY <1>1, <1>2 DEF ConsumerPlace
<1>5. ioErrors = {} /\ ProducerPlace' /\ \A d \in Consumer \ {c} : pc[d] \notin InFile /\ ConsumerPlace(d)'
  BY <1>2, Inside
<1>6. TakesItem(c) = 1 /\ TakesItem(c)' = 0 /\ OwesSlot(c) = 0 /\ OwesSlot(c)' = 1
  BY <1>2 DEF OwesSlot, TakesItem, One
<1>7. Len(output) < data
  <2>1. c \in ItemsTaken
    BY <1>6 DEF ItemsTaken
  <2>2. Cardinality(ItemsTaken) # 0
    BY <1>3, <2>1, FS_EmptySet
  <2>3. m_value["full"] + Cardinality(ItemsTaken) + OwesItem <= data - Len(output)
    BY <1>1, <1>3, <1>4 DEF ItemsAddUp
  <2>4. QED
    BY ONLY <1>3, <2>2, <2>3
<1>8. buffer[f_pos] = Len(output)
  <2>1. Len(output) \in Len(output)..(data - 1)
    BY ONLY <1>3, <1>7
  <2>2. QED
    BY <1>1, <1>4, <2>1 DEF FileInv, ConsumedInOrder
<1>9. /\ output' \in Seq(Int) /\ Len(output') = Len(output) + 1
      /\ \A k \in 1..Len(output) : output'[k] = output[k]
      /\ output'[Len(output) + 1] = Len(output)
  <2>1. output \in Seq(Int) /\ Len(output) \in Int /\ output' = Append(output, Len(output))
    <3>1. Len(output) \in Int
      BY ONLY <1>3
    <3>2. QED
      BY <1>1, <1>2, <1>8, <3>1 DEF DataTypes
  <2>2. QED
    BY ONLY <2>1
<1>10. consumerPos' \in [Consumer -> Int] /\ consumerPos'[c] = Len(output')
  <2>1. consumerPos \in [Consumer -> Int] /\ consumerPos' = [consumerPos EXCEPT ![c] = @ + 1]
    BY <1>1, <1>2 DEF DataTypes
  <2>2. consumerPos' \in [Consumer -> Int] /\ consumerPos'[c] = consumerPos[c] + 1
    BY <2>1
  <2>3. QED
    BY <1>4, <1>9, <2>2
<1>11. DataTypes' /\ Len(output') <= data'
  <2>1. f_pos' \in Int
    <3>1. f_pos' = f_pos + 1 /\ f_pos \in Int
      BY <1>1, <1>2 DEF DataTypes
    <3>2. QED
      BY ONLY <3>1
  <2>2. data' = data
    BY <1>2
  <2>3. Len(output') <= data'
    BY ONLY <1>3, <1>7, <1>9, <2>2
  <2>4. QED
    BY <1>1, <1>2, <1>9, <1>10, <2>1, <2>3 DEF DataTypes
<1>12. ConsumedInOrder'
  <2>1. \A k \in 1..Len(output) : output[k] = k - 1
    BY <1>1 DEF FileInv, ConsumedInOrder
  <2>2. \A k \in 1..Len(output') : output'[k] = k - 1
    <3>1. ASSUME NEW k \in 1..Len(output') PROVE k \in 1..Len(output) \/ k = Len(output) + 1
      BY ONLY <1>3, <1>9
    <3>2. Len(output) + 1 - 1 = Len(output)
      BY ONLY <1>3
    <3>3. QED
      BY ONLY <1>9, <2>1, <3>1, <3>2
  <2>3. data - Len(output) <= BUFFER_SIZE /\ data' = data
    BY <1>1, <1>2 DEF FileInv, ConsumedInOrder
  <2>4. /\ data' - Len(output') <= BUFFER_SIZE
        /\ Len(output')..(data' - 1) \subseteq Len(output)..(data - 1)
    BY ONLY <1>3, <1>9, <2>3
  <2>5. buffer' = buffer
    BY <1>2
  <2>6. QED
    BY <1>1, <2>2, <2>4, <2>5 DEF FileInv, ConsumedInOrder
<1>13. FileInv'
  <2>1. ConsumerPlace(c)'
    BY <1>2, <1>10 DEF ConsumerPlace
  <2>2. Stored'
    BY <1>2 DEF Stored
  <2>3. QED
    BY <1>5, <1>11, <1>12, <2>1, <2>2 DEF FileInv
<1>14. m_value' = m_value
  BY <1>2
<1>15. /\ m_value'["empty"] \in Int /\ m_value'["full"] \in Int /\ Len(output') \in Int
       /\ m_value'["empty"] - Len(output') + OwesSlot(c)'
             <= m_value["empty"] - Len(output) + OwesSlot(c)
       /\ m_value'["full"] + TakesItem(c)' + Len(output')
             <= m_value["full"] + TakesItem(c) + Len(output)
  BY ONLY <1>3, <1>6, <1>9, <1>14
<1>16. data' = data /\ Len(output) # MAX_DATA_NUMBER
  <2>1. Len(output) # MAX_DATA_NUMBER
    BY ONLY <1>3, <1>4
  <2>2. QED
    BY <1>2, <2>1
<1>17. SlotsAddUp' /\ ItemsAddUp'
  BY <1>2, <1>15, <1>16, ConsumerAccounts
<1>18. QED
  BY <1>13, <1>17 DEF OrderInv
\* A consumer's store of the position, which makes it right again.
LEMMA ConsumerStorePosKeepsOrder ==
    ASSUME LockInv, OrderInv, NEW c \in Consumer, ConsumerStorePos(c)
    PROVE  OrderInv'
<1> USE TwoPrograms
<1>1. VarTypes /\ FileInv /\ DataTypes /\ ConsumerPlace(c)
  BY DEF LockInv, OrderInv, FileInv
<1>2. /\ pc[c] = "store pos" /\ at[c] = NULL /\ \A q \in Procs \ {c} : pc'[q] = pc[q]
      /\ pc'[c] = (IF consumerPos[c] >= MAX_DATA_NUMBER THEN "free others" ELSE "post mutex")
      /\ m_value' = m_value /\ at' = at /\ f_pos' = f_pos + 1
      /\ buffer' = [buffer EXCEPT ![f_pos] = consumerPos[c]]
      /\ UNCHANGED <<data, consumerPos, output, ioErrors>>
  BY <1>1 DEF ConsumerStorePos, Goto, VarTypes, K!InUserMode, kernelVars
<1>3. /\ m_value["empty"] \in Nat /\ m_value["full"] \in Nat /\ Len(output) \in Nat
      /\ data \in 0..MAX_DATA_NUMBER /\ BUFFER_SIZE \in Nat /\ MAX_DATA_NUMBER \in Nat
  BY <1>1, Numbers DEF DataTypes
<1>4. /\ m_value' = m_value /\ data' = data /\ output' = output /\ f_pos' = f_pos + 1
      /\ f_pos = BUFFER_SIZE /\ consumerPos[c] = Len(output)
  BY <1>1, <1>2 DEF ConsumerPlace
<1>5. ioErrors = {} /\ ProducerPlace' /\ \A d \in Consumer \ {c} : pc[d] \notin InFile /\ ConsumerPlace(d)'
  BY <1>2, <1>4, Inside
<1>6. /\ buffer' \in [0..BUFFER_SIZE -> Int] /\ buffer'[BUFFER_SIZE] = Len(output)
      /\ \A w \in 0..(BUFFER_SIZE - 1) : buffer'[w] = buffer[w]
  <2>1. buffer \in [0..BUFFER_SIZE -> Int] /\ buffer' = [buffer EXCEPT ![BUFFER_SIZE] = Len(output)]
    BY <1>1, <1>2, <1>4 DEF DataTypes
  <2>2. BUFFER_SIZE \in 0..BUFFER_SIZE /\ Len(output) \in Int
        /\ \A w \in 0..(BUFFER_SIZE - 1) : w \in 0..BUFFER_SIZE /\ w # BUFFER_SIZE
    BY ONLY <1>3
  <2>3. QED
    BY <2>1, <2>2
<1>7. DataTypes' /\ Len(output') <= data'
  <2>1. f_pos' \in Int
    BY ONLY <1>3, <1>4
  <2>2. QED
    BY <1>1, <1>2, <1>6, <2>1 DEF FileInv, DataTypes
<1>8. ConsumedInOrder'
  <2>1. ASSUME NEW n \in Len(output)..(data - 1)
        PROVE  buffer'[n % BUFFER_SIZE] = buffer[n % BUFFER_SIZE]
    <3>1. n \in Nat
      BY ONLY <1>3
    <3>2. QED
      BY <1>6, <3>1, SlotInRing
  <2>2. QED
    BY <1>1, <1>4, <2>1 DEF FileInv, ConsumedInOrder
<1>9. \/ pc'[c] = "free others" /\ Len(output) = MAX_DATA_NUMBER
      \/ pc'[c] = "post mutex"
  <2>1. Len(output) <= data
    BY <1>1 DEF FileInv
  <2>2. Len(output) >= MAX_DATA_NUMBER => Len(output) = MAX_DATA_NUMBER
    BY ONLY <1>3, <2>1
  <2>3. QED
    BY <1>2, <1>4, <2>2
<1>10. FileInv'
  <2>1. ConsumerPlace(c)'
    BY <1>4, <1>9 DEF ConsumerPlace
  <2>2. Stored'
    BY <1>4, <1>6 DEF Stored
  <2>3. QED
    BY <1>5, <1>7, <1>8, <2>1, <2>2 DEF FileInv
<1>11. /\ OwesSlot(c)' \in {0, 1} /\ OwesSlot(c) = 1
       /\ TakesItem(c) = 0 /\ TakesItem(c)' = 0
  BY <1>2, <1>9 DEF OwesSlot, TakesItem, One
<1>12. /\ m_value'["empty"] \in Int /\ m_value'["full"] \in Int /\ Len(output') \in Int
       /\ m_value'["empty"] - Len(output') + OwesSlot(c)'
             <= m_value["empty"] - Len(output) + OwesSlot(c)
       /\ m_value'["full"] + TakesItem(c)' + Len(output')
             <= m_value["full"] + TakesItem(c) + Len(output)
  BY ONLY <1>3, <1>4, <1>11
<1>13. SlotsAddUp' /\ ItemsAddUp'
  BY <1>2, <1>4, <1>12, ConsumerAccounts
<1>14. QED
  BY <1>10, <1>13 DEF OrderInv
----------------------------------------------------------------------------
\* Every step keeps the order of the items.
LEMMA OrderInvStep == LockInv /\ OrderInv /\ [PCNext]_pcVars => OrderInv'
<1> SUFFICES ASSUME LockInv, OrderInv, [PCNext]_pcVars PROVE OrderInv'
  OBVIOUS
<1>1. ASSUME NEW p \in Procs, NEW s \in Sems, NEW from, NEW to, Waits(p, from, s, to), Wait(p, from, s, to)
      PROVE  OrderInv'
  BY <1>1, WaitKeepsOrder
<1>2. Producer \in Procs /\ (\A c \in Consumer : c \in Procs)
      /\ "empty" \in Sems /\ "full" \in Sems /\ "bufferMutex" \in Sems
  BY TwoPrograms DEF Sems
<1>3. CASE ProducerWaitEmpty \/ ProducerWaitMutex
  <2>1. CASE ProducerWaitEmpty
    <3>1. Waits(Producer, "wait empty", "empty", "wait mutex")
          /\ Wait(Producer, "wait empty", "empty", "wait mutex")
      BY <2>1 DEF ProducerWaitEmpty, Waits
    <3>2. QED
      BY <1>1, <1>2, <3>1
  <2>2. CASE ProducerWaitMutex
    <3>1. Waits(Producer, "wait mutex", "bufferMutex", "lseek slot")
          /\ Wait(Producer, "wait mutex", "bufferMutex", "lseek slot")
      BY <2>2 DEF ProducerWaitMutex, Waits
    <3>2. QED
      BY <1>1, <1>2, <3>1
  <2>3. QED
    BY <1>3, <2>1, <2>2
<1>4. ASSUME NEW c \in Consumer, ConsumerWaitFull(c) \/ ConsumerWaitMutex(c)
      PROVE  OrderInv'
  <2>1. CASE ConsumerWaitFull(c)
    <3>1. Waits(c, "wait full", "full", "wait mutex") /\ Wait(c, "wait full", "full", "wait mutex")
      BY <2>1 DEF ConsumerWaitFull, Waits
    <3>2. QED
      BY <1>1, <1>2, <3>1
  <2>2. CASE ConsumerWaitMutex(c)
    <3>1. Waits(c, "wait mutex", "bufferMutex", "lseek pos")
          /\ Wait(c, "wait mutex", "bufferMutex", "lseek pos")
      BY <2>2 DEF ConsumerWaitMutex, Waits
    <3>2. QED
      BY <1>1, <1>2, <3>1
  <2>3. QED
    BY <1>4, <2>1, <2>2
<1>5. CASE ProducerPostMutex \/ ProducerPostFull
  <2>1. PICK s, to : /\ s \in Sems /\ Posts(Producer, s, to) /\ K!SemPost(Producer, s)
                     /\ pc' = [pc EXCEPT ![Producer] = to]
                     /\ UNCHANGED <<buffer, f_pos, data, consumerPos, output, ioErrors>>
    BY <1>5 DEF ProducerPostMutex, ProducerPostFull, Post, Goto, Posts, Sems
  <2>2. QED
    BY <1>2, <2>1, PostKeepsOrder
<1>6. ASSUME NEW c \in Consumer,
             \/ ConsumerFreeOther(c) \/ ConsumerPostLast(c) \/ ConsumerPostLeave(c)
             \/ ConsumerPostMutex(c) \/ ConsumerPostEmpty(c)
      PROVE  OrderInv'
  <2>1. PICK s, to : /\ s \in Sems /\ Posts(c, s, to) /\ K!SemPost(c, s)
                     /\ pc' = [pc EXCEPT ![c] = to]
                     /\ UNCHANGED <<buffer, f_pos, data, consumerPos, output, ioErrors>>
    <3>1. CASE ConsumerFreeOther(c)
      <4>1. pc \in [Procs -> Label]
        BY DEF LockInv, VarTypes
      <4>2. pc' = [pc EXCEPT ![c] = "free others"]
        BY <3>1, <4>1 DEF ConsumerFreeOther
      <4>3. /\ Posts(c, "full", "free others") /\ K!SemPost(c, "full")
            /\ UNCHANGED <<buffer, f_pos, data, consumerPos, output, ioErrors>>
        BY <3>1 DEF ConsumerFreeOther, Posts
      <4>4. QED
        BY <1>2, <4>2, <4>3
    <3>2. CASE \/ ConsumerPostLast(c) \/ ConsumerPostLeave(c)
               \/ ConsumerPostMutex(c) \/ ConsumerPostEmpty(c)
      BY <3>2 DEF ConsumerPostLast, ConsumerPostLeave, ConsumerPostMutex, ConsumerPostEmpty,
                  Post, Goto, Posts, Sems
    <3>3. QED
      BY <1>6, <3>1, <3>2
  <2>2. QED
    BY <1>2, <2>1, PostKeepsOrder
<1>7. CASE UNCHANGED pcVars
  <2>1. /\ m_value' = m_value /\ at' = at /\ pc' = pc
        /\ UNCHANGED <<buffer, f_pos, data, consumerPos, output, ioErrors>>
    BY <1>7 DEF pcVars, kernelVars, userVars
  <2>2. QED
    BY <2>1, OtherCallKeepsOrder
<1>8. ASSUME NEW c \in Consumer,
             \/ ConsumerLseekPos(c) \/ ConsumerReadPos(c) \/ ConsumerLseekSlot(c)
             \/ ConsumerReadSlot(c) \/ ConsumerLseekStore(c) \/ ConsumerStorePos(c)
      PROVE  OrderInv'
  BY <1>8, ConsumerLseekKeepsOrder, ConsumerReadPosKeepsOrder, ConsumerReadSlotKeepsOrder,
     ConsumerStorePosKeepsOrder
<1>9. CASE ProducerLseek \/ ProducerWrite
  BY <1>9, ProducerLseekKeepsOrder, ProducerWriteKeepsOrder
<1>10. ASSUME NEW p \in Procs, Resume(p) \/ IOError(p)
       PROVE  OrderInv'
  BY <1>10, ResumeKeepsOrder, IOErrorKeepsOrder
<1>11. CASE \/ \E c \in Consumer : Fork(c) \/ ForkFails(c) \/ Reap(c)
            \/ UnlinkMutex \/ UnlinkEmpty \/ UnlinkFull
            \/ \E p \in Procs : Leave(p)
  BY <1>11, OtherCallsKeepOrder
<1>12. QED
  BY <1>3, <1>4, <1>5, <1>6, <1>7, <1>8, <1>9, <1>10, <1>11
     DEF PCNext, ProducerStep, ConsumerStep

\* At the start nothing is written and nothing consumed.
LEMMA OrderInvInit == PCInit => OrderInv
<1> SUFFICES ASSUME PCInit PROVE OrderInv
  OBVIOUS
<1> USE TwoPrograms, SizeAssumption
<1>1. /\ output = <<>> /\ data = 0 /\ pc[Producer] = "fork" /\ \A c \in Consumer : pc[c] = "unborn"
      /\ buffer = [w \in 0..BUFFER_SIZE |-> IF w = BUFFER_SIZE THEN 0 ELSE -1]
      /\ f_pos = BUFFER_SIZE + 1 /\ consumerPos = [c \in Consumer |-> 0]
      /\ m_value["empty"] = BUFFER_SIZE /\ m_value["full"] = 0
  BY DEF PCInit, Sems
<1>2. Len(output) = 0 /\ output \in Seq(Int)
  BY <1>1
<1>3. DataTypes
  <2>1. f_pos \in Int /\ data \in 0..MAX_DATA_NUMBER
    BY <1>1
  <2>2. buffer \in [0..BUFFER_SIZE -> Int] /\ consumerPos \in [Consumer -> Int]
    BY ONLY <1>1
  <2>3. QED
    BY <1>2, <2>1, <2>2 DEF DataTypes
<1>4. ConsumedInOrder /\ Len(output) <= data
  BY <1>1, <1>2 DEF ConsumedInOrder
<1>5. Stored
  BY <1>1, <1>2 DEF Stored
<1>6. ProducerPlace /\ \A c \in Consumer : ConsumerPlace(c)
  BY <1>1 DEF ProducerPlace, ConsumerPlace
<1>7. SlotsOwed = {} /\ ItemsTaken = {}
  <2>1. \A c \in Consumer : OwesSlot(c) = 0 /\ TakesItem(c) = 0
    BY <1>1 DEF OwesSlot, TakesItem, One
  <2>2. \A c \in Consumer : OwesSlot(c) # 1 /\ TakesItem(c) # 1
    BY ONLY <2>1
  <2>3. QED
    BY <2>2 DEF SlotsOwed, ItemsTaken
<1>8. Cardinality(SlotsOwed) = 0 /\ Cardinality(ItemsTaken) = 0
  BY <1>7, FS_EmptySet
<1>9. TakesSlot = 0 /\ OwesItem = 0
  BY <1>1 DEF TakesSlot, OwesItem, One
<1>10. SlotsAddUp /\ ItemsAddUp
  BY ONLY <1>1, <1>2, <1>8, <1>9, SizeAssumption DEF SlotsAddUp, ItemsAddUp
<1>11. QED
  BY <1>3, <1>4, <1>5, <1>6, <1>10 DEF OrderInv, FileInv

\* The consumers print every item once and in order, for any number of consumers,
\* of slots and of items, and also when forks or I/O calls fail; an item stays in its
\* slot until it has been read.
THEOREM ItemsInOrder == PCSpec => []ConsumedInOrder
<1>1. PCInit => OrderInv
  BY OrderInvInit
<1>2. LockInv /\ OrderInv /\ [PCNext]_pcVars => OrderInv'
  BY OrderInvStep
<1>3. OrderInv => ConsumedInOrder
  BY DEF OrderInv, FileInv
<1>4. QED
  BY <1>1, <1>2, <1>3, LockInvCorrect, PTL DEF PCSpec
==============================================================================
