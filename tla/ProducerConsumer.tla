--------------------------- MODULE ProducerConsumer ---------------------------
(****************************************************************************)
(* pc.c of Lab 5: the program that exercises the semaphores, run on the     *)
(* kernel of module Semaphore.  main() is the producer, process 0; it forks *)
(* consumers 1 .. CHILD_NUMBER.  They share one file, used as a ring of     *)
(* BUFFER_SIZE words followed by one more word that holds the position of   *)
(* the next item to consume, and, since the file is opened before the fork, *)
(* they share its offset as well: an lseek and the read or write after it   *)
(* are two system calls that others may come between.                       *)
(*                                                                          *)
(* pc[p] is the next statement of p.  A process that has called sem_wait    *)
(* has moved on to the statement after it but takes no step of its own      *)
(* before the kernel has let it return (InUserMode).                        *)
(****************************************************************************)
EXTENDS Integers, Sequences, FiniteSets

CONSTANTS CHILD_NUMBER, BUFFER_SIZE, MAX_DATA_NUMBER,  \* the macros of pc.c
          NULL,             \* the kernel's null pointer
          MaxForkFailures,  \* bound on fork() returning -1, which main ignores
          MaxIOErrors       \* bound on lseek, read or write returning -1

ASSUME SizeAssumption ==
    /\ CHILD_NUMBER \in Nat \ {0}
    /\ BUFFER_SIZE \in Nat \ {0}
    /\ MAX_DATA_NUMBER \in Nat \ {0}
\* With no consumer at all the producer fills the buffer and waits for ever.
ASSUME FailureAssumption ==
    /\ MaxForkFailures \in 0..(CHILD_NUMBER - 1)
    /\ MaxIOErrors \in Nat

Producer == 0
Consumer == 1..CHILD_NUMBER
Procs == {Producer} \cup Consumer
Sems == {"bufferMutex", "empty", "full"}

\* The null pointer points to no process and is no semaphore.
ASSUME NullIsNobody == NULL \notin Procs /\ NULL \notin Sems

VARIABLES m_value, m_wait, state, tmp, at,  \* the kernel's, see Semaphore
          pc,           \* pc[p]: the next statement of p
          buffer,       \* the file ./buffer, by words; -1 is a hole
          f_pos,        \* the offset of bufferFd, in words
          data,         \* main's data, which producerPos always equals
          consumerPos,  \* consumerPos[c]: the local variable of consumer()
          i,            \* turns main has taken in its fork loop
          j,            \* j[c]: posts of `full` made by the last consumer
          output,       \* what the consumers have printed to ./output.log
          linked,       \* the semaphores that sem_unlink has not removed
          ioErrors      \* the processes that left after a failed I/O call

kernelVars == <<m_value, m_wait, state, tmp, at>>
userVars == <<pc, buffer, f_pos, data, consumerPos, i, j, output, linked, ioErrors>>
pcVars == <<kernelVars, userVars>>

K == INSTANCE Semaphore WITH Proc <- Procs, Sem <- Sems,
                             MaxValue <- MAX_DATA_NUMBER + BUFFER_SIZE + CHILD_NUMBER

\* prelude() has opened the semaphores and stored the initial consumerPos.
PCInit ==
    /\ m_value = [s \in Sems |-> CASE s = "bufferMutex" -> 1
                                   [] s = "empty" -> BUFFER_SIZE
                                   [] s = "full" -> 0]
    /\ m_wait = [s \in Sems |-> NULL]
    /\ state = [p \in Procs |-> K!TASK_RUNNING]
    /\ tmp = [p \in Procs |-> NULL]
    /\ at = [p \in Procs |-> NULL]
    /\ pc = [p \in Procs |-> IF p = Producer THEN "fork" ELSE "unborn"]
    /\ buffer = [w \in 0..BUFFER_SIZE |-> IF w = BUFFER_SIZE THEN 0 ELSE -1]
    /\ f_pos = BUFFER_SIZE + 1
    /\ data = 0
    /\ consumerPos = [c \in Consumer |-> 0]
    /\ i = 0
    /\ j = [c \in Consumer |-> 0]
    /\ output = <<>>
    /\ linked = Sems
    /\ ioErrors = {}

----------------------------------------------------------------------------
\* System calls, each made by p at statement `from` and continued at `to`.

Goto(p, from, to) == /\ pc[p] = from
                     /\ K!InUserMode(p)
                     /\ pc' = [pc EXCEPT ![p] = to]

Wait(p, from, s, to) ==
    /\ Goto(p, from, to)
    /\ K!SemWaitAcquire(p, s) \/ K!SemWaitBlock(p, s)
    /\ UNCHANGED <<buffer, f_pos, data, consumerPos, i, j, output, linked, ioErrors>>

Post(p, from, s, to) ==
    /\ Goto(p, from, to)
    /\ K!SemPost(p, s)
    /\ UNCHANGED <<buffer, f_pos, data, consumerPos, i, j, output, linked, ioErrors>>

Lseek(p, from, word, to) ==
    /\ Goto(p, from, to)
    /\ f_pos' = word
    /\ UNCHANGED <<buffer, data, consumerPos, i, j, output, linked, ioErrors>>
    /\ UNCHANGED kernelVars

\* A process inside sem_wait that schedule() has chosen.
Resume(p) == K!Resume(p) /\ UNCHANGED userVars

----------------------------------------------------------------------------
\* main

\* The children that exist, zombies included.
Children == {c \in Consumer : pc[c] \notin {"unborn", "reaped"}}

\* One turn of the fork loop, in the parent.
ForkTurn(c, label) ==
    /\ pc[Producer] = "fork"
    /\ c = i + 1
    /\ i' = c
    /\ pc' = [pc EXCEPT ![c] = label,
                       ![Producer] = IF c = CHILD_NUMBER THEN "wait empty" ELSE @]
    /\ UNCHANGED <<buffer, f_pos, data, consumerPos, j, output, linked, ioErrors>>
    /\ UNCHANGED kernelVars

Fork(c) == ForkTurn(c, "wait full")

\* fork() fails; `if (!fork())` takes that for the parent's return.
ForkFails(c) ==
    /\ Cardinality({d \in 1..i : pc[d] = "unborn"}) < MaxForkFailures
    /\ ForkTurn(c, "unborn")

\* Mutant of ProducerWaitEmpty: the slot is not waited for.
ProducerWaitEmptyDropped ==
    /\ data < MAX_DATA_NUMBER
    /\ Goto(Producer, "wait empty", "wait mutex")
    /\ UNCHANGED <<buffer, f_pos, data, consumerPos, i, j, output, linked, ioErrors>>
    /\ UNCHANGED kernelVars

\* Mutant of ProducerWaitMutex: the buffer is not locked.
ProducerWaitMutexDropped ==
    /\ Goto(Producer, "wait mutex", "lseek slot")
    /\ UNCHANGED <<buffer, f_pos, data, consumerPos, i, j, output, linked, ioErrors>>
    /\ UNCHANGED kernelVars

\* The loop over data: wait for a free slot and for the buffer, write, release.
ProducerWaitEmpty ==
    data < MAX_DATA_NUMBER /\ Wait(Producer, "wait empty", "empty", "wait mutex")
ProducerWaitMutex == Wait(Producer, "wait mutex", "bufferMutex", "lseek slot")
ProducerLseek == Lseek(Producer, "lseek slot", data % BUFFER_SIZE, "write slot")
ProducerWrite ==
    /\ Goto(Producer, "write slot", "post mutex")
    /\ buffer' = [buffer EXCEPT ![f_pos] = data]
    /\ f_pos' = f_pos + 1
    /\ data' = data + 1
    /\ UNCHANGED <<consumerPos, i, j, output, linked, ioErrors>>
    /\ UNCHANGED kernelVars
ProducerPostMutex == Post(Producer, "post mutex", "bufferMutex", "post full")
ProducerPostFull == Post(Producer, "post full", "full", "wait empty")

\* main_cleanup: waitpid(-1) returns zombies until there is no child left
\* (ECHILD); while there are only living ones it blocks.
Reap(c) ==
    /\ pc[Producer] = "wait empty" /\ data = MAX_DATA_NUMBER
    /\ K!InUserMode(Producer)
    /\ c \in Children /\ state[c] = K!TASK_ZOMBIE
    /\ pc' = [pc EXCEPT ![c] = "reaped"]
    /\ UNCHANGED <<buffer, f_pos, data, consumerPos, i, j, output, linked, ioErrors>>
    /\ UNCHANGED kernelVars

Unlink(from, s, to) ==
    /\ Goto(Producer, from, to)
    /\ linked' = linked \ {s}
    /\ UNCHANGED <<buffer, f_pos, data, consumerPos, i, j, output, ioErrors>>
    /\ UNCHANGED kernelVars

\* Mutant of UnlinkMutex: main does not wait for its children.
UnlinkMutexEarly == /\ data = MAX_DATA_NUMBER
                    /\ Unlink("wait empty", "bufferMutex", "unlink empty")

UnlinkMutex == /\ data = MAX_DATA_NUMBER /\ Children = {}
               /\ Unlink("wait empty", "bufferMutex", "unlink empty")
UnlinkEmpty == Unlink("unlink empty", "empty", "unlink full")
UnlinkFull == Unlink("unlink full", "full", "exit")

----------------------------------------------------------------------------
\* consumer().  Its for loop has MAX_DATA_NUMBER turns at most; a turn that
\* does not end the loop consumes an item, so `break` always comes first.

ConsumerWaitFull(c) == Wait(c, "wait full", "full", "wait mutex")
ConsumerWaitMutex(c) == Wait(c, "wait mutex", "bufferMutex", "lseek pos")
ConsumerLseekPos(c) == Lseek(c, "lseek pos", BUFFER_SIZE, "read pos")

\* Read consumerPos; `no more data` leaves the loop through sem_post(bufferMutex).
ConsumerReadPos(c) ==
    /\ Goto(c, "read pos", IF buffer[f_pos] >= MAX_DATA_NUMBER
                           THEN "post mutex, leave" ELSE "lseek slot")
    /\ consumerPos' = [consumerPos EXCEPT ![c] = buffer[f_pos]]
    /\ f_pos' = f_pos + 1
    /\ UNCHANGED <<buffer, data, i, j, output, linked, ioErrors>>
    /\ UNCHANGED kernelVars

ConsumerLseekSlot(c) ==
    Lseek(c, "lseek slot", consumerPos[c] % BUFFER_SIZE, "read slot")

\* Read the item, print it and ++consumerPos.
ConsumerReadSlot(c) ==
    /\ Goto(c, "read slot", "lseek store")
    /\ output' = Append(output, buffer[f_pos])
    /\ f_pos' = f_pos + 1
    /\ consumerPos' = [consumerPos EXCEPT ![c] = @ + 1]
    /\ UNCHANGED <<buffer, data, i, j, linked, ioErrors>>
    /\ UNCHANGED kernelVars

ConsumerLseekStore(c) == Lseek(c, "lseek store", BUFFER_SIZE, "store pos")

\* Store consumerPos; the consumer of the last item turns to freeing the others.
ConsumerStorePos(c) ==
    /\ Goto(c, "store pos", IF consumerPos[c] >= MAX_DATA_NUMBER
                            THEN "free others" ELSE "post mutex")
    /\ buffer' = [buffer EXCEPT ![f_pos] = consumerPos[c]]
    /\ f_pos' = f_pos + 1
    /\ j' = [j EXCEPT ![c] = 0]
    /\ UNCHANGED <<data, consumerPos, i, output, linked, ioErrors>>
    /\ UNCHANGED kernelVars

\* One turn of the loop that posts `full` for every other child.
ConsumerFreeOther(c) ==
    /\ j[c] < CHILD_NUMBER - 1
    /\ pc[c] = "free others" /\ K!SemPost(c, "full")
    /\ j' = [j EXCEPT ![c] = @ + 1]
    /\ UNCHANGED <<pc, buffer, f_pos, data, consumerPos, i, output, linked, ioErrors>>

\* Mutant of ConsumerPostLast: the others may be left asleep in sem_wait(full).
ConsumerPostLastEarly(c) == Post(c, "free others", "bufferMutex", "exit")

ConsumerPostLast(c) == /\ j[c] = CHILD_NUMBER - 1
                       /\ Post(c, "free others", "bufferMutex", "exit")
ConsumerPostLeave(c) == Post(c, "post mutex, leave", "bufferMutex", "exit")
ConsumerPostMutex(c) == Post(c, "post mutex", "bufferMutex", "post empty")
ConsumerPostEmpty(c) == Post(c, "post empty", "empty", "wait full")

----------------------------------------------------------------------------
\* lseek, read or write returns -1: the process leaves without releasing
\* bufferMutex, and the producer without claiming its children.
IOError(p) ==
    /\ pc[p] \in {"lseek slot", "write slot", "lseek pos", "read pos", "read slot",
                  "lseek store", "store pos"}
    /\ Cardinality(ioErrors) < MaxIOErrors
    /\ ioErrors' = ioErrors \cup {p}
    /\ Goto(p, pc[p], "exit")
    /\ UNCHANGED <<buffer, f_pos, data, consumerPos, i, j, output, linked>>
    /\ UNCHANGED kernelVars

\* return from main or consumer: do_exit.
Leave(p) ==
    /\ Goto(p, "exit", "gone")
    /\ K!Exit(p)
    /\ UNCHANGED <<buffer, f_pos, data, consumerPos, i, j, output, linked, ioErrors>>

ProducerStep ==
    \/ ProducerWaitEmpty \/ ProducerWaitMutex \/ ProducerLseek \/ ProducerWrite
    \/ ProducerPostMutex \/ ProducerPostFull
    \/ UnlinkMutex \/ UnlinkEmpty \/ UnlinkFull
    \/ \E c \in Consumer : Fork(c) \/ ForkFails(c) \/ Reap(c)

ConsumerStep(c) ==
    \/ ConsumerWaitFull(c) \/ ConsumerWaitMutex(c)
    \/ ConsumerLseekPos(c) \/ ConsumerReadPos(c)
    \/ ConsumerLseekSlot(c) \/ ConsumerReadSlot(c)
    \/ ConsumerLseekStore(c) \/ ConsumerStorePos(c)
    \/ ConsumerFreeOther(c) \/ ConsumerPostLast(c) \/ ConsumerPostLeave(c)
    \/ ConsumerPostMutex(c) \/ ConsumerPostEmpty(c)

PCNext == \/ ProducerStep
          \/ \E c \in Consumer : ConsumerStep(c)
          \/ \E p \in Procs : Resume(p) \/ Leave(p) \/ IOError(p)

\* A runnable process runs on sooner or later, in the kernel and in user mode.
PCFairness == /\ WF_pcVars(ProducerStep)
              /\ \A c \in Consumer : WF_pcVars(ConsumerStep(c))
              /\ \A p \in Procs : WF_pcVars(Resume(p)) /\ WF_pcVars(Leave(p))

PCSpec == PCInit /\ [][PCNext]_pcVars /\ PCFairness

----------------------------------------------------------------------------
\* The types: no semaphore exceeds its bound, which the posts that free the
\* other consumers could do, and the file offset stays inside the file.
PCTypeOK ==
    /\ K!TypeOK
    /\ buffer \in [0..BUFFER_SIZE -> -1..MAX_DATA_NUMBER]
    /\ f_pos \in 0..(BUFFER_SIZE + 1)
    /\ data \in 0..MAX_DATA_NUMBER
    /\ consumerPos \in [Consumer -> 0..MAX_DATA_NUMBER]
    /\ i \in 0..CHILD_NUMBER
    /\ j \in [Consumer -> 0..(CHILD_NUMBER - 1)]
    /\ linked \subseteq Sems
    /\ ioErrors \subseteq Procs

\* p holds bufferMutex: it has returned from sem_wait and not yet posted, or
\* has left after an I/O error without posting.
Holds(p) ==
    \/ /\ at[p] = NULL
       /\ pc[p] \in {"lseek slot", "write slot", "post mutex", "lseek pos",
                     "read pos", "read slot", "lseek store", "store pos",
                     "free others", "post mutex, leave"}
    \/ p \in ioErrors

\* At most one process is between sem_wait(bufferMutex) and its sem_post, and
\* then the semaphore is zero: lseek and the call after it are never torn.
MutualExclusion ==
    /\ \A p, q \in Procs : Holds(p) /\ Holds(q) => p = q
    /\ (\E p \in Procs : Holds(p)) <=> m_value["bufferMutex"] = 0

\* The consumers print 0, 1, 2, ... : every item once, in order, whichever
\* consumer takes it, also when a fork or an I/O call has failed; and items that
\* are written and not yet read are still in their slots: the producer never laps
\* the consumers.
ConsumedInOrder ==
    /\ \A k \in 1..Len(output) : output[k] = k - 1
    /\ data - Len(output) <= BUFFER_SIZE
    /\ \A n \in Len(output)..(data - 1) : buffer[n % BUFFER_SIZE] = n

\* When main removes a semaphore nobody waits on it, and no consumer is left
\* that could still call it.
UnlinkedIsUnused ==
    \A s \in Sems \ linked :
        /\ m_wait[s] = NULL
        /\ \A c \in Consumer : pc[c] \in {"unborn", "reaped"}

\* Without I/O errors everything ends: all items are consumed, every consumer
\* is released from sem_wait(full), claimed by main, and main returns.
Termination ==
    <>(\/ ioErrors # {}
       \/ /\ pc[Producer] = "gone"
          /\ Children = {}
          /\ Len(output) = MAX_DATA_NUMBER
          /\ linked = {})
================================================================================
