------------------------------- MODULE SharedRing -------------------------------
(****************************************************************************)
(* producer.c and consumer.c of Lab 6: two programs, started from the shell *)
(* in any order, that meet through the names of three semaphores and the    *)
(* key of a shared page.  Their system calls are those of modules Semaphore *)
(* and SharedMemory; the ring is BUFFERSIZE words from where shmat returns. *)
(*                                                                          *)
(* pc[p] is the next statement of p, as in ProducerConsumer.  A program     *)
(* whose set-up fails returns EXIT_FAILURE and is started again.            *)
(****************************************************************************)
EXTENDS Integers, Sequences, FiniteSets

CONSTANTS BUFFERSIZE, MAXDATA,  \* the macros of the two programs
          NrPages,              \* page frames
          PAGE_SIZE,            \* words of a page
          NrVirtual,            \* pages of a program are 0 .. NrVirtual - 1
          Brks,                 \* where the data of the programs may end
          OFFSET,               \* the place in its page where they all end
          MaxFailures,          \* bound on failures of a set-up
          NULL

\* With MAXDATA <= BUFFERSIZE the producer can end before the consumer has got
\* the page, which is freed with the items in it (the programs have 10 and 512).
\* shmat returns brk, as it is: the programs have one ring if their data ends at the
\* same place of a page, and it is in the page if what is left behind that place holds
\* it.  Nothing in the code provides for either.
ASSUME RingAssumption == /\ BUFFERSIZE \in Nat \ {0} /\ MAXDATA \in Nat
                         /\ MAXDATA > BUFFERSIZE
                         /\ NrPages \in Nat \ {0} /\ MaxFailures \in Nat
                         /\ PAGE_SIZE \in Nat \ {0} /\ NrVirtual \in Nat
                         /\ OFFSET \in Nat /\ OFFSET + BUFFERSIZE <= PAGE_SIZE
                         /\ Brks \subseteq Nat
                         /\ \A b \in Brks : b % PAGE_SIZE = OFFSET

Programs == {"producer", "consumer"}
Sems == {"bufferMutex", "empty", "full"}
KEY == 8

VARIABLES m_value, m_wait, state, tmp, at,    \* the kernel's, see Semaphore
          mem_map, sharedPages, pg_table, alive, executable, brk, panicked,
          shmid, due, lost, attached,         \* see SharedMemory
          word,      \* word[g][w]: what is in the frames
          linked,    \* the semaphores that exist
          pc,
          pos,       \* producerPos, which is the producer's item, and consumerPos
          output,    \* the items the consumer has printed
          failures   \* failed set-ups

semVars == <<m_value, m_wait, state, tmp, at>>
memVars == <<mem_map, sharedPages, pg_table, alive, executable, brk, panicked,
             shmid, due, lost, attached>>
ringVars == <<word, linked, pos, output, failures>>
sharedRingVars == <<semVars, memVars, ringVars, pc>>

K == INSTANCE Semaphore WITH Proc <- Programs, Sem <- Sems, MaxValue <- MAXDATA + BUFFERSIZE
\* The programs, of which only the page of the ring is modelled.
Files == {[end_data |-> 0, brk |-> b] : b \in Brks}
M == INSTANCE SharedMemory WITH
        Proc <- Programs \cup {"shell"}, Init0 <- "shell", Key <- {KEY},
        Executables <- Files, Careful <- TRUE, MaxLost <- MaxFailures, MaxUses <- 255

\* The null pointer is none of the values it is compared with.
ASSUME NullIsNothing ==
    NULL \notin Programs \cup Sems \cup Nat \cup (Nat \X Nat)
                    \cup M!Entry \cup Files

Zeroed == [w \in 0..(PAGE_SIZE - 1) |-> 0]

RingInit ==
    /\ M!MemoryInit
    /\ m_value = [s \in Sems |-> 0]
    /\ m_wait = [s \in Sems |-> NULL]
    /\ state = [p \in Programs |-> K!TASK_ZOMBIE]
    /\ tmp = [p \in Programs |-> NULL] /\ at = [p \in Programs |-> NULL]
    /\ word = [g \in 1..NrPages |-> Zeroed]
    /\ linked = {}
    /\ pc = [p \in Programs |-> "none"]
    /\ pos = [p \in Programs |-> 0]
    /\ output = <<>>
    /\ failures = 0

----------------------------------------------------------------------------
\* Statements, made by p at `from` and continued at `to`.

Goto(p, from, to) == /\ pc[p] = from
                     /\ K!InUserMode(p)
                     /\ pc' = [pc EXCEPT ![p] = to]

Wait(p, from, s, to) == /\ Goto(p, from, to)
                        /\ K!SemWaitAcquire(p, s) \/ K!SemWaitBlock(p, s)
                        /\ UNCHANGED <<memVars, ringVars>>

Post(p, from, s, to) == /\ Goto(p, from, to)
                        /\ K!SemPost(p, s)
                        /\ UNCHANGED <<memVars, ringVars>>

\* A program inside sem_wait that schedule() has chosen.
Resume(p) == K!Resume(p) /\ UNCHANGED <<memVars, ringVars, pc>>

\* The shell forks.
Start(p) == /\ pc[p] = "none"
            /\ M!Fork("shell", p)
            /\ state' = [state EXCEPT ![p] = K!TASK_RUNNING]
            /\ pc' = [pc EXCEPT ![p] = "execve"]
            /\ UNCHANGED <<m_value, m_wait, tmp, at, ringVars>>

\* The child executes the program.
Execve(p) == /\ Goto(p, "execve", "open mutex")
             /\ M!Exec(p)
             /\ UNCHANGED <<semVars, ringVars>>

----------------------------------------------------------------------------
\* The set-up, the same in both programs.

\* Mutant of SemOpen: the second to open a semaphore sets its value again.
SemOpenAnew(p, from, s, value, to) ==
    /\ Goto(p, from, to)
    /\ m_value' = [m_value EXCEPT ![s] = value]
    /\ linked' = linked \cup {s}
    /\ UNCHANGED <<m_wait, state, tmp, at, memVars, word, pos, output, failures>>

\* sem_open: the first creates the semaphore, the second finds it.
SemOpen(p, from, s, value, to) ==
    /\ Goto(p, from, to)
    /\ m_value' = IF s \in linked THEN m_value ELSE [m_value EXCEPT ![s] = value]
    /\ linked' = linked \cup {s}
    /\ UNCHANGED <<m_wait, state, tmp, at, memVars, word, pos, output, failures>>

OpenMutex(p) == SemOpen(p, "open mutex", "bufferMutex", 1, "open empty")
OpenEmpty(p) == SemOpen(p, "open empty", "empty", BUFFERSIZE, "open full")
OpenFull(p) == SemOpen(p, "open full", "full", 0, "open log")

\* open of ./output.log and dup2.
OpenLog(p) == Goto(p, "open log", "shmget") /\ UNCHANGED <<semVars, memVars, ringVars>>

\* get_free_page clears the page.
Shmget(p) == /\ Goto(p, "shmget", "shmat")
             /\ \/ M!ShmgetExisting(p, KEY) /\ UNCHANGED word
                \/ /\ M!ShmgetNew(p, KEY)
                   /\ word' = [word EXCEPT ![sharedPages'[KEY].physicalAddress] = Zeroed]
             /\ UNCHANGED <<semVars, linked, pos, output, failures>>

Shmat(p) == /\ Goto(p, "shmat", "wait first")
            /\ M!Shmat(p, KEY)
            /\ UNCHANGED <<semVars, ringVars>>

\* One of these calls returns an error; what was opened stays open.
SetupFails(p) == /\ pc[p] \in {"open mutex", "open empty", "open full", "open log",
                               "shmget", "shmat"}
                 /\ failures < MaxFailures /\ failures' = failures + 1
                 /\ Goto(p, pc[p], "failed")
                 /\ UNCHANGED <<semVars, memVars, word, linked, pos, output>>

----------------------------------------------------------------------------
\* The loops.

\* sem_wait(empty), while there are items.
ProducerWaitFirst == /\ pos["producer"] < MAXDATA
                     /\ Wait("producer", "wait first", "empty", "wait mutex")
ConsumerWaitFirst == Wait("consumer", "wait first", "full", "wait mutex")

WaitMutex(p) == Wait(p, "wait mutex", "bufferMutex", "access")

\* Where p[pos % BUFFERSIZE] is in physical memory: <<frame, word>>.
Place(p, n) == M!Physical(p, attached[p][KEY] + (n % BUFFERSIZE))

ProducerWrite ==
    LET at1 == Place("producer", pos["producer"])
    IN /\ Goto("producer", "access", "post mutex")
       /\ word' = [word EXCEPT ![at1[1]][at1[2]] = pos["producer"]]
       /\ pos' = [pos EXCEPT !["producer"] = @ + 1]
       /\ UNCHANGED <<semVars, memVars, linked, output, failures>>

\* Mutant of ConsumerRead: the loop ends one item too early.
ConsumerReadOneLess ==
    LET at1 == Place("consumer", pos["consumer"])
    IN /\ Goto("consumer", "access", IF pos["consumer"] + 2 >= MAXDATA
                                     THEN "unlink mutex" ELSE "post mutex")
       /\ output' = Append(output, word[at1[1]][at1[2]])
       /\ pos' = [pos EXCEPT !["consumer"] = @ + 1]
       /\ UNCHANGED <<semVars, memVars, word, linked, failures>>

\* The last item ends the loop, with bufferMutex taken.
ConsumerRead ==
    LET at1 == Place("consumer", pos["consumer"])
    IN /\ Goto("consumer", "access", IF pos["consumer"] + 1 >= MAXDATA
                                     THEN "unlink mutex" ELSE "post mutex")
       /\ output' = Append(output, word[at1[1]][at1[2]])
       /\ pos' = [pos EXCEPT !["consumer"] = @ + 1]
       /\ UNCHANGED <<semVars, memVars, word, linked, failures>>

PostMutex(p) == Post(p, "post mutex", "bufferMutex", "post other")

\* Mutant of ProducerPostOther: the item is not announced.
ProducerPostOtherLost ==
    /\ Goto("producer", "post other", "wait first")
    /\ UNCHANGED <<semVars, memVars, ringVars>>

ProducerPostOther == Post("producer", "post other", "full", "wait first")
ConsumerPostOther == Post("consumer", "post other", "empty", "wait first")

ProducerEnd == /\ pos["producer"] = MAXDATA
               /\ Goto("producer", "wait first", "exit")
               /\ UNCHANGED <<semVars, memVars, ringVars>>

Unlink(from, s, to) == /\ Goto("consumer", from, to)
                       /\ linked' = linked \ {s}
                       /\ UNCHANGED <<semVars, memVars, word, pos, output, failures>>
UnlinkMutex == Unlink("unlink mutex", "bufferMutex", "unlink empty")
UnlinkEmpty == Unlink("unlink empty", "empty", "unlink full")
UnlinkFull == Unlink("unlink full", "full", "exit")

\* do_exit, after which the shell has the program's status.
Leave(p) == /\ \/ Goto(p, "exit", "gone")
               \/ Goto(p, "failed", "none")
            /\ K!Exit(p)
            /\ M!Exit(p)
            /\ UNCHANGED ringVars

ProgramStep(p) == \/ Execve(p) \/ OpenMutex(p) \/ OpenEmpty(p) \/ OpenFull(p) \/ OpenLog(p)
                  \/ Shmget(p) \/ Shmat(p) \/ WaitMutex(p) \/ PostMutex(p) \/ Leave(p)
ProducerStep == ProducerWaitFirst \/ ProducerWrite \/ ProducerPostOther \/ ProducerEnd
ConsumerStep == \/ ConsumerWaitFirst \/ ConsumerRead \/ ConsumerPostOther
                \/ UnlinkMutex \/ UnlinkEmpty \/ UnlinkFull

RingNext == \/ ProducerStep \/ ConsumerStep
            \/ \E p \in Programs : Start(p) \/ ProgramStep(p) \/ Resume(p) \/ SetupFails(p)

\* A runnable program runs on sooner or later, and the user starts both, again
\* when one has failed.
RingFairness == /\ WF_sharedRingVars(ProducerStep) /\ WF_sharedRingVars(ConsumerStep)
                /\ \A p \in Programs : /\ WF_sharedRingVars(ProgramStep(p))
                                       /\ WF_sharedRingVars(Resume(p))
                                       /\ WF_sharedRingVars(Start(p))

RingSpec == RingInit /\ [][RingNext]_sharedRingVars /\ RingFairness

----------------------------------------------------------------------------
\* The consumer prints 0, 1, 2, ..., and the items that it has still to read are
\* in its ring and in the producer's, wherever each has the page attached: the
\* page outlives every failed set-up, and no place is written too early.
RingInOrder ==
    /\ \A k \in 1..Len(output) : output[k] = k - 1
    /\ \A p \in Programs : attached[p][KEY] # NULL =>
          \A n \in Len(output)..(pos["producer"] - 1) :
             LET a == Place(p, n) IN a # NULL /\ word[a[1]][a[2]] = n

\* The consumer leaves its loop without sem_post and removes the semaphores:
\* nobody waits on one then, and the producer has made its last call.
NobodyMissesSemaphores ==
    \A s \in Sems : (s \notin linked /\ output # <<>>) =>
        /\ m_wait[s] = NULL
        /\ pos["producer"] = MAXDATA /\ pc["producer"] \in {"wait first", "exit", "gone"}

\* Both programs end, with all items consumed, no semaphore left and, unless a
\* program failed between shmget and shmat, the page free again.
RingTermination ==
    <>[](/\ \A p \in Programs : pc[p] = "gone"
         /\ Len(output) = MAXDATA /\ linked = {}
         /\ (lost[KEY] = 0 => \A g \in 1..NrPages : mem_map[g] = 0))
=============================================================================
