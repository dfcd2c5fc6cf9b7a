# Verification of the Linux 0.11 labs

The repository is a series of exercises on the Linux 0.11 kernel. Each lab directory holds the
kernel files it changes and the user programs that go with it; together they are one small
kernel: a boot loader, system calls, a scheduler, semaphores, shared memory, a console and a
proc filesystem. This directory models the parts that carry state, checks them with TLC on small
instances and proves the central ones with TLAPS.

Paths below are relative to the lab directories of the repository (`Lab 5: kernel/sem.c` is
`src/Lab 5. Implement semaphores/linux-0.11/kernel/sem.c`). `PROJECT.json` lists, per definition,
the lines it models.

## 1. Inventory

The kernel has one processor. A process in kernel mode is not preempted: `do_timer` returns
without scheduling when the interrupted code is kernel code. It gives the processor up only in
`schedule()`, which `sleep_on`, `interruptible_sleep_on`, `pause`, `waitpid`, `exit` and the
return from a system call reach. All modules rest on this: **an action is what a process does
between two such points**, and any runnable process may take the next one.

| Component | State | Operations | What is hard | What makes it correct |
|---|---|---|---|---|
| Wait queues (Lab 3, 4: kernel/sched.c) | one pointer per queue; the local `tmp` of each sleeper's stack frame | sleep_on, interruptible_sleep_on, wake_up | the queue is a chain through stack frames of sleeping processes; pointers are followed long after they were read | every sleeper can be woken; no pointer to a process that has left |
| Semaphores (Lab 5: kernel/sem.c) | m_value, m_wait, m_name, the linked list | sem_open, sem_wait, sem_post, sem_unlink | wake_up wakes one; a newcomer may take the unit first; recycled blocks | counting semaphore; a name is one semaphore |
| pc.c (Lab 5) | a file as ring buffer, one file offset for all, three semaphores | produce, consume, clean up | lseek + read are two calls on a shared offset; the last consumer frees the others; failing fork or I/O | items once and in order; the program ends |
| Shared memory and paging (Lab 6: mm/shm.c, mm/memory.c) | mem_map, page tables, sharedPages, brk | shmget, shmat, page faults, copy-on-write, fork, exit, exec | two use counts for one frame, changed by different calls | no frame is freed while mapped; counts exact; protection |
| Scheduler and life cycle (Lab 3: kernel/sched.c, fork.c, exit.c; Lab 2: kernel/system_call.s) | task[], current, last_pid, counters, signals, alarms | schedule, do_timer, fork, exit, waitpid, kill, alarm, nice, pause | exits racing waits; signals racing wake-ups; pid wrap-around; starvation | no exit missed, no orphan, unique pids, every runnable task runs |
| process.log and stat_log.py (Lab 3) | the last letter of every process | fprintk of N, J, R, W, E | the letters are written apart from the changes of state they tell of | the log tells the state of every process |
| Stack switching (Lab 4: kernelstack_utilities.s, fork.c) | kernel stacks, tss.esp0, LDT | switch_to, copy_process | four pieces of state change one after the other | a task resumes with its own stack |
| Timer list, floppy motor (Lab 3: kernel/sched.c) | 64 entries of delta times; per drive two timers, the motor bit and a wait queue | add_timer, do_timer, ticks_to_floppy_on, floppy_on, floppy_off | in-place swaps; table full; interrupts are let in between a test and the sleep | nothing is called early; a motor is up to speed when floppy_on returns; sleepers are woken |
| iam, whoami (Lab 2: kernel/who.c) | a 23-character name | iam, whoami | lengths at the limit | reads return what was written |
| producer.c, consumer.c (Lab 6) | a page as ring buffer, three semaphores, an output file | set up, produce, consume, unlink | two programs started in any order; a set-up that fails half way; the consumer removes the semaphores | items in order through the page; both programs end; nothing is left behind |
| debug_paging (Lab 6.Ext) | none | walk directory and tables | - | prints what is mapped |
| Console (Lab 7: chr_drv/console.c) | video memory, origin and scr_end, x, y and pos of the cursor, scroll region, escape state, attribute, F12Flag | con_write, one character at a time; F12_trigger; the bell | row, column and address are kept up to date separately while the origin moves; long sequences of legal escapes; unsigned arithmetic | the cursor stays on the display; the two ways to scroll look the same; letters stay hidden |
| Keyboard (Lab 7: chr_drv/keyboard.S) | mode, leds, e0, the read queue | the interrupt, one scan code at a time | prefixes, left and right keys, chords, a queue at its limit | modifiers follow the keys; keys are queued whole; F12Flag follows F12 |
| Directories and inodes (Lab 8: fs/namei.c) | directory entries, i_nlinks, i_count, blocks | open, mknod, mkdir, rmdir, unlink, link, chdir, close | up to eight early returns with two inodes held; inodes and blocks run out | exact link and reference counts; directories are a tree |
| proc files (Lab 8: fs/proc_dev.c, read_write.c) | psinfoBuf, hdinfoBuf, file positions | read, lseek | one buffer for all readers; the text changes between two reads | a reader sees one consistent text |
| Boot loader (Lab 1) | sector, head, track, segment | read_it | 64 KB and track boundaries | each sector loaded once |
| init/main.c | - | init forks and waits | - | - |

Components meet in these places. Semaphores call the scheduler's `sleep_on` and `wake_up`
(`Semaphore` models both sides); `pc.c` calls the semaphores (`ProducerConsumer` takes the actions
of `Semaphore` through INSTANCE); `sem_open` and `sem_unlink` move semaphores in and out of memory
(`SemTable`, over the same actions); `exit`, `fork` and `exec` call into `mm/` (`SharedMemory`) and
into the process table (`Tasks`); producer.c and consumer.c use semaphores and shared pages
together (`SharedRing`, over the actions of both); the keyboard sets the console's F12 flag (an
action of `Console`, an output of `Keyboard`); a proc file is an inode with a name (`ProcFile`
extends `FileSystem`).

## 2. Modules

| Module | Models | Uses |
|---|---|---|
| `CountingSemaphore` | abstract specification: counters and blocked processes | - |
| `Semaphore` | sem_wait, sem_post, sleep_on, wake_up | is shown to implement `CountingSemaphore` |
| `SemaphoreProof` | theorems about `Semaphore` | `Semaphore`, TLAPS |
| `ProducerConsumer` | pc.c | `Semaphore` |
| `ProducerConsumerProof` | theorems about `ProducerConsumer` | `ProducerConsumer`, `SemaphoreProof`, TLAPS |
| `SemTable` | sem_open, sem_unlink, names, malloc's blocks | `Semaphore` |
| `SemTableProof` | theorems about `SemTable` | `SemTable`, `SemaphoreProof`, TLAPS |
| `SharedMemory` | shm.c and the page counts of memory.c | - |
| `SharedMemoryProof` | theorems about `SharedMemory` | `SharedMemory`, TLAPS |
| `Tasks` | scheduler, fork, exit, waitpid, signals, process.log | - |
| `TasksProof` | theorems about `Tasks` | `Tasks`, TLAPS |
| `Timers` | add_timer, do_timer's part for devices, the floppy motors | - |
| `SharedRing` | producer.c and consumer.c of Lab 6 | `Semaphore`, `SharedMemory` |
| `Screen` | abstract specification: rows of cells, a cursor, a scroll region | - |
| `Console` | console.c of Lab 7 | is shown to implement `Screen` |
| `ConsoleProof` | theorems about `Console` | `Console`, TLAPS |
| `Keyboard` | keyboard.S of Lab 7 | - |
| `InterruptsProof` | theorems about `Timers` and `Keyboard` | `Timers`, `Keyboard`, TLAPS |
| `FileSystem` | namei.c of Lab 8, with what it uses of inode.c and bitmap.c | - |
| `ProcFile` | proc_dev.c and read_write.c of Lab 8 | `FileSystem` |
| `FilesAndRingProof` | theorems about `FileSystem` and `ProcFile`, and about `SharedRing` | `ProcFile`, `SharedRing`, TLAPS |
| `MC*` | instances for TLC; constants are in the `.cfg` files | |

**Semaphore.** `m_value` and `m_wait` are the fields of `sem_t`, `state[p]` is `task_struct.state`,
`tmp[p]` the local of p's `sleep_on` frame, and `at[p]` the semaphore whose `sem_wait` p is
suspended in. `SemWaitAcquire` and `SemWaitBlock` are `sys_sem_wait` up to its return or its first
`schedule()`; `ResumeAcquire` and `ResumeBlock` are what follows when `schedule()` returns
(`if (tmp) tmp->state=0`, then the `while` test); `SemPost` is `sys_sem_post` with `wake_up`; `Exit`
is `do_exit` as the queues see it. The refinement mapping to `CountingSemaphore` is
`value <- m_value, blockedOn <- at`: a woken process that loses the race and sleeps again is a
stuttering step.

**ProducerConsumer.** `pc[p]` is the statement a process is at, at the granularity of system
calls. The file is `buffer` (the slots, then the stored position) and `f_pos` is its one offset:
the file is opened before the forks, so that all processes share it. `Fork` and `ForkFails` are the
two outcomes of `if (!fork())`, `IOError` is every `return` behind a failed lseek, read or write,
`Leave` the exit of a process.

**SemTable.** A semaphore is a block of kernel memory. `m_name[b]` is the character array in it,
`list` the list behind `_semHead`, `freeList` what `malloc` hands out next, `handle[p][n]` what
`sem_open(n)` has returned to p. `strncpy(a, n, strlen(n))` is modelled by what it does: it writes no
NUL. `m_prev` and `m_next` are the pointers of every node, `SemHead` the node `_semHead`, kept beside `list`:
`SemOpenNew` sets those of the new node and of the last (`LastNode`), `Unlinked` those of the two neighbours of a
removed one, and a freed node keeps its own until it is handed out again. `PointersAreList` says that they are the list.

**SharedMemory.** `pg_table[p][v]` is a page-table entry, `mem_map` and `sharedPages` are the two
counts. `FreePage` is `free_page` with `release_shared_page_if_exists`. `shmid`, `due`, `lost` and
`attached` are history: the identifiers a program knows, the shmget calls not yet followed by
shmat, those that never will be, and the addresses shmat returned. `brk` counts words and may be anywhere
in a page; `Shmat` maps the page it points into, over the entry that is there, and returns `brk`. `executable[p]` is the program p
runs; pages below its `end_data` come from the file, and `SharePage` is `share_page` with
`try_to_share`: the page of another process with the same program is entered, write-protected in both,
provided it is not dirty. `Write` is the processor's part of a write.

**Tasks.** A record per entry of `task[]`; its field `at` says where the task's kernel stack stands
(user mode, in `schedule()` of waitpid, ...), `tmp` is the local of its `interruptible_sleep_on`
frame, and `log` is the last letter the log has of the process. `Schedule(t)` is `schedule()` as a
relation: alarms and signals (`Signalled`), refill (`Refilled`), choice (`NextTask`), log, switch. One
action is one system call up to `schedule()` or the return path, one resumption, one tick, or one
keyboard interrupt.

**Timers.** `timers` is the linked list from `next_timer` on; the fields `due` and `exact` of an entry
are history (the ticks until it should be called; that nothing was put in front of it). `motor` and
`sel` are the two halves of `current_DOR`. `floppy_on` goes up to the end of ticks_to_floppy_on, whose
`sti` lets interrupts in: `gap` is the process between the loop's test and `sleep_on`, `GapSleep` is
`sleep_on` up to `schedule()`, and `Resume` the rest of it with the next turn of the loop. `do_timer` is
one tick: first the list, then every motor. `spun` and `missed` are history.

**SharedRing.** `pc[p]` is the statement a program is at, as in `ProducerConsumer`. `word` is the
contents of the page frames: both programs address the ring through their own page table
(`Place`), so that a page freed too early shows as a lost item. `Start` is the shell's fork, `Execve` the
exec of the child with its `brk` (`Brks`, `OFFSET`), `SetupFails` every `return EXIT_FAILURE`, `Leave` the exit, which goes through the exit of
`Semaphore` and of `SharedMemory`.

**Console, Screen.** `con` holds the statics that describe the display; addresses count cells. One
step is one character of `con_write`'s loop, or F12, or a tick of the bell. A cell is a class of
character (letter, other, erased) with its attribute: that is all F12 and the escapes tell apart.
`Screen` has neither memory nor origin; the refinement mapping reads its rows from memory at
`origin`, so `ImplementsScreen` says that `ScrupFast` (which moves the origin) and `ScrupSlow` (which
moves memory) look the same, and that nothing else on the display changes.

**Keyboard.** One step is one interrupt: the whole routine of one scan code. `held` and `wire` are
the keyboard (keys down, codes on their way), outside the repository; a key sends the codes that
the comments of `key_table` name. `accepted` is history: the bytes of the keys that found room.

**FileSystem, ProcFile.** One call is one step. `fs` is threaded through a call, so that every
`iget` and `iput` on every way out is in the action. Modes and owners are a choice: `deny` names an
inode that refuses the caller an access this time. `ProcFile` adds the positions and the buffers;
a byte of a buffer says whose call of refresh_psinfo wrote it. `took` and `disturbed` are history.

## 3. Runs

All runs are small enough for a laptop (the longest takes two to three minutes).

| Run | Instance | Checks | Shows |
|---|---|---|---|
| `semaphore` | 4 processes, 2 semaphores, values to 2 | TypeOK, NoLostWakeup, SleeperReferencedOnce, NeverRevivesZombie, SleepersDrain, ImplementsCounting | sem.c is a counting semaphore although `wake_up` wakes one process only and a newcomer may overtake |
| `producer_consumer` | 3 consumers, 2 slots, 4 items, 1 failing fork, 1 I/O error | MutualExclusion, ConsumedInOrder, UnlinkedIsUnused, Termination | every item is consumed once and in order; the program ends even when a fork fails |
| `sem_table` | 3 processes, 3 blocks, 2 names of one length | PointersAreList, SameNameSameSemaphore, HandlesAreLive, RecycledWakeups | the list, its pointers and the recycled blocks stay right, with sleepers on them |
| `sem_name_reuse` | names that are prefixes of each other | SameNameSameSemaphore, *violated* | see below |
| `shared_memory` | 3 processes, 2 keys, 3 frames, 3 pages each, a program whose data ends inside the page behind its file | CountsAddUp, WritableIsPrivateOrShared, AttachedInSegment, PrivateCountsInStep | for programs that use the calls as producer.c and consumer.c do, and although shmat may overwrite an entry: the counts cover the users of a page (so nothing mapped is free) and move with them, a frame that two processes map and one may write is the shared page both attached, and what shmat returned is in the page of its key |
| `shm_fork` | an identifier passed on by fork | MappedIsNotFree, *violated* | see below |
| `tasks` | 4 slots, pids to 4, priorities to 2, two processes that may both read the tty | TaskTypeOK, PidsUnique, FathersLive, ClaimableNotAsleep, LogTellsState, HeadIsReading, RunnableRuns | no exit is missed, nobody is orphaned, the log tells every state, the head of the tty's queue is a live reader, and nobody starves unless a zombie has been set running |
| `timers` | 2 processes, 2 drives, 3 list entries, motors that need 3 ticks | TimersOnTime, MotorReady, MotorSleepersWoken | swaps keep times and functions together; floppy_on returns only with the motor up to speed; who sleeps for a motor is woken, the gap of `sti` excepted |
| `console` | 3 rows and 2 columns in 4 rows of memory, 2 parameters, words of 3 bits, both kinds of adapter | CursorInStep, ImplementsScreen, LettersStayHidden | any sequence of characters and escapes leaves row, column and address in step and does to the display what the plain screen does; nothing brings a letter back while F12Flag is set |
| `keyboard` | 19 keys of which 3 are pressed, a queue of 8, 3 codes under way | ModifiersTrackKeys, QueueHoldsWholeKeys | prefixes, chords and repeats never leave a modifier behind; a full queue drops whole keys |
| `filesystem` | 2 processes (one superuser), 3 inodes, 3 blocks of 3 entries, texts of 2 bytes | LinkCountsExact, RefsExact, NamespaceIsTree, LoneReaderSeesOneText | every way out of every call leaves exact counts, also when inodes or blocks run out; a proc file that is read in pieces, linked or unlinked meanwhile gives one text |
| `shared_ring` | 3 places in a page of 4 words, data that ends a word into the first or the second page, 7 items, 2 failing set-ups | RingInOrder, NobodyMissesSemaphores, RingTermination | the two programs, started in any order, pass all items on and end, with semaphores and page given back |

**Why the bounds are enough.** Four processes make a chain of three sleepers with one process
left to post: head, middle and tail of a chain differ, and a newcomer can enter while the chain
unwinds. Two semaphores are needed to sleep on one while the other is used. In pc.c, three consumers
let one take the last item while the two others are in different places; four items go round the
two slots twice. One block more than names makes recycling permute blocks and names. Three frames
for three processes make memory run out in every call that allocates. Pids run to 4 with four
slots, so that `last_pid` wraps into pids that are in use. In `Tasks`, calls of `fork` plus tasks of
raised priority are bounded by `MaxLoad`;
any number of processes may read the tty, and the two besides init that the load allows are a chain, in which a signal can hit
the older or the younger; `MaxSignals` bounds those with an alarm or its signal. Two generations below init do not show whether init is told of
a zombie it inherits from a process that is not its own child; that `do_exit` tells it, for any number of
generations, is part of the proof of `NoExitMissed`.

In `timers`, list entries, processes in floppy_on and running motors together are bounded by
`MaxBusy`: both processes and both drives, or one motor with a process and timers beside it, or three timers in each
other's way. A motor needs one tick more than a new selection gives it (the code has 50 and 2), so
that the two are told apart. In `shared_memory` the program has a page of its file, and its data ends inside the page
behind (`MCInsidePage`), which is present or not when shmat maps over it; there is room for the two attaches a process can
make. `MaxUses` bounds mem_map, an unsigned char: 2 here, since the code tells only 1 from more (255 in `SharedRing`), and
`MaxLost` the counts left behind by an exit between shmget and shmat. In `sem_table` two names take out the head and the
tail of the list; the removal of a node in the middle, for which it takes a third, is covered by the theorem `ListLinked`.

On the console, one row of memory beyond the display makes every second scroll reach the end of
memory; three rows have regions with and without the first and the last row; the digit 2 typed any number of times
makes 2 and 22, 222, ..., which modulo 8 are 6, in range and out of it, and the sums they make wrap both ways; one glyph (`MaxInk`) can stand in each cell and be moved by everything, and `MaxModes`
and `SavePoints` bound what combines with it. Three keys are the longest chord the code knows
(ctrl-alt-del) and two of their sequences fill the queue, which starts near its end so that it
wraps. In the filesystem two names in the root fill the first block, so that a third entry needs
the second one and a directory the last; with three inodes every creation but two fails for want of
one. Seven items go round three places more than twice.

**Deadlock** is checked in `tasks` (the idle task and the timer always go on) and in
`console` (there is always a next character). It is switched off where the system may stop: all
processes asleep with nobody to post (`Semaphore`, `SemTable`), the programs have ended
(`ProducerConsumer`, `SharedRing`), all processes have exited (`SharedMemory`), the machine reboots or the
bound on presses is reached (`Keyboard`), the kernel has panicked (`FileSystem`, see below; `Timers`, when timer_list is full).

**Fairness.** `Semaphore`: weak fairness of a process that `schedule()` may choose; counters are
refilled only when all runnable tasks have used theirs up, so each is chosen. Nothing makes a process
in user mode call anything. That this is what `schedule()` provides is itself checked, as
`RunnableRuns` of `Tasks`. `ProducerConsumer`: weak fairness of each process, in user mode too, since
the program does not stop by itself. `SharedRing`: the same for both programs, and of their start:
the user runs both, and again when one has failed. `Tasks`: weak fairness of the idle loop and of kernel code,
strong fairness of the timer per task (the timer is independent of the task it hits: a task that has
the processor again and again is hit again and again); no fairness of system calls. `RunnableRuns`
depends on the bound on forks, and so would the code: each child starts with a full counter, and a
process that forks for ever can keep a task with counter 0 waiting.

### Where code and documents disagree

* `sem_name_reuse` (Lab 5: sem.c:80). `sem_open` copies `strlen(name)` characters and no NUL. In a
  block whose earlier name was longer, the tail of that name stays, and the new semaphore is not found
  under its own name: two processes that open one name get two semaphores.
* `shm_fork` (Lab 6: shm.c:87). The count of a shared page counts calls of shmget; every process that
  frees the page takes one off. A child that attaches the identifier its parent got is not counted,
  and the exit of one frees the page under the other.

### Known limits, outside the instances of the runs

Found while modelling; each is in the model without a property, or excluded by a bound or an assumption that names it.

* Lab 3: sched.c:208. With two readers of one tty, the older is taken out of the chain by a signal and exits; the
  younger still has it in `tmp` and sets the zombie running, so that `schedule()` returns inside `do_exit`, in front of
  the `return` of exit.c:134 that is there "just to suppress warnings". This is how `interruptible_sleep_on` differs from
  `sleep_on`, for which the corresponding property is proved (`ZombiesStay`). The head of the queue is safe
  (`HeadIsReading`). The run `tasks` reaches the revived zombie (`ExitReturned`); what it does with the processor is not
  modelled (it has no step of its own), which is why `RunnableRuns` excepts it.
* Lab 3: sched.c:202. A reader that wake_up has taken off the queue finds there one that came after it, sets that
  one running and goes back to sleep without entering the queue again; when the newcomer found the queue
  empty, its `tmp` is NULL and nobody refers to the first one any more. The model has the steps; that
  readers are woken is not claimed.
* Lab 3: sched.c:219. `wake_up` logs J for a process that `schedule()` has made ready, and logged, because
  of a signal; stat_log.py refuses two equal letters in a row. `LogTellsState` says what the last
  letter means and not that letters alternate.
* Lab 3: sched.c:263. The `sti` at the end of ticks_to_floppy_on undoes floppy_on's `cli`. When the
  motor's last tick comes between the test and `sleep_on`, its wake-up finds nobody, and the process
  sleeps until some other request for the motor. `MotorSleepersWoken` excepts this case (`missed`).
* Lab 3: sched.c:252. Two processes that wait for two drives, with nothing selected, move the
  selection to and fro: each turn of floppy_on's loop raises its `mon_timer` to 2 again. That floppy_on
  returns is therefore not claimed.
* Lab 3: sched.c:319. add_timer does not shorten the entry behind a new one, so that everything behind it
  comes later by the new one's time. `TimersOnTime` claims the exact tick only while nothing was
  put in front (`exact`), and of the others that they are not early.
* Lab 6: shm.c:74. shmat maps the page that contains `brk` and returns `brk` itself. If the data of two programs ends at
  different places of a page, the addresses they get are different words of the segment, where the README of
  the lab says that shmat "returns the address of the attached shared memory segment" (line 42). `AttachedInSegment` is what holds all the same, and `SharedRing`
  assumes one place (`RingAssumption`).
* Lab 6: shm.c:66. Where `brk` points into a page that is present, put_page writes over its entry. The frame that was
  there stays taken, and no exit gives it back. `PrivateCountsInStep` says that no other step loses a frame.
* Lab 6: shm.c:36. A process that exits between shmget and shmat leaves its count behind; the page is never freed.
  `CountsAddUp` counts what is left behind (`lost`) and does not forbid it.
* Lab 6: memory.c:246. The copy un_wp_page makes of a page that was written to is entered as clean;
  until the write is restarted and sets the dirty bit, another process with the same program may take it
  for the page of the file. The model has these steps; the contents of the page it has not.
* Lab 6: producer.c, consumer.c. With `MAXDATA <= BUFFERSIZE` the producer can exit before the consumer
  attaches, and the page goes with it (`RingAssumption`; the programs have 512 and 10). A second
  producer that starts before the first consumer has unlinked the semaphores opens the old ones.
* Lab 7: keyboard.S:228. F12 has no test against repeated codes as caps lock has: held down, it
  toggles with every repeat.
  After F12_trigger, func goes on with registers the C function may have changed (keyboard.S:230).
* Lab 7: console.c:513-516. ESC 7 and ESC 8 are looked for in the column `x` and not in the character `c`:
  the cursor is saved by any unknown escape in column 55. Modelled as it is (`EscapeChar`).
* Lab 7: con_write is entered again by the keyboard's echo and by respond while it runs; whether an
  interrupt meets it between two characters only is decided by tty_io.c, not in the repository.
* Lab 8: proc_dev.c:77. psinfoPid is tested and reset but never set, so that nobody waits "until psinfoPid finish
  reading" (line 75): a second reader refreshes the buffer under the first one. `LoneReaderSeesOneText` is what holds for
  readers nobody has disturbed.
* Lab 8: namei.c:525. When add_entry finds no room, mkdir frees the new directory's block, and the
  iput that follows, of an inode without links, frees it again: free_block panics on a block that is
  free already. Modelled as `panic`, after which nothing happens.
* Lab 8: namei.c. new_inode and bread may sleep between find_entry and add_entry; two processes can
  then enter one name twice. One call is one step here, as if all blocks were in memory.

## 4. Theorems

`SemaphoreProof` proves, for all sets `Proc` and `Sem` and every `MaxValue`, from
`NullAssumption` (NULL is neither a process nor a semaphore) and `BoundAssumption` (`MaxValue` is a
natural number):

* `TypeCorrect`: `Safety => []TypeOK`; m_value never wraps below zero.
* `WakeupsNotLost`: `Safety => []NoLostWakeup`.
* `PointersExact`: `Safety => []SleeperReferencedOnce`.
* `ZombiesStay`: `Safety => NeverRevivesZombie`.
* `CountingRefined`: `Safety => Counting!AbsSafety`; the detailed specification implements the
  abstract one (its safety part).

None of these but the first and the last is inductive: whether a sleeper will be woken depends on
the whole chain of `tmp` pointers above it. The invariant `IInv` says that there is a function
`below` that gives for every process in `sem_wait` the set of sleepers its `tmp` pointers reach, with
these properties: `below` follows the pointers (`IsBelow`); what is in a chain sleeps on the
semaphore of the chain and chains do not return to their start (`ChainOK`); no two processes hold the
same `tmp` (`TmpInjective`); the head of a queue is in nobody's chain (`HeadOK`); every sleeper is the
head, or below the head, or below a process that is already set running (`Covered`); and a queue
whose semaphore has units is empty (`PositiveIsEmpty`). `Covered` with `PositiveIsEmpty` gives
`NoLostWakeup`. There is one lemma per action, each of which names the new `below`: going to sleep
puts the old head and its chain below the new one, leaving `sem_wait` empties the chain of the leaver,
whose `tmp` is now running and covers it.

`ProducerConsumerProof` proves about pc.c, for all numbers of consumers, slots and items, from
`SizeAssumption` (the sizes are positive, the items one at least) and `NullIsNobody`:

* `LockIsExclusive`: `PCSpec => []MutualExclusion`.
* `UnlinkedUnused`: `PCSpec => []UnlinkedIsUnused`.
* `ItemsInOrder`: `PCSpec => []ConsumedInOrder`.

Every step of pc.c is a step of `Semaphore` or leaves the kernel alone (`KernelStep`), so that the
invariants of `SemaphoreProof` hold here too. `LockInv` adds where each process is in its program,
that `bufferMutex` is a binary lock whose value is zero exactly while somebody is in the critical
section, and that main unlinks a semaphore only when it has reaped every child. `OrderInv` is about
the data: what is in the file at the places that are still to be read (`Stored`), which item and
which slot each process is at, and two accounts. `SlotsAddUp`: the value of `empty`, the slots somebody
has been granted and the items written but not yet given back are BUFFER_SIZE together;
`ItemsAddUp`: the same for `full` and the items written. Without the first a producer that has passed
`sem_wait(empty)` could still overwrite an item, because the critical section alone does not say
that a slot is free; without the second a consumer could read a slot before it is written. The lemma
`Slots` says that two items less than BUFFER_SIZE apart have different slots.

`SemTableProof` proves about the table of names, for all processes, blocks and names
(`TableAssumption`: finitely many blocks, names that fit):

* `BlocksShared`: `TableSpec => []LinkedOrFree`, every block is linked or free and only once, for names of all lengths.
* `ListLinked`: `TableSpec => []PointersAreList`, for names of all lengths. `LinkedInv` is that `_semHead` is none of the
  blocks and that each node and the one behind it point to each other; `OpenLinks` and `UnlinkLinks` are what sem_open does at the
  end of the list and sem_unlink at either end and in the middle, where it matters that no node is in the list twice
  (`NodesDiffer`).
* `SameName`, `HandlesLive`, `WakeupsRecycled`: under the hypothesis `OneLength` (all names have one length,
  and no NUL inside), `TableSpec` implies `[]SameNameSameSemaphore`, `[]HandlesAreLive` and
  `[]RecycledWakeups`. Without the hypothesis the first is false: that is the run `sem_name_reuse`.

`Parted` says that list and free blocks are sequences without repetition that share out the blocks.
`NamesInv` adds that behind a name there is nothing but NULs in any block, free ones included (this is
what `OneLength` buys, and why what strncpy leaves out does no harm: `NameWritten`), that linked blocks
have different names, that a handle is a linked block of its name, and that a process inside sem_wait
has a handle of that semaphore. So nobody is suspended in a block that malloc hands out,
its queue is empty, and the `IInv` of `SemaphoreProof` survives the reset of `m_value` and `m_wait`
(`FreshSemaphore`); the calls on a handle are steps of `Semaphore`.

`SharedMemoryProof` proves about shared pages and copy-on-write, for all numbers of processes, keys,
frames, pages and words in a page:

* `PagesNotFreed`, `CountsExact`, `ProcessesProtected`, `SameMemory`: under `Careful` and `FileBelowBrk`,
  `MemorySpec` implies `[]MappedIsNotFree`, `[]CountsAddUp`, `[]WritableIsPrivateOrShared` and
  `[]AttachedInSegment`, wherever in a page the programs' data ends.
* `NoPageLost`: under `Careful` and `Aligned`, `MemorySpec` implies `[]PrivateCountsExact`.

`Careful`: programs use shmget and shmat as producer.c and consumer.c do; the run `shm_fork` shows what happens
otherwise. `FileBelowBrk`: no page has both bytes of the file and `brk` in it, as in a demand-paged executable whose
last page of data the linker has padded; nothing in the kernel checks it, and otherwise `share_page` could hand out, and protect, the page
shmat has put there. `Aligned`: data ends on a page boundary. Nothing in the kernel sees to that either; without it shmat may
overwrite an entry and its frame is lost (section 3, known limits), so that `NoPageLost` says what a program gains that ends its data on
a boundary. The four others do not need it.

The invariant `MemInv` has four parts besides the types. `Accounts` is the bookkeeping: of a key, the count
is the entries of its page, the calls of shmget that are due and those that are lost, and `mem_map` is
one while the count is not zero; of any other frame, `mem_map` covers its entries. `Layout`: nothing is mapped from `brk`
up, nor for a process that is gone, and the page of `brk` has nothing of the file; so the entry that shmat may overwrite is
a private page's. That frame is then taken for good, which is why `Adds` says of private frames that mem_map is not less than
their entries, and equal to them only if programs are `Aligned`. `Attachments`: a shared
page is where shmat put it, writable, behind what the program's file fills, and nowhere else; so
share_page and un_wp_page, which look at pages of the file and at protected ones, never get hold of
one (`NotShared`). `Protected`: a writable page of no key is in one place only. Exit and exec run
free_page over all pages of a process, and between two of them the counts are right only for the tables
without the pages that have gone. `Stage` says so, with the set of keys fixed, because a key whose count has
reached zero is still accounted for; `FreeOne` is one turn of the loop, `FreedStage` the induction
over the pages (with `Iterates` and `Induct`, as in `ConsoleProof`), and `Shrunk` takes the keys with no
user out of the accounts at the end.

`TasksProof` proves about the process table, for all table sizes, pid limits and priorities:
`TasksTyped`, `PidsAreUnique`, `FathersAreLive`, `NoExitMissed` and `LogIsTrue`. `TasksInv` says that
the table is `Settled`: well typed, with tasks 0 and 1 in it, one pid per task, every father in the
table, the log true of everybody, nobody asleep in waitpid with a zombie to be told of, and the
current task running. Most calls end with schedule(), so `ScheduleSettles` is stated once for whatever table
a call hands to it and used by each. `NextPidUnused` is the pigeonhole behind find_empty_process: of
the pids behind last_pid one is free, because there are fewer tasks than pids.

`HeadReads` proves `TasksSpec => []HeadIsReading` for any number of readers. The invariant `Placed` is that
`proc_list` is NULL or leads to a task in the table that is reading; tasks that exit or are released are not (a signal
ends a task on its way to user mode, and it has left the queue by then), and a reader that leaves clears the
pointer or finds a later one in it. Of `tmp` nothing like this holds: a zombie may be set
running (`ExitReturned`; section 3, known limits).

`InterruptsProof` proves about the kernel timers, for all numbers of processes, drives and list entries, and
all delays:

* `MotorsReady`: `TimersSpec => []MotorReady`. The invariant `SpinUp` is that what a motor has still to
  wait and what it has been on are HZ/2 together at least; a later selection may raise the wait but
  nothing shortens it.
* `SleepersWoken`: `TimersSpec => []MotorSleepersWoken`. As in `SemaphoreProof`, the queue of a drive is
  a chain of sleepers through `tmp`; `HeadsTimed` adds that while a queue has a head, or a process is
  in the gap before its sleep, the time of that drive runs or has run out in the gap.
* `TimersInTime`: `TimersSpec => []TimersOnTime`. The time of an entry is the sum of the times up to
  it, a function defined by recursion: `UntilSums` shows that its equations hold, `UntilUnique` that
  they have no other solution, both by `Induct` (below). So an insertion or a tick is followed by
  guessing the new sums and checking their equations: nothing changes before the new entry, it gets
  its own time, and all behind it come later by a non-negative amount (`InsertedOnTime`); a tick takes one off
  every sum (`TickedOnTime`), and since every entry has time left, at most one is over at a time
  (`ListTickOnTime`).

It proves about keyboard.S, for every set of keys among `KeyNames` and every
size of the ring that is larger than one (`KeyboardAssumption`):

* `QueueIsWhole`: `Spec => []QueueHoldsWholeKeys`. The invariant is about the ring as arithmetic modulo
  `size`: the distance from `tail` to `head` is the length of what has been accepted, so that the
  places a key's bytes are written to are never places still to be read (`RoomForAll`); put_queue
  tests for this only after it has written.
* `BitsAreKeys`: `Spec => []ModifiersTrackKeys`. Mode bits and keys differ while codes are on the way, so
  the property by itself is not inductive: `ModeInv` says what the codes still on the wire will make of
  them. The last code on the wire about a key tells whether the key is down; where there is
  none the bit tells it; and what a code is about depends on the code before it, which for the first
  one is the e0 flag (`About`).

`ConsoleProof` proves about console.c, for every size of display, video memory and tab stop, every
number of parameters, of any number of digits each, and every width of unsigned arithmetic that holds them (`ConsoleAssumption`):

* `CursorKept`: `Spec => []CursorInStep`.
* `ScreenRefined`: `Spec => ImplementsScreen`; what the adapter shows is the abstract display
  `Screen`, step by step, and video memory, origin and addresses are not to be seen in it.
* `LettersHidden`: `Spec => LettersStayHidden`. By `ScreenRefined` it is enough to look at the operations
  of `Screen`: for each there is a map from the letters after it to where they were before, and no two
  come from one place (`Sourced`); what is typed while the flag is set is no letter (`TypeStep`).

The invariant `ConsoleInv` is `CursorInStep` for a well-typed display (`InStep`), with what a step reads
besides: the parameters, the attribute and the saved cursor. The proof has three layers. The first is
about addresses: `Rows`, `RowsInOrder` and `CellsInOrder` are all that is used of the products by
`Cols`, and say that cells lie in memory in the order in which they are read; from there,
`FilledWindow` and `MovedWindow` say what a block that is erased or moved in memory does to the picture,
whatever the block. The second has one lemma per function of console.c (`ScrupFastShown`, ..., with the
new picture cell by cell). The third gives, for every command, the operation of `Screen` it is. The
commands that repeat (`csi_at`, `csi_P`, `csi_L`, `csi_M`, and `CsiM` over its parameters) are recursive
functions in the model: `Iterates` proves that such a function exists, and `Induct` (from the
well-foundedness of < on the naturals, with a set in place of a predicate) that n insertions of one
cell are one insertion of n.

The first part of `FilesAndRingProof` proves about names, inodes and proc files, for every number of inodes, blocks, entries in
a block, processes and paths, from `FileSystemAssumption` (there is an inode and a block, a block has room
for "." and "..", the processes are finitely many, and a path is a choice of start, a sequence of directory
names and a last component):

* `LinkCounts`: `ProcSpec => []LinkCountsExact`.
* `References`: `ProcSpec => []RefsExact`.
* `Namespace`: `ProcSpec => []NamespaceIsTree`.
* `LoneReader`: `ProcSpec => []LoneReaderSeesOneText`.
* `OpenFilesSteady`: `Spec => [][Steady]_vars`. While a process has a file open, no call makes its inode
  free or another file.

None of the first three is inductive. That rmdir may free a directory depends on nothing but its entry, its
"." and nobody's ".." naming it, which is the tree; that the tree survives depends on an inode that is named
not being handed out by new_inode, which is the counts. `FileSystemInv` (theorem `FileSystemInvariant`) has them
together. `Tree` is the shape: every directory begins with its two dots, has a name once and
only names inodes in use (`DirOK`); a directory is named once, by the one its ".." names, and the root never
(`Parents`); and every set of directories without the root has one whose parent is outside (`NoCircle`),
which is what "the parents lead to the root" says without paths. `Links`: the link count is the number of places an inode
is named at; an inode that is referred to is not free (`Good`). `Counted` adds up the working directories and
the open files.

A call holds inodes on its way, so between two statements the counts are above what `Counted` says: `After(f, g, c, b)`
says that a part of a call that began with f has come to a good file system g with counts c, and that no inode
referred to in b was freed or changed under its holder; there is a lemma for each part (the walk of dir_namei, find_entry, add_entry, iput with and without links left,
new_inode) and for each call (`OpenDoes`, `MknodDoes`, `MkdirDoes`, `RmdirDoes`, `UnlinkDoes`, `LinkDoes`, `CloseDoes`, `ChdirDoes`). What a call comes to is one of
four things for the processes: nothing (every early return), a file opened, a file closed, or a working
directory moved; `CallStep` shows the invariant for these. The walk is a recursive function over the
directories of a path, and its induction is the `Induct` and `Iterates` of `ConsoleProof` over again.

`ProcInvariant` adds the readers: `OneText` says that the buffer of a device has, up to the position where the text of a
reader ends, bytes of that reader's call alone. It holds of every reader that is not `disturbed`; a read at
position 0 disturbs the others that have begun on that device, and the text changes at no other step while
somebody has begun.

The second part of `FilesAndRingProof` proves about producer.c and consumer.c, for every size of the ring and of a page, every
number of items, pages and failed set-ups, from `RingAssumption` and `NullIsNothing` (the null pointer is none of the
values it is compared with). `RingAssumption` says that the memory and the ring are not empty, that `MAXDATA > BUFFERSIZE`
(the programs have 512 and 10), and what shmat leaves to the programs: their data ends at one place of a page
(`OFFSET`), in any page, and what is left of the page behind it holds the ring. Neither is provided for by the code: for
data that ends at different places the two programs address different words, and a ring that does not fit runs into the
page behind.

* `ItemsInOrder`: `RingSpec => []RingInOrder`.
* `SemaphoresNotMissed`: `RingSpec => []NobodyMissesSemaphores`.

The two systems share this module and no variable, constant or lemma; the first part has `Ino`, `fs` and their
like, the second the programs.

`RingInv` is what the kernel promises and what the programs add to it. The kernel's part is the invariants
of `SemaphoreProof` (`KP!IInv`) and of `SharedMemoryProof` (`MP!MemInv`), with the two programs and their shell as the processes and
pages of `PAGE_SIZE` words: every step of a program is a step of those modules or leaves them alone. The
programs' part is `Control`, `Accounts`, `Stored` and `Printed`. `Control` says where a program is and what
the kernel knows of it: who is dead, who has the page attached (`Phases`), on which semaphore a program can be
suspended (`Suspended`), how far the counts of items are (`Progress`), and that a semaphore whose name is not
linked has not been opened yet or has been removed by the consumer (`Known`). `Accounts` is `SlotsAddUp` and
`ItemsAddUp`, as for pc.c. They are inequalities here: until a program has opened a semaphore its value
is zero, and the last item's slot is never given back. `Stored` says that the items still to be
read are in the page of KEY while a program has it attached, and `Printed` that what has been read is
0, 1, 2, ... in order.

Three steps need more than one of these. `ProducerWrite` overwrites the slot of an item
`BUFFERSIZE` before it, which `SlotsAddUp` says has been read; mutual exclusion alone would not do. A program
that exits gives the page back, and with it what is in it: when the producer exits it has written `MAXDATA`
items, and since at most `BUFFERSIZE` of them are unread the consumer has read one and has the page attached
(`Progress`, `Phases`); with `MAXDATA <= BUFFERSIZE` this step is the one that fails. And when the consumer
removes the names it has read `MAXDATA` items, so that by `ItemsAddUp` the producer owes none: it has posted
`full` for the last time, and that comes after its last `sem_post(bufferMutex)`. The lemmas `WriteKeeps`
and `ReadKeeps` are about the two accesses, `WhereThePageIs` says that both programs see one frame.

What TLC checks and these proofs do not: the liveness properties (`SleepersDrain`, `Termination`,
`RunnableRuns`, `RingTermination`), the fairness part of the refinement, and `PrivateCountsInStep`, the step form of what
`NoPageLost` says of aligned programs, for data that ends anywhere. Every other property of the runs that pass has its theorem.

## 5. Abstractions and what is left out

* `SemTable`: programs unlink a semaphore when nobody else uses it, as pc.c does
  (`UnlinkedIsUnused` checks that pc.c does); the use of a freed semaphore is not modelled. A
  character of the model stands for a run of characters. `Forget` is the end of a program's use of a
  handle and no call.
* `ProducerConsumer`: main starts with its files and semaphores open; the returns of a set-up that fails, in
  front of the first fork, are left out.
* `SharedMemory`: `FileBelowBrk` (section 4) is assumed by the theorems and true of the instances. mem_map wraps at 256 in the code;
  the steps that would are left out (`MaxUses`). With `Careful`, programs attach once what they have got themselves and do not
  fork while attached. The frames that hold page tables are left out. A page that is read from the
  executable is read and entered in one step, although `bread_page` sleeps; what share_page has
  found may be old by then, which `NoPage` allows. `Exec` is `do_execve`, outside the repository, as far as it calls
  `free_page_tables` and sets `brk`.
* `Tasks`: SIGALRM stands for every signal that ends a task, SIGCHLD for the ignored ones;
  blocked signals, process groups, sessions and the stopped state are left out. `do_signal` is outside
  the repository: it runs a handler, or ends the task. Task 1 only forks and waits, as `init` does.
  Alarms run out at any time. A task that has come back from the dead (`ExitReturned`) does nothing more. `fprintk` is atomic: whether its write sleeps is decided by the buffer
  cache, which is not in the repository.
* `SharedRing`: one round of the two programs, with their data where `RingAssumption` says. Of the programs' pages only
  that of the ring is modelled. `OpenLog` stands for open, dup2 and close of the log file;
  the file itself is not modelled. The reads and writes of the page cannot fail.
* `Console`: `ques` and the parameters outside a sequence are left out, since nothing reads them;
  `respond`'s answer is not followed into the read queue; the hardware registers for origin and cursor
  are not modelled, the variables they are set from are. Parameters have any number of digits, modulo the width of
  the arithmetic. con_init leaves the adapter's answer open.
* `Keyboard`: of the character keys three codes stand for all, on the US map; the keyboard
  sends no made-up shift codes. `show_stat`, which the function keys call, leaves the modelled state alone.
* `FileSystem`: one device, nothing mounted, `pwd` and `root` as in the shell. Regular files have no
  contents. Of a path the model keeps directories and last component; `match` is equality of names.
* `ProcFile`: sys_lseek goes back only, to where the file was read before (the code takes any position, behind the
  end of the text too); how many bytes a text has is a choice; the text itself (sprintf of the task table and
  of the bitmaps), and a text longer than the buffer, are not modelled.
* `Timers`: add_timer's swaps along the list are modelled by what they come to, an insertion at the new time's
  place (`Inserted`); which entry of timer_list[] is used does not matter. The functions called are unknown; each may
  ask for one new time. The callers (floppy.c) are outside the repository: requests come in any order, and
  `Select` is its use of `selected`.
* Not modelled at all: stack switching of Lab 4, who.c, the boot
  loader; headers and tables of system-call numbers; device set-up; third-party code
  and scratch files under `tmp/`; the test programs; see `components` in `PROJECT.json`.

## 6. Plan

Done, in this order: semaphores with their abstract specification and proofs; pc.c on top of them;
the semaphore table with the pointers of its list; shared memory; tasks; the console with its abstract display; the keyboard;
names, inodes and proc files; producer.c and consumer.c on semaphores and shared pages together;
and the kernel timers with the floppy motors. Semaphores, pc.c, the semaphore table, shared
memory, tasks, the console, the keyboard, the timers, names, inodes and proc files, and
producer.c with consumer.c have their proofs.

Next: Lab 4's switch on the kernel stack, beside the TSS switch it replaces; the lengths that who.c
checks; the loop of bootsect's read_it over sectors, heads and segments. Theorem to add:
`PrivateCountsInStep`, for data that ends anywhere in a page.

No module declares a RECURSIVE operator, so that every one of them can be proved about.
