------------------------------ MODULE SharedMemory ------------------------------
(****************************************************************************)
(* mm/shm.c of Lab 6 and the part of mm/memory.c it relies on: page frames  *)
(* with their use counts, the page tables of the processes, copy-on-write   *)
(* after fork, the pages of an executable that processes share, and the     *)
(* shared pages that shmget and shmat add.                                  *)
(*                                                                          *)
(* Two counts are kept of a shared page.  mem_map counts the page tables    *)
(* that fork has copied it into, plus one; sharedPages[key].count counts    *)
(* the calls of shmget, and shmat counts nothing.  free_page takes off the  *)
(* second count until it is zero and then the first.                        *)
(*                                                                          *)
(* Addresses are counted in words, PAGE_SIZE of them to a page, and brk may *)
(* be anywhere in a page: shmat does not move it to a boundary.  Each call  *)
(* is one action: the only one that sleeps is do_no_page, which reads a     *)
(* page of the executable from the disk before it enters it.                *)
(****************************************************************************)
EXTENDS Integers, FiniteSets

CONSTANTS Proc,        \* the processes
          Init0,       \* the process that exists at the start
          Key,         \* the keys of shmget (0 .. MAX_SHARED_PAGES_NUM - 1)
          NrPages,     \* page frames above LOW_MEM are 1 .. NrPages
          NrVirtual,   \* pages of a process are 0 .. NrVirtual - 1
          PAGE_SIZE,   \* words of a page
          Executables, \* the programs: [end_data, brk], what brk is at the start
          Careful,     \* TRUE: the programs use shmget and shmat as producer.c
                       \* and consumer.c do: each attaches once what it has got
                       \* itself, and does not fork with a page attached
          MaxLost,     \* bound: calls of shmget whose process ends before shmat
          MaxUses,     \* bound: mem_map of a frame is an unsigned char
          NULL

Page == 1..NrPages
Virtual == 0..(NrVirtual - 1)
Entry == [page : Page, writable : BOOLEAN, dirty : BOOLEAN]

ASSUME MemoryAssumption ==
    /\ Init0 \in Proc /\ IsFiniteSet(Proc) /\ IsFiniteSet(Key)
    /\ NrPages \in Nat /\ NrVirtual \in Nat /\ PAGE_SIZE \in Nat \ {0}
    /\ \A e \in Executables : e.end_data \in Nat /\ e.brk \in Nat /\ e.end_data <= e.brk
    /\ Careful \in BOOLEAN
    /\ MaxLost \in Nat /\ MaxUses \in Nat
    /\ NULL \notin Nat \cup Entry \cup Executables

\* What the code leaves to the linker, and the properties below do not take for
\* granted.  No page has file data and brk in it: the last page of the data is padded.
FileBelowBrk == \A e \in Executables : e.end_data <= (e.brk \div PAGE_SIZE) * PAGE_SIZE

\* The data of every program ends on a page boundary.
Aligned == \A e \in Executables : e.brk % PAGE_SIZE = 0

VARIABLES mem_map,      \* mem_map[g]: use count of frame g
          sharedPages,  \* sharedPages[k]: [count, physicalAddress]
          pg_table,     \* pg_table[p][v]: [page, writable, dirty], or NULL if absent
          alive,        \* the processes that exist
          executable,   \* executable[p]: the program p runs, or NULL
          brk,          \* brk[p]: end of p's data, in words
          panicked,     \* free_page has called panic
          shmid,        \* shmid[p]: the identifiers p knows, fork hands them on
          due,          \* due[p]: keys p has got and not yet attached
          lost,         \* lost[k]: the same of the processes that have ended
          attached      \* attached[p][k]: the address shmat(k) gave p, or NULL

vars == <<mem_map, sharedPages, pg_table, alive, executable, brk, panicked,
          shmid, due, lost, attached>>

MemoryInit ==
    /\ mem_map = [g \in Page |-> 0]
    /\ sharedPages = [k \in Key |-> [count |-> 0, physicalAddress |-> NULL]]
    /\ pg_table = [p \in Proc |-> [v \in Virtual |-> NULL]]
    /\ alive = {Init0}
    /\ \E e \in Executables :
          /\ executable = [p \in Proc |-> IF p = Init0 THEN e ELSE NULL]
          /\ brk = [p \in Proc |-> IF p = Init0 THEN e.brk ELSE 0]
    /\ panicked = FALSE
    /\ shmid = [p \in Proc |-> {}]
    /\ due = [p \in Proc |-> {}]
    /\ lost = [k \in Key |-> 0]
    /\ attached = [p \in Proc |-> [k \in Key |-> NULL]]

----------------------------------------------------------------------------
\* get_free_page scans mem_map from its end.
FreePages == {g \in Page : mem_map[g] = 0}
get_free_page == CHOOSE g \in FreePages : \A f \in FreePages : f <= g

\* put_page: the entry is overwritten, whatever it held.
PutPage(p, v, g) ==
    pg_table' = [pg_table EXCEPT ![p][v] = [page |-> g, writable |-> TRUE, dirty |-> FALSE]]

\* release_shared_page_if_exists: the key that has g as a live shared page.
KeyOf(shm, g) == {k \in Key : shm[k].physicalAddress = g /\ shm[k].count > 0}

\* free_page, with release_shared_page_if_exists inlined.  m is [map, shm, panic],
\* the counts before it.
FreePage(m, g) ==
    IF m.map[g] = 0 THEN [m EXCEPT !.panic = TRUE]
    ELSE IF KeyOf(m.shm, g) = {} THEN [m EXCEPT !.map[g] = @ - 1]
    ELSE LET k == CHOOSE k \in KeyOf(m.shm, g) : TRUE
         IN [m EXCEPT !.shm[k].count = @ - 1,
                      !.map[g] = IF m.shm[k].count = 1 THEN @ - 1 ELSE @]

\* free_page_tables on all of p: the counts once free_page has been called for each
\* page that is present, in their order.
Freed(p) ==
    LET after[v \in 0..NrVirtual] ==
            IF v = 0 THEN [map |-> mem_map, shm |-> sharedPages, panic |-> panicked]
            ELSE IF pg_table[p][v - 1] = NULL THEN after[v - 1]
            ELSE FreePage(after[v - 1], pg_table[p][v - 1].page)
    IN after[NrVirtual]

\* The pages of p that are frame g.
MapsOf(p, g) == {v \in Virtual : pg_table[p][v] # NULL /\ pg_table[p][v].page = g}

----------------------------------------------------------------------------
\* Mutant: shmget of a page that exists does not count.
ShmgetExistingUncounted(p, k) ==
    /\ p \in alive
    /\ sharedPages[k].physicalAddress # NULL /\ sharedPages[k].count > 0
    /\ Careful => k \notin due[p] /\ attached[p][k] = NULL
    /\ shmid' = [shmid EXCEPT ![p] = @ \cup {k}]
    /\ due' = [due EXCEPT ![p] = @ \cup {k}]
    /\ UNCHANGED <<mem_map, sharedPages, pg_table, alive, executable, brk, panicked, lost, attached>>

\* sys_shmget, the page exists.
ShmgetExisting(p, k) ==
    /\ p \in alive
    /\ sharedPages[k].physicalAddress # NULL /\ sharedPages[k].count > 0
    /\ Careful => k \notin due[p] /\ attached[p][k] = NULL
    /\ sharedPages' = [sharedPages EXCEPT ![k].count = @ + 1]
    /\ shmid' = [shmid EXCEPT ![p] = @ \cup {k}]
    /\ due' = [due EXCEPT ![p] = @ \cup {k}]
    /\ UNCHANGED <<mem_map, pg_table, alive, executable, brk, panicked, lost, attached>>

\* sys_shmget, the page is created.
ShmgetNew(p, k) ==
    /\ p \in alive
    /\ sharedPages[k].physicalAddress = NULL \/ sharedPages[k].count = 0
    /\ Careful => k \notin due[p] /\ attached[p][k] = NULL
    /\ FreePages # {}
    /\ mem_map' = [mem_map EXCEPT ![get_free_page] = 1]
    /\ sharedPages' = [sharedPages EXCEPT ![k] = [count |-> @.count + 1,
                                                  physicalAddress |-> get_free_page]]
    /\ shmid' = [shmid EXCEPT ![p] = @ \cup {k}]
    /\ due' = [due EXCEPT ![p] = @ \cup {k}]
    /\ UNCHANGED <<pg_table, alive, executable, brk, panicked, lost, attached>>

\* Mutant: shmat leaves brk where it is, and the next one lands on the same page.
ShmatKeepsBrk(p, k) ==
    /\ p \in alive
    /\ k \in shmid[p] /\ attached[p][k] = NULL
    /\ Careful => k \in due[p]
    /\ sharedPages[k].count > 0 /\ sharedPages[k].physicalAddress # NULL
    /\ brk[p] \div PAGE_SIZE \in Virtual
    /\ PutPage(p, brk[p] \div PAGE_SIZE, sharedPages[k].physicalAddress)
    /\ attached' = [attached EXCEPT ![p][k] = brk[p]]
    /\ due' = [due EXCEPT ![p] = @ \ {k}]
    /\ UNCHANGED <<mem_map, sharedPages, alive, executable, brk, panicked, shmid, lost>>

\* sys_shmat: the page is entered where brk points, and brk moves up a page.
\* Programs attach a page once.
Shmat(p, k) ==
    /\ p \in alive
    /\ k \in shmid[p] /\ attached[p][k] = NULL
    /\ Careful => k \in due[p]
    /\ sharedPages[k].count > 0 /\ sharedPages[k].physicalAddress # NULL
    /\ brk[p] \div PAGE_SIZE \in Virtual
    /\ PutPage(p, brk[p] \div PAGE_SIZE, sharedPages[k].physicalAddress)
    /\ brk' = [brk EXCEPT ![p] = @ + PAGE_SIZE]
    /\ attached' = [attached EXCEPT ![p][k] = brk[p]]
    /\ due' = [due EXCEPT ![p] = @ \ {k}]
    /\ UNCHANGED <<mem_map, sharedPages, alive, executable, panicked, shmid, lost>>

\* Page v of p is one that its program's file fills.
InFile(p, v) == executable[p] # NULL /\ v * PAGE_SIZE < executable[p].end_data

\* What do_no_page finds when p uses page v.  Programs stay below their brk.
Absent(p, v) == p \in alive /\ pg_table[p][v] = NULL /\ v * PAGE_SIZE < brk[p]

\* A page is found on the free list and entered: get_empty_page past end_data; or,
\* of the file, when share_page has found nobody to share with.  (What it found is
\* old when the page has been read: somebody may have entered it meanwhile.)
NoPage(p, v) ==
    /\ Absent(p, v)
    /\ FreePages # {}
    /\ mem_map' = [mem_map EXCEPT ![get_free_page] = 1]
    /\ PutPage(p, v, get_free_page)
    /\ UNCHANGED <<sharedPages, alive, executable, brk, panicked, shmid, due, lost, attached>>

\* Mutant of SharePage: the page stays writable for the process that had it.
SharePageUnprotected(p, v, q) ==
    /\ Absent(p, v) /\ InFile(p, v)
    /\ q # p /\ executable[q] = executable[p]
    /\ pg_table[q][v] # NULL /\ ~pg_table[q][v].dirty
    /\ pg_table' = [pg_table EXCEPT ![p][v] = [pg_table[q][v] EXCEPT !.writable = FALSE]]
    /\ mem_map[pg_table[q][v].page] < MaxUses
    /\ mem_map' = [mem_map EXCEPT ![pg_table[q][v].page] = @ + 1]
    /\ UNCHANGED <<sharedPages, alive, executable, brk, panicked, shmid, due, lost, attached>>

\* share_page, try_to_share: q runs the same program and has the page, not written
\* to; of several such q the code takes the one in the last slot.
SharePage(p, v, q) ==
    /\ Absent(p, v) /\ InFile(p, v)
    /\ q # p /\ executable[q] = executable[p]
    /\ pg_table[q][v] # NULL /\ ~pg_table[q][v].dirty
    /\ LET entry == [pg_table[q][v] EXCEPT !.writable = FALSE]
       IN pg_table' = [pg_table EXCEPT ![q][v] = entry, ![p][v] = entry]
    /\ mem_map[pg_table[q][v].page] < MaxUses
    /\ mem_map' = [mem_map EXCEPT ![pg_table[q][v].page] = @ + 1]
    /\ UNCHANGED <<sharedPages, alive, executable, brk, panicked, shmid, due, lost, attached>>

\* The processor's part of a write: the entry becomes dirty.  (Nobody looks at the
\* bit of a page that is not of the file.)
Write(p, v) ==
    /\ p \in alive /\ InFile(p, v)
    /\ pg_table[p][v] # NULL /\ pg_table[p][v].writable /\ ~pg_table[p][v].dirty
    /\ pg_table' = [pg_table EXCEPT ![p][v].dirty = TRUE]
    /\ UNCHANGED <<mem_map, sharedPages, alive, executable, brk, panicked, shmid, due, lost, attached>>

\* do_wp_page, un_wp_page: a write to a protected page, the last user of it.
WriteLast(p, v) ==
    /\ p \in alive
    /\ pg_table[p][v] # NULL /\ ~pg_table[p][v].writable
    /\ mem_map[pg_table[p][v].page] = 1
    /\ pg_table' = [pg_table EXCEPT ![p][v].writable = TRUE]
    /\ UNCHANGED <<mem_map, sharedPages, alive, executable, brk, panicked, shmid, due, lost, attached>>

\* Mutant of WriteCopy: un_wp_page leaves the count of the old page.
WriteCopyUncounted(p, v) ==
    /\ p \in alive
    /\ pg_table[p][v] # NULL /\ ~pg_table[p][v].writable
    /\ mem_map[pg_table[p][v].page] # 1
    /\ FreePages # {}
    /\ mem_map' = [mem_map EXCEPT ![get_free_page] = 1]
    /\ PutPage(p, v, get_free_page)
    /\ UNCHANGED <<sharedPages, alive, executable, brk, panicked, shmid, due, lost, attached>>

\* The same with other users: p gets a copy.
WriteCopy(p, v) ==
    /\ p \in alive
    /\ pg_table[p][v] # NULL /\ ~pg_table[p][v].writable
    /\ mem_map[pg_table[p][v].page] # 1
    /\ FreePages # {}
    /\ mem_map' = [mem_map EXCEPT ![pg_table[p][v].page] = @ - 1, ![get_free_page] = 1]
    /\ PutPage(p, v, get_free_page)
    /\ UNCHANGED <<sharedPages, alive, executable, brk, panicked, shmid, due, lost, attached>>

\* fork: copy_page_tables shares every page, protected in both processes.
Fork(p, q) ==
    LET protect == [v \in Virtual |-> IF pg_table[p][v] = NULL THEN NULL
                                      ELSE [pg_table[p][v] EXCEPT !.writable = FALSE]]
    IN /\ p \in alive /\ q \notin alive
       /\ Careful => due[p] = {} /\ \A k \in Key : attached[p][k] = NULL
       /\ alive' = alive \cup {q}
       /\ pg_table' = [pg_table EXCEPT ![p] = protect, ![q] = protect]
       /\ mem_map' = [g \in Page |-> mem_map[g] + Cardinality(MapsOf(p, g))]
       /\ \A g \in Page : mem_map'[g] <= MaxUses
       /\ executable' = [executable EXCEPT ![q] = executable[p]]
       /\ brk' = [brk EXCEPT ![q] = brk[p]]
       /\ shmid' = [shmid EXCEPT ![q] = shmid[p]]
       /\ attached' = [attached EXCEPT ![q] = attached[p]]
       /\ UNCHANGED <<sharedPages, panicked, due, lost>>

\* The pages of p go, and with them everything p had attached.
FreePageTables(p) ==
    LET freed == Freed(p)
    IN /\ due[p] # {} => \A k \in Key : lost[k] < MaxLost
       /\ mem_map' = freed.map
       /\ sharedPages' = freed.shm
       /\ panicked' = freed.panic
       /\ pg_table' = [pg_table EXCEPT ![p] = [v \in Virtual |-> NULL]]
       /\ shmid' = [shmid EXCEPT ![p] = {}]
       /\ due' = [due EXCEPT ![p] = {}]
       /\ lost' = [k \in Key |-> IF k \in due[p] THEN lost[k] + 1 ELSE lost[k]]
       /\ attached' = [attached EXCEPT ![p] = [k \in Key |-> NULL]]

\* do_exit, which oom calls too when there is no free page.
Exit(p) == /\ p \in alive
           /\ FreePageTables(p)
           /\ alive' = alive \ {p}
           /\ executable' = [executable EXCEPT ![p] = NULL]
           /\ brk' = [brk EXCEPT ![p] = 0]

\* do_execve: another program, with data of another size.
Exec(p) == /\ p \in alive
           /\ FreePageTables(p)
           /\ \E e \in Executables : /\ executable' = [executable EXCEPT ![p] = e]
                                     /\ brk' = [brk EXCEPT ![p] = e.brk]
           /\ UNCHANGED alive

MemoryNext ==
    \E p \in Proc :
        \/ \E k \in Key : ShmgetExisting(p, k) \/ ShmgetNew(p, k) \/ Shmat(p, k)
        \/ \E v \in Virtual : \/ NoPage(p, v) \/ Write(p, v) \/ WriteLast(p, v) \/ WriteCopy(p, v)
                             \/ \E q \in Proc : SharePage(p, v, q)
        \/ \E q \in Proc : Fork(p, q)
        \/ Exit(p) \/ Exec(p)

MemorySpec == MemoryInit /\ [][MemoryNext]_vars

----------------------------------------------------------------------------
\* The types: no count, of a frame or of a key, is ever decremented below zero.
MemoryTypeOK ==
    /\ mem_map \in [Page -> Nat]
    /\ sharedPages \in [Key -> [count : Nat, physicalAddress : Page \cup {NULL}]]
    /\ pg_table \in [Proc -> [Virtual -> Entry \cup {NULL}]]
    /\ alive \subseteq Proc
    /\ executable \in [Proc -> Executables \cup {NULL}]
    /\ brk \in [Proc -> Nat]

\* A frame that is in a page table is not free: README of Lab 6, "Pay attention
\* to whether other processes are using one of these pages as a shared page".
MappedIsNotFree ==
    \A p \in Proc, v \in Virtual :
        pg_table[p][v] # NULL => mem_map[pg_table[p][v].page] > 0

\* The entries of page tables that are frame g, and the calls of shmget for it that
\* are not attached yet.
Users(g) == Cardinality({x \in Proc \X Virtual : /\ pg_table[x[1]][x[2]] # NULL
                                                 /\ pg_table[x[1]][x[2]].page = g})
Gets(g) == Cardinality({x \in Proc \X Key : /\ x[2] \in due[x[1]]
                                            /\ x[2] \in KeyOf(sharedPages, g)})

\* The counts add up, wherever brk is.  That of a key is the entries of page tables and
\* the calls of shmget that are not attached yet, or never will be, and mem_map of its
\* frame is one, so that put_page never finds that "mem_map disagrees"; mem_map of every
\* other frame is never short of its entries, so that nothing mapped is free (MappedIsNotFree).
\* And free_page never panics.
CountsAddUp ==
    /\ \A g \in Page :
          LET shm == KeyOf(sharedPages, g)
          IN /\ Cardinality(shm) <= 1
             /\ shm = {} => Users(g) <= mem_map[g]
             /\ \A k \in shm : /\ mem_map[g] = 1
                               /\ Users(g) + Gets(g) + lost[k] = sharedPages[k].count
    /\ ~panicked

\* p's entry where brk points is frame g.
AtBrk(p, g) == LET entry == pg_table[p][brk[p] \div PAGE_SIZE]
               IN entry # NULL /\ entry.page = g

\* mem_map of a frame that is no shared page moves with its entries: through fork,
\* share_page, copy-on-write, execve and exit, whatever the order, no step counts an
\* entry that is not there or leaves one behind.  Only shmat does, when put_page
\* overwrites the entry of a page that brk points into: its frame is lost for good.
PrivateCountsInStep ==
    [][\A g \in Page :
          /\ KeyOf(sharedPages, g) = {} /\ KeyOf(sharedPages', g) = {}
          /\ mem_map'[g] - mem_map[g] # Users(g)' - Users(g)
          => \E p \in Proc, k \in Key : Shmat(p, k) /\ AtBrk(p, g)]_vars

\* Protection between processes: a frame that two processes map and one of them
\* may write is the shared page of a key, and both have it where they attached it.
WritableIsPrivateOrShared ==
    \A p, q \in Proc, v, w \in Virtual :
        /\ p # q
        /\ pg_table[p][v] # NULL /\ pg_table[q][w] # NULL
        /\ pg_table[p][v].page = pg_table[q][w].page
        /\ pg_table[p][v].writable
        => \E k \in KeyOf(sharedPages, pg_table[p][v].page) :
              /\ attached[p][k] # NULL /\ attached[p][k] \div PAGE_SIZE = v
              /\ attached[q][k] # NULL /\ attached[q][k] \div PAGE_SIZE = w

\* The address shmat returned is in the frame of its key, and the process may write
\* there, wherever its brk was and whatever has been attached, shared or copied since:
\* processes that attach one key have one page.
AttachedInSegment ==
    \A p \in Proc, k \in Key :
        attached[p][k] # NULL =>
            LET entry == pg_table[p][attached[p][k] \div PAGE_SIZE]
            IN entry # NULL /\ entry.writable /\ k \in KeyOf(sharedPages, entry.page)

\* What a word of p's memory is in physical memory.
Physical(p, a) == LET e == pg_table[p][a \div PAGE_SIZE]
                  IN IF e = NULL THEN NULL ELSE <<e.page, a % PAGE_SIZE>>
================================================================================
