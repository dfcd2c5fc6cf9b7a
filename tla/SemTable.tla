-------------------------------- MODULE SemTable --------------------------------
(****************************************************************************)
(* The whole of kernel/sem.c: the list of named semaphores that sem_open    *)
(* and sem_unlink maintain, over the semaphores of module Semaphore.  A     *)
(* semaphore is a block of kernel memory, and its handle is the address of  *)
(* that block: malloc hands a block that sem_unlink has freed out again,    *)
(* with the bytes that were left in it (a link in its first word aside, so  *)
(* that names of fewer than four characters meet yet other leftovers).      *)
(*                                                                          *)
(* A name is a sequence of characters of length NameSize at most; the array *)
(* m_name has room for one more, the terminating NUL.  All of a name that   *)
(* matters here is its length and where two names differ, so that one       *)
(* character of the model stands for a run of characters of the code.       *)
(****************************************************************************)
EXTENDS Integers, Sequences, SequencesExt

CONSTANTS Proc,       \* the processes
          Blocks,     \* the blocks malloc can hand out
          Name,       \* the names the processes use
          NameSize,   \* the length of the longest name (MAXSEMNAME)
          InitValue,  \* the initial values they pass to sem_open
          MaxValue,   \* bound of the model on m_value
          SemHead,    \* the address of _semHead, which no name finds
          NULL

NUL == "nul"          \* the character '\0'

ASSUME TableAssumption == /\ NULL \notin Blocks \cup Proc /\ IsFiniteSet(Blocks)
                          /\ SemHead \notin Blocks \cup {NULL}
                          /\ NameSize \in Nat /\ Name \subseteq Seq(STRING)
                          /\ \A n \in Name : Len(n) <= NameSize
                          /\ MaxValue \in Nat /\ InitValue \subseteq 0..MaxValue

VARIABLES m_value, m_wait, state, tmp, at,  \* see Semaphore; Sem is Blocks
          m_name,   \* m_name[b]: the array of characters in block b
          list,     \* the blocks linked behind _semHead, in order
          m_prev, m_next, \* the pointers that link them, of every node; NULL if none
          freeList, \* the free blocks, the next one to be handed out first
          handle    \* handle[p][n]: what sem_open(n) returned to p, or NULL

kernelVars == <<m_value, m_wait, state, tmp, at>>
links == <<m_prev, m_next>>
tableVars == <<m_name, list, links, freeList, handle>>
allVars == <<kernelVars, tableVars>>

K == INSTANCE Semaphore WITH Sem <- Blocks

\* At boot the list is empty; malloc's pages come zeroed from get_free_page.
TableInit ==
    /\ m_value = [b \in Blocks |-> 0]
    /\ m_wait = [b \in Blocks |-> NULL]
    /\ state = [p \in Proc |-> K!TASK_RUNNING]
    /\ tmp = [p \in Proc |-> NULL]
    /\ at = [p \in Proc |-> NULL]
    /\ m_name = [b \in Blocks |-> [k \in 1..(NameSize + 1) |-> NUL]]
    /\ list = <<>>
    /\ m_prev = [b \in Blocks \cup {SemHead} |-> NULL]
    /\ m_next = [b \in Blocks \cup {SemHead} |-> NULL]
    /\ freeList = SetToSeq(Blocks)
    /\ handle = [p \in Proc |-> [n \in Name |-> NULL]]

----------------------------------------------------------------------------
\* The string a C function sees in the array a: up to the first NUL.
CString(a) ==
    LET ends == {k \in 1..Len(a) : a[k] = NUL}
        last == CHOOSE k \in ends : \A l \in ends : k <= l
    IN IF ends = {} THEN a ELSE SubSeq(a, 1, last - 1)

\* strncpy(a, n, strlen(n)) writes the characters of n and no NUL behind them.
Strncpy(a, n) == [k \in 1..Len(a) |-> IF k <= Len(n) THEN n[k] ELSE a[k]]

\* Mutant of Matches: the last node is not compared.
MatchesButLast(n) == {k \in 1..(Len(list) - 1) : CString(m_name[list[k]]) = n}

\* The blocks of the list whose name is n.  find_sem returns the first, and
\* its callers compare the name once more, for the last node of the list.
Matches(n) == {k \in 1..Len(list) : CString(m_name[list[k]]) = n}

\* Mutant of FindSem: the walk always ends at the last node.
FindSemLast(n) == list[Len(list)]

\* find_sem, when there is a match.
FindPlace(n) == CHOOSE k \in Matches(n) : \A l \in Matches(n) : k <= l
FindSem(n) == list[FindPlace(n)]

----------------------------------------------------------------------------
\* sys_sem_open, the name exists: its value is left alone.
SemOpenExisting(p, n) ==
    /\ K!InUserMode(p)
    /\ Matches(n) # {}
    /\ handle' = [handle EXCEPT ![p][n] = FindSem(n)]
    /\ UNCHANGED <<kernelVars, m_name, list, links, freeList>>

\* The node find_sem returns where no name matches: the last, _semHead if it is alone.
LastNode == IF list = <<>> THEN SemHead ELSE list[Len(list)]

\* sys_sem_open, the name is new: a block is filled in and linked behind the last node.
SemOpenNew(p, n, v) ==
    /\ K!InUserMode(p)
    /\ Matches(n) = {}
    /\ freeList # <<>>
    /\ LET b == Head(freeList)
       IN /\ m_name' = [m_name EXCEPT ![b] = Strncpy(@, n)]
          /\ m_value' = [m_value EXCEPT ![b] = v]
          /\ m_wait' = [m_wait EXCEPT ![b] = NULL]
          /\ list' = Append(list, b)
          /\ m_prev' = [m_prev EXCEPT ![b] = LastNode]
          /\ m_next' = [m_next EXCEPT ![b] = NULL, ![LastNode] = b]
          /\ handle' = [handle EXCEPT ![p][n] = b]
    /\ freeList' = Tail(freeList)
    /\ UNCHANGED <<state, tmp, at>>

\* sys_sem_wait and sys_sem_post on a handle, and the return from sleep_on.
SemWait(p, n) ==
    /\ handle[p][n] # NULL
    /\ K!SemWaitAcquire(p, handle[p][n]) \/ K!SemWaitBlock(p, handle[p][n])
    /\ UNCHANGED tableVars

SemPost(p, n) == /\ handle[p][n] # NULL
                 /\ K!SemPost(p, handle[p][n])
                 /\ UNCHANGED tableVars

Resume(p) == K!Resume(p) /\ UNCHANGED tableVars

\* p has no more use for the semaphore (no system call: the lab has no close).
Forget(p, n) == /\ K!InUserMode(p)
                /\ handle[p][n] # NULL
                /\ handle' = [handle EXCEPT ![p][n] = NULL]
                /\ UNCHANGED <<kernelVars, m_name, list, links, freeList>>

\* Mutant of Unlinked: the node behind keeps pointing back to the one that goes.
UnlinkedForward(b) ==
    /\ m_next' = [m_next EXCEPT ![m_prev[b]] = m_next[b]]
    /\ UNCHANGED m_prev

\* The neighbours of b are tied together; b keeps its own pointers.
Unlinked(b) ==
    /\ m_next' = [m_next EXCEPT ![m_prev[b]] = m_next[b]]
    /\ m_prev' = IF m_next[b] = NULL THEN m_prev
                 ELSE [m_prev EXCEPT ![m_next[b]] = m_prev[b]]

\* sys_sem_unlink: out of the list and freed, the bytes stay.  Programs call it
\* as pc.c does, when no other process uses the semaphore any more.
SemUnlink(p, n) ==
    /\ K!InUserMode(p)
    /\ Matches(n) # {}
    /\ \A q \in Proc \ {p} : handle[q][n] = NULL
    /\ list' = RemoveAt(list, FindPlace(n))
    /\ Unlinked(FindSem(n))
    /\ freeList' = <<FindSem(n)>> \o freeList
    /\ handle' = [handle EXCEPT ![p][n] = NULL]
    /\ UNCHANGED <<kernelVars, m_name>>

TableNext ==
    \E p \in Proc :
        \/ \E n \in Name : \/ SemOpenExisting(p, n)
                           \/ \E v \in InitValue : SemOpenNew(p, n, v)
                           \/ SemWait(p, n)
                           \/ SemPost(p, n)
                           \/ Forget(p, n)
                           \/ SemUnlink(p, n)
        \/ Resume(p)

TableSpec == TableInit /\ [][TableNext]_allVars

----------------------------------------------------------------------------
\* The semaphores in the blocks are well typed, m_value included, and sem_open
\* returns addresses of blocks.
TableTypeOK ==
    /\ K!TypeOK
    /\ m_name \in [Blocks -> [1..(NameSize + 1) -> STRING]]
    /\ handle \in [Proc -> [Name -> Blocks \cup {NULL}]]

\* The pointers are the list, forwards and back, behind any sequence of sem_open and sem_unlink
\* on blocks freed and handed out again in any order: the walk of find_sem from _semHead
\* passes the open semaphores and nothing else, and each points to the node that sem_unlink
\* has to tie to the next one.
PointersAreList ==
    LET node == <<SemHead>> \o list
    IN /\ \A k \in 1..Len(list) : m_next[node[k]] = node[k + 1] /\ m_prev[node[k + 1]] = node[k]
       /\ m_next[node[Len(node)]] = NULL

\* Processes that have opened the same name, with no sem_unlink of it since,
\* have the same semaphore: README of Lab 5, "Different processes can share the
\* same semaphore by providing the same name".
SameNameSameSemaphore ==
    \A p, q \in Proc, n \in Name :
        handle[p][n] # NULL /\ handle[q][n] # NULL => handle[p][n] = handle[q][n]

\* Different names are different semaphores, and a handle in use is never the
\* block of a semaphore that was removed.
HandlesAreLive ==
    \A p, q \in Proc, m, n \in Name :
        /\ handle[p][n] # NULL => handle[p][n] \in Range(list)
        /\ handle[p][n] # NULL /\ handle[p][n] = handle[q][m] => m = n

\* The wake-ups of module Semaphore survive the recycling of blocks.
RecycledWakeups == K!NoLostWakeup /\ K!SleeperReferencedOnce
================================================================================
