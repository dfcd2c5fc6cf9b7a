--------------------------- MODULE SharedMemoryProof ---------------------------
(****************************************************************************)
(* Proofs about shared memory and page counts, for any number of processes, *)
(* keys, frames and pages.  The programs are Careful, as those of Lab 6,    *)
(* and no page holds the end of their file and of their data; brk may be    *)
(* anywhere in a page, except where Aligned is named.                       *)
(****************************************************************************)
EXTENDS SharedMemory, TLAPS, FiniteSetTheorems, WellFoundedInduction

----------------------------------------------------------------------------
\* Arithmetic.

\* Pages do not overlap.
LEMMA PagesApart ==
    ASSUME NEW P, P \in Nat \ {0}, NEW v, v \in Int, NEW w, w \in Int
    PROVE  v < w => v * P < w * P
<1>1. SUFFICES ASSUME v < w PROVE v * P < w * P
  OBVIOUS
<1>2. PICK d : d = w - v /\ d \in Nat /\ d # 0
  BY <1>1
<1>3. w = v + d
  BY <1>2
<1>4. w * P = v * P + d * P
  BY <1>2, <1>3
<1>5. d * P > 0
  BY <1>2
<1>6. v * P \in Int /\ w * P \in Int /\ d * P \in Int
  BY <1>2
<1>7. QED
  BY <1>4, <1>5, <1>6

\* Every address is in the page that division finds.
LEMMA PageFound ==
    ASSUME NEW P, P \in Nat \ {0}, NEW a, a \in Nat
    PROVE  /\ a \div P \in Nat /\ (a \div P) * P \in Nat
           /\ (a \div P) * P <= a /\ a < (a \div P) * P + P
           /\ a % P = 0 => a = (a \div P) * P
OBVIOUS

\* It is in no other.
LEMMA SamePage ==
    ASSUME NEW P, P \in Nat \ {0}, NEW a, a \in Int, NEW v, v \in Int, NEW w, w \in Int,
           v * P <= a, a < v * P + P, w * P <= a, a < w * P + P
    PROVE  v = w
<1>1. v * P \in Int /\ w * P \in Int
  OBVIOUS
<1>2. ASSUME NEW x, x \in Int, NEW y, y \in Int, x * P \in Int, y * P \in Int,
             a < x * P + P, y * P <= a
      PROVE  ~(x < y)
  <2>1. SUFFICES ASSUME x < y PROVE FALSE
    OBVIOUS
  <2>2. x + 1 \in Int /\ (x + 1) * P = x * P + P
    BY <1>2
  <2>3. (x + 1) * P <= y * P
    <3>1. CASE x + 1 = y
      BY <1>2, <3>1
    <3>2. CASE x + 1 # y
      <4>1. x + 1 < y
        BY <1>2, <2>1, <3>2
      <4>2. (x + 1) * P < y * P
        BY <1>2, <2>2, <4>1, PagesApart
      <4>3. QED
        BY <1>2, <2>2, <4>2
    <3>3. QED
      BY <3>1, <3>2
  <2>4. QED
    BY <1>2, <2>2, <2>3
<1>3. QED
  BY <1>1, <1>2

\* So division finds the page of an address.
LEMMA PageOf ==
    ASSUME NEW P, P \in Nat \ {0}, NEW a, a \in Nat, NEW v, v \in Int,
           v * P <= a, a < v * P + P
    PROVE  a \div P = v
<1>1. PICK w : w = a \div P
  OBVIOUS
<1>2. w \in Int /\ w * P <= a /\ a < w * P + P
  BY <1>1, PageFound
<1>3. QED
  BY <1>1, <1>2, SamePage

\* Where the next page starts.
LEMMA NextPage == ASSUME NEW P \in Nat, NEW v \in Nat PROVE (v + 1) * P = v * P + P
OBVIOUS

----------------------------------------------------------------------------
\* Counting entries and calls.

Tables == [Proc -> [Virtual -> Entry \cup {NULL}]]

\* The entries of the page tables t that are frame g, and how many there are.
Uses(t, g) == {x \in Proc \X Virtual : t[x[1]][x[2]] # NULL /\ t[x[1]][x[2]].page = g}
UseCount(t, g) == Cardinality(Uses(t, g))

\* The processes that have got key k and not attached it.
Dues(d, k) == {q \in Proc : k \in d[q]}
DueCount(d, k) == Cardinality(Dues(d, k))

\* What is counted is finite.
LEMMA Counted ==
    ASSUME NEW t, NEW g
    PROVE  IsFiniteSet(Uses(t, g)) /\ UseCount(t, g) \in Nat
<1>1. IsFiniteSet(Proc) /\ IsFiniteSet(Virtual)
  <2>1. 0 \in Int /\ NrVirtual - 1 \in Int
    BY MemoryAssumption
  <2>2. QED
    BY <2>1, FS_Interval, MemoryAssumption DEF Virtual
<1>2. IsFiniteSet(Proc \X Virtual)
  BY <1>1, FS_Product
<1>3. Uses(t, g) \in SUBSET (Proc \X Virtual)
  BY DEF Uses
<1>4. QED
  BY <1>2, <1>3, FS_Subset, FS_CardinalityType DEF UseCount

\* The same for the calls of shmget.
LEMMA DuesCounted ==
    ASSUME NEW d, NEW k
    PROVE  IsFiniteSet(Dues(d, k)) /\ DueCount(d, k) \in Nat
<1>1. IsFiniteSet(Proc) /\ Dues(d, k) \in SUBSET Proc
  BY MemoryAssumption DEF Dues
<1>2. QED
  BY <1>1, FS_Subset, FS_CardinalityType DEF DueCount

\* A frame that is in a page table has a use; one without uses is in none; and one with a
\* single use is in one place only.
LEMMA UseLemma ==
    ASSUME NEW t, NEW g, NEW p \in Proc, NEW v \in Virtual, t[p][v] # NULL, t[p][v].page = g
    PROVE  /\ UseCount(t, g) # 0
           /\ \A q \in Proc, w \in Virtual :
                 UseCount(t, g) = 1 /\ t[q][w] # NULL /\ t[q][w].page = g => q = p /\ w = v
<1>1. <<p, v>> \in Uses(t, g)
  BY DEF Uses
<1>2. IsFiniteSet(Uses(t, g))
  BY Counted
<1>3. UseCount(t, g) # 0
  BY <1>1, <1>2, FS_EmptySet DEF UseCount
<1>4. ASSUME NEW q \in Proc, NEW w \in Virtual, UseCount(t, g) = 1, t[q][w] # NULL, t[q][w].page = g
      PROVE  q = p /\ w = v
  <2>1. <<q, w>> \in Uses(t, g)
    BY <1>4 DEF Uses
  <2>2. PICK x : Uses(t, g) = {x}
    BY <1>2, <1>4, FS_Singleton DEF UseCount
  <2>3. <<q, w>> = <<p, v>>
    BY <1>1, <2>1, <2>2
  <2>4. QED
    BY <2>3
<1>5. QED
  BY <1>3, <1>4

\* u is t with the entry e as page v of p.
Changed(t, u, p, v, e) ==
    /\ u \in Tables
    /\ \A q \in Proc, w \in Virtual : u[q][w] = IF q = p /\ w = v THEN e ELSE t[q][w]

\* That is what EXCEPT does.
LEMMA ChangedBy ==
    ASSUME NEW t \in Tables, NEW p \in Proc, NEW v \in Virtual, NEW e \in Entry \cup {NULL}
    PROVE  Changed(t, [t EXCEPT ![p][v] = e], p, v, e)
<1>1. PICK u : u = [t EXCEPT ![p][v] = e]
  OBVIOUS
<1>2. u \in Tables
  BY <1>1 DEF Tables
<1>3. \A q \in Proc, w \in Virtual : u[q][w] = IF q = p /\ w = v THEN e ELSE t[q][w]
  BY <1>1 DEF Tables
<1>4. QED
  BY <1>1, <1>2, <1>3 DEF Changed

\* An entry is filled in.
LEMMA Entered ==
    ASSUME NEW t \in Tables, NEW p \in Proc, NEW v \in Virtual, NEW e \in Entry, t[p][v] = NULL,
           NEW u, Changed(t, u, p, v, e)
    PROVE  \A g : UseCount(u, g) = IF g = e.page THEN UseCount(t, g) + 1 ELSE UseCount(t, g)
<1>1. /\ u \in Tables
      /\ \A q \in Proc, w \in Virtual : u[q][w] = IF q = p /\ w = v THEN e ELSE t[q][w]
  BY DEF Changed
<1>2. e # NULL
  BY MemoryAssumption
<1>3. ASSUME NEW g PROVE UseCount(u, g) = IF g = e.page THEN UseCount(t, g) + 1 ELSE UseCount(t, g)
  <2>1. CASE g = e.page
    <3>1. Uses(u, g) = Uses(t, g) \cup {<<p, v>>}
      BY <1>1, <1>2, <2>1 DEF Uses
    <3>2. <<p, v>> \notin Uses(t, g)
      BY DEF Uses
    <3>3. QED
      BY <2>1, <3>1, <3>2, Counted, FS_AddElement DEF UseCount
  <2>2. CASE g # e.page
    <3>1. Uses(u, g) = Uses(t, g)
      BY <1>1, <2>2 DEF Uses
    <3>2. QED
      BY <2>2, <3>1 DEF UseCount
  <2>3. QED
    BY <2>1, <2>2
<1>4. QED
  BY <1>1, <1>3

\* An entry is taken out.
LEMMA TakenOut ==
    ASSUME NEW t \in Tables, NEW p \in Proc, NEW v \in Virtual, t[p][v] # NULL,
           NEW u, Changed(t, u, p, v, NULL)
    PROVE  \A g : UseCount(u, g) =
              IF g = t[p][v].page THEN UseCount(t, g) - 1 ELSE UseCount(t, g)
<1>1. /\ u \in Tables
      /\ \A q \in Proc, w \in Virtual : u[q][w] = IF q = p /\ w = v THEN NULL ELSE t[q][w]
  BY DEF Changed
<1>2. ASSUME NEW g
      PROVE  UseCount(u, g) = IF g = t[p][v].page THEN UseCount(t, g) - 1 ELSE UseCount(t, g)
  <2>1. CASE g = t[p][v].page
    <3>1. Uses(u, g) = Uses(t, g) \ {<<p, v>>}
      BY <1>1, <2>1 DEF Uses
    <3>2. <<p, v>> \in Uses(t, g)
      BY <2>1 DEF Uses
    <3>3. QED
      <4>1. IsFiniteSet(Uses(t, g))
        BY Counted
      <4>2. Cardinality(Uses(t, g) \ {<<p, v>>}) = Cardinality(Uses(t, g)) - 1
        BY <3>2, <4>1, FS_RemoveElement
      <4>3. QED
        BY <2>1, <3>1, <4>2 DEF UseCount
  <2>2. CASE g # t[p][v].page
    <3>1. Uses(u, g) = Uses(t, g)
      BY <1>1, <2>2 DEF Uses
    <3>2. QED
      BY <2>2, <3>1 DEF UseCount
  <2>3. QED
    BY <2>1, <2>2
<1>3. QED
  BY <1>1, <1>2

\* The tables t and u have the same frames in the same places.
SamePages(t, u) ==
    \A q \in Proc, w \in Virtual :
        /\ t[q][w] = NULL <=> u[q][w] = NULL
        /\ t[q][w] # NULL => u[q][w].page = t[q][w].page

\* Protection and the dirty bit do not matter for the counts.
LEMMA SameUses ==
    ASSUME NEW t, NEW u, SamePages(t, u)
    PROVE  \A g : UseCount(u, g) = UseCount(t, g)
<1>1. ASSUME NEW g PROVE Uses(u, g) = Uses(t, g)
  <2>1. ASSUME NEW x \in Proc \X Virtual
        PROVE  /\ t[x[1]][x[2]] = NULL <=> u[x[1]][x[2]] = NULL
               /\ t[x[1]][x[2]] # NULL => u[x[1]][x[2]].page = t[x[1]][x[2]].page
    BY DEF SamePages
  <2>2. QED
    BY <2>1 DEF Uses
<1>2. QED
  BY <1>1 DEF UseCount

\* u is t with the pages of p in the table of q, which was empty.
CopyOf(t, u, p, q) ==
    /\ \A v \in Virtual : t[q][v] = NULL
    /\ \A r \in Proc, w \in Virtual : r # q =>
          /\ t[r][w] = NULL <=> u[r][w] = NULL
          /\ t[r][w] # NULL => u[r][w].page = t[r][w].page
    /\ \A w \in Virtual :
          /\ t[p][w] = NULL <=> u[q][w] = NULL
          /\ t[p][w] # NULL => u[q][w].page = t[p][w].page

\* fork counts the pages of p once more.
LEMMA Copied ==
    ASSUME NEW t, NEW u, NEW p \in Proc, NEW q \in Proc, CopyOf(t, u, p, q), NEW g
    PROVE  UseCount(u, g) = UseCount(t, g)
              + Cardinality({v \in Virtual : t[p][v] # NULL /\ t[p][v].page = g})
<1>1. PICK V : V = {v \in Virtual : t[p][v] # NULL /\ t[p][v].page = g}
  OBVIOUS
<1>2. Uses(u, g) = Uses(t, g) \cup ({q} \X V)
  <2>1. ASSUME NEW x \in Uses(u, g) PROVE x \in Uses(t, g) \cup ({q} \X V)
    <3>1. PICK r \in Proc, w \in Virtual : x = <<r, w>> /\ u[r][w] # NULL /\ u[r][w].page = g
      BY DEF Uses
    <3>2. CASE r = q
      BY <1>1, <3>1, <3>2 DEF CopyOf
    <3>3. CASE r # q
      BY <3>1, <3>3 DEF Uses, CopyOf
    <3>4. QED
      BY <3>2, <3>3
  <2>2. ASSUME NEW x \in Uses(t, g) PROVE x \in Uses(u, g)
    <3>1. PICK r \in Proc, w \in Virtual : x = <<r, w>> /\ t[r][w] # NULL /\ t[r][w].page = g
      BY DEF Uses
    <3>2. r # q
      BY <3>1 DEF CopyOf
    <3>3. QED
      BY <3>1, <3>2 DEF Uses, CopyOf
  <2>3. ASSUME NEW x \in {q} \X V PROVE x \in Uses(u, g)
    <3>1. PICK w \in Virtual : x = <<q, w>> /\ t[p][w] # NULL /\ t[p][w].page = g
      BY <1>1
    <3>2. QED
      BY <3>1 DEF Uses, CopyOf
  <2>4. QED
    BY <2>1, <2>2, <2>3
<1>3. Uses(t, g) \cap ({q} \X V) = {}
  BY <1>1 DEF Uses, CopyOf
<1>4. IsFiniteSet(V) /\ Cardinality(V) \in Nat
  <2>1. 0 \in Int /\ NrVirtual - 1 \in Int
    BY MemoryAssumption
  <2>2. IsFiniteSet(Virtual) /\ V \in SUBSET Virtual
    BY <1>1, <2>1, FS_Interval DEF Virtual
  <2>3. QED
    BY <2>2, FS_Subset, FS_CardinalityType
<1>5. IsFiniteSet({q} \X V) /\ Cardinality({q} \X V) = Cardinality(V)
  <2>1. IsFiniteSet({q}) /\ Cardinality({q}) = 1
    BY FS_Singleton
  <2>2. IsFiniteSet({q} \X V) /\ Cardinality({q} \X V) = 1 * Cardinality(V)
    BY <1>4, <2>1, FS_Product
  <2>3. QED
    BY <1>4, <2>2
<1>6. Cardinality(Uses(u, g)) = Cardinality(Uses(t, g)) + Cardinality(V)
  <2>1. IsFiniteSet(Uses(t, g)) /\ Cardinality(Uses(t, g)) \in Nat
    BY Counted DEF UseCount
  <2>2. Cardinality(Uses(u, g)) = Cardinality(Uses(t, g)) + Cardinality(V) - Cardinality({})
    BY <1>2, <1>3, <1>5, <2>1, FS_Union
  <2>3. QED
    BY <1>4, <2>1, <2>2, FS_EmptySet
<1>7. QED
  BY <1>1, <1>6 DEF UseCount

\* A call of shmget is noted, and one is settled by shmat.
LEMMA DueLemma ==
    ASSUME NEW d \in [Proc -> SUBSET Key], NEW p \in Proc, NEW k \in Key
    PROVE  /\ \A j \in Key : j # k => /\ DueCount([d EXCEPT ![p] = @ \cup {k}], j) = DueCount(d, j)
                                      /\ DueCount([d EXCEPT ![p] = @ \ {k}], j) = DueCount(d, j)
           /\ k \notin d[p] => DueCount([d EXCEPT ![p] = @ \cup {k}], k) = DueCount(d, k) + 1
           /\ k \in d[p] => DueCount([d EXCEPT ![p] = @ \ {k}], k) = DueCount(d, k) - 1
<1>1. PICK a, b : a = [d EXCEPT ![p] = @ \cup {k}] /\ b = [d EXCEPT ![p] = @ \ {k}]
  OBVIOUS
<1>2. \A j \in Key : j # k => Dues(a, j) = Dues(d, j) /\ Dues(b, j) = Dues(d, j)
  BY <1>1 DEF Dues
<1>3. /\ Dues(a, k) = Dues(d, k) \cup {p} /\ Dues(b, k) = Dues(d, k) \ {p}
      /\ k \in d[p] <=> p \in Dues(d, k)
  BY <1>1 DEF Dues
<1>4. IsFiniteSet(Dues(d, k))
  BY DuesCounted
<1>5. k \notin d[p] => DueCount(a, k) = DueCount(d, k) + 1
  BY <1>3, <1>4, FS_AddElement DEF DueCount
<1>6. k \in d[p] => DueCount(b, k) = DueCount(d, k) - 1
  <2>1. k \in d[p] => Cardinality(Dues(d, k) \ {p}) = Cardinality(Dues(d, k)) - 1
    BY <1>3, <1>4, FS_RemoveElement
  <2>2. QED
    BY <1>3, <2>1 DEF DueCount
<1>7. QED
  BY <1>1, <1>2, <1>5, <1>6 DEF DueCount

----------------------------------------------------------------------------
\* The invariant.

\* The keys that have a page.
LiveKeys(shm) == {k \in Key : shm[k].count > 0}

\* mem_map, n, of a frame with u entries.
Adds(n, u) == u <= n /\ (Aligned => u = n)

\* The counts are right: of a key in L, mem_map is one while shmget's count is not zero, and that
\* count is the page's entries, the calls that are due and the ones that are lost; of every other
\* frame, mem_map is not less than its entries, and is its entries if programs are Aligned.
Accounts(map, shm, t, d, l, L) ==
    /\ \A j, k \in L : shm[j].physicalAddress = shm[k].physicalAddress => j = k
    /\ \A k \in L :
          /\ shm[k].physicalAddress \in Page
          /\ UseCount(t, shm[k].physicalAddress) + DueCount(d, k) + l[k] = shm[k].count
          /\ map[shm[k].physicalAddress] = IF shm[k].count > 0 THEN 1 ELSE 0
    /\ \A g \in Page : (\A k \in L : shm[k].physicalAddress # g) => Adds(map[g], UseCount(t, g))
    /\ \A k \in Key \ L : shm[k].count = 0 /\ DueCount(d, k) = 0 /\ l[k] = 0

\* The types, with those of the history.
MemTypes == /\ MemoryTypeOK /\ ~panicked
            /\ due \in [Proc -> SUBSET Key] /\ lost \in [Key -> Nat]
            /\ attached \in [Proc -> [Key -> Nat \cup {NULL}]]

\* Address a is in page v.
On(a, v) == a # NULL /\ v * PAGE_SIZE <= a /\ a < v * PAGE_SIZE + PAGE_SIZE

\* The page that b, the brk of a process, is in has nothing of its program e's file.
BrkFits(b, e) ==
    \E n \in Nat : /\ On(b, n)
                   /\ e # NULL => e.end_data <= n * PAGE_SIZE
                   /\ Aligned => b = n * PAGE_SIZE

\* A process has no page from its brk up, nor when it is gone.
Layout ==
    \A p \in Proc :
        /\ p \notin alive => \A v \in Virtual : pg_table[p][v] = NULL
        /\ BrkFits(brk[p], executable[p])
        /\ \A v \in Virtual : pg_table[p][v] # NULL => v * PAGE_SIZE < brk[p]

\* p has the page of key k, writable, as its page v, behind what its program's file fills and
\* before the page that brk is in.
HasAt(p, k, v) ==
    /\ On(attached[p][k], v) /\ attached[p][k] + PAGE_SIZE <= brk[p]
    /\ pg_table[p][v] # NULL /\ pg_table[p][v].writable
    /\ pg_table[p][v].page = sharedPages[k].physicalAddress /\ sharedPages[k].count > 0
    /\ executable[p] # NULL => executable[p].end_data <= v * PAGE_SIZE

\* What shmat returned is where the page is, and a shared page is nowhere else.
Attachments ==
    /\ \A p \in Proc, k \in Key : attached[p][k] # NULL => \E v \in Virtual : HasAt(p, k, v)
    /\ \A p \in Proc, v \in Virtual, k \in Key :
          pg_table[p][v] # NULL /\ sharedPages[k].count > 0
             /\ pg_table[p][v].page = sharedPages[k].physicalAddress => On(attached[p][k], v)

\* g is the page of a key.
Keyed(g) == \E k \in Key : sharedPages[k].count > 0 /\ sharedPages[k].physicalAddress = g

\* A writable page of no key is in one place only.
Protected ==
    \A p, q \in Proc, v, w \in Virtual :
        /\ pg_table[p][v] # NULL /\ pg_table[q][w] # NULL
        /\ pg_table[p][v].page = pg_table[q][w].page
        /\ pg_table[p][v].writable
        /\ ~Keyed(pg_table[p][v].page)
        => p = q /\ v = w

MemInv == /\ MemTypes
          /\ Accounts(mem_map, sharedPages, pg_table, due, lost, LiveKeys(sharedPages))
          /\ Layout
          /\ Attachments
          /\ Protected

----------------------------------------------------------------------------
\* What the invariant says of a state.

\* get_free_page finds a frame where there is one.
LEMMA LastFree ==
    ASSUME FreePages # {}
    PROVE  get_free_page \in FreePages
<1> DEFINE T == {n \in Nat : \E g \in FreePages : n = NrPages - g}
<1>1. \A g \in FreePages : g \in Int /\ NrPages - g \in Nat
  BY MemoryAssumption DEF FreePages, Page
<1>2. T \in SUBSET Nat /\ T # {}
  BY <1>1
<1>3. PICK x \in T : \A y \in T : ~(<<y, x>> \in OpToRel(<, Nat))
  <2> HIDE DEF T
  <2>1. QED
    BY <1>2, NatLessThanWellFounded, WFMin
<1>4. PICK g \in FreePages : x = NrPages - g
  BY <1>3
<1>5. ASSUME NEW f \in FreePages PROVE f <= g
  <2>1. NrPages - f \in T /\ NrPages - g \in T
    BY <1>1
  <2>2. ~(NrPages - f < NrPages - g)
    BY <1>3, <1>4, <2>1 DEF OpToRel
  <2>3. f \in Int /\ g \in Int /\ NrPages \in Int
    BY <1>1, MemoryAssumption
  <2>4. QED
    BY <2>2, <2>3
<1>6. QED
  BY <1>5 DEF get_free_page

\* A frame of no key is counted by mem_map alone.
LEMMA PlainFrame ==
    ASSUME MemInv, NEW g \in Page, ~Keyed(g)
    PROVE  /\ Adds(mem_map[g], UseCount(pg_table, g))
           /\ mem_map[g] \in Nat /\ UseCount(pg_table, g) \in Nat
           /\ UseCount(pg_table, g) <= mem_map[g]
<1>1. Adds(mem_map[g], UseCount(pg_table, g))
  BY DEF MemInv, Accounts, LiveKeys, Keyed
<1>2. QED
  BY <1>1, Counted DEF MemInv, MemTypes, MemoryTypeOK, Adds

\* A frame of a key has one in mem_map.
LEMMA KeyFrame ==
    ASSUME MemInv, NEW k \in Key, sharedPages[k].count > 0
    PROVE  /\ sharedPages[k].physicalAddress \in Page
           /\ mem_map[sharedPages[k].physicalAddress] = 1
           /\ UseCount(pg_table, sharedPages[k].physicalAddress) + DueCount(due, k) + lost[k]
                 = sharedPages[k].count
           /\ \A j \in Key : sharedPages[j].count > 0
                 /\ sharedPages[j].physicalAddress = sharedPages[k].physicalAddress => j = k
BY DEF MemInv, Accounts, LiveKeys

\* An entry is an Entry.
LEMMA EntryType ==
    ASSUME MemInv, NEW p \in Proc, NEW v \in Virtual, pg_table[p][v] # NULL
    PROVE  pg_table[p][v] \in Entry /\ pg_table[p][v].page \in Page
BY DEF MemInv, MemTypes, MemoryTypeOK, Entry

\* The frame that get_free_page finds is no key's and in nobody's table.
LEMMA FreeFrame ==
    ASSUME MemInv, FreePages # {}
    PROVE  /\ get_free_page \in Page /\ mem_map[get_free_page] = 0 /\ ~Keyed(get_free_page)
           /\ UseCount(pg_table, get_free_page) = 0
           /\ \A p \in Proc, v \in Virtual :
                 pg_table[p][v] # NULL => pg_table[p][v].page # get_free_page
<1>1. PICK f : f = get_free_page
  OBVIOUS
<1>2. f \in Page /\ mem_map[f] = 0
  BY <1>1, LastFree DEF FreePages
<1>3. ~Keyed(f)
  BY <1>2, KeyFrame DEF Keyed
<1>4. UseCount(pg_table, f) = 0
  BY <1>2, <1>3, PlainFrame
<1>5. \A p \in Proc, v \in Virtual : pg_table[p][v] # NULL => pg_table[p][v].page # f
  BY <1>4, UseLemma
<1>6. QED
  BY <1>1, <1>2, <1>3, <1>4, <1>5

\* An entry of a key's page is where shmat put it.
LEMMA KeyEntry ==
    ASSUME MemInv, NEW p \in Proc, NEW v \in Virtual, pg_table[p][v] # NULL,
           NEW k \in Key, sharedPages[k].count > 0,
           pg_table[p][v].page = sharedPages[k].physicalAddress
    PROVE  HasAt(p, k, v) /\ attached[p][k] # NULL
<1>1. On(attached[p][k], v) /\ attached[p][k] # NULL
  BY DEF MemInv, Attachments, On
<1>2. PICK w \in Virtual : HasAt(p, k, w)
  BY <1>1 DEF MemInv, Attachments
<1>3. PAGE_SIZE \in Nat \ {0} /\ v \in Int /\ w \in Int /\ attached[p][k] \in Int
  BY <1>1, MemoryAssumption DEF Virtual, MemInv, MemTypes
<1>4. w = v
  <2>1. PICK a : a = attached[p][k]
    OBVIOUS
  <2>2. /\ v * PAGE_SIZE <= a /\ a < v * PAGE_SIZE + PAGE_SIZE
        /\ w * PAGE_SIZE <= a /\ a < w * PAGE_SIZE + PAGE_SIZE
    BY <1>1, <1>2, <2>1 DEF HasAt, On
  <2>3. QED
    BY <1>3, <2>1, <2>2, SamePage
<1>5. QED
  BY <1>1, <1>2, <1>4

\* An entry and its count come and go together.
LEMMA Moved ==
    ASSUME NEW n, n \in Int, NEW u, u \in Int, Adds(n, u), NEW d, d \in Int
    PROVE  Adds(n + d, u + d)
BY DEF Adds

\* One use, counted once; and none.
LEMMA Single == Adds(1, 1) /\ Adds(0, 0)
BY DEF Adds

\* Three signs that an entry is no shared page: it is protected, it is of the program's file, or
\* its process has nothing attached.
LEMMA NotShared ==
    ASSUME MemInv, NEW p \in Proc, NEW v \in Virtual, pg_table[p][v] # NULL,
           \/ ~pg_table[p][v].writable
           \/ executable[p] # NULL /\ v * PAGE_SIZE < executable[p].end_data
           \/ \A k \in Key : attached[p][k] = NULL
    PROVE  /\ ~Keyed(pg_table[p][v].page)
           /\ Adds(mem_map[pg_table[p][v].page], UseCount(pg_table, pg_table[p][v].page))
           /\ UseCount(pg_table, pg_table[p][v].page) \in Nat \ {0}
           /\ UseCount(pg_table, pg_table[p][v].page) <= mem_map[pg_table[p][v].page]
<1>1. ASSUME NEW k \in Key, sharedPages[k].count > 0,
             pg_table[p][v].page = sharedPages[k].physicalAddress
      PROVE  FALSE
  <2>1. HasAt(p, k, v) /\ attached[p][k] # NULL
    BY <1>1, KeyEntry
  <2>2. /\ v * PAGE_SIZE \in Int
        /\ executable[p] # NULL => executable[p].end_data \in Int
    <3>1. v \in Int /\ PAGE_SIZE \in Int
      BY MemoryAssumption DEF Virtual
    <3>2. executable[p] # NULL => executable[p] \in Executables
      BY DEF MemInv, MemTypes, MemoryTypeOK
    <3>3. QED
      BY <3>1, <3>2, MemoryAssumption
  <2>3. QED
    BY <2>1, <2>2 DEF HasAt
<1>2. ~Keyed(pg_table[p][v].page)
  BY <1>1 DEF Keyed
<1>3. QED
  BY <1>2, EntryType, PlainFrame, UseLemma

----------------------------------------------------------------------------
\* The properties.

\* The invariant implies all that is claimed of the counts.
LEMMA MappedLemma == MemInv => MappedIsNotFree
<1>1. SUFFICES ASSUME MemInv, NEW p \in Proc, NEW v \in Virtual, pg_table[p][v] # NULL
               PROVE  mem_map[pg_table[p][v].page] > 0
  BY DEF MappedIsNotFree
<1>2. CASE Keyed(pg_table[p][v].page)
  BY <1>1, <1>2, KeyFrame DEF Keyed
<1>3. CASE ~Keyed(pg_table[p][v].page)
  <2>1. pg_table[p][v].page \in Page
    BY <1>1, EntryType
  <2>2. /\ UseCount(pg_table, pg_table[p][v].page) <= mem_map[pg_table[p][v].page]
        /\ mem_map[pg_table[p][v].page] \in Nat
    BY <1>1, <1>3, <2>1, PlainFrame
  <2>3. /\ UseCount(pg_table, pg_table[p][v].page) # 0
        /\ UseCount(pg_table, pg_table[p][v].page) \in Nat
    BY <1>1, UseLemma, Counted
  <2>4. QED
    BY <2>2, <2>3
<1>4. QED
  BY <1>2, <1>3

\* What the properties count.
LEMMA UsersLemma ==
    ASSUME NEW g
    PROVE  Users(g) = UseCount(pg_table, g)
<1>1. {x \in Proc \X Virtual : pg_table[x[1]][x[2]] # NULL /\ pg_table[x[1]][x[2]].page = g}
        = Uses(pg_table, g)
  BY DEF Uses
<1>2. QED
  BY <1>1 DEF Users, UseCount

\* The same for the two counts.
LEMMA CountsLemma == MemInv => CountsAddUp
<1>1. SUFFICES ASSUME MemInv PROVE CountsAddUp
  OBVIOUS
<1>2. ASSUME NEW g \in Page
      PROVE  /\ Cardinality(KeyOf(sharedPages, g)) <= 1
             /\ KeyOf(sharedPages, g) = {} => Users(g) <= mem_map[g]
             /\ \A k \in KeyOf(sharedPages, g) :
                   mem_map[g] = 1 /\ Users(g) + Gets(g) + lost[k] = sharedPages[k].count
  <2>1. CASE KeyOf(sharedPages, g) = {}
    <3>1. ~Keyed(g)
      BY <2>1 DEF Keyed, KeyOf
    <3>2. Cardinality(KeyOf(sharedPages, g)) = 0
      BY <2>1, FS_EmptySet
    <3>3. Users(g) <= mem_map[g]
      BY <1>1, <3>1, PlainFrame, UsersLemma
    <3>4. QED
      BY <2>1, <3>2, <3>3
  <2>2. CASE KeyOf(sharedPages, g) # {}
    <3>1. PICK k \in Key : sharedPages[k].physicalAddress = g /\ sharedPages[k].count > 0
      BY <2>2 DEF KeyOf
    <3>2. /\ mem_map[g] = 1
          /\ UseCount(pg_table, g) + DueCount(due, k) + lost[k] = sharedPages[k].count
          /\ KeyOf(sharedPages, g) = {k}
      BY <1>1, <3>1, KeyFrame DEF KeyOf
    <3>3. Gets(g) = DueCount(due, k)
      <4> DEFINE G == {x \in Proc \X Key : /\ x[2] \in due[x[1]]
                                            /\ x[2] \in KeyOf(sharedPages, g)}
      <4>1. G = Dues(due, k) \X {k}
        BY <3>2 DEF Dues
      <4>2. IsFiniteSet(Dues(due, k)) /\ Cardinality(Dues(due, k)) \in Nat
        BY DuesCounted DEF DueCount
      <4>3. IsFiniteSet({k}) /\ Cardinality({k}) = 1
        BY FS_Singleton
      <4>4. Cardinality(G) = Cardinality(Dues(due, k)) * 1
        BY <4>1, <4>2, <4>3, FS_Product
      <4>5. Gets(g) = Cardinality(G)
        BY DEF Gets
      <4> HIDE DEF G
      <4>6. QED
        BY <4>2, <4>4, <4>5 DEF DueCount
    <3>4. Cardinality(KeyOf(sharedPages, g)) = 1
      BY <3>2, FS_Singleton
    <3>5. QED
      BY <3>2, <3>3, <3>4, UsersLemma
  <2>3. QED
    BY <2>1, <2>2
<1>3. ~panicked
  BY <1>1 DEF MemInv, MemTypes
<1>4. QED
  BY <1>2, <1>3 DEF CountsAddUp

\* mem_map of a frame that is no shared page is the number of its entries: through
\* fork, copy-on-write, execve and exit no frame is lost for good.
PrivateCountsExact ==
    \A g \in Page : KeyOf(sharedPages, g) = {} => mem_map[g] = Users(g)

\* And where no frame is overwritten.
LEMMA PrivateLemma == Aligned /\ MemInv => PrivateCountsExact
<1>1. SUFFICES ASSUME Aligned, MemInv, NEW g \in Page, KeyOf(sharedPages, g) = {}
               PROVE  mem_map[g] = Users(g)
  BY DEF PrivateCountsExact
<1>2. ~Keyed(g)
  BY <1>1 DEF Keyed, KeyOf
<1>3. Adds(mem_map[g], UseCount(pg_table, g))
  BY <1>1, <1>2, PlainFrame
<1>4. QED
  BY <1>1, <1>3, UsersLemma DEF Adds

\* A page that an address is on is the one that division finds.
LEMMA OnPage ==
    ASSUME MemInv, NEW p \in Proc, NEW k \in Key, NEW v \in Virtual, On(attached[p][k], v)
    PROVE  attached[p][k] # NULL /\ attached[p][k] \div PAGE_SIZE = v
<1>1. attached[p][k] # NULL /\ attached[p][k] \in Nat
  BY DEF On, MemInv, MemTypes
<1>2. PAGE_SIZE \in Nat \ {0} /\ v \in Int
  BY MemoryAssumption DEF Virtual
<1>3. PICK a \in Nat : a = attached[p][k]
  BY <1>1
<1>4. v * PAGE_SIZE <= a /\ a < v * PAGE_SIZE + PAGE_SIZE
  BY <1>3 DEF On
<1>5. a \div PAGE_SIZE = v
  BY <1>2, <1>4, PageOf
<1>6. QED
  BY <1>1, <1>3, <1>5

\* For the protection between processes.
LEMMA ProtectionLemma == MemInv => WritableIsPrivateOrShared
<1>1. SUFFICES ASSUME MemInv, NEW p \in Proc, NEW q \in Proc, NEW v \in Virtual, NEW w \in Virtual,
                      p # q, pg_table[p][v] # NULL, pg_table[q][w] # NULL,
                      pg_table[p][v].page = pg_table[q][w].page, pg_table[p][v].writable
               PROVE  \E k \in KeyOf(sharedPages, pg_table[p][v].page) :
                         /\ attached[p][k] # NULL /\ attached[p][k] \div PAGE_SIZE = v
                         /\ attached[q][k] # NULL /\ attached[q][k] \div PAGE_SIZE = w
  BY DEF WritableIsPrivateOrShared
<1>2. Keyed(pg_table[p][v].page)
  BY <1>1 DEF MemInv, Protected
<1>3. PICK k \in Key : sharedPages[k].count > 0 /\ sharedPages[k].physicalAddress = pg_table[p][v].page
  BY <1>2 DEF Keyed
<1>4. k \in KeyOf(sharedPages, pg_table[p][v].page)
  BY <1>3 DEF KeyOf
<1>5. On(attached[p][k], v) /\ On(attached[q][k], w)
  BY <1>1, <1>3 DEF MemInv, Attachments
<1>6. QED
  BY <1>1, <1>4, <1>5, OnPage

\* And for the addresses.
LEMMA AddressLemma == MemInv => AttachedInSegment
<1>1. SUFFICES ASSUME MemInv, NEW p \in Proc, NEW k \in Key, attached[p][k] # NULL
               PROVE  /\ pg_table[p][attached[p][k] \div PAGE_SIZE] # NULL
                      /\ pg_table[p][attached[p][k] \div PAGE_SIZE].writable
                      /\ k \in KeyOf(sharedPages, pg_table[p][attached[p][k] \div PAGE_SIZE].page)
  BY DEF AttachedInSegment
<1>2. PICK v \in Virtual : HasAt(p, k, v)
  BY <1>1 DEF MemInv, Attachments
<1>3. attached[p][k] \div PAGE_SIZE = v
  BY <1>1, <1>2, OnPage DEF HasAt
<1>4. k \in KeyOf(sharedPages, pg_table[p][v].page)
  BY <1>2 DEF HasAt, KeyOf
<1>5. QED
  BY <1>2, <1>3, <1>4 DEF HasAt

----------------------------------------------------------------------------
\* Steps that change page tables only.

\* A step that leaves the shared pages where they are leaves the attachments right.
LEMMA AttachmentsKept ==
    ASSUME MemInv, UNCHANGED <<sharedPages, attached, executable, brk>>,
           \A q \in Proc, w \in Virtual : pg_table[q][w] # NULL /\ Keyed(pg_table[q][w].page)
              => pg_table'[q][w] = pg_table[q][w],
           \A q \in Proc, w \in Virtual : pg_table'[q][w] # NULL /\ Keyed(pg_table'[q][w].page)
              => pg_table'[q][w] = pg_table[q][w]
    PROVE  Attachments'
<1>1. ASSUME NEW p \in Proc, NEW k \in Key, attached'[p][k] # NULL
      PROVE  \E v \in Virtual : HasAt(p, k, v)'
  <2>1. PICK v \in Virtual : HasAt(p, k, v)
    BY <1>1 DEF MemInv, Attachments
  <2>2. pg_table[p][v] # NULL /\ Keyed(pg_table[p][v].page)
    BY <2>1 DEF HasAt, Keyed
  <2>3. pg_table'[p][v] = pg_table[p][v]
    BY <2>2
  <2>4. HasAt(p, k, v)'
    BY <2>1, <2>3 DEF HasAt
  <2>5. QED
    BY <2>4
<1>2. ASSUME NEW p \in Proc, NEW v \in Virtual, NEW k \in Key,
             pg_table'[p][v] # NULL, sharedPages'[k].count > 0,
             pg_table'[p][v].page = sharedPages'[k].physicalAddress
      PROVE  On(attached'[p][k], v)
  <2>1. Keyed(pg_table'[p][v].page)
    BY <1>2 DEF Keyed
  <2>2. pg_table'[p][v] = pg_table[p][v]
    BY <1>2, <2>1
  <2>3. QED
    BY <1>2, <2>2 DEF MemInv, Attachments
<1>3. QED
  BY <1>1, <1>2 DEF Attachments

\* A step that changes mem_map as it changes the entries, and nothing for a key's page.
LEMMA AccountsKept ==
    ASSUME MemInv, UNCHANGED <<sharedPages, due, lost>>,
           \A g \in Page : Keyed(g) => /\ mem_map'[g] = mem_map[g]
                                       /\ UseCount(pg_table', g) = UseCount(pg_table, g),
           \A g \in Page : ~Keyed(g) => Adds(mem_map'[g], UseCount(pg_table', g))
    PROVE  Accounts(mem_map', sharedPages', pg_table', due', lost', LiveKeys(sharedPages'))
<1>1. ASSUME NEW k \in LiveKeys(sharedPages)
      PROVE  /\ mem_map'[sharedPages[k].physicalAddress] = mem_map[sharedPages[k].physicalAddress]
             /\ UseCount(pg_table', sharedPages[k].physicalAddress)
                   = UseCount(pg_table, sharedPages[k].physicalAddress)
  <2>1. sharedPages[k].physicalAddress \in Page /\ Keyed(sharedPages[k].physicalAddress)
    BY KeyFrame DEF LiveKeys, Keyed
  <2>2. QED
    BY <2>1
<1>2. ASSUME NEW g \in Page, \A k \in LiveKeys(sharedPages) : sharedPages[k].physicalAddress # g
      PROVE  Adds(mem_map'[g], UseCount(pg_table', g))
  BY <1>2 DEF LiveKeys, Keyed
<1>3. QED
  BY <1>1, <1>2 DEF MemInv, Accounts

\* A free frame is entered where there was nothing, or no shared page.
LEMMA FreshEntry ==
    ASSUME MemInv, NEW p \in Proc, NEW v \in Virtual, FreePages # {}, PutPage(p, v, get_free_page),
           pg_table[p][v] # NULL => ~Keyed(pg_table[p][v].page),
           UNCHANGED <<sharedPages, attached, executable, brk>>
    PROVE  /\ pg_table' \in Tables /\ Attachments' /\ Protected'
           /\ \A q \in Proc, w \in Virtual : ~(q = p /\ w = v) => pg_table'[q][w] = pg_table[q][w]
           /\ \A g : UseCount(pg_table', g) =
                 IF g = get_free_page THEN 1
                 ELSE IF pg_table[p][v] # NULL /\ g = pg_table[p][v].page THEN UseCount(pg_table, g) - 1
                 ELSE UseCount(pg_table, g)
<1>1. PICK f : f = get_free_page
  OBVIOUS
<1>2. /\ f \in Page /\ ~Keyed(f) /\ UseCount(pg_table, f) = 0
      /\ \A q \in Proc, w \in Virtual : pg_table[q][w] # NULL => pg_table[q][w].page # f
  BY <1>1, FreeFrame
<1>3. PICK e : e = [page |-> f, writable |-> TRUE, dirty |-> FALSE]
  OBVIOUS
<1>4. e \in Entry /\ e.page = f /\ e.writable /\ e # NULL
  <2>1. e \in Entry /\ e.page = f /\ e.writable
    BY <1>2, <1>3 DEF Entry
  <2>2. QED
    BY <2>1, MemoryAssumption
<1>5. pg_table \in Tables /\ pg_table' = [pg_table EXCEPT ![p][v] = e]
  BY <1>1, <1>3 DEF PutPage, MemInv, MemTypes, MemoryTypeOK, Tables
<1>6. PICK t : t = [pg_table EXCEPT ![p][v] = NULL]
  OBVIOUS
<1>7. /\ t \in Tables /\ t[p][v] = NULL
      /\ \A g : UseCount(t, g) =
            IF pg_table[p][v] # NULL /\ g = pg_table[p][v].page
            THEN UseCount(pg_table, g) - 1 ELSE UseCount(pg_table, g)
  <2>1. Changed(pg_table, t, p, v, NULL)
    BY <1>5, <1>6, ChangedBy
  <2>2. t \in Tables /\ t[p][v] = NULL
    BY <2>1 DEF Changed
  <2>3. CASE pg_table[p][v] = NULL
    <3>1. t = pg_table
      BY <1>5, <1>6, <2>3 DEF Tables
    <3>2. QED
      BY <2>2, <2>3, <3>1
  <2>4. CASE pg_table[p][v] # NULL
    BY <1>5, <2>1, <2>2, <2>4, TakenOut
  <2>5. QED
    BY <2>3, <2>4
<1>8. /\ pg_table' \in Tables
      /\ \A q \in Proc, w \in Virtual :
            pg_table'[q][w] = IF q = p /\ w = v THEN e ELSE pg_table[q][w]
      /\ \A g : UseCount(pg_table', g) = IF g = e.page THEN UseCount(t, g) + 1 ELSE UseCount(t, g)
  <2>1. Changed(pg_table, pg_table', p, v, e)
    BY <1>4, <1>5, ChangedBy
  <2>2. Changed(pg_table, t, p, v, NULL)
    BY <1>5, <1>6, ChangedBy
  <2>3. Changed(t, pg_table', p, v, e)
    BY <2>1, <2>2 DEF Changed
  <2>4. \A g : UseCount(pg_table', g) = IF g = e.page THEN UseCount(t, g) + 1 ELSE UseCount(t, g)
    BY <1>4, <1>7, <2>3, Entered
  <2>5. QED
    BY <2>1, <2>4 DEF Changed
<1>9. \A g : UseCount(pg_table', g) =
         IF g = f THEN 1
         ELSE IF pg_table[p][v] # NULL /\ g = pg_table[p][v].page THEN UseCount(pg_table, g) - 1
         ELSE UseCount(pg_table, g)
  <2>1. UseCount(t, f) = 0
    BY <1>2, <1>7
  <2>2. UseCount(pg_table', f) = 1
    BY <1>4, <1>8, <2>1
  <2>3. ASSUME NEW g, g # f PROVE UseCount(pg_table', g) = UseCount(t, g)
    BY <1>4, <1>8, <2>3
  <2>4. QED
    BY <1>7, <2>2, <2>3
<1>10. Attachments'
  BY <1>2, <1>4, <1>8, AttachmentsKept
<1>11. Protected'
  <2>1. \A g : Keyed(g)' <=> Keyed(g)
    BY DEF Keyed
  <2>2. SUFFICES ASSUME NEW q \in Proc, NEW r \in Proc, NEW x \in Virtual, NEW y \in Virtual,
                        pg_table'[q][x] # NULL, pg_table'[r][y] # NULL,
                        pg_table'[q][x].page = pg_table'[r][y].page,
                        pg_table'[q][x].writable, ~Keyed(pg_table'[q][x].page)
                 PROVE  q = r /\ x = y
    BY <2>1 DEF Protected
  <2>3. CASE pg_table'[q][x].page = f
    <3>1. \A a \in Proc, b \in Virtual :
             pg_table'[a][b] # NULL /\ pg_table'[a][b].page = f => a = p /\ b = v
      BY <1>2, <1>8
    <3>2. QED
      BY <2>2, <2>3, <3>1
  <2>4. CASE pg_table'[q][x].page # f
    <3>1. pg_table'[q][x] = pg_table[q][x] /\ pg_table'[r][y] = pg_table[r][y]
      BY <1>4, <1>8, <2>2, <2>4
    <3>2. QED
      BY <2>2, <3>1 DEF MemInv, Protected
  <2>5. QED
    BY <2>3, <2>4
<1>12. QED
  BY <1>1, <1>8, <1>9, <1>10, <1>11

\* do_no_page with a page of its own.
LEMMA NoPageStep ==
    ASSUME MemInv, NEW p \in Proc, NEW v \in Virtual, NoPage(p, v)
    PROVE  MemInv'
<1>1. PICK f : f = get_free_page
  OBVIOUS
<1>2. /\ FreePages # {} /\ pg_table[p][v] = NULL /\ p \in alive /\ v * PAGE_SIZE < brk[p]
      /\ mem_map' = [mem_map EXCEPT ![f] = 1] /\ PutPage(p, v, get_free_page)
      /\ UNCHANGED <<sharedPages, alive, executable, brk, panicked, shmid, due, lost, attached>>
  BY <1>1 DEF NoPage, Absent
<1>3. /\ pg_table' \in Tables /\ Attachments' /\ Protected'
      /\ \A q \in Proc, w \in Virtual : ~(q = p /\ w = v) => pg_table'[q][w] = pg_table[q][w]
      /\ \A g : UseCount(pg_table', g) = IF g = f THEN 1 ELSE UseCount(pg_table, g)
  BY <1>1, <1>2, FreshEntry
<1>4. f \in Page /\ ~Keyed(f)
  BY <1>1, <1>2, FreeFrame
<1>5. MemTypes'
  BY <1>2, <1>3, <1>4 DEF MemInv, MemTypes, MemoryTypeOK, Tables
<1>6. \A g \in Page : mem_map'[g] = IF g = f THEN 1 ELSE mem_map[g]
  BY <1>2, <1>4 DEF MemInv, MemTypes, MemoryTypeOK
<1>7. Accounts(mem_map', sharedPages', pg_table', due', lost', LiveKeys(sharedPages'))
  <2>1. \A g \in Page : Keyed(g) => /\ mem_map'[g] = mem_map[g]
                                    /\ UseCount(pg_table', g) = UseCount(pg_table, g)
    BY <1>3, <1>4, <1>6
  <2>2. \A g \in Page : ~Keyed(g) => Adds(mem_map'[g], UseCount(pg_table', g))
    BY <1>3, <1>6, PlainFrame, Single
  <2>3. QED
    BY <1>2, <2>1, <2>2, AccountsKept
<1>8. Layout'
  BY <1>2, <1>3 DEF MemInv, Layout
<1>9. QED
  BY <1>3, <1>5, <1>7, <1>8 DEF MemInv

\* un_wp_page with a copy.
LEMMA WriteCopyStep ==
    ASSUME MemInv, NEW p \in Proc, NEW v \in Virtual, WriteCopy(p, v)
    PROVE  MemInv'
<1>1. PICK f, g : f = get_free_page /\ g = pg_table[p][v].page
  OBVIOUS
<1>2. /\ FreePages # {} /\ pg_table[p][v] # NULL /\ ~pg_table[p][v].writable /\ p \in alive
      /\ mem_map' = [mem_map EXCEPT ![g] = @ - 1, ![f] = 1] /\ PutPage(p, v, get_free_page)
      /\ UNCHANGED <<sharedPages, alive, executable, brk, panicked, shmid, due, lost, attached>>
  BY <1>1 DEF WriteCopy
<1>3. /\ g \in Page /\ ~Keyed(g) /\ Adds(mem_map[g], UseCount(pg_table, g))
      /\ UseCount(pg_table, g) \in Nat \ {0} /\ UseCount(pg_table, g) <= mem_map[g]
  BY <1>1, <1>2, NotShared, EntryType
<1>4. /\ pg_table' \in Tables /\ Attachments' /\ Protected'
      /\ \A q \in Proc, w \in Virtual : ~(q = p /\ w = v) => pg_table'[q][w] = pg_table[q][w]
      /\ \A h : UseCount(pg_table', h) = IF h = f THEN 1
                                         ELSE IF h = g THEN UseCount(pg_table, h) - 1
                                         ELSE UseCount(pg_table, h)
  BY <1>1, <1>2, <1>3, FreshEntry
<1>5. f \in Page /\ ~Keyed(f) /\ mem_map[f] = 0 /\ f # g
  BY <1>1, <1>2, <1>3, FreeFrame
<1>6. \A h \in Page : mem_map'[h] = IF h = f THEN 1 ELSE IF h = g THEN mem_map[h] - 1 ELSE mem_map[h]
  BY <1>2, <1>3, <1>5 DEF MemInv, MemTypes, MemoryTypeOK
<1>7. UseCount(pg_table, g) \in Nat
  BY Counted
<1>8. mem_map' \in [Page -> Nat]
  <2>1. mem_map \in [Page -> Nat] /\ mem_map[g] - 1 \in Nat
    BY <1>3, <1>7 DEF MemInv, MemTypes, MemoryTypeOK
  <2>2. QED
    BY <1>2, <1>3, <1>5, <2>1
<1>9. MemTypes'
  BY <1>2, <1>4, <1>8 DEF MemInv, MemTypes, MemoryTypeOK, Tables
<1>10. Accounts(mem_map', sharedPages', pg_table', due', lost', LiveKeys(sharedPages'))
  <2>1. \A h \in Page : Keyed(h) => h # f /\ h # g
    BY <1>3, <1>5
  <2>2. \A h \in Page : Keyed(h) => /\ mem_map'[h] = mem_map[h]
                                    /\ UseCount(pg_table', h) = UseCount(pg_table, h)
    BY <1>4, <1>6, <2>1
  <2>3. ASSUME NEW h \in Page, ~Keyed(h) PROVE Adds(mem_map'[h], UseCount(pg_table', h))
    <3>1. /\ Adds(mem_map[h], UseCount(pg_table, h))
          /\ mem_map[h] \in Int /\ UseCount(pg_table, h) \in Int
      BY <2>3, PlainFrame
    <3>2. CASE h = f
      BY <1>4, <1>6, <3>2, Single
    <3>3. CASE h = g
      <4>1. Adds(mem_map[h] + (-1), UseCount(pg_table, h) + (-1))
        BY <3>1, Moved
      <4>2. mem_map'[h] = mem_map[h] + (-1) /\ UseCount(pg_table', h) = UseCount(pg_table, h) + (-1)
        BY <1>4, <1>5, <1>6, <3>1, <3>3
      <4>3. QED
        BY <4>1, <4>2
    <3>4. CASE h # f /\ h # g
      BY <1>4, <1>6, <3>1, <3>4
    <3>5. QED
      BY <3>2, <3>3, <3>4
  <2>4. QED
    BY <1>2, <2>2, <2>3, AccountsKept
<1>11. Layout'
  BY <1>2, <1>4 DEF MemInv, Layout
<1>12. QED
  BY <1>4, <1>9, <1>10, <1>11 DEF MemInv

\* An entry of no shared page changes its bits.
LEMMA BitsStep ==
    ASSUME MemInv, NEW p \in Proc, NEW v \in Virtual, NEW e \in Entry, pg_table[p][v] # NULL,
           ~Keyed(pg_table[p][v].page), e.page = pg_table[p][v].page,
           e.writable => pg_table[p][v].writable \/ UseCount(pg_table, e.page) = 1,
           pg_table' = [pg_table EXCEPT ![p][v] = e],
           UNCHANGED <<mem_map, sharedPages, alive, executable, brk, panicked, shmid, due, lost, attached>>
    PROVE  MemInv'
<1>1. pg_table \in Tables /\ e # NULL
  BY MemoryAssumption DEF MemInv, MemTypes, MemoryTypeOK, Tables
<1>2. Changed(pg_table, pg_table', p, v, e)
  BY <1>1, ChangedBy
<1>3. /\ pg_table' \in Tables
      /\ \A q \in Proc, w \in Virtual : pg_table'[q][w] = IF q = p /\ w = v THEN e ELSE pg_table[q][w]
  BY <1>2 DEF Changed
<1>4. SamePages(pg_table, pg_table')
  BY <1>1, <1>3 DEF SamePages
<1>5. \A g : UseCount(pg_table', g) = UseCount(pg_table, g)
  BY <1>4, SameUses
<1>6. MemTypes'
  BY <1>3 DEF MemInv, MemTypes, MemoryTypeOK, Tables
<1>7. Accounts(mem_map', sharedPages', pg_table', due', lost', LiveKeys(sharedPages'))
  BY <1>5, AccountsKept, PlainFrame
<1>8. Attachments'
  BY <1>3, AttachmentsKept
<1>9. Layout'
  BY <1>4 DEF MemInv, Layout, SamePages
<1>10. Protected'
  <2>1. SUFFICES ASSUME NEW q \in Proc, NEW r \in Proc, NEW x \in Virtual, NEW y \in Virtual,
                        pg_table'[q][x] # NULL, pg_table'[r][y] # NULL,
                        pg_table'[q][x].page = pg_table'[r][y].page,
                        pg_table'[q][x].writable, ~Keyed(pg_table'[q][x].page)
                 PROVE  q = r /\ x = y
    BY DEF Protected, Keyed
  <2>2. /\ pg_table[q][x] # NULL /\ pg_table[r][y] # NULL
        /\ pg_table[q][x].page = pg_table[r][y].page
        /\ ~Keyed(pg_table[q][x].page)
    BY <1>4, <2>1 DEF SamePages
  <2>3. CASE pg_table[q][x].writable
    BY <2>2, <2>3 DEF MemInv, Protected
  <2>4. CASE ~pg_table[q][x].writable
    <3>1. q = p /\ x = v /\ UseCount(pg_table, e.page) = 1
      BY <1>3, <2>1, <2>4
    <3>2. QED
      BY <2>2, <3>1, UseLemma
  <2>5. QED
    BY <2>3, <2>4
<1>11. QED
  BY <1>6, <1>7, <1>8, <1>9, <1>10 DEF MemInv

\* The processor sets the dirty bit.
LEMMA WriteStep ==
    ASSUME MemInv, NEW p \in Proc, NEW v \in Virtual, Write(p, v)
    PROVE  MemInv'
<1>1. PICK e : e = [pg_table[p][v] EXCEPT !.dirty = TRUE]
  OBVIOUS
<1>2. /\ pg_table[p][v] # NULL /\ executable[p] # NULL /\ v * PAGE_SIZE < executable[p].end_data
      /\ UNCHANGED <<mem_map, sharedPages, alive, executable, brk, panicked, shmid, due, lost, attached>>
  BY DEF Write, InFile
<1>3. pg_table[p][v] \in Entry
  BY <1>2, EntryType
<1>4. e \in Entry /\ e.page = pg_table[p][v].page /\ e.writable = pg_table[p][v].writable
  BY <1>1, <1>3 DEF Entry
<1>5. pg_table' = [pg_table EXCEPT ![p][v] = e]
  BY <1>1 DEF Write
<1>6. ~Keyed(pg_table[p][v].page)
  BY <1>2, NotShared
<1>7. QED
  BY <1>2, <1>4, <1>5, <1>6, BitsStep

\* un_wp_page, the last user.
LEMMA WriteLastStep ==
    ASSUME MemInv, NEW p \in Proc, NEW v \in Virtual, WriteLast(p, v)
    PROVE  MemInv'
<1>1. PICK e : e = [pg_table[p][v] EXCEPT !.writable = TRUE]
  OBVIOUS
<1>2. /\ pg_table[p][v] # NULL /\ ~pg_table[p][v].writable /\ mem_map[pg_table[p][v].page] = 1
      /\ UNCHANGED <<mem_map, sharedPages, alive, executable, brk, panicked, shmid, due, lost, attached>>
  BY DEF WriteLast
<1>3. pg_table[p][v] \in Entry
  BY <1>2, EntryType
<1>4. e \in Entry /\ e.page = pg_table[p][v].page
  BY <1>1, <1>3 DEF Entry
<1>5. pg_table' = [pg_table EXCEPT ![p][v] = e]
  BY <1>1 DEF WriteLast
<1>6. ~Keyed(pg_table[p][v].page) /\ UseCount(pg_table, pg_table[p][v].page) = 1
  BY <1>2, NotShared
<1>7. QED
  BY <1>2, <1>4, <1>5, <1>6, BitsStep

\* share_page.
LEMMA SharePageStep ==
    ASSUME MemInv, NEW p \in Proc, NEW v \in Virtual, NEW q \in Proc, SharePage(p, v, q)
    PROVE  MemInv'
<1>1. PICK e, g : e = [pg_table[q][v] EXCEPT !.writable = FALSE] /\ g = pg_table[q][v].page
  OBVIOUS
<1>2. /\ p \in alive /\ pg_table[p][v] = NULL /\ v * PAGE_SIZE < brk[p]
      /\ pg_table[q][v] # NULL /\ q # p
      /\ executable[q] # NULL /\ v * PAGE_SIZE < executable[q].end_data
      /\ mem_map' = [mem_map EXCEPT ![g] = @ + 1]
      /\ UNCHANGED <<sharedPages, alive, executable, brk, panicked, shmid, due, lost, attached>>
  BY <1>1 DEF SharePage, Absent, InFile
<1>3. pg_table' = [[pg_table EXCEPT ![q][v] = e] EXCEPT ![p][v] = e]
  BY <1>1 DEF SharePage
<1>4. pg_table[q][v] \in Entry /\ g \in Page
  BY <1>1, <1>2, EntryType
<1>5. e \in Entry /\ e.page = g /\ ~e.writable
  BY <1>1, <1>4 DEF Entry
<1>6. e # NULL /\ pg_table \in Tables
  BY <1>5, MemoryAssumption DEF MemInv, MemTypes, MemoryTypeOK, Tables
<1>7. ~Keyed(g) /\ Adds(mem_map[g], UseCount(pg_table, g))
  BY <1>1, <1>2, NotShared
<1>8. PICK t : t = [pg_table EXCEPT ![q][v] = e]
  OBVIOUS
<1>9. Changed(pg_table, t, q, v, e)
  BY <1>5, <1>6, <1>8, ChangedBy
<1>10. t \in Tables /\ t[p][v] = NULL
  BY <1>2, <1>9 DEF Changed
<1>11. Changed(t, pg_table', p, v, e)
  BY <1>3, <1>5, <1>8, <1>10, ChangedBy
<1>12. /\ pg_table' \in Tables
       /\ \A r \in Proc, w \in Virtual :
             pg_table'[r][w] = IF (r = p \/ r = q) /\ w = v THEN e ELSE pg_table[r][w]
  BY <1>9, <1>11 DEF Changed
<1>13. \A h : UseCount(pg_table', h) = IF h = g THEN UseCount(pg_table, h) + 1 ELSE UseCount(pg_table, h)
  <2>1. SamePages(pg_table, t)
    BY <1>1, <1>2, <1>5, <1>6, <1>9 DEF Changed, SamePages
  <2>2. \A h : UseCount(t, h) = UseCount(pg_table, h)
    BY <2>1, SameUses
  <2>3. \A h : UseCount(pg_table', h) = IF h = e.page THEN UseCount(t, h) + 1 ELSE UseCount(t, h)
    BY <1>5, <1>10, <1>11, Entered
  <2>4. QED
    BY <1>5, <2>2, <2>3
<1>14. \A h \in Page : mem_map'[h] = IF h = g THEN mem_map[h] + 1 ELSE mem_map[h]
  BY <1>2, <1>4 DEF MemInv, MemTypes, MemoryTypeOK
<1>15. MemTypes'
  BY <1>2, <1>4, <1>12 DEF MemInv, MemTypes, MemoryTypeOK, Tables
<1>16. Accounts(mem_map', sharedPages', pg_table', due', lost', LiveKeys(sharedPages'))
  <2>1. \A h \in Page : Keyed(h) => /\ mem_map'[h] = mem_map[h]
                                    /\ UseCount(pg_table', h) = UseCount(pg_table, h)
    BY <1>7, <1>13, <1>14
  <2>2. ASSUME NEW h \in Page, ~Keyed(h) PROVE Adds(mem_map'[h], UseCount(pg_table', h))
    <3>1. /\ Adds(mem_map[h], UseCount(pg_table, h))
          /\ mem_map[h] \in Int /\ UseCount(pg_table, h) \in Int
      BY <2>2, PlainFrame
    <3>2. Adds(mem_map[h] + 1, UseCount(pg_table, h) + 1)
      BY <3>1, Moved
    <3>3. QED
      BY <1>13, <1>14, <3>1, <3>2
  <2>3. QED
    BY <1>2, <2>1, <2>2, AccountsKept
<1>17. Attachments'
  <2>1. \A r \in Proc, w \in Virtual : pg_table[r][w] # NULL /\ Keyed(pg_table[r][w].page)
           => pg_table'[r][w] = pg_table[r][w]
    BY <1>1, <1>2, <1>7, <1>12
  <2>2. \A r \in Proc, w \in Virtual : pg_table'[r][w] # NULL /\ Keyed(pg_table'[r][w].page)
           => pg_table'[r][w] = pg_table[r][w]
    BY <1>5, <1>7, <1>12
  <2>3. QED
    BY <1>2, <2>1, <2>2, AttachmentsKept
<1>18. Layout'
  BY <1>2, <1>6, <1>12 DEF MemInv, Layout
<1>19. Protected'
  <2>1. SUFFICES ASSUME NEW r \in Proc, NEW s \in Proc, NEW x \in Virtual, NEW y \in Virtual,
                        pg_table'[r][x] # NULL, pg_table'[s][y] # NULL,
                        pg_table'[r][x].page = pg_table'[s][y].page,
                        pg_table'[r][x].writable, ~Keyed(pg_table'[r][x].page)
                 PROVE  r = s /\ x = y
    BY <1>2 DEF Protected, Keyed
  <2>2. ~((r = p \/ r = q) /\ x = v) /\ pg_table'[r][x] = pg_table[r][x]
    BY <1>5, <1>12, <2>1
  <2>3. CASE (s = p \/ s = q) /\ y = v
    <3>1. pg_table[r][x].page = pg_table[q][v].page
      BY <1>1, <1>5, <1>12, <2>1, <2>2, <2>3
    <3>2. r = q /\ x = v
      BY <1>2, <2>1, <2>2, <3>1 DEF MemInv, Protected
    <3>3. QED
      BY <2>2, <3>2
  <2>4. CASE ~((s = p \/ s = q) /\ y = v)
    <3>1. pg_table'[s][y] = pg_table[s][y]
      BY <1>12, <2>4
    <3>2. QED
      BY <2>1, <2>2, <3>1 DEF MemInv, Protected
  <2>5. QED
    BY <2>3, <2>4
<1>20. QED
  BY <1>15, <1>16, <1>17, <1>18, <1>19 DEF MemInv

----------------------------------------------------------------------------
\* fork, and the calls of shm.c.

\* copy_page_tables; a Careful process has no shared page then.
LEMMA ForkStep ==
    ASSUME Careful, MemInv, NEW p \in Proc, NEW q \in Proc, Fork(p, q)
    PROVE  MemInv'
<1>1. PICK c : c = [v \in Virtual |-> IF pg_table[p][v] = NULL THEN NULL
                                      ELSE [pg_table[p][v] EXCEPT !.writable = FALSE]]
  OBVIOUS
<1>2. /\ p \in alive /\ q \notin alive /\ p # q /\ \A k \in Key : attached[p][k] = NULL
      /\ alive' = alive \cup {q}
      /\ pg_table' = [pg_table EXCEPT ![p] = c, ![q] = c]
      /\ mem_map' = [g \in Page |-> mem_map[g] + Cardinality(MapsOf(p, g))]
      /\ executable' = [executable EXCEPT ![q] = executable[p]]
      /\ brk' = [brk EXCEPT ![q] = brk[p]]
      /\ attached' = [attached EXCEPT ![q] = attached[p]]
      /\ UNCHANGED <<sharedPages, panicked, due, lost>>
  BY <1>1 DEF Fork
<1>3. /\ pg_table \in Tables /\ mem_map \in [Page -> Nat] /\ alive \subseteq Proc
      /\ executable \in [Proc -> Executables \cup {NULL}] /\ brk \in [Proc -> Nat]
      /\ attached \in [Proc -> [Key -> Nat \cup {NULL}]]
  BY DEF MemInv, MemTypes, MemoryTypeOK, Tables
<1>4. ASSUME NEW v \in Virtual
      PROVE  c[v] \in Entry \cup {NULL} /\ (pg_table[p][v] = NULL <=> c[v] = NULL)
  <2>1. CASE pg_table[p][v] = NULL
    BY <1>1, <2>1
  <2>2. CASE pg_table[p][v] # NULL
    <3>1. pg_table[p][v] \in Entry
      BY <2>2, EntryType
    <3>2. c[v] = [pg_table[p][v] EXCEPT !.writable = FALSE]
      BY <1>1, <2>2
    <3>3. c[v] \in Entry
      BY <3>1, <3>2 DEF Entry
    <3>4. QED
      BY <2>2, <3>3, MemoryAssumption
  <2>3. QED
    BY <2>1, <2>2
<1>5. ASSUME NEW v \in Virtual, pg_table[p][v] # NULL
      PROVE  c[v].page = pg_table[p][v].page /\ ~c[v].writable /\ ~Keyed(pg_table[p][v].page)
  <2>1. pg_table[p][v] \in Entry /\ c[v] = [pg_table[p][v] EXCEPT !.writable = FALSE]
    BY <1>1, <1>5, EntryType
  <2>2. QED
    BY <1>2, <1>5, <2>1, NotShared DEF Entry
<1>6. \A r \in Proc : pg_table'[r] = IF r = p \/ r = q THEN c ELSE pg_table[r]
  BY <1>2, <1>3 DEF Tables
<1>7. c \in [Virtual -> Entry \cup {NULL}]
  BY <1>1, <1>4
<1>8. pg_table' \in Tables
  BY <1>2, <1>3, <1>7 DEF Tables
<1>9. \A v \in Virtual : pg_table[q][v] = NULL
  BY <1>2 DEF MemInv, Layout
<1>10. ASSUME NEW g \in Page
       PROVE  /\ UseCount(pg_table', g) = UseCount(pg_table, g) + Cardinality(MapsOf(p, g))
              /\ Cardinality(MapsOf(p, g)) \in Nat /\ UseCount(pg_table, g) \in Nat
              /\ Keyed(g) => Cardinality(MapsOf(p, g)) = 0
  <2>1. PICK t : t = pg_table'
    OBVIOUS
  <2>2. CopyOf(pg_table, t, p, q)
    BY <1>4, <1>5, <1>6, <1>9, <2>1 DEF CopyOf
  <2>4. UseCount(t, g) = UseCount(pg_table, g)
           + Cardinality({v \in Virtual : pg_table[p][v] # NULL /\ pg_table[p][v].page = g})
    BY <2>2, Copied
  <2>5. IsFiniteSet(Virtual)
    <3>1. 0 \in Int /\ NrVirtual - 1 \in Int
      BY MemoryAssumption
    <3>2. QED
      BY <3>1, FS_Interval DEF Virtual
  <2>6. Cardinality(MapsOf(p, g)) \in Nat
    <3>1. MapsOf(p, g) \in SUBSET Virtual
      BY DEF MapsOf
    <3>2. QED
      BY <2>5, <3>1, FS_Subset, FS_CardinalityType
  <2>7. Keyed(g) => Cardinality(MapsOf(p, g)) = 0
    <3>1. Keyed(g) => MapsOf(p, g) = {}
      BY <1>5 DEF MapsOf
    <3>2. QED
      BY <3>1, FS_EmptySet
  <2>8. QED
    BY <2>1, <2>4, <2>6, <2>7, Counted DEF MapsOf
<1>11. \A g \in Page : mem_map'[g] = mem_map[g] + Cardinality(MapsOf(p, g)) /\ mem_map[g] \in Nat
  BY <1>2, <1>3
<1>12. MemTypes'
  <2>1. mem_map' \in [Page -> Nat]
    BY <1>2, <1>3, <1>10
  <2>2. /\ executable' \in [Proc -> Executables \cup {NULL}] /\ brk' \in [Proc -> Nat]
        /\ attached' \in [Proc -> [Key -> Nat \cup {NULL}]] /\ alive' \subseteq Proc
    BY <1>2, <1>3
  <2>3. QED
    BY <1>2, <1>8, <2>1, <2>2 DEF MemInv, MemTypes, MemoryTypeOK, Tables
<1>13. Accounts(mem_map', sharedPages', pg_table', due', lost', LiveKeys(sharedPages'))
  <2>1. ASSUME NEW h \in Page, Keyed(h)
        PROVE  mem_map'[h] = mem_map[h] /\ UseCount(pg_table', h) = UseCount(pg_table, h)
    BY <1>10, <1>11, <2>1
  <2>2. ASSUME NEW h \in Page, ~Keyed(h) PROVE Adds(mem_map'[h], UseCount(pg_table', h))
    <3>1. /\ Adds(mem_map[h], UseCount(pg_table, h))
          /\ mem_map[h] \in Int /\ UseCount(pg_table, h) \in Int
      BY <2>2, PlainFrame
    <3>2. PICK n \in Nat : n = Cardinality(MapsOf(p, h))
      BY <1>10
    <3>3. Adds(mem_map[h] + n, UseCount(pg_table, h) + n)
      BY <3>1, <3>2, Moved
    <3>4. mem_map'[h] = mem_map[h] + n /\ UseCount(pg_table', h) = UseCount(pg_table, h) + n
      BY <1>10, <1>11, <3>2
    <3>5. QED
      BY <3>3, <3>4
  <2>3. QED
    BY <1>2, <2>1, <2>2, AccountsKept
<1>14. Layout'
  <2>1. SUFFICES ASSUME NEW r \in Proc
                 PROVE  /\ r \notin alive' => \A v \in Virtual : pg_table'[r][v] = NULL
                        /\ BrkFits(brk'[r], executable'[r])
                        /\ \A v \in Virtual : pg_table'[r][v] # NULL => v * PAGE_SIZE < brk'[r]
    BY DEF Layout
  <2>2. CASE r = q
    <3>1. brk'[r] = brk[p] /\ executable'[r] = executable[p] /\ pg_table'[r] = c /\ r \in alive'
      BY <1>2, <1>3, <1>6, <2>2
    <3>2. QED
      BY <1>4, <3>1 DEF MemInv, Layout
  <2>3. CASE r # q
    <3>1. brk'[r] = brk[r] /\ executable'[r] = executable[r] /\ (r \in alive' <=> r \in alive)
      BY <1>2, <1>3, <2>3
    <3>2. \A v \in Virtual : pg_table'[r][v] = NULL <=> pg_table[r][v] = NULL
      BY <1>4, <1>6, <2>3
    <3>3. QED
      BY <3>1, <3>2 DEF MemInv, Layout
  <2>4. QED
    BY <2>2, <2>3
<1>15. Attachments'
  <2>1. ASSUME NEW r \in Proc, NEW k \in Key, attached'[r][k] # NULL
        PROVE  \E v \in Virtual : HasAt(r, k, v)'
    <3>1. r # q /\ r # p /\ attached'[r][k] = attached[r][k]
      BY <1>2, <1>3, <2>1
    <3>2. PICK v \in Virtual : HasAt(r, k, v)
      BY <2>1, <3>1 DEF MemInv, Attachments
    <3>3. pg_table'[r] = pg_table[r] /\ executable'[r] = executable[r]
      BY <1>2, <1>3, <1>6, <3>1
    <3>4. HasAt(r, k, v)'
      BY <1>2, <3>1, <3>2, <3>3 DEF HasAt
    <3>5. QED
      BY <3>4
  <2>2. ASSUME NEW r \in Proc, NEW v \in Virtual, NEW k \in Key,
               pg_table'[r][v] # NULL, sharedPages'[k].count > 0,
               pg_table'[r][v].page = sharedPages'[k].physicalAddress
        PROVE  On(attached'[r][k], v)
    <3>1. CASE r = p \/ r = q
      <4>1. pg_table[p][v] # NULL /\ pg_table'[r][v].page = pg_table[p][v].page
        BY <1>4, <1>5, <1>6, <2>2, <3>1
      <4>2. FALSE
        BY <1>2, <1>5, <2>2, <4>1 DEF Keyed
      <4>3. QED
        BY <4>2
    <3>2. CASE ~(r = p \/ r = q)
      <4>1. pg_table'[r] = pg_table[r] /\ attached'[r] = attached[r]
        BY <1>2, <1>3, <1>6, <3>2
      <4>2. QED
        BY <1>2, <2>2, <4>1 DEF MemInv, Attachments
    <3>3. QED
      BY <3>1, <3>2
  <2>3. QED
    BY <2>1, <2>2 DEF Attachments
<1>16. Protected'
  <2>1. SUFFICES ASSUME NEW r \in Proc, NEW s \in Proc, NEW x \in Virtual, NEW y \in Virtual,
                        pg_table'[r][x] # NULL, pg_table'[s][y] # NULL,
                        pg_table'[r][x].page = pg_table'[s][y].page,
                        pg_table'[r][x].writable, ~Keyed(pg_table'[r][x].page)
                 PROVE  r = s /\ x = y
    <3>1. sharedPages' = sharedPages
      BY <1>2
    <3>2. \A g : Keyed(g)' <=> Keyed(g)
      BY <3>1 DEF Keyed
    <3>3. QED
      BY <3>2 DEF Protected
  <2>2. r # p /\ r # q /\ pg_table'[r] = pg_table[r]
    BY <1>4, <1>5, <1>6, <2>1
  <2>3. CASE s = p \/ s = q
    <3>1. pg_table[p][y] # NULL /\ pg_table[r][x].page = pg_table[p][y].page
      BY <1>4, <1>5, <1>6, <2>1, <2>2, <2>3
    <3>2. r = p
      BY <2>1, <2>2, <3>1 DEF MemInv, Protected
    <3>3. QED
      BY <2>2, <3>2
  <2>4. CASE ~(s = p \/ s = q)
    <3>1. pg_table'[s] = pg_table[s]
      BY <1>6, <2>4
    <3>2. QED
      BY <2>1, <2>2, <3>1 DEF MemInv, Protected
  <2>5. QED
    BY <2>3, <2>4
<1>17. QED
  BY <1>12, <1>13, <1>14, <1>15, <1>16 DEF MemInv

\* A step on the keys that leaves tables alone, and where a new page is in no table.
LEMMA KeysKept ==
    ASSUME MemInv, UNCHANGED <<pg_table, attached, executable, brk>>,
           \A j \in Key : sharedPages[j].count > 0 =>
              /\ sharedPages'[j].count > 0
              /\ sharedPages'[j].physicalAddress = sharedPages[j].physicalAddress,
           NEW f, \A q \in Proc, w \in Virtual : pg_table[q][w] # NULL => pg_table[q][w].page # f,
           \A j \in Key : sharedPages'[j].count > 0 =>
              sharedPages[j].count > 0 \/ sharedPages'[j].physicalAddress = f
    PROVE  Attachments' /\ Protected'
<1>1. ASSUME NEW p \in Proc, NEW k \in Key, attached'[p][k] # NULL
      PROVE  \E v \in Virtual : HasAt(p, k, v)'
  <2>1. PICK v \in Virtual : HasAt(p, k, v)
    BY <1>1 DEF MemInv, Attachments
  <2>2. HasAt(p, k, v)'
    BY <2>1 DEF HasAt
  <2>3. QED
    BY <2>2
<1>2. ASSUME NEW p \in Proc, NEW v \in Virtual, NEW k \in Key,
             pg_table'[p][v] # NULL, sharedPages'[k].count > 0,
             pg_table'[p][v].page = sharedPages'[k].physicalAddress
      PROVE  On(attached'[p][k], v)
  BY <1>2 DEF MemInv, Attachments
<1>3. Protected'
  <2>1. \A g : Keyed(g) => Keyed(g)'
    BY DEF Keyed
  <2>2. QED
    BY <2>1 DEF MemInv, Protected
<1>4. QED
  BY <1>1, <1>2, <1>3 DEF Attachments

\* shmget of a page that exists.
LEMMA ShmgetExistingStep ==
    ASSUME Careful, MemInv, NEW p \in Proc, NEW k \in Key, ShmgetExisting(p, k)
    PROVE  MemInv'
<1>1. /\ sharedPages[k].count > 0 /\ k \notin due[p]
      /\ sharedPages' = [sharedPages EXCEPT ![k].count = @ + 1]
      /\ due' = [due EXCEPT ![p] = @ \cup {k}]
      /\ UNCHANGED <<mem_map, pg_table, alive, executable, brk, panicked, lost, attached>>
  BY DEF ShmgetExisting
<1>2. /\ sharedPages \in [Key -> [count : Nat, physicalAddress : Page \cup {NULL}]]
      /\ due \in [Proc -> SUBSET Key]
  BY DEF MemInv, MemTypes, MemoryTypeOK
<1>3. /\ sharedPages' \in [Key -> [count : Nat, physicalAddress : Page \cup {NULL}]]
      /\ \A j \in Key : /\ sharedPages'[j].physicalAddress = sharedPages[j].physicalAddress
                        /\ sharedPages'[j].count = IF j = k THEN sharedPages[j].count + 1
                                                   ELSE sharedPages[j].count
  BY <1>1, <1>2
<1>4. due' \in [Proc -> SUBSET Key]
  BY <1>1, <1>2
<1>5. /\ \A j \in Key : j # k => DueCount(due', j) = DueCount(due, j)
      /\ DueCount(due', k) = DueCount(due, k) + 1
  BY <1>1, <1>2, DueLemma
<1>6. MemTypes'
  BY <1>1, <1>3, <1>4 DEF MemInv, MemTypes, MemoryTypeOK
<1>7. \A j \in Key : /\ sharedPages[j].count \in Nat
                     /\ sharedPages'[j].count > 0 <=> sharedPages[j].count > 0
  BY <1>1, <1>2, <1>3
<1>8. Attachments' /\ Protected'
  <2>1. \A q \in Proc, w \in Virtual : pg_table[q][w] # NULL => pg_table[q][w].page # NULL
    <3>1. NULL \notin Page
      BY MemoryAssumption DEF Page
    <3>2. QED
      BY <3>1, EntryType
  <2>2. QED
    BY <1>1, <1>3, <1>7, <2>1, KeysKept
<1>9. Layout'
  BY <1>1 DEF MemInv, Layout
<1>10. Accounts(mem_map', sharedPages', pg_table', due', lost', LiveKeys(sharedPages'))
  <2>1. LiveKeys(sharedPages') = LiveKeys(sharedPages)
    BY <1>7 DEF LiveKeys
  <2>2. Accounts(mem_map, sharedPages, pg_table, due, lost, LiveKeys(sharedPages))
    BY DEF MemInv
  <2>3. ASSUME NEW j \in LiveKeys(sharedPages)
        PROVE  /\ sharedPages'[j].physicalAddress \in Page
               /\ UseCount(pg_table', sharedPages'[j].physicalAddress) + DueCount(due', j) + lost'[j]
                     = sharedPages'[j].count
               /\ mem_map'[sharedPages'[j].physicalAddress] = IF sharedPages'[j].count > 0 THEN 1 ELSE 0
    <3>1. /\ j \in Key /\ sharedPages[j].physicalAddress \in Page
          /\ UseCount(pg_table, sharedPages[j].physicalAddress) + DueCount(due, j) + lost[j]
                = sharedPages[j].count
          /\ mem_map[sharedPages[j].physicalAddress] = 1 /\ sharedPages'[j].count > 0
      BY <1>7, KeyFrame DEF LiveKeys
    <3>2. /\ UseCount(pg_table, sharedPages[j].physicalAddress) \in Nat /\ DueCount(due, j) \in Nat
          /\ lost[j] \in Nat
      BY <3>1, Counted, DuesCounted DEF MemInv, MemTypes
    <3>3. PICK a \in Page : a = sharedPages[j].physicalAddress
      BY <3>1
    <3>4. sharedPages'[j].physicalAddress = a
      BY <1>3, <3>1, <3>3
    <3>5. pg_table' = pg_table /\ lost' = lost /\ mem_map' = mem_map
      BY <1>1
    <3>6. UseCount(pg_table, a) + DueCount(due', j) + lost[j] = sharedPages'[j].count
      <4>1. CASE j = k
        <5>1. /\ DueCount(due', k) = DueCount(due, k) + 1
              /\ sharedPages'[k].count = sharedPages[k].count + 1
          BY <1>3, <1>5
        <5>2. /\ UseCount(pg_table, a) + DueCount(due, k) + lost[k] = sharedPages[k].count
              /\ UseCount(pg_table, a) \in Nat /\ DueCount(due, k) \in Nat /\ lost[k] \in Nat
          BY <3>1, <3>2, <3>3, <4>1
        <5>3. UseCount(pg_table, a) + DueCount(due', k) + lost[k] = sharedPages'[k].count
          BY ONLY <5>1, <5>2
        <5>4. QED
          BY <4>1, <5>3
      <4>2. CASE j # k
        BY <1>3, <1>5, <3>1, <3>3, <4>2
      <4>3. QED
        BY <4>1, <4>2
    <3>7. QED
      BY <3>1, <3>3, <3>4, <3>5, <3>6
  <2>4. ASSUME NEW j \in Key \ LiveKeys(sharedPages)
        PROVE  sharedPages'[j].count = 0 /\ DueCount(due', j) = 0 /\ lost'[j] = 0
    <3>1. j # k
      BY <1>1 DEF LiveKeys
    <3>2. QED
      BY <1>1, <1>3, <1>5, <2>2, <3>1 DEF Accounts
  <2>5. /\ \A i, j \in LiveKeys(sharedPages) :
              sharedPages'[i].physicalAddress = sharedPages'[j].physicalAddress => i = j
        /\ \A g \in Page : (\A j \in LiveKeys(sharedPages) : sharedPages'[j].physicalAddress # g)
              => Adds(mem_map'[g], UseCount(pg_table', g))
    BY <1>1, <1>3, <2>2 DEF Accounts, LiveKeys
  <2>6. QED
    BY <2>1, <2>3, <2>4, <2>5 DEF Accounts
<1>11. QED
  BY <1>6, <1>8, <1>9, <1>10 DEF MemInv

\* shmget of a new page.
LEMMA ShmgetNewStep ==
    ASSUME Careful, MemInv, NEW p \in Proc, NEW k \in Key, ShmgetNew(p, k)
    PROVE  MemInv'
<1>1. PICK f : f = get_free_page
  OBVIOUS
<1>2. /\ sharedPages[k].physicalAddress = NULL \/ sharedPages[k].count = 0
      /\ k \notin due[p] /\ FreePages # {}
      /\ mem_map' = [mem_map EXCEPT ![f] = 1]
      /\ sharedPages' = [sharedPages EXCEPT ![k] = [count |-> @.count + 1, physicalAddress |-> f]]
      /\ due' = [due EXCEPT ![p] = @ \cup {k}]
      /\ UNCHANGED <<pg_table, alive, executable, brk, panicked, lost, attached>>
  BY <1>1 DEF ShmgetNew
<1>3. /\ sharedPages \in [Key -> [count : Nat, physicalAddress : Page \cup {NULL}]]
      /\ due \in [Proc -> SUBSET Key] /\ mem_map \in [Page -> Nat]
  BY DEF MemInv, MemTypes, MemoryTypeOK
<1>4. /\ f \in Page /\ mem_map[f] = 0 /\ ~Keyed(f) /\ UseCount(pg_table, f) = 0
      /\ \A q \in Proc, w \in Virtual : pg_table[q][w] # NULL => pg_table[q][w].page # f
  BY <1>1, <1>2, FreeFrame
<1>5. sharedPages[k].count = 0 /\ k \notin LiveKeys(sharedPages)
  <2>1. NULL \notin Page
    BY MemoryAssumption DEF Page
  <2>2. ~(sharedPages[k].count > 0)
    BY <1>2, <2>1, KeyFrame
  <2>3. sharedPages[k].count \in Nat
    BY <1>3
  <2>4. QED
    BY <2>2, <2>3 DEF LiveKeys
<1>6. /\ sharedPages' \in [Key -> [count : Nat, physicalAddress : Page \cup {NULL}]]
      /\ sharedPages'[k].count = 1 /\ sharedPages'[k].physicalAddress = f
      /\ \A j \in Key : j # k => sharedPages'[j] = sharedPages[j]
  BY <1>2, <1>3, <1>4, <1>5
<1>7. /\ due' \in [Proc -> SUBSET Key] /\ mem_map' \in [Page -> Nat]
      /\ \A g \in Page : mem_map'[g] = IF g = f THEN 1 ELSE mem_map[g]
  BY <1>2, <1>3, <1>4
<1>8. /\ \A j \in Key : j # k => DueCount(due', j) = DueCount(due, j)
      /\ DueCount(due', k) = DueCount(due, k) + 1
  BY <1>2, <1>3, DueLemma
<1>9. MemTypes'
  BY <1>2, <1>6, <1>7 DEF MemInv, MemTypes, MemoryTypeOK
<1>10. Attachments' /\ Protected'
  <2>1. \A j \in Key : sharedPages[j].count > 0 => j # k
    BY <1>5 DEF LiveKeys
  <2>2. \A j \in Key : sharedPages[j].count > 0 =>
           /\ sharedPages'[j].count > 0
           /\ sharedPages'[j].physicalAddress = sharedPages[j].physicalAddress
    BY <1>6, <2>1
  <2>3. \A j \in Key : sharedPages'[j].count > 0 =>
           sharedPages[j].count > 0 \/ sharedPages'[j].physicalAddress = f
    BY <1>6
  <2>4. QED
    BY <1>2, <1>4, <2>2, <2>3, KeysKept
<1>11. Layout'
  BY <1>2 DEF MemInv, Layout
<1>12. Accounts(mem_map', sharedPages', pg_table', due', lost', LiveKeys(sharedPages'))
  <2>1. LiveKeys(sharedPages') = LiveKeys(sharedPages) \cup {k}
    BY <1>6 DEF LiveKeys
  <2>2. Accounts(mem_map, sharedPages, pg_table, due, lost, LiveKeys(sharedPages))
    BY DEF MemInv
  <2>3. \A j \in LiveKeys(sharedPages) : /\ j \in Key /\ j # k /\ sharedPages'[j] = sharedPages[j]
                                         /\ sharedPages[j].physicalAddress # f
                                         /\ sharedPages[j].physicalAddress \in Page
    BY <1>4, <1>5, <1>6, KeyFrame DEF LiveKeys, Keyed
  <2>4. ASSUME NEW j \in LiveKeys(sharedPages)
        PROVE  /\ sharedPages'[j].physicalAddress \in Page
               /\ UseCount(pg_table', sharedPages'[j].physicalAddress) + DueCount(due', j) + lost'[j]
                     = sharedPages'[j].count
               /\ mem_map'[sharedPages'[j].physicalAddress] = IF sharedPages'[j].count > 0 THEN 1 ELSE 0
    <3>1. PICK a \in Page : a = sharedPages[j].physicalAddress
      BY <2>3
    <3>2. /\ j \in Key /\ j # k /\ sharedPages'[j] = sharedPages[j] /\ a # f
          /\ sharedPages[j].count > 0
      BY <2>3, <3>1 DEF LiveKeys
    <3>3. UseCount(pg_table, a) + DueCount(due, j) + lost[j] = sharedPages[j].count /\ mem_map[a] = 1
      BY <3>1, <3>2, KeyFrame
    <3>4. pg_table' = pg_table /\ lost' = lost /\ mem_map'[a] = mem_map[a]
      BY <1>2, <1>7, <3>2
    <3>5. DueCount(due', j) = DueCount(due, j)
      BY <1>8, <3>2
    <3>6. QED
      BY <3>1, <3>2, <3>3, <3>4, <3>5
  <2>5. /\ sharedPages'[k].physicalAddress \in Page
        /\ UseCount(pg_table', sharedPages'[k].physicalAddress) + DueCount(due', k) + lost'[k]
              = sharedPages'[k].count
        /\ mem_map'[sharedPages'[k].physicalAddress] = IF sharedPages'[k].count > 0 THEN 1 ELSE 0
    <3>1. DueCount(due, k) = 0 /\ lost[k] = 0
      BY <1>5, <2>2 DEF Accounts
    <3>2. QED
      BY <1>2, <1>4, <1>6, <1>7, <1>8, <3>1
  <2>6. ASSUME NEW j \in Key \ LiveKeys(sharedPages')
        PROVE  sharedPages'[j].count = 0 /\ DueCount(due', j) = 0 /\ lost'[j] = 0
    <3>1. j # k /\ j \in Key \ LiveKeys(sharedPages)
      BY <2>1
    <3>2. QED
      BY <1>2, <1>6, <1>8, <2>2, <3>1 DEF Accounts
  <2>7. \A i, j \in LiveKeys(sharedPages') :
           sharedPages'[i].physicalAddress = sharedPages'[j].physicalAddress => i = j
    BY <1>6, <2>1, <2>2, <2>3 DEF Accounts
  <2>8. ASSUME NEW g \in Page, \A j \in LiveKeys(sharedPages') : sharedPages'[j].physicalAddress # g
        PROVE  Adds(mem_map'[g], UseCount(pg_table', g))
    <3>1. g # f /\ \A j \in LiveKeys(sharedPages) : sharedPages[j].physicalAddress # g
      BY <1>6, <2>1, <2>3, <2>8
    <3>2. QED
      BY <1>2, <1>7, <2>2, <3>1 DEF Accounts
  <2>9. QED
    BY <2>1, <2>4, <2>5, <2>6, <2>7, <2>8 DEF Accounts
<1>13. QED
  BY <1>9, <1>10, <1>11, <1>12 DEF MemInv

\* shmat.
LEMMA ShmatStep ==
    ASSUME Careful, MemInv, NEW p \in Proc, NEW k \in Key, Shmat(p, k)
    PROVE  MemInv'
<1>1. PICK v : v = brk[p] \div PAGE_SIZE
  OBVIOUS
<1>2. PICK a : a = sharedPages[k].physicalAddress
  OBVIOUS
<1>3. /\ p \in alive /\ attached[p][k] = NULL /\ k \in due[p] /\ sharedPages[k].count > 0
      /\ v \in Virtual /\ PutPage(p, v, a)
      /\ brk' = [brk EXCEPT ![p] = @ + PAGE_SIZE]
      /\ attached' = [attached EXCEPT ![p][k] = brk[p]]
      /\ due' = [due EXCEPT ![p] = @ \ {k}]
      /\ UNCHANGED <<mem_map, sharedPages, alive, executable, panicked, lost>>
  BY <1>1, <1>2 DEF Shmat
<1>4. /\ brk \in [Proc -> Nat] /\ attached \in [Proc -> [Key -> Nat \cup {NULL}]]
      /\ due \in [Proc -> SUBSET Key] /\ pg_table \in Tables /\ NULL \notin Nat
      /\ PAGE_SIZE \in Nat \ {0}
  BY MemoryAssumption DEF MemInv, MemTypes, MemoryTypeOK, Tables
<1>5. /\ On(brk[p], v) /\ brk[p] \in Nat /\ v \in Nat /\ v * PAGE_SIZE \in Nat
      /\ executable[p] # NULL => executable[p].end_data <= v * PAGE_SIZE
      /\ Aligned => brk[p] = v * PAGE_SIZE
  <2>1. BrkFits(brk[p], executable[p]) /\ brk[p] \in Nat /\ v \in Nat
    BY <1>3, <1>4 DEF MemInv, Layout, Virtual
  <2>2. PICK n \in Nat : /\ On(brk[p], n)
                         /\ executable[p] # NULL => executable[p].end_data <= n * PAGE_SIZE
                         /\ Aligned => brk[p] = n * PAGE_SIZE
    BY <2>1 DEF BrkFits
  <2>3. PICK b \in Nat : b = brk[p]
    BY <2>1
  <2>4. n * PAGE_SIZE <= b /\ b < n * PAGE_SIZE + PAGE_SIZE /\ n \in Int
    BY <2>2, <2>3 DEF On
  <2>5. b \div PAGE_SIZE = n
    BY <1>4, <2>4, PageOf
  <2>6. n = v
    BY <1>1, <2>3, <2>5
  <2>7. v * PAGE_SIZE \in Nat
    BY <1>4, <2>1
  <2>8. QED
    BY <2>1, <2>2, <2>6, <2>7
<1>6. /\ pg_table[p][v] # NULL => ~Keyed(pg_table[p][v].page)
      /\ Aligned => pg_table[p][v] = NULL
  <2>1. ASSUME pg_table[p][v] # NULL, NEW j \in Key, sharedPages[j].count > 0,
               sharedPages[j].physicalAddress = pg_table[p][v].page
        PROVE  FALSE
    <3>1. HasAt(p, j, v) /\ attached[p][j] # NULL
      BY <1>3, <2>1, KeyEntry
    <3>2. PICK b \in Nat, c \in Nat, s \in Nat, z \in Nat :
             b = brk[p] /\ c = attached[p][j] /\ s = v * PAGE_SIZE /\ z = PAGE_SIZE
      BY <1>4, <1>5, <3>1
    <3>3. s <= c /\ c + z <= b /\ b < s + z
      BY <1>5, <3>1, <3>2 DEF HasAt, On
    <3>4. QED
      BY <3>3
  <2>2. Aligned => pg_table[p][v] = NULL
    <3>1. pg_table[p][v] # NULL => v * PAGE_SIZE < brk[p]
      BY <1>3 DEF MemInv, Layout
    <3>2. QED
      BY <1>5, <3>1
  <2>3. QED
    BY <2>1, <2>2 DEF Keyed
<1>7. PICK e : e = [page |-> a, writable |-> TRUE, dirty |-> FALSE]
  OBVIOUS
<1>8. /\ a \in Page /\ mem_map[a] = 1
      /\ UseCount(pg_table, a) + DueCount(due, k) + lost[k] = sharedPages[k].count
      /\ \A j \in Key : sharedPages[j].count > 0 /\ sharedPages[j].physicalAddress = a => j = k
  BY <1>2, <1>3, KeyFrame
<1>9. e \in Entry /\ e.page = a /\ e.writable /\ e # NULL
  <2>1. e \in Entry /\ e.page = a /\ e.writable
    BY <1>7, <1>8 DEF Entry
  <2>2. QED
    BY <2>1, MemoryAssumption
<1>10. /\ Changed(pg_table, pg_table', p, v, e) /\ pg_table' \in Tables
       /\ \A q \in Proc, w \in Virtual :
             pg_table'[q][w] = IF q = p /\ w = v THEN e ELSE pg_table[q][w]
  <2>1. Changed(pg_table, pg_table', p, v, e)
    BY <1>3, <1>4, <1>7, <1>9, ChangedBy DEF PutPage
  <2>2. QED
    BY <2>1 DEF Changed
<1>11. /\ UseCount(pg_table', a) = UseCount(pg_table, a) + 1
       /\ \A g : Keyed(g) /\ g # a => UseCount(pg_table', g) = UseCount(pg_table, g)
       /\ \A g : g # a => \/ UseCount(pg_table', g) = UseCount(pg_table, g)
                          \/ ~Aligned /\ UseCount(pg_table', g) = UseCount(pg_table, g) - 1
  <2>1. PICK t : t = [pg_table EXCEPT ![p][v] = NULL]
    OBVIOUS
  <2>2. Changed(pg_table, t, p, v, NULL)
    BY <1>3, <1>4, <2>1, ChangedBy
  <2>3. t \in Tables /\ t[p][v] = NULL
    BY <1>3, <2>2 DEF Changed
  <2>4. Changed(t, pg_table', p, v, e)
    BY <1>10, <2>2 DEF Changed
  <2>5. \A g : UseCount(pg_table', g) = IF g = e.page THEN UseCount(t, g) + 1 ELSE UseCount(t, g)
    BY <1>3, <1>9, <2>3, <2>4, Entered
  <2>6. Keyed(a)
    BY <1>2, <1>3 DEF Keyed
  <2>7. CASE pg_table[p][v] = NULL
    <3>1. t = pg_table
      BY <1>4, <2>1, <2>7 DEF Tables
    <3>2. QED
      BY <1>9, <2>5, <3>1
  <2>8. CASE pg_table[p][v] # NULL
    <3>1. \A g : UseCount(t, g) =
             IF g = pg_table[p][v].page THEN UseCount(pg_table, g) - 1 ELSE UseCount(pg_table, g)
      BY <1>3, <1>4, <2>2, <2>8, TakenOut
    <3>2. ~Keyed(pg_table[p][v].page) /\ ~Aligned
      BY <1>6, <2>8
    <3>3. \A g : Keyed(g) => UseCount(t, g) = UseCount(pg_table, g)
      BY <3>1, <3>2
    <3>4. \A g : g # a => UseCount(pg_table', g) = UseCount(t, g)
      BY <1>9, <2>5
    <3>5. UseCount(pg_table', a) = UseCount(pg_table, a) + 1
      BY <1>9, <2>5, <2>6, <3>3
    <3>6. QED
      BY <3>1, <3>2, <3>3, <3>4, <3>5
  <2>9. QED
    BY <2>7, <2>8
<1>12. /\ \A j \in Key : j # k => DueCount(due', j) = DueCount(due, j)
       /\ DueCount(due', k) = DueCount(due, k) - 1
  <2>1. due' = [due EXCEPT ![p] = @ \ {k}] /\ k \in due[p] /\ due \in [Proc -> SUBSET Key]
    BY <1>3, <1>4
  <2>2. /\ \A j \in Key : j # k => DueCount([due EXCEPT ![p] = @ \ {k}], j) = DueCount(due, j)
        /\ DueCount([due EXCEPT ![p] = @ \ {k}], k) = DueCount(due, k) - 1
    BY <2>1, DueLemma, Zenon
  <2>3. QED
    BY <2>1, <2>2, Zenon
<1>13. /\ brk' \in [Proc -> Nat] /\ due' \in [Proc -> SUBSET Key]
       /\ attached' \in [Proc -> [Key -> Nat \cup {NULL}]]
       /\ brk'[p] = brk[p] + PAGE_SIZE /\ attached'[p][k] = brk[p]
       /\ \A q \in Proc : q # p => brk'[q] = brk[q]
       /\ \A q \in Proc, j \in Key : ~(q = p /\ j = k) => attached'[q][j] = attached[q][j]
  <2>1. /\ brk' \in [Proc -> Nat] /\ brk'[p] = brk[p] + PAGE_SIZE
        /\ \A q \in Proc : q # p => brk'[q] = brk[q]
    BY <1>3, <1>4
  <2>2. due' \in [Proc -> SUBSET Key]
    BY <1>3, <1>4
  <2>3. /\ attached' \in [Proc -> [Key -> Nat \cup {NULL}]] /\ attached'[p][k] = brk[p]
        /\ \A q \in Proc, j \in Key : ~(q = p /\ j = k) => attached'[q][j] = attached[q][j]
    <3>1. brk[p] \in Nat \cup {NULL}
      BY <1>4
    <3>2. QED
      BY <1>3, <1>4, <3>1
  <2>4. QED
    BY <2>1, <2>2, <2>3
<1>14. MemTypes'
  BY <1>3, <1>10, <1>13 DEF MemInv, MemTypes, MemoryTypeOK, Tables
<1>15. Accounts(mem_map', sharedPages', pg_table', due', lost', LiveKeys(sharedPages'))
  <2>1. Accounts(mem_map, sharedPages, pg_table, due, lost, LiveKeys(sharedPages))
    BY DEF MemInv
  <2>2. mem_map' = mem_map /\ sharedPages' = sharedPages /\ lost' = lost
    BY <1>3
  <2>3. ASSUME NEW j \in LiveKeys(sharedPages)
        PROVE  /\ sharedPages[j].physicalAddress \in Page
               /\ UseCount(pg_table', sharedPages[j].physicalAddress) + DueCount(due', j) + lost[j]
                     = sharedPages[j].count
               /\ mem_map[sharedPages[j].physicalAddress] = IF sharedPages[j].count > 0 THEN 1 ELSE 0
    <3>1. CASE j = k
      <4>1. UseCount(pg_table, a) \in Nat /\ DueCount(due, k) \in Nat /\ lost[k] \in Nat
        BY Counted, DuesCounted DEF MemInv, MemTypes
      <4>2. /\ UseCount(pg_table', a) = UseCount(pg_table, a) + 1
            /\ DueCount(due', k) = DueCount(due, k) - 1
        BY <1>11, <1>12
      <4>3. UseCount(pg_table', a) + DueCount(due', k) + lost[k]
               = UseCount(pg_table, a) + DueCount(due, k) + lost[k]
        BY ONLY <4>1, <4>2
      <4>4. QED
        BY <1>2, <1>3, <1>8, <3>1, <4>3
    <3>2. CASE j # k
      <4>1. j \in Key /\ sharedPages[j].count > 0
        BY DEF LiveKeys
      <4>2. sharedPages[j].physicalAddress # a
        BY <1>8, <3>2, <4>1
      <4>3. UseCount(pg_table', sharedPages[j].physicalAddress)
               = UseCount(pg_table, sharedPages[j].physicalAddress)
        BY <1>11, <4>1, <4>2 DEF Keyed
      <4>4. DueCount(due', j) = DueCount(due, j)
        BY <1>12, <3>2, <4>1
      <4>5. QED
        BY <2>1, <4>3, <4>4 DEF Accounts
    <3>3. QED
      BY <3>1, <3>2
  <2>4. ASSUME NEW g \in Page, \A j \in LiveKeys(sharedPages) : sharedPages[j].physicalAddress # g
        PROVE  Adds(mem_map[g], UseCount(pg_table', g))
    <3>1. g # a
      BY <1>2, <1>3, <2>4 DEF LiveKeys
    <3>2. Adds(mem_map[g], UseCount(pg_table, g))
      BY <2>1, <2>4 DEF Accounts
    <3>3. UseCount(pg_table, g) \in Nat /\ mem_map[g] \in Nat
      BY Counted DEF MemInv, MemTypes, MemoryTypeOK
    <3>4. CASE UseCount(pg_table', g) = UseCount(pg_table, g)
      BY <3>2, <3>4
    <3>5. CASE ~Aligned /\ UseCount(pg_table', g) = UseCount(pg_table, g) - 1
      BY <3>2, <3>3, <3>5 DEF Adds
    <3>6. QED
      BY <1>11, <3>1, <3>4, <3>5
  <2>5. ASSUME NEW j \in Key \ LiveKeys(sharedPages)
        PROVE  sharedPages[j].count = 0 /\ DueCount(due', j) = 0 /\ lost[j] = 0
    <3>1. j # k
      BY <1>3 DEF LiveKeys
    <3>2. QED
      BY <1>12, <2>1, <3>1 DEF Accounts
  <2>6. \A i, j \in LiveKeys(sharedPages) :
           sharedPages[i].physicalAddress = sharedPages[j].physicalAddress => i = j
    BY <2>1 DEF Accounts
  <2>7. QED
    BY <2>2, <2>3, <2>4, <2>5, <2>6 DEF Accounts
<1>16. /\ v * PAGE_SIZE \in Nat /\ (v + 1) * PAGE_SIZE = v * PAGE_SIZE + PAGE_SIZE
       /\ v \in Nat /\ v + 1 \in Nat
  <2>1. v \in Nat /\ v * PAGE_SIZE \in Nat /\ PAGE_SIZE \in Nat
    BY <1>4, <1>5
  <2>2. (v + 1) * PAGE_SIZE = v * PAGE_SIZE + PAGE_SIZE
    BY <2>1, NextPage
  <2>3. QED
    BY <2>1, <2>2
<1>17. Layout'
  <2>1. SUFFICES ASSUME NEW q \in Proc
        PROVE  /\ q \notin alive => \A w \in Virtual : pg_table'[q][w] = NULL
               /\ BrkFits(brk'[q], executable[q])
               /\ \A w \in Virtual : pg_table'[q][w] # NULL => w * PAGE_SIZE < brk'[q]
    BY <1>3 DEF Layout
  <2>2. CASE q # p
    <3>1. brk'[q] = brk[q] /\ \A w \in Virtual : pg_table'[q][w] = pg_table[q][w]
      BY <1>10, <1>13, <2>2
    <3>2. /\ q \notin alive => \A w \in Virtual : pg_table[q][w] = NULL
          /\ BrkFits(brk[q], executable[q])
          /\ \A w \in Virtual : pg_table[q][w] # NULL => w * PAGE_SIZE < brk[q]
      BY DEF MemInv, Layout
    <3>3. BrkFits(brk'[q], executable[q])
      BY <3>1, <3>2, Zenon
    <3>4. QED
      BY <3>1, <3>2, <3>3
  <2>3. CASE q = p
    <3>1. PICK b \in Nat, s \in Nat, z \in Nat : b = brk[p] /\ s = v * PAGE_SIZE /\ z = PAGE_SIZE
      BY <1>4, <1>5
    <3>2. s <= b /\ b < s + z /\ brk'[p] = b + z /\ (v + 1) * PAGE_SIZE = s + z
      BY <1>5, <1>13, <1>16, <3>1 DEF On
    <3>3. ASSUME NEW w \in Virtual, pg_table'[p][w] # NULL PROVE w * PAGE_SIZE < brk'[p]
      <4>1. PICK x \in Int : x = w * PAGE_SIZE
        BY <1>4 DEF Virtual
      <4>2. CASE w = v
        BY <3>1, <3>2, <4>2
      <4>3. CASE w # v
        <5>1. w * PAGE_SIZE < brk[p]
          BY <1>10, <3>3, <4>3 DEF MemInv, Layout
        <5>2. QED
          BY <3>1, <3>2, <4>1, <5>1
      <4>4. QED
        BY <4>2, <4>3
    <3>4. BrkFits(brk'[p], executable[p])
      <4>1. On(b + z, v + 1)
        <5>1. b + z # NULL
          BY <1>4
        <5>2. QED
          BY <3>1, <3>2, <5>1 DEF On
      <4>2. executable[p] # NULL => executable[p].end_data \in Nat
        BY MemoryAssumption DEF MemInv, MemTypes, MemoryTypeOK
      <4>3. executable[p] # NULL => executable[p].end_data <= s + z
        BY <1>5, <3>1, <4>2
      <4>4. Aligned => b + z = s + z
        BY <1>5, <3>1
      <4>5. QED
        BY <1>16, <3>2, <4>1, <4>3, <4>4 DEF BrkFits
    <3>5. QED
      BY <1>3, <2>3, <3>3, <3>4
  <2>4. QED
    BY <2>2, <2>3
<1>18. Attachments'
  <2>1. ASSUME NEW q \in Proc, NEW j \in Key, attached'[q][j] # NULL
        PROVE  \E w \in Virtual : HasAt(q, j, w)'
    <3>1. CASE q = p /\ j = k
      <4>1. /\ executable[p] # NULL => executable[p].end_data <= v * PAGE_SIZE
            /\ On(brk[p], v) /\ brk[p] + PAGE_SIZE <= brk'[p]
        BY <1>4, <1>5, <1>13
      <4>2. HasAt(p, k, v)'
        BY <1>2, <1>3, <1>9, <1>10, <1>13, <4>1 DEF HasAt, On
      <4>3. QED
        BY <1>3, <3>1, <4>2
    <3>2. CASE ~(q = p /\ j = k)
      <4>1. PICK w \in Virtual : HasAt(q, j, w)
        BY <1>13, <2>1, <3>2 DEF MemInv, Attachments
      <4>2. pg_table'[q][w] = pg_table[q][w]
        <5>1. pg_table[q][w] # NULL /\ Keyed(pg_table[q][w].page)
          BY <4>1 DEF HasAt, Keyed
        <5>2. ~(q = p /\ w = v)
          BY <1>6, <5>1
        <5>3. QED
          BY <1>10, <5>2
      <4>3. attached[q][j] + PAGE_SIZE <= brk'[q] /\ attached'[q][j] = attached[q][j]
        <5>1. attached'[q][j] = attached[q][j] /\ attached[q][j] \in Nat
          BY <1>4, <1>13, <2>1, <3>2
        <5>2. attached[q][j] + PAGE_SIZE <= brk[q] /\ brk[q] <= brk'[q] /\ brk'[q] \in Nat
          BY <1>4, <1>13, <4>1 DEF HasAt
        <5>3. QED
          BY <1>4, <5>1, <5>2
      <4>4. HasAt(q, j, w)'
        BY <1>3, <4>1, <4>2, <4>3 DEF HasAt, On
      <4>5. QED
        BY <4>4
    <3>3. QED
      BY <3>1, <3>2
  <2>2. ASSUME NEW q \in Proc, NEW w \in Virtual, NEW j \in Key, pg_table'[q][w] # NULL,
               sharedPages'[j].count > 0, pg_table'[q][w].page = sharedPages'[j].physicalAddress
        PROVE  On(attached'[q][j], w)
    <3>1. sharedPages' = sharedPages
      BY <1>3
    <3>2. CASE q = p /\ w = v
      <4>1. j = k
        BY <1>8, <1>9, <1>10, <2>2, <3>1, <3>2
      <4>2. QED
        BY <1>5, <1>13, <3>2, <4>1
    <3>3. CASE ~(q = p /\ w = v)
      <4>1. pg_table'[q][w] = pg_table[q][w]
        BY <1>10, <3>3
      <4>2. HasAt(q, j, w) /\ attached[q][j] # NULL
        BY <2>2, <3>1, <4>1, KeyEntry
      <4>3. ~(q = p /\ j = k)
        BY <1>3, <4>2
      <4>4. QED
        BY <1>13, <4>2, <4>3 DEF HasAt
    <3>4. QED
      BY <3>2, <3>3
  <2>3. QED
    BY <2>1, <2>2 DEF Attachments
<1>19. Protected'
  <2>1. \A g : Keyed(g)' <=> Keyed(g)
    BY <1>3 DEF Keyed
  <2>2. SUFFICES ASSUME NEW q \in Proc, NEW r \in Proc, NEW x \in Virtual, NEW y \in Virtual,
                        pg_table'[q][x] # NULL, pg_table'[r][y] # NULL,
                        pg_table'[q][x].page = pg_table'[r][y].page,
                        pg_table'[q][x].writable, ~Keyed(pg_table'[q][x].page)
                 PROVE  q = r /\ x = y
    BY <2>1 DEF Protected
  <2>3. Keyed(a)
    BY <1>2, <1>3 DEF Keyed
  <2>4. ~(q = p /\ x = v) /\ ~(r = p /\ y = v)
    BY <1>9, <1>10, <2>2, <2>3
  <2>5. pg_table'[q][x] = pg_table[q][x] /\ pg_table'[r][y] = pg_table[r][y]
    BY <1>10, <2>4
  <2>6. QED
    BY <2>2, <2>5 DEF MemInv, Protected
<1>20. QED
  BY <1>14, <1>15, <1>17, <1>18, <1>19 DEF MemInv

----------------------------------------------------------------------------
\* free_page.

SharedPages == [Key -> [count : Nat, physicalAddress : Page \cup {NULL}]]
Counts == [map : [Page -> Nat], shm : SharedPages, panic : BOOLEAN]

\* n is m with the count of key k, and of frame g, changed to c and to x.
Recounted(m, n, k, c, g, x) ==
    /\ n \in Counts /\ n.panic = m.panic
    /\ n.shm[k].count = c /\ \A j \in Key \ {k} : n.shm[j].count = m.shm[j].count
    /\ \A j \in Key : n.shm[j].physicalAddress = m.shm[j].physicalAddress
    /\ \A h \in Page : n.map[h] = IF h = g THEN x ELSE m.map[h]

\* The page of a key: the key's count goes first.
LEMMA FreeShared ==
    ASSUME NEW m \in Counts, NEW g \in Page, NEW k \in Key, m.map[g] # 0, KeyOf(m.shm, g) = {k}
    PROVE  Recounted(m, FreePage(m, g), k, m.shm[k].count - 1, g,
                     IF m.shm[k].count = 1 THEN m.map[g] - 1 ELSE m.map[g])
<1>1. m.shm[k].count \in Nat \ {0} /\ m.map[g] \in Nat \ {0}
  <2>1. k \in KeyOf(m.shm, g)
    OBVIOUS
  <2>2. m.shm[k].count > 0
    BY <2>1 DEF KeyOf
  <2>3. QED
    BY <2>2 DEF Counts, SharedPages
<1>2. PICK c \in Nat : c = m.shm[k].count - 1
  BY <1>1
<1>3. PICK x \in Nat : x = IF m.shm[k].count = 1 THEN m.map[g] - 1 ELSE m.map[g]
  BY <1>1
<1>4. (CHOOSE j \in KeyOf(m.shm, g) : TRUE) = k
  OBVIOUS
<1>5. FreePage(m, g) = [m EXCEPT !.shm[k].count = @ - 1,
                                 !.map[g] = IF m.shm[k].count = 1 THEN @ - 1 ELSE @]
  BY <1>4 DEF FreePage
<1>6. PICK s : s = [m.shm EXCEPT ![k].count = c]
  OBVIOUS
<1>7. /\ s \in SharedPages /\ s[k].count = c /\ \A j \in Key \ {k} : s[j].count = m.shm[j].count
      /\ \A j \in Key : s[j].physicalAddress = m.shm[j].physicalAddress
  BY <1>2, <1>6 DEF Counts, SharedPages
<1>8. PICK y : y = [m.map EXCEPT ![g] = x]
  OBVIOUS
<1>9. y \in [Page -> Nat] /\ \A h \in Page : y[h] = IF h = g THEN x ELSE m.map[h]
  BY <1>3, <1>8 DEF Counts
<1>10. PICK n : n = FreePage(m, g)
  OBVIOUS
<1>11. n = [map |-> y, shm |-> s, panic |-> m.panic]
  BY <1>2, <1>3, <1>5, <1>6, <1>8, <1>10 DEF Counts
<1>12. n \in Counts /\ n.map = y /\ n.shm = s /\ n.panic = m.panic
  BY <1>7, <1>9, <1>11 DEF Counts
<1>13. Recounted(m, n, k, c, g, x)
  BY <1>7, <1>9, <1>12 DEF Recounted
<1>14. QED
  BY <1>2, <1>3, <1>10, <1>13

\* Any other page.
LEMMA FreePlain ==
    ASSUME NEW m \in Counts, NEW g \in Page, m.map[g] # 0, KeyOf(m.shm, g) = {}
    PROVE  /\ FreePage(m, g) \in Counts
           /\ FreePage(m, g).panic = m.panic /\ FreePage(m, g).shm = m.shm
           /\ \A h \in Page : FreePage(m, g).map[h] = IF h = g THEN m.map[h] - 1 ELSE m.map[h]
<1>1. PICK x \in Nat : x = m.map[g] - 1
  BY DEF Counts
<1>2. PICK n : n = FreePage(m, g)
  OBVIOUS
<1>3. n = [m EXCEPT !.map[g] = @ - 1]
  BY <1>2 DEF FreePage
<1>4. PICK y : y = [m.map EXCEPT ![g] = x]
  OBVIOUS
<1>5. y \in [Page -> Nat] /\ \A h \in Page : y[h] = IF h = g THEN x ELSE m.map[h]
  BY <1>1, <1>4 DEF Counts
<1>6. n = [map |-> y, shm |-> m.shm, panic |-> m.panic]
  BY <1>1, <1>3, <1>4 DEF Counts
<1>7. n \in Counts /\ n.map = y /\ n.shm = m.shm /\ n.panic = m.panic
  BY <1>5, <1>6 DEF Counts
<1>8. QED
  BY <1>1, <1>2, <1>5, <1>7

\* free_page makes counts of counts.
LEMMA FreePageType ==
    ASSUME NEW m \in Counts, NEW g \in Page
    PROVE  FreePage(m, g) \in Counts
<1>1. CASE m.map[g] = 0
  BY <1>1 DEF FreePage, Counts
<1>2. CASE m.map[g] # 0 /\ KeyOf(m.shm, g) = {}
  BY <1>2, FreePlain
<1>3. CASE m.map[g] # 0 /\ KeyOf(m.shm, g) # {}
  <2>1. PICK k : k = CHOOSE j \in KeyOf(m.shm, g) : TRUE
    OBVIOUS
  <2>2. k \in KeyOf(m.shm, g)
    BY <1>3, <2>1
  <2>3. k \in Key /\ m.shm[k].count \in Nat \ {0} /\ m.map[g] \in Nat \ {0}
    BY <1>3, <2>2 DEF KeyOf, Counts, SharedPages
  <2>4. PICK x \in Nat : x = IF m.shm[k].count = 1 THEN m.map[g] - 1 ELSE m.map[g]
    BY <2>3
  <2>5. PICK c \in Nat : c = m.shm[k].count - 1
    BY <2>3
  <2>6. FreePage(m, g) = [m EXCEPT !.shm[k].count = @ - 1,
                                   !.map[g] = IF m.shm[k].count = 1 THEN @ - 1 ELSE @]
    BY <1>3, <2>1 DEF FreePage
  <2>7. PICK s, y : s = [m.shm EXCEPT ![k].count = c] /\ y = [m.map EXCEPT ![g] = x]
    OBVIOUS
  <2>8. s \in SharedPages /\ y \in [Page -> Nat]
    BY <2>3, <2>4, <2>5, <2>7 DEF Counts, SharedPages
  <2>9. FreePage(m, g) = [map |-> y, shm |-> s, panic |-> m.panic]
    BY <2>4, <2>5, <2>6, <2>7 DEF Counts
  <2>10. QED
    BY <2>8, <2>9 DEF Counts
<1>4. QED
  BY <1>1, <1>2, <1>3

\* The counts m are right for the page tables t, and no key has changed its page since.
Stage(m, t, L) ==
    /\ m \in Counts /\ ~m.panic /\ t \in Tables
    /\ \A k \in Key : m.shm[k].physicalAddress = sharedPages[k].physicalAddress
    /\ Accounts(m.map, m.shm, t, due, lost, L)

\* free_page keeps the counts right when it is called for an entry that goes.
LEMMA FreeOne ==
    ASSUME lost \in [Key -> Nat], NEW L \in SUBSET Key, NEW m, NEW t, Stage(m, t, L),
           NEW p \in Proc, NEW v \in Virtual, t[p][v] # NULL,
           NEW u, Changed(t, u, p, v, NULL)
    PROVE  Stage(FreePage(m, t[p][v].page), u, L)
<1>1. PICK g : g = t[p][v].page
  OBVIOUS
<1>2. /\ m \in Counts /\ ~m.panic /\ t \in Tables /\ u \in Tables /\ g \in Page
      /\ Accounts(m.map, m.shm, t, due, lost, L)
  BY <1>1 DEF Stage, Changed, Tables, Entry
<1>3. \A h : UseCount(u, h) = IF h = g THEN UseCount(t, h) - 1 ELSE UseCount(t, h)
  BY <1>1, <1>2, TakenOut
<1>4. UseCount(t, g) \in Nat /\ UseCount(t, g) # 0
  BY <1>1, Counted, UseLemma
<1>5. PICK n : n = FreePage(m, g)
  OBVIOUS
<1>6. \A k \in Key : m.shm[k].count \in Nat /\ DueCount(due, k) \in Nat /\ lost[k] \in Nat
  BY <1>2, DuesCounted DEF Counts, SharedPages
<1>7. CASE \E k \in L : m.shm[k].physicalAddress = g
  <2>1. PICK k \in L : m.shm[k].physicalAddress = g
    BY <1>7
  <2>2. PICK c \in Nat : c = m.shm[k].count
    BY <1>6
  <2>3. /\ UseCount(t, g) + DueCount(due, k) + lost[k] = c
        /\ m.map[g] = IF c > 0 THEN 1 ELSE 0
        /\ \A j \in L : m.shm[j].physicalAddress = g => j = k
    BY <1>2, <2>1, <2>2 DEF Accounts
  <2>4. c > 0 /\ m.map[g] = 1
    <3>1. DueCount(due, k) \in Nat /\ lost[k] \in Nat
      BY <1>6
    <3>2. c > 0
      <4>1. UseCount(t, g) + DueCount(due, k) + lost[k] = c
        BY <2>3
      <4>2. PICK x, y, z : x = UseCount(t, g) /\ y = DueCount(due, k) /\ z = lost[k]
        OBVIOUS
      <4>3. x \in Nat /\ x # 0 /\ y \in Nat /\ z \in Nat /\ x + y + z = c
        BY <1>4, <3>1, <4>1, <4>2
      <4>4. QED
        BY ONLY <4>3
    <3>3. QED
      BY <2>3, <3>2
  <2>5. KeyOf(m.shm, g) = {k}
    <3>1. \A j \in Key : m.shm[j].count > 0 => j \in L
      BY <1>2 DEF Accounts
    <3>2. QED
      BY <2>1, <2>2, <2>3, <2>4, <3>1 DEF KeyOf
  <2>6. PICK x \in Nat : x = IF c > 1 THEN 1 ELSE 0
    OBVIOUS
  <2>7. Recounted(m, n, k, c - 1, g, x)
    <3>1. Recounted(m, n, k, c - 1, g, IF c = 1 THEN m.map[g] - 1 ELSE m.map[g])
      BY <1>2, <1>5, <2>2, <2>4, <2>5, FreeShared
    <3>2. x = IF c = 1 THEN m.map[g] - 1 ELSE m.map[g]
      BY <2>4, <2>6
    <3>3. QED
      BY <3>1, <3>2
  <2>8. /\ n \in Counts /\ n.panic = m.panic /\ n.shm[k].count = c - 1
        /\ \A j \in Key \ {k} : n.shm[j].count = m.shm[j].count
        /\ \A j \in Key : n.shm[j].physicalAddress = m.shm[j].physicalAddress
        /\ \A h \in Page : n.map[h] = IF h = g THEN x ELSE m.map[h]
    BY <2>7 DEF Recounted
  <2>9. ASSUME NEW j \in L
        PROVE  /\ n.shm[j].physicalAddress \in Page
               /\ UseCount(u, n.shm[j].physicalAddress) + DueCount(due, j) + lost[j] = n.shm[j].count
               /\ n.map[n.shm[j].physicalAddress] = IF n.shm[j].count > 0 THEN 1 ELSE 0
    <3>1. CASE j = k
      <4>1. n.shm[j].physicalAddress = g
        BY <2>1, <2>8, <3>1
      <4>2. UseCount(u, g) + DueCount(due, k) + lost[k] = c - 1
        <5>1. UseCount(u, g) = UseCount(t, g) - 1 /\ DueCount(due, k) \in Nat /\ lost[k] \in Nat
          BY <1>3, <1>6
        <5>2. QED
          BY ONLY <1>4, <2>3, <5>1, c \in Nat
      <4>3. n.map[g] = IF c - 1 > 0 THEN 1 ELSE 0
        BY <1>2, <2>6, <2>8
      <4>4. QED
        BY <1>2, <2>8, <3>1, <4>1, <4>2, <4>3
    <3>2. CASE j # k
      <4>1. PICK a \in Page : a = m.shm[j].physicalAddress
        BY <1>2 DEF Accounts
      <4>2. a # g /\ n.shm[j].physicalAddress = a /\ n.shm[j].count = m.shm[j].count
        BY <2>3, <2>8, <3>2, <4>1
      <4>3. UseCount(u, a) = UseCount(t, a) /\ n.map[a] = m.map[a]
        BY <1>3, <2>8, <4>2
      <4>4. /\ UseCount(t, a) + DueCount(due, j) + lost[j] = m.shm[j].count
            /\ m.map[a] = IF m.shm[j].count > 0 THEN 1 ELSE 0
        BY <1>2, <4>1 DEF Accounts
      <4>5. QED
        BY <4>2, <4>3, <4>4
    <3>3. QED
      BY <3>1, <3>2
  <2>10. ASSUME NEW h \in Page, \A j \in L : n.shm[j].physicalAddress # h
         PROVE  Adds(n.map[h], UseCount(u, h))
    <3>1. h # g /\ \A j \in L : m.shm[j].physicalAddress # h
      BY <2>1, <2>8, <2>10
    <3>2. Adds(m.map[h], UseCount(t, h))
      BY <1>2, <3>1 DEF Accounts
    <3>3. QED
      BY <1>3, <2>8, <3>1, <3>2
  <2>11. \A i, j \in L : n.shm[i].physicalAddress = n.shm[j].physicalAddress => i = j
    BY <1>2, <2>8 DEF Accounts
  <2>12. \A j \in Key \ L : n.shm[j].count = 0 /\ DueCount(due, j) = 0 /\ lost[j] = 0
    BY <1>2, <2>8 DEF Accounts
  <2>13. Accounts(n.map, n.shm, u, due, lost, L)
    BY <2>9, <2>10, <2>11, <2>12 DEF Accounts
  <2>14. Stage(n, u, L)
    BY <1>2, <2>8, <2>13 DEF Stage
  <2>15. QED
    BY <1>1, <1>5, <2>14
<1>8. CASE \A k \in L : m.shm[k].physicalAddress # g
  <2>1. Adds(m.map[g], UseCount(t, g)) /\ m.map[g] # 0
    <3>1. Adds(m.map[g], UseCount(t, g))
      BY <1>2, <1>8 DEF Accounts
    <3>2. m.map[g] \in Nat
      BY <1>2 DEF Counts
    <3>3. QED
      BY <1>4, <3>1, <3>2 DEF Adds
  <2>2. KeyOf(m.shm, g) = {}
    <3>1. \A j \in Key : m.shm[j].count > 0 => j \in L
      BY <1>2 DEF Accounts
    <3>2. QED
      BY <1>8, <3>1 DEF KeyOf
  <2>3. /\ n \in Counts /\ n.panic = m.panic /\ n.shm = m.shm
        /\ \A h \in Page : n.map[h] = IF h = g THEN m.map[h] - 1 ELSE m.map[h]
    BY <1>2, <1>4, <1>5, <2>1, <2>2, FreePlain
  <2>4. ASSUME NEW j \in L
        PROVE  /\ m.shm[j].physicalAddress \in Page
               /\ UseCount(u, m.shm[j].physicalAddress) + DueCount(due, j) + lost[j] = m.shm[j].count
               /\ n.map[m.shm[j].physicalAddress] = IF m.shm[j].count > 0 THEN 1 ELSE 0
    <3>1. PICK a \in Page : a = m.shm[j].physicalAddress
      BY <1>2 DEF Accounts
    <3>2. UseCount(u, a) = UseCount(t, a) /\ n.map[a] = m.map[a]
      BY <1>3, <1>8, <2>3, <3>1
    <3>3. /\ UseCount(t, a) + DueCount(due, j) + lost[j] = m.shm[j].count
          /\ m.map[a] = IF m.shm[j].count > 0 THEN 1 ELSE 0
      BY <1>2, <3>1 DEF Accounts
    <3>4. QED
      BY <3>1, <3>2, <3>3
  <2>5. ASSUME NEW h \in Page, \A j \in L : m.shm[j].physicalAddress # h
        PROVE  Adds(n.map[h], UseCount(u, h))
    <3>1. Adds(m.map[h], UseCount(t, h)) /\ m.map[h] \in Int /\ UseCount(t, h) \in Int
      BY <1>2, <2>5, Counted DEF Accounts, Counts
    <3>2. CASE h = g
      <4>1. Adds(m.map[h] + (-1), UseCount(t, h) + (-1))
        BY <3>1, Moved
      <4>2. n.map[h] = m.map[h] + (-1) /\ UseCount(u, h) = UseCount(t, h) + (-1)
        BY <1>3, <2>3, <3>1, <3>2
      <4>3. QED
        BY <4>1, <4>2
    <3>3. CASE h # g
      BY <1>3, <2>3, <3>1, <3>3
    <3>4. QED
      BY <3>2, <3>3
  <2>6. Accounts(n.map, m.shm, u, due, lost, L)
    BY <1>2, <2>4, <2>5 DEF Accounts
  <2>7. Stage(n, u, L)
    BY <1>2, <2>3, <2>6 DEF Stage
  <2>8. QED
    BY <1>1, <1>5, <2>7
<1>9. QED
  BY <1>7, <1>8

----------------------------------------------------------------------------
\* free_page_tables: the loop over the pages.

\* Induction on a set of numbers.
LEMMA Induct ==
    ASSUME NEW T, 0 \in T, \A i \in Nat : i \in T => i + 1 \in T
    PROVE  Nat \subseteq T
<1> SUFFICES ASSUME NEW z \in Nat, z \notin T PROVE FALSE
  OBVIOUS
<1>1. PICK x \in Nat \ T : \A y \in Nat \ T : ~(<<y, x>> \in OpToRel(<, Nat))
  BY NatLessThanWellFounded, WFMin
<1>2. x \in Nat /\ x # 0 /\ x - 1 \in Nat /\ (x - 1) + 1 = x
  <2>1. x \in Nat /\ x # 0
    BY ONLY <1>1, 0 \in T
  <2>2. QED
    BY ONLY <2>1
<1>3. x - 1 \in Nat \ T
  <2>1. x - 1 \in T => (x - 1) + 1 \in T
    BY <1>2
  <2>2. QED
    BY <1>1, <1>2, <2>1
<1>4. <<x - 1, x>> \in OpToRel(<, Nat)
  BY <1>1, <1>2 DEF OpToRel
<1>5. QED
  BY <1>1, <1>3, <1>4

\* f tabulates what the steps F make of d.
Table(f, D, F, d, n) == f \in [0..n -> D] /\ f[0] = d /\ \A i \in 1..n : f[i] = F[i][f[i - 1]]

\* What is repeated n times can be tabulated.
LEMMA Iterates ==
    ASSUME NEW D, NEW F, F \in [Nat -> [D -> D]], NEW d, d \in D, NEW n, n \in Nat
    PROVE  \E f : Table(f, D, F, d, n)
<1> DEFINE T == {k \in Nat : \E f : Table(f, D, F, d, k)}
<1>1. 0 \in T
  <2>1. Table([i \in 0..0 |-> d], D, F, d, 0)
    BY DEF Table
  <2>2. QED
    BY <2>1
<1>2. ASSUME NEW k \in Nat, k \in T PROVE k + 1 \in T
  <2>1. PICK f : Table(f, D, F, d, k)
    BY <1>2
  <2> DEFINE g == [i \in 0..(k + 1) |-> IF i <= k THEN f[i] ELSE F[k + 1][f[k]]]
  <2>2. F[k + 1][f[k]] \in D
    BY <2>1 DEF Table
  <2>3. g \in [0..(k + 1) -> D] /\ g[0] = d
    BY <2>1, <2>2 DEF Table
  <2>4. ASSUME NEW i \in 1..(k + 1) PROVE g[i] = F[i][g[i - 1]]
    <3>1. CASE i <= k
      BY <2>1, <3>1 DEF Table
    <3>2. CASE i = k + 1
      BY <2>1, <3>2 DEF Table
    <3>3. QED
      BY <3>1, <3>2
  <2>5. Table(g, D, F, d, k + 1)
    BY <2>3, <2>4 DEF Table
  <2> HIDE DEF g
  <2>6. QED
    BY <2>5
<1>3. n \in T
  <2> HIDE DEF T
  <2>1. QED
    BY <1>1, <1>2, Induct
<1>4. QED
  BY <1>3

\* The page tables when the pages of p below i are gone.
Gone(p, i) == [q \in Proc |-> [w \in Virtual |-> IF q = p /\ w < i THEN NULL ELSE pg_table[q][w]]]

\* Page i goes.
LEMMA GoneStep ==
    ASSUME pg_table \in Tables, NEW p \in Proc, NEW i \in Virtual
    PROVE  /\ pg_table[p][i] = NULL => Gone(p, i + 1) = Gone(p, i)
           /\ Gone(p, i)[p][i] = pg_table[p][i]
           /\ Changed(Gone(p, i), Gone(p, i + 1), p, i, NULL)
<1>1. /\ \A w \in Virtual : w \in Int /\ (w < i + 1 <=> w < i \/ w = i)
      /\ i \in Int /\ ~(i < i)
  BY DEF Virtual
<1>2. Gone(p, i + 1) \in Tables
  BY DEF Gone, Tables
<1>3. ASSUME NEW q \in Proc, NEW w \in Virtual
      PROVE  /\ Gone(p, i)[q][w] = IF q = p /\ w < i THEN NULL ELSE pg_table[q][w]
             /\ Gone(p, i + 1)[q][w] = IF q = p /\ (w < i \/ w = i) THEN NULL ELSE pg_table[q][w]
  BY <1>1 DEF Gone
<1>4. Changed(Gone(p, i), Gone(p, i + 1), p, i, NULL)
  BY <1>2, <1>3 DEF Changed
<1>5. ASSUME pg_table[p][i] = NULL PROVE Gone(p, i + 1) = Gone(p, i)
  <2>1. ASSUME NEW q \in Proc, NEW w \in Virtual
        PROVE  (IF q = p /\ w < i + 1 THEN NULL ELSE pg_table[q][w])
                  = (IF q = p /\ w < i THEN NULL ELSE pg_table[q][w])
    BY <1>1, <1>5
  <2>2. QED
    BY <2>1 DEF Gone
<1>6. Gone(p, i)[p][i] = pg_table[p][i]
  BY <1>1, <1>3
<1>7. QED
  BY <1>4, <1>5, <1>6

\* The counts that free_page_tables leaves are right for the tables without p's.
LEMMA FreedStage ==
    ASSUME MemInv, NEW p \in Proc
    PROVE  Stage(Freed(p), Gone(p, NrVirtual), LiveKeys(sharedPages))
<1>1. PICK L : L = LiveKeys(sharedPages)
  OBVIOUS
<1>2. PICK n \in Nat : n = NrVirtual
  BY MemoryAssumption
<1>3. PICK d : d = [map |-> mem_map, shm |-> sharedPages, panic |-> panicked]
  OBVIOUS
<1>4. /\ d \in Counts /\ d.map = mem_map /\ d.shm = sharedPages /\ ~d.panic
      /\ pg_table \in Tables /\ L \in SUBSET Key /\ lost \in [Key -> Nat]
  <2>1. panicked = FALSE
    BY DEF MemInv, MemTypes
  <2>2. d \in Counts /\ d.map = mem_map /\ d.shm = sharedPages /\ ~d.panic
    BY <1>3, <2>1 DEF MemInv, MemTypes, MemoryTypeOK, Counts, SharedPages
  <2>3. QED
    BY <1>1, <2>2 DEF MemInv, MemTypes, MemoryTypeOK, Tables, LiveKeys
<1>5. \A i \in 1..n : /\ i - 1 \in Virtual
                      /\ pg_table[p][i - 1] # NULL => pg_table[p][i - 1].page \in Page
  <2>1. \A i \in 1..n : i - 1 \in Virtual
    BY <1>2 DEF Virtual
  <2>2. QED
    BY <2>1, EntryType
<1> DEFINE one(i, m) == IF pg_table[p][i - 1] = NULL THEN m
                        ELSE FreePage(m, pg_table[p][i - 1].page)
           F == [i \in Nat |-> [m \in Counts |-> IF i \in 1..n THEN one(i, m) ELSE m]]
           Runs(f) == f = [i \in 0..n |-> IF i = 0 THEN d ELSE IF pg_table[p][i - 1] = NULL THEN f[i - 1]
                                          ELSE FreePage(f[i - 1], pg_table[p][i - 1].page)]
           after == CHOOSE f : Runs(f)
<1>6. \E f : Runs(f)
  <2>1. ASSUME NEW i \in 1..n, NEW m \in Counts PROVE one(i, m) \in Counts
    BY <1>5, FreePageType
  <2>2. F \in [Nat -> [Counts -> Counts]]
    <3> HIDE DEF one
    <3>1. QED
      BY <2>1
  <2>3. \A i \in 1..n, m \in Counts : F[i][m] = one(i, m)
    <3> HIDE DEF one
    <3>1. \A i \in 1..n : i \in Nat
      OBVIOUS
    <3>2. QED
      BY <3>1
  <2> HIDE DEF F
  <2>4. PICK f : Table(f, Counts, F, d, n)
    BY <1>4, <2>2, Iterates
  <2>5. /\ f[0] = d /\ f = [i \in 0..n |-> f[i]]
        /\ \A i \in 1..n : f[i - 1] \in Counts /\ f[i] = F[i][f[i - 1]]
    BY <2>4 DEF Table
  <2>6. \A i \in 1..n : f[i] = one(i, f[i - 1])
    <3> HIDE DEF one
    <3>1. QED
      BY <2>3, <2>5
  <2>7. ASSUME NEW i \in 0..n
        PROVE  f[i] = IF i = 0 THEN d ELSE IF pg_table[p][i - 1] = NULL THEN f[i - 1]
                      ELSE FreePage(f[i - 1], pg_table[p][i - 1].page)
    <3>1. CASE i = 0
      BY <2>5, <3>1
    <3>2. CASE i # 0
      <4>1. i \in 1..n
        BY <3>2
      <4>2. QED
        BY <2>6, <3>2, <4>1
    <3>3. QED
      BY <3>1, <3>2
  <2>8. f = [i \in 0..n |-> f[i]]
    BY <2>5
  <2>9. [i \in 0..n |-> f[i]]
           = [i \in 0..n |-> IF i = 0 THEN d ELSE IF pg_table[p][i - 1] = NULL THEN f[i - 1]
                             ELSE FreePage(f[i - 1], pg_table[p][i - 1].page)]
    BY ONLY <2>7
  <2>10. QED
    BY <2>8, <2>9
<1>7. Runs(after)
  BY <1>6
<1>8. Freed(p) = after[n]
  BY <1>2, <1>3 DEF Freed
<1> HIDE DEF after
<1>9. /\ after[0] = d
      /\ \A i \in Nat : i + 1 <= n => after[i + 1] = one(i + 1, after[i])
  <2>1. after[0] = d
    BY <1>7
  <2>2. ASSUME NEW i \in Nat, i + 1 <= n PROVE after[i + 1] = one(i + 1, after[i])
    <3>1. i + 1 \in 0..n /\ i + 1 # 0 /\ (i + 1) - 1 = i
      BY <2>2
    <3>2. QED
      BY <1>7, <3>1
  <2>3. QED
    BY <2>1, <2>2
<1> HIDE DEF Runs
<1> DEFINE T == {i \in Nat : i <= n => Stage(after[i], Gone(p, i), L)}
<1>10. 0 \in T
  <2>1. Gone(p, 0) = pg_table
    <3>1. \A w \in Virtual : ~(w < 0)
      BY DEF Virtual
    <3>2. \A q \in Proc, w \in Virtual : Gone(p, 0)[q][w] = pg_table[q][w]
      BY <3>1 DEF Gone
    <3>3. Gone(p, 0) \in Tables
      BY <1>4 DEF Gone, Tables
    <3>4. QED
      BY <1>4, <3>2, <3>3 DEF Tables
  <2>2. Stage(d, pg_table, L)
    BY <1>1, <1>4 DEF Stage, MemInv
  <2>3. QED
    BY <1>9, <2>1, <2>2
<1>11. ASSUME NEW i \in Nat, i \in T PROVE i + 1 \in T
  <2>1. CASE i + 1 <= n
    <3>1. Stage(after[i], Gone(p, i), L) /\ i \in Virtual /\ (i + 1) - 1 = i
      BY <1>2, <1>11, <2>1 DEF Virtual
    <3>2. /\ pg_table[p][i] = NULL => Gone(p, i + 1) = Gone(p, i)
          /\ Gone(p, i)[p][i] = pg_table[p][i]
          /\ Changed(Gone(p, i), Gone(p, i + 1), p, i, NULL)
      BY <1>4, <3>1, GoneStep
    <3>3. CASE pg_table[p][i] = NULL
      <4>1. after[i + 1] = after[i]
        BY <1>9, <2>1, <3>1, <3>3
      <4>2. QED
        BY <3>1, <3>2, <3>3, <4>1
    <3>4. CASE pg_table[p][i] # NULL
      <4>1. after[i + 1] = FreePage(after[i], pg_table[p][i].page)
        BY <1>9, <2>1, <3>1, <3>4
      <4>2. Stage(FreePage(after[i], Gone(p, i)[p][i].page), Gone(p, i + 1), L)
        BY <1>4, <3>1, <3>2, <3>4, FreeOne
      <4>3. QED
        BY <3>2, <4>1, <4>2
    <3>5. QED
      BY <3>3, <3>4
  <2>2. CASE ~(i + 1 <= n)
    BY <2>2
  <2>3. QED
    BY <2>1, <2>2
<1>12. n \in T
  <2> HIDE DEF T
  <2>1. QED
    BY <1>10, <1>11, Induct
<1>13. QED
  BY <1>1, <1>2, <1>8, <1>12

\* The calls of shmget that p never settles.
LEMMA DropDues ==
    ASSUME NEW d \in [Proc -> SUBSET Key], NEW p \in Proc, NEW k \in Key
    PROVE  DueCount([d EXCEPT ![p] = {}], k)
              = IF k \in d[p] THEN DueCount(d, k) - 1 ELSE DueCount(d, k)
<1>1. IsFiniteSet(Dues(d, k))
  BY DuesCounted
<1> DEFINE c == [d EXCEPT ![p] = {}]
<1>2. Dues(c, k) = Dues(d, k) \ {p}
  BY DEF Dues
<1> HIDE DEF c
<1>3. ASSUME k \in d[p] PROVE DueCount(c, k) = DueCount(d, k) - 1
  <2>1. p \in Dues(d, k)
    BY <1>3 DEF Dues
  <2>2. Cardinality(Dues(d, k) \ {p}) = Cardinality(Dues(d, k)) - 1
    BY <1>1, <2>1, FS_RemoveElement
  <2>3. QED
    BY <1>2, <1>3, <2>2 DEF DueCount
<1>4. ASSUME k \notin d[p] PROVE DueCount(c, k) = DueCount(d, k)
  <2>1. Dues(c, k) = Dues(d, k)
    BY <1>2, <1>4 DEF Dues
  <2>2. QED
    BY <1>4, <2>1 DEF DueCount
<1>5. DueCount(c, k) = IF k \in d[p] THEN DueCount(d, k) - 1 ELSE DueCount(d, k)
  BY <1>3, <1>4
<1>6. QED
  BY <1>5 DEF c

\* A key that has lost its last user is out of the accounts.
LEMMA Shrunk ==
    ASSUME NEW m, NEW s \in SharedPages, NEW t, NEW d, NEW l \in [Key -> Nat],
           NEW L \in SUBSET Key, Accounts(m, s, t, d, l, L)
    PROVE  /\ Accounts(m, s, t, d, l, LiveKeys(s)) /\ LiveKeys(s) \subseteq L
           /\ \A k \in L : UseCount(t, s[k].physicalAddress) # 0 => s[k].count > 0
<1>1. \A k \in Key : s[k].count \in Nat
  BY DEF SharedPages
<1>2. LiveKeys(s) \subseteq L
  BY DEF LiveKeys, Accounts
<1>3. ASSUME NEW k \in L, ~(s[k].count > 0)
      PROVE  /\ UseCount(t, s[k].physicalAddress) = 0 /\ DueCount(d, k) = 0 /\ l[k] = 0
             /\ s[k].count = 0 /\ m[s[k].physicalAddress] = 0
  <2>1. /\ UseCount(t, s[k].physicalAddress) + DueCount(d, k) + l[k] = s[k].count
        /\ m[s[k].physicalAddress] = 0
    BY <1>3 DEF Accounts
  <2>2. PICK x, y, z : x = UseCount(t, s[k].physicalAddress) /\ y = DueCount(d, k) /\ z = l[k]
    OBVIOUS
  <2>3. s[k].count = 0
    BY <1>1, <1>3
  <2>4. x \in Nat /\ y \in Nat /\ z \in Nat /\ x + y + z = 0
    BY <2>1, <2>2, <2>3, Counted, DuesCounted
  <2>5. x = 0 /\ y = 0 /\ z = 0
    BY ONLY <2>4
  <2>6. QED
    BY <2>1, <2>2, <2>3, <2>5
<1>4. ASSUME NEW g \in Page, \A k \in LiveKeys(s) : s[k].physicalAddress # g
      PROVE  Adds(m[g], UseCount(t, g))
  <2>1. CASE \E k \in L : s[k].physicalAddress = g
    <3>1. PICK k \in L : s[k].physicalAddress = g
      BY <2>1
    <3>2. ~(s[k].count > 0)
      BY <1>4, <3>1 DEF LiveKeys
    <3>3. UseCount(t, g) = 0 /\ m[g] = 0
      BY <1>3, <3>1, <3>2
    <3>4. QED
      BY <3>3, Single
  <2>2. CASE \A k \in L : s[k].physicalAddress # g
    BY <2>2 DEF Accounts
  <2>3. QED
    BY <2>1, <2>2
<1>5. ASSUME NEW k \in Key \ LiveKeys(s) PROVE s[k].count = 0 /\ DueCount(d, k) = 0 /\ l[k] = 0
  <2>1. ~(s[k].count > 0)
    BY DEF LiveKeys
  <2>2. CASE k \in L
    BY <1>3, <2>1, <2>2
  <2>3. CASE k \notin L
    BY <2>3 DEF Accounts
  <2>4. QED
    BY <2>2, <2>3
<1>6. Accounts(m, s, t, d, l, LiveKeys(s))
  BY <1>2, <1>4, <1>5 DEF Accounts
<1>7. QED
  BY <1>2, <1>3, <1>6

\* A process that is gone has its brk at zero.
LEMMA NothingFits == BrkFits(0, NULL)
<1>1. 0 \in Nat /\ 0 * PAGE_SIZE = 0 /\ PAGE_SIZE \in Nat \ {0} /\ NULL # 0
  BY MemoryAssumption
<1>2. On(0, 0)
  BY <1>1 DEF On
<1>3. QED
  BY <1>1, <1>2 DEF BrkFits

\* A program starts with its brk behind the pages of its file.
LEMMA ProgramFits ==
    ASSUME FileBelowBrk, NEW e \in Executables
    PROVE  BrkFits(e.brk, e)
<1>1. /\ PAGE_SIZE \in Nat \ {0} /\ e.brk \in Nat /\ e.brk # NULL
      /\ e.end_data <= (e.brk \div PAGE_SIZE) * PAGE_SIZE
  BY MemoryAssumption DEF FileBelowBrk
<1>2. PICK n : n = e.brk \div PAGE_SIZE
  OBVIOUS
<1>3. /\ n \in Nat /\ n * PAGE_SIZE <= e.brk /\ e.brk < n * PAGE_SIZE + PAGE_SIZE
      /\ e.brk % PAGE_SIZE = 0 => e.brk = n * PAGE_SIZE
  BY <1>1, <1>2, PageFound
<1>4. On(e.brk, n)
  BY <1>1, <1>3 DEF On
<1>5. Aligned => e.brk = n * PAGE_SIZE
  BY <1>3 DEF Aligned
<1>6. QED
  BY <1>1, <1>2, <1>3, <1>4, <1>5 DEF BrkFits

\* What exit and exec have in common: p's pages go, and p starts again or not at all.
LEMMA FreeTablesStep ==
    ASSUME MemInv, NEW p \in Proc, FreePageTables(p),
           alive' \subseteq Proc, alive \subseteq alive' \cup {p},
           executable' \in [Proc -> Executables \cup {NULL}], brk' \in [Proc -> Nat],
           \A q \in Proc \ {p} : executable'[q] = executable[q] /\ brk'[q] = brk[q],
           BrkFits(brk'[p], executable'[p])
    PROVE  MemInv'
<1>1. PICK m, t, L : m = Freed(p) /\ t = Gone(p, NrVirtual) /\ L = LiveKeys(sharedPages)
  OBVIOUS
<1>2. /\ mem_map' = m.map /\ sharedPages' = m.shm /\ panicked' = m.panic
      /\ pg_table' = [pg_table EXCEPT ![p] = [v \in Virtual |-> NULL]]
      /\ due' = [due EXCEPT ![p] = {}]
      /\ lost' = [k \in Key |-> IF k \in due[p] THEN lost[k] + 1 ELSE lost[k]]
      /\ attached' = [attached EXCEPT ![p] = [k \in Key |-> NULL]]
  BY <1>1 DEF FreePageTables
<1>3. /\ pg_table \in Tables /\ due \in [Proc -> SUBSET Key] /\ lost \in [Key -> Nat]
      /\ attached \in [Proc -> [Key -> Nat \cup {NULL}]] /\ L \in SUBSET Key
  BY <1>1 DEF MemInv, MemTypes, MemoryTypeOK, Tables, LiveKeys
<1>4. /\ \A q \in Proc, w \in Virtual : t[q][w] = IF q = p THEN NULL ELSE pg_table[q][w]
      /\ t \in Tables /\ pg_table' = t
  <2>1. \A w \in Virtual : w < NrVirtual
    BY MemoryAssumption DEF Virtual
  <2>2. \A q \in Proc, w \in Virtual : t[q][w] = IF q = p THEN NULL ELSE pg_table[q][w]
    BY <1>1, <2>1 DEF Gone
  <2>3. t \in Tables
    BY <1>1, <1>3 DEF Gone, Tables
  <2>4. /\ pg_table' \in Tables
        /\ \A q \in Proc, w \in Virtual : pg_table'[q][w] = IF q = p THEN NULL ELSE pg_table[q][w]
    BY <1>2, <1>3 DEF Tables
  <2>5. QED
    BY <2>2, <2>3, <2>4 DEF Tables
<1>5. Stage(m, t, L)
  BY <1>1, FreedStage
<1>6. /\ m \in Counts /\ ~m.panic /\ Accounts(m.map, m.shm, t, due, lost, L)
      /\ \A k \in Key : m.shm[k].physicalAddress = sharedPages[k].physicalAddress
  BY <1>5 DEF Stage
<1>7. /\ due' \in [Proc -> SUBSET Key] /\ lost' \in [Key -> Nat]
      /\ attached' \in [Proc -> [Key -> Nat \cup {NULL}]]
      /\ \A k \in Key : attached'[p][k] = NULL
      /\ \A q \in Proc \ {p}, k \in Key : attached'[q][k] = attached[q][k]
  BY <1>2, <1>3
<1>8. m.map \in [Page -> Nat] /\ m.shm \in SharedPages
  BY <1>6 DEF Counts
<1>9. MemTypes'
  BY <1>2, <1>4, <1>6, <1>7, <1>8 DEF MemTypes, MemoryTypeOK, Tables, SharedPages
<1>10. Accounts(m.map, m.shm, t, due', lost', L)
  <2>1. ASSUME NEW k \in Key
        PROVE  /\ DueCount(due', k) + lost'[k] = DueCount(due, k) + lost[k]
               /\ DueCount(due', k) \in Nat /\ DueCount(due, k) \in Nat
               /\ lost'[k] \in Nat /\ lost[k] \in Nat
    <3>1. /\ DueCount(due', k) = IF k \in due[p] THEN DueCount(due, k) - 1 ELSE DueCount(due, k)
          /\ lost'[k] = IF k \in due[p] THEN lost[k] + 1 ELSE lost[k]
      <4>1. due' = [due EXCEPT ![p] = {}] /\ due \in [Proc -> SUBSET Key]
        BY <1>2, <1>3
      <4>2. DueCount([due EXCEPT ![p] = {}], k)
               = IF k \in due[p] THEN DueCount(due, k) - 1 ELSE DueCount(due, k)
        BY <4>1, DropDues, Zenon
      <4>3. DueCount(due', k) = IF k \in due[p] THEN DueCount(due, k) - 1 ELSE DueCount(due, k)
        BY <4>1, <4>2, Zenon
      <4>4. lost'[k] = IF k \in due[p] THEN lost[k] + 1 ELSE lost[k]
        BY <1>2
      <4>5. QED
        BY <4>3, <4>4
    <3>2. DueCount(due', k) \in Nat /\ DueCount(due, k) \in Nat /\ lost'[k] \in Nat /\ lost[k] \in Nat
      BY <1>3, <1>7, DuesCounted
    <3>3. QED
      BY <3>1, <3>2
  <2>2. ASSUME NEW k \in L
        PROVE  UseCount(t, m.shm[k].physicalAddress) + DueCount(due', k) + lost'[k] = m.shm[k].count
    <3>1. PICK x, y, z, yy, zz : /\ x = UseCount(t, m.shm[k].physicalAddress)
                                 /\ y = DueCount(due, k) /\ z = lost[k]
                                 /\ yy = DueCount(due', k) /\ zz = lost'[k]
      OBVIOUS
    <3>2. x + y + z = m.shm[k].count
      BY <1>6, <3>1 DEF Accounts
    <3>3. yy + zz = y + z /\ x \in Nat /\ y \in Nat /\ z \in Nat /\ yy \in Nat /\ zz \in Nat
      <4>1. k \in Key
        BY <1>3
      <4>2. yy + zz = y + z /\ y \in Nat /\ z \in Nat /\ yy \in Nat /\ zz \in Nat
        BY <2>1, <3>1, <4>1
      <4>3. x \in Nat
        BY <3>1, Counted
      <4>4. QED
        BY <4>2, <4>3
    <3>4. x + yy + zz = x + y + z
      BY ONLY <3>3
    <3>5. QED
      BY <3>1, <3>2, <3>4
  <2>3. ASSUME NEW k \in Key \ L PROVE m.shm[k].count = 0 /\ DueCount(due', k) = 0 /\ lost'[k] = 0
    <3>1. m.shm[k].count = 0 /\ DueCount(due, k) = 0 /\ lost[k] = 0
      BY <1>6 DEF Accounts
    <3>2. PICK y, z : y = DueCount(due', k) /\ z = lost'[k]
      OBVIOUS
    <3>3. y + z = 0 /\ y \in Nat /\ z \in Nat
      BY <2>1, <3>1, <3>2
    <3>4. QED
      BY <3>1, <3>2, <3>3
  <2>4. QED
    BY <1>6, <2>2, <2>3 DEF Accounts
<1>11. /\ Accounts(m.map, m.shm, t, due', lost', LiveKeys(m.shm)) /\ LiveKeys(m.shm) \subseteq L
       /\ \A k \in L : UseCount(t, m.shm[k].physicalAddress) # 0 => m.shm[k].count > 0
  <2>1. PICK c, s, d, l : c = m.map /\ s = m.shm /\ d = due' /\ l = lost'
    OBVIOUS
  <2>2. /\ s \in SharedPages /\ l \in [Key -> Nat] /\ L \in SUBSET Key
        /\ Accounts(c, s, t, d, l, L)
    BY <1>3, <1>7, <1>8, <1>10, <2>1
  <2>3. /\ Accounts(c, s, t, d, l, LiveKeys(s)) /\ LiveKeys(s) \subseteq L
        /\ \A k \in L : UseCount(t, s[k].physicalAddress) # 0 => s[k].count > 0
    BY <2>2, Shrunk, Zenon
  <2>4. QED
    BY <2>1, <2>3
<1>12. ASSUME NEW q \in Proc, NEW w \in Virtual, NEW k \in Key, t[q][w] # NULL,
              t[q][w].page = sharedPages[k].physicalAddress
       PROVE  sharedPages'[k].count > 0 <=> sharedPages[k].count > 0
  <2>1. UseCount(t, m.shm[k].physicalAddress) # 0
    <3>1. PICK g : g = t[q][w].page
      OBVIOUS
    <3>2. UseCount(t, g) # 0
      BY <1>12, <3>1, UseLemma
    <3>3. m.shm[k].physicalAddress = g
      BY <1>6, <1>12, <3>1
    <3>4. QED
      BY <3>2, <3>3
  <2>2. sharedPages[k].count > 0 <=> k \in L
    BY <1>1 DEF LiveKeys
  <2>3. m.shm[k].count > 0 <=> k \in L
    BY <1>11, <2>1 DEF LiveKeys
  <2>4. QED
    BY <1>2, <2>2, <2>3
<1>13. Layout'
  <2>1. SUFFICES ASSUME NEW q \in Proc
        PROVE  /\ q \notin alive' => \A w \in Virtual : pg_table'[q][w] = NULL
               /\ BrkFits(brk'[q], executable'[q])
               /\ \A w \in Virtual : pg_table'[q][w] # NULL => w * PAGE_SIZE < brk'[q]
    BY DEF Layout
  <2>2. CASE q = p
    BY <1>4, <2>2
  <2>3. CASE q # p
    BY <1>4, <2>3 DEF MemInv, Layout
  <2>4. QED
    BY <2>2, <2>3
<1>14. Attachments'
  <2>1. ASSUME NEW q \in Proc, NEW k \in Key, attached'[q][k] # NULL
        PROVE  \E w \in Virtual : HasAt(q, k, w)'
    <3>1. q # p /\ attached'[q][k] = attached[q][k]
      BY <1>7, <2>1
    <3>2. PICK w \in Virtual : HasAt(q, k, w)
      BY <2>1, <3>1 DEF MemInv, Attachments
    <3>3. pg_table'[q][w] = pg_table[q][w] /\ executable'[q] = executable[q]
      BY <1>4, <3>1
    <3>4. /\ sharedPages'[k].physicalAddress = sharedPages[k].physicalAddress
          /\ sharedPages'[k].count > 0
      <4>1. /\ t[q][w] # NULL /\ t[q][w].page = sharedPages[k].physicalAddress
            /\ sharedPages[k].count > 0
        BY <1>4, <3>2, <3>3 DEF HasAt
      <4>2. sharedPages'[k].count > 0
        BY <1>12, <4>1
      <4>3. QED
        BY <1>2, <1>6, <4>2
    <3>5. HasAt(q, k, w)'
      BY <3>1, <3>2, <3>3, <3>4 DEF HasAt
    <3>6. QED
      BY <3>5
  <2>2. ASSUME NEW q \in Proc, NEW w \in Virtual, NEW k \in Key, pg_table'[q][w] # NULL,
               sharedPages'[k].count > 0, pg_table'[q][w].page = sharedPages'[k].physicalAddress
        PROVE  On(attached'[q][k], w)
    <3>1. q # p /\ pg_table'[q][w] = pg_table[q][w]
      BY <1>4, <2>2
    <3>2. sharedPages'[k].physicalAddress = sharedPages[k].physicalAddress
      BY <1>2, <1>6
    <3>3. sharedPages[k].count > 0
      BY <1>4, <1>12, <2>2, <3>2
    <3>4. On(attached[q][k], w)
      BY <2>2, <3>1, <3>2, <3>3 DEF MemInv, Attachments
    <3>5. QED
      BY <1>7, <3>1, <3>4
  <2>3. QED
    BY <2>1, <2>2 DEF Attachments
<1>15. Protected'
  <2>1. SUFFICES ASSUME NEW q \in Proc, NEW r \in Proc, NEW x \in Virtual, NEW y \in Virtual,
                        pg_table'[q][x] # NULL, pg_table'[r][y] # NULL,
                        pg_table'[q][x].page = pg_table'[r][y].page,
                        pg_table'[q][x].writable,
                        \A k \in Key : ~(/\ sharedPages'[k].count > 0
                                         /\ sharedPages'[k].physicalAddress = pg_table'[q][x].page)
                 PROVE  q = r /\ x = y
    BY DEF Protected, Keyed
  <2>2. pg_table'[q][x] = pg_table[q][x] /\ pg_table'[r][y] = pg_table[r][y]
    BY <1>4, <2>1
  <2>3. ASSUME NEW k \in Key, sharedPages[k].count > 0,
               sharedPages[k].physicalAddress = pg_table[q][x].page
        PROVE  FALSE
    <3>1. sharedPages'[k].count > 0
      BY <1>4, <1>12, <2>1, <2>2, <2>3
    <3>2. sharedPages'[k].physicalAddress = sharedPages[k].physicalAddress
      BY <1>2, <1>6
    <3>3. QED
      BY <2>1, <2>2, <2>3, <3>1, <3>2
  <2>4. ~Keyed(pg_table[q][x].page)
    BY <2>3 DEF Keyed
  <2>5. QED
    BY <2>1, <2>2, <2>4 DEF MemInv, Protected
<1>16. QED
  BY <1>2, <1>4, <1>9, <1>11, <1>13, <1>14, <1>15 DEF MemInv

\* do_exit.
LEMMA ExitStep ==
    ASSUME MemInv, NEW p \in Proc, Exit(p)
    PROVE  MemInv'
<1>1. /\ FreePageTables(p) /\ alive' = alive \ {p}
      /\ executable' = [executable EXCEPT ![p] = NULL] /\ brk' = [brk EXCEPT ![p] = 0]
  BY DEF Exit
<1>2. alive \subseteq Proc /\ executable \in [Proc -> Executables \cup {NULL}] /\ brk \in [Proc -> Nat]
  BY DEF MemInv, MemTypes, MemoryTypeOK
<1>3. /\ alive' \subseteq Proc /\ alive \subseteq alive' \cup {p}
      /\ executable' \in [Proc -> Executables \cup {NULL}] /\ executable'[p] = NULL
      /\ brk' \in [Proc -> Nat] /\ brk'[p] = 0
      /\ \A q \in Proc \ {p} : executable'[q] = executable[q] /\ brk'[q] = brk[q]
  BY <1>1, <1>2
<1>4. BrkFits(brk'[p], executable'[p])
  BY <1>3, NothingFits
<1>5. QED
  BY <1>1, <1>3, <1>4, FreeTablesStep

\* do_execve.
LEMMA ExecStep ==
    ASSUME FileBelowBrk, MemInv, NEW p \in Proc, Exec(p)
    PROVE  MemInv'
<1>1. PICK e \in Executables :
         /\ FreePageTables(p) /\ alive' = alive
         /\ executable' = [executable EXCEPT ![p] = e] /\ brk' = [brk EXCEPT ![p] = e.brk]
  BY DEF Exec
<1>2. /\ alive \subseteq Proc /\ executable \in [Proc -> Executables \cup {NULL}] /\ brk \in [Proc -> Nat]
      /\ e.brk \in Nat /\ e.end_data <= e.brk
  BY MemoryAssumption DEF MemInv, MemTypes, MemoryTypeOK
<1>3. /\ alive' \subseteq Proc /\ alive \subseteq alive' \cup {p}
      /\ executable' \in [Proc -> Executables \cup {NULL}] /\ executable'[p] = e
      /\ brk' \in [Proc -> Nat] /\ brk'[p] = e.brk
      /\ \A q \in Proc \ {p} : executable'[q] = executable[q] /\ brk'[q] = brk[q]
  BY <1>1, <1>2
<1>4. BrkFits(brk'[p], executable'[p])
  BY <1>3, ProgramFits
<1>5. QED
  BY <1>1, <1>3, <1>4, FreeTablesStep

----------------------------------------------------------------------------
\* The specification.

\* Initially nothing is mapped.
LEMMA MemInvInit == FileBelowBrk /\ MemoryInit => MemInv
<1>1. SUFFICES ASSUME FileBelowBrk, MemoryInit PROVE MemInv
  OBVIOUS
<1>2. PICK e \in Executables :
         /\ executable = [p \in Proc |-> IF p = Init0 THEN e ELSE NULL]
         /\ brk = [p \in Proc |-> IF p = Init0 THEN e.brk ELSE 0]
  BY <1>1 DEF MemoryInit
<1>3. /\ mem_map = [g \in Page |-> 0]
      /\ sharedPages = [k \in Key |-> [count |-> 0, physicalAddress |-> NULL]]
      /\ pg_table = [p \in Proc |-> [v \in Virtual |-> NULL]]
      /\ alive = {Init0} /\ panicked = FALSE
      /\ due = [p \in Proc |-> {}] /\ lost = [k \in Key |-> 0]
      /\ attached = [p \in Proc |-> [k \in Key |-> NULL]]
  BY <1>1 DEF MemoryInit
<1>4. e.brk \in Nat /\ e.end_data <= e.brk /\ Init0 \in Proc /\ PAGE_SIZE \in Nat
  BY MemoryAssumption
<1>5. MemTypes
  <2>1. mem_map \in [Page -> Nat] /\ pg_table \in [Proc -> [Virtual -> Entry \cup {NULL}]]
    BY <1>3
  <2>2. sharedPages \in [Key -> [count : Nat, physicalAddress : Page \cup {NULL}]]
    BY <1>3
  <2>3. executable \in [Proc -> Executables \cup {NULL}] /\ brk \in [Proc -> Nat] /\ alive \subseteq Proc
    BY <1>2, <1>3, <1>4
  <2>4. QED
    BY <1>3, <2>1, <2>2, <2>3 DEF MemTypes, MemoryTypeOK
<1>6. \A g : UseCount(pg_table, g) = 0
  <2>1. \A g : Uses(pg_table, g) = {}
    BY <1>3 DEF Uses
  <2>2. QED
    BY <2>1, FS_EmptySet DEF UseCount
<1>7. \A k \in Key : DueCount(due, k) = 0 /\ sharedPages[k].count = 0
  <2>1. \A k \in Key : Dues(due, k) = {}
    BY <1>3 DEF Dues
  <2>2. QED
    BY <1>3, <2>1, FS_EmptySet DEF DueCount
<1>8. Accounts(mem_map, sharedPages, pg_table, due, lost, LiveKeys(sharedPages))
  <2>1. LiveKeys(sharedPages) = {}
    BY <1>7 DEF LiveKeys
  <2>2. QED
    BY <1>3, <1>6, <1>7, <2>1, Single DEF Accounts
<1>9. Layout
  <2>1. \A p \in Proc, v \in Virtual : pg_table[p][v] = NULL
    BY <1>3
  <2>2. ASSUME NEW p \in Proc PROVE BrkFits(brk[p], executable[p])
    <3>1. CASE p = Init0
      BY <1>1, <1>2, <3>1, ProgramFits
    <3>2. CASE p # Init0
      BY <1>2, <3>2, NothingFits
    <3>3. QED
      BY <3>1, <3>2
  <2>3. QED
    BY <2>1, <2>2 DEF Layout
<1>10. Attachments /\ Protected
  <2>1. \A p \in Proc, v \in Virtual, k \in Key : pg_table[p][v] = NULL /\ attached[p][k] = NULL
    BY <1>3
  <2>2. \A p \in Proc, v \in Virtual : pg_table[p][v] = NULL
    BY <1>3
  <2>3. \A p \in Proc, k \in Key : attached[p][k] = NULL
    BY <1>3
  <2>4. QED
    BY <2>2, <2>3 DEF Attachments, Protected
<1>11. QED
  BY <1>5, <1>8, <1>9, <1>10 DEF MemInv

\* Every step of a careful program keeps the invariant.
LEMMA MemInvStep == Careful /\ FileBelowBrk /\ MemInv /\ [MemoryNext]_vars => MemInv'
<1>1. SUFFICES ASSUME Careful, FileBelowBrk, MemInv, [MemoryNext]_vars PROVE MemInv'
  OBVIOUS
<1>2. CASE UNCHANGED vars
  BY <1>1, <1>2 DEF vars, MemInv, MemTypes, MemoryTypeOK, Layout, Attachments, HasAt, Protected, Keyed
<1>3. ASSUME NEW p \in Proc, NEW k \in Key, ShmgetExisting(p, k) \/ ShmgetNew(p, k) \/ Shmat(p, k)
      PROVE  MemInv'
  BY <1>1, <1>3, ShmgetExistingStep, ShmgetNewStep, ShmatStep
<1>4. ASSUME NEW p \in Proc, NEW v \in Virtual,
             NoPage(p, v) \/ Write(p, v) \/ WriteLast(p, v) \/ WriteCopy(p, v)
      PROVE  MemInv'
  BY <1>1, <1>4, NoPageStep, WriteStep, WriteLastStep, WriteCopyStep
<1>5. ASSUME NEW p \in Proc, NEW v \in Virtual, NEW q \in Proc, SharePage(p, v, q) PROVE MemInv'
  BY <1>1, <1>5, SharePageStep
<1>6. ASSUME NEW p \in Proc, NEW q \in Proc, Fork(p, q) PROVE MemInv'
  BY <1>1, <1>6, ForkStep
<1>7. ASSUME NEW p \in Proc, Exit(p) \/ Exec(p) PROVE MemInv'
  BY <1>1, <1>7, ExitStep, ExecStep
<1>8. QED
  BY <1>1, <1>2, <1>3, <1>4, <1>5, <1>6, <1>7 DEF MemoryNext

\* MemInv holds of every reachable state.
LEMMA MemInvCorrect == Careful /\ FileBelowBrk => (MemorySpec => []MemInv)
<1>1. SUFFICES ASSUME Careful, FileBelowBrk PROVE MemorySpec => []MemInv
  OBVIOUS
<1>2. MemoryInit => MemInv
  BY <1>1, MemInvInit
<1>3. MemInv /\ [MemoryNext]_vars => MemInv'
  BY <1>1, MemInvStep
<1>4. QED
  BY <1>2, <1>3, PTL DEF MemorySpec

\* MappedIsNotFree: no frame that is in a page table, shared or not, is on the free list.
THEOREM PagesNotFreed == Careful /\ FileBelowBrk => (MemorySpec => []MappedIsNotFree)
<1>1. MemInv => MappedIsNotFree
  BY MappedLemma
<1>2. QED
  BY <1>1, MemInvCorrect, PTL

\* CountsAddUp: the count of a key is its page's entries and the calls of shmget that are open, with
\* one in mem_map for put_page; mem_map of any other frame is not less than its entries; and free_page
\* never finds a count of zero.
THEOREM CountsExact == Careful /\ FileBelowBrk => (MemorySpec => []CountsAddUp)
<1>1. MemInv => CountsAddUp
  BY CountsLemma
<1>2. QED
  BY <1>1, MemInvCorrect, PTL

\* PrivateCountsExact: when every program's data ends on a page boundary, mem_map of any frame but
\* a key's is its entries, so free_page frees it with the last of them.
THEOREM NoPageLost == Careful /\ Aligned => (MemorySpec => []PrivateCountsExact)
<1>1. SUFFICES ASSUME Careful, Aligned PROVE MemorySpec => []PrivateCountsExact
  OBVIOUS
<1>2. FileBelowBrk
  <2>1. SUFFICES ASSUME NEW e \in Executables
                 PROVE  e.end_data <= (e.brk \div PAGE_SIZE) * PAGE_SIZE
    BY DEF FileBelowBrk
  <2>2. e.brk = (e.brk \div PAGE_SIZE) * PAGE_SIZE
    BY <1>1, MemoryAssumption, PageFound DEF Aligned
  <2>3. QED
    BY <2>2, MemoryAssumption
<1>3. MemInv => PrivateCountsExact
  BY <1>1, PrivateLemma
<1>4. QED
  BY <1>1, <1>2, <1>3, MemInvCorrect, PTL

\* WritableIsPrivateOrShared: a frame that two processes have and one may write is a key's, and each
\* has it on the page where shmat returned its address; un_wp_page makes no other writable.
THEOREM ProcessesProtected == Careful /\ FileBelowBrk => (MemorySpec => []WritableIsPrivateOrShared)
<1>1. MemInv => WritableIsPrivateOrShared
  BY ProtectionLemma
<1>2. QED
  BY <1>1, MemInvCorrect, PTL

\* AttachedInSegment: the address shmat returned is in the frame of its key, and writable, as long
\* as the process runs its program, wherever in a page its brk was.
THEOREM SameMemory == Careful /\ FileBelowBrk => (MemorySpec => []AttachedInSegment)
<1>1. MemInv => AttachedInSegment
  BY AddressLemma
<1>2. QED
  BY <1>1, MemInvCorrect, PTL
=============================================================================
