---------------------------- MODULE SemTableProof ----------------------------
(****************************************************************************)
(* Proofs about the table of named semaphores, for any processes, blocks    *)
(* and names.  That blocks are linked or free holds for all names; the      *)
(* other theorems are about names of one length, without which they fail.   *)
(****************************************************************************)
EXTENDS SemTable, TLAPS, FiniteSetTheorems, SequenceTheorems,
        WellFoundedInduction

KP == INSTANCE SemaphoreProof WITH Sem <- Blocks

----------------------------------------------------------------------------
\* Sequences without repetition.

\* The elements of a sequence.
Elems(s) == {s[k] : k \in 1..Len(s)}

\* No element is in it twice.
Distinct(s) == \A k, l \in 1..Len(s) : s[k] = s[l] => k = l

\* A block is appended.
LEMMA Appended ==
    ASSUME NEW S, NEW s \in Seq(S), Distinct(s), NEW e \in S, e \notin Elems(s)
    PROVE  /\ Append(s, e) \in Seq(S) /\ Distinct(Append(s, e))
           /\ Elems(Append(s, e)) = Elems(s) \cup {e}
<1>1. PICK t : t = Append(s, e)
  OBVIOUS
<1>2. /\ t \in Seq(S) /\ Len(t) = Len(s) + 1 /\ Len(s) \in Nat
      /\ \A i \in 1..Len(s) : t[i] = s[i]
      /\ t[Len(s) + 1] = e
  BY <1>1, AppendProperties, LenProperties
<1>3. Distinct(t)
  <2>1. SUFFICES ASSUME NEW k \in 1..Len(t), NEW l \in 1..Len(t), t[k] = t[l], k # l PROVE FALSE
    BY DEF Distinct
  <2>2. CASE k \in 1..Len(s) /\ l \in 1..Len(s)
    BY <1>2, <2>1, <2>2 DEF Distinct
  <2>3. CASE k \in 1..Len(s) /\ l = Len(s) + 1
    BY <1>2, <2>1, <2>3 DEF Elems
  <2>4. CASE l \in 1..Len(s) /\ k = Len(s) + 1
    BY <1>2, <2>1, <2>4 DEF Elems
  <2>5. QED
    BY <1>2, <2>1, <2>2, <2>3, <2>4
<1>4. Elems(t) = Elems(s) \cup {e}
  <2>1. 1..Len(t) = 1..Len(s) \cup {Len(s) + 1}
    BY <1>2
  <2>2. QED
    BY <1>2, <2>1 DEF Elems
<1>5. QED
  BY <1>1, <1>2, <1>3, <1>4

\* The first one is taken off.
LEMMA Tailed ==
    ASSUME NEW S, NEW s \in Seq(S), Distinct(s), s # <<>>
    PROVE  /\ Tail(s) \in Seq(S) /\ Distinct(Tail(s))
           /\ Head(s) \in Elems(s) /\ Head(s) \in S
           /\ Elems(Tail(s)) = Elems(s) \ {Head(s)}
<1>1. PICK t, h : t = Tail(s) /\ h = Head(s)
  OBVIOUS
<1>2. /\ t \in Seq(S) /\ Len(t) = Len(s) - 1 /\ Len(s) \in Nat /\ Len(s) # 0
      /\ \A i \in 1..Len(t) : t[i] = s[i + 1]
      /\ h = s[1] /\ h \in S
  BY <1>1, HeadTailProperties, LenProperties, EmptySeq
<1>3. Distinct(t)
  BY <1>2 DEF Distinct
<1>4. Elems(t) = Elems(s) \ {h}
  <2>1. ASSUME NEW k \in 1..Len(t) PROVE t[k] \in Elems(s) /\ t[k] # h
    <3>1. k + 1 \in 1..Len(s) /\ 1 \in 1..Len(s) /\ k + 1 # 1
      BY <1>2
    <3>2. QED
      BY <1>2, <3>1 DEF Distinct, Elems
  <2>2. ASSUME NEW k \in 1..Len(s), s[k] # h PROVE s[k] \in Elems(t)
    <3>1. k - 1 \in 1..Len(t) /\ (k - 1) + 1 = k
      BY <1>2, <2>2
    <3>2. s[k] = t[k - 1]
      BY <1>2, <3>1
    <3>3. QED
      BY <3>1, <3>2 DEF Elems
  <2>3. QED
    BY <2>1, <2>2 DEF Elems
<1>5. h \in Elems(s)
  BY <1>2 DEF Elems
<1>6. QED
  BY <1>1, <1>2, <1>3, <1>4, <1>5

\* One is put in front.
LEMMA Pushed ==
    ASSUME NEW S, NEW s \in Seq(S), Distinct(s), NEW e \in S, e \notin Elems(s)
    PROVE  /\ <<e>> \o s \in Seq(S) /\ Distinct(<<e>> \o s)
           /\ Elems(<<e>> \o s) = Elems(s) \cup {e}
<1>1. PICK t : t = <<e>> \o s
  OBVIOUS
<1>2. /\ t \in Seq(S) /\ Len(t) = Len(s) + 1 /\ Len(s) \in Nat /\ t[1] = e
      /\ \A i \in 1..Len(s) : t[i + 1] = s[i]
  <2>1. <<e>> \in Seq(S) /\ Len(<<e>>) = 1 /\ <<e>>[1] = e /\ Len(s) \in Nat
    BY LenProperties
  <2>2. /\ t \in Seq(S) /\ Len(t) = 1 + Len(s)
        /\ \A i \in 1..(1 + Len(s)) : t[i] = IF i <= 1 THEN <<e>>[i] ELSE s[i - 1]
    BY <1>1, <2>1, ConcatProperties
  <2>3. QED
    BY <2>1, <2>2
<1>3. Distinct(t)
  <2>1. SUFFICES ASSUME NEW k \in 1..Len(t), NEW l \in 1..Len(t), t[k] = t[l], k # l PROVE FALSE
    BY DEF Distinct
  <2>2. CASE k # 1 /\ l # 1
    <3>1. /\ k - 1 \in 1..Len(s) /\ l - 1 \in 1..Len(s) /\ (k - 1) + 1 = k /\ (l - 1) + 1 = l
          /\ k - 1 # l - 1
      BY <1>2, <2>1, <2>2
    <3>2. t[k] = s[k - 1] /\ t[l] = s[l - 1]
      BY <1>2, <3>1
    <3>3. QED
      BY <2>1, <3>1, <3>2 DEF Distinct
  <2>3. CASE k = 1 /\ l # 1
    <3>1. l - 1 \in 1..Len(s) /\ (l - 1) + 1 = l
      BY <1>2, <2>1, <2>3
    <3>2. t[l] = s[l - 1]
      BY <1>2, <3>1
    <3>3. QED
      BY <1>2, <2>1, <2>3, <3>1, <3>2 DEF Elems
  <2>4. CASE l = 1 /\ k # 1
    <3>1. k - 1 \in 1..Len(s) /\ (k - 1) + 1 = k
      BY <1>2, <2>1, <2>4
    <3>2. t[k] = s[k - 1]
      BY <1>2, <3>1
    <3>3. QED
      BY <1>2, <2>1, <2>4, <3>1, <3>2 DEF Elems
  <2>5. QED
    BY <2>1, <2>2, <2>3, <2>4
<1>4. Elems(t) = Elems(s) \cup {e}
  <2>1. ASSUME NEW k \in 1..Len(t) PROVE t[k] \in Elems(s) \cup {e}
    <3>1. CASE k = 1
      BY <1>2, <3>1
    <3>2. CASE k # 1
      <4>1. k - 1 \in 1..Len(s) /\ (k - 1) + 1 = k
        BY <1>2, <3>2
      <4>2. t[k] = s[k - 1]
        BY <1>2, <4>1
      <4>3. QED
        BY <4>1, <4>2 DEF Elems
    <3>3. QED
      BY <3>1, <3>2
  <2>2. ASSUME NEW k \in 1..Len(s) PROVE s[k] \in Elems(t)
    <3>1. k + 1 \in 1..Len(t) /\ t[k + 1] = s[k]
      BY <1>2
    <3>2. QED
      BY <3>1 DEF Elems
  <2>3. e \in Elems(t)
    <3>1. 1 \in 1..Len(t)
      BY <1>2
    <3>2. QED
      BY <1>2, <3>1 DEF Elems
  <2>4. QED
    BY <2>1, <2>2, <2>3 DEF Elems
<1>5. QED
  BY <1>1, <1>2, <1>3, <1>4

\* One is taken out of the middle.
LEMMA Removed ==
    ASSUME NEW S, NEW s \in Seq(S), Distinct(s), NEW k \in 1..Len(s)
    PROVE  /\ RemoveAt(s, k) \in Seq(S) /\ Distinct(RemoveAt(s, k))
           /\ Elems(RemoveAt(s, k)) = Elems(s) \ {s[k]}
           /\ Len(RemoveAt(s, k)) = Len(s) - 1
           /\ \A i \in 1..(Len(s) - 1) : RemoveAt(s, k)[i] = IF i < k THEN s[i] ELSE s[i + 1]
<1>1. PICK t, u, v : t = RemoveAt(s, k) /\ u = SubSeq(s, 1, k - 1) /\ v = SubSeq(s, k + 1, Len(s))
  OBVIOUS
<1>2. Len(s) \in Nat /\ k \in Int /\ 1 <= k /\ k <= Len(s) /\ \A i \in 1..Len(s) : s[i] \in S
  BY LenProperties, ElementOfSeq
<1>3. u \in Seq(S) /\ Len(u) = k - 1 /\ \A i \in 1..(k - 1) : u[i] = s[i]
  <2>1. 1 \in Int /\ k - 1 \in Int /\ \A i \in 1..(k - 1) : s[i] \in S
    BY <1>2
  <2>2. /\ u \in Seq(S) /\ Len(u) = IF 1 <= k - 1 THEN (k - 1) - 1 + 1 ELSE 0
        /\ \A i \in 1..((k - 1) - 1 + 1) : u[i] = s[1 + i - 1]
    BY <1>1, <2>1, SubSeqProperties
  <2>3. QED
    BY <1>2, <2>2
<1>4. v \in Seq(S) /\ Len(v) = Len(s) - k /\ \A i \in 1..(Len(s) - k) : v[i] = s[k + i]
  <2>1. k + 1 \in Int /\ Len(s) \in Int /\ \A i \in (k + 1)..Len(s) : s[i] \in S
    BY <1>2
  <2>2. /\ v \in Seq(S) /\ Len(v) = IF k + 1 <= Len(s) THEN Len(s) - (k + 1) + 1 ELSE 0
        /\ \A i \in 1..(Len(s) - (k + 1) + 1) : v[i] = s[(k + 1) + i - 1]
    BY <1>1, <2>1, SubSeqProperties
  <2>3. QED
    BY <1>2, <2>2
<1>5. /\ t \in Seq(S) /\ Len(t) = Len(s) - 1
      /\ \A i \in 1..Len(t) : t[i] = IF i < k THEN s[i] ELSE s[i + 1]
  <2>1. t = u \o v
    BY <1>1 DEF RemoveAt
  <2>2. /\ t \in Seq(S) /\ Len(t) = Len(u) + Len(v)
        /\ \A i \in 1..(Len(u) + Len(v)) : t[i] = IF i <= Len(u) THEN u[i] ELSE v[i - Len(u)]
    BY <1>3, <1>4, <2>1, ConcatProperties
  <2>3. ASSUME NEW i \in 1..Len(t) PROVE t[i] = IF i < k THEN s[i] ELSE s[i + 1]
    <3>1. CASE i < k
      <4>1. i <= Len(u) /\ i \in 1..(k - 1)
        BY <1>2, <1>3, <3>1
      <4>2. QED
        BY <1>3, <2>2, <3>1, <4>1
    <3>2. CASE ~(i < k)
      <4>1. ~(i <= Len(u)) /\ i - Len(u) \in 1..(Len(s) - k) /\ k + (i - Len(u)) = i + 1
        BY <1>2, <1>3, <1>4, <2>2, <3>2
      <4>2. QED
        BY <1>4, <2>2, <3>2, <4>1
    <3>3. QED
      BY <3>1, <3>2
  <2>4. QED
    BY <1>2, <1>3, <1>4, <2>2, <2>3
<1>6. ASSUME NEW i \in 1..Len(t)
      PROVE  \E j \in 1..Len(s) : t[i] = s[j] /\ j # k /\ j = IF i < k THEN i ELSE i + 1
  BY <1>2, <1>5
<1>7. Distinct(t)
  <2>1. SUFFICES ASSUME NEW i \in 1..Len(t), NEW j \in 1..Len(t), t[i] = t[j] PROVE i = j
    BY DEF Distinct
  <2>2. PICK a \in 1..Len(s) : t[i] = s[a] /\ a = IF i < k THEN i ELSE i + 1
    BY <1>6
  <2>3. PICK b \in 1..Len(s) : t[j] = s[b] /\ b = IF j < k THEN j ELSE j + 1
    BY <1>6
  <2>4. a = b
    BY <2>1, <2>2, <2>3 DEF Distinct
  <2>5. QED
    BY <1>2, <2>2, <2>3, <2>4
<1>8. Elems(t) = Elems(s) \ {s[k]}
  <2>1. ASSUME NEW i \in 1..Len(t) PROVE t[i] \in Elems(s) \ {s[k]}
    BY <1>6 DEF Distinct, Elems
  <2>2. ASSUME NEW j \in 1..Len(s), s[j] # s[k] PROVE s[j] \in Elems(t)
    <3>1. CASE j < k
      <4>1. j \in 1..Len(t) /\ t[j] = s[j]
        BY <1>2, <1>5, <3>1
      <4>2. QED
        BY <4>1 DEF Elems
    <3>2. CASE j > k
      <4>1. j - 1 \in 1..Len(t) /\ ~(j - 1 < k) /\ (j - 1) + 1 = j
        BY <1>2, <1>5, <3>2
      <4>2. t[j - 1] = s[j]
        BY <1>5, <4>1
      <4>3. QED
        BY <4>1, <4>2 DEF Elems
    <3>3. QED
      BY <1>2, <2>2, <3>1, <3>2
  <2>3. QED
    BY <2>1, <2>2 DEF Elems
<1>9. QED
  BY <1>1, <1>5, <1>7, <1>8

\* SetToSeq lists a finite set without repetition.
LEMMA Listed ==
    ASSUME NEW S, IsFiniteSet(S)
    PROVE  /\ SetToSeq(S) \in Seq(S) /\ Distinct(SetToSeq(S)) /\ Elems(SetToSeq(S)) = S
<1>1. PICK n \in Nat : ExistsBijection(1..n, S)
  BY FS_NatBijection
<1>2. n = Cardinality(S)
  BY <1>1, FS_CountingElements
<1>3. PICK f \in Bijection(1..n, S) : TRUE
  BY <1>1 DEF ExistsBijection
<1>4. f \in [1..n -> S] /\ IsInjective(f)
  BY <1>3 DEF Bijection, Injection, IsInjective
<1>5. PICK t : t = SetToSeq(S)
  OBVIOUS
<1>6. t \in [1..n -> S] /\ IsInjective(t)
  BY <1>2, <1>4, <1>5 DEF SetToSeq
<1>7. t \in Seq(S) /\ Len(t) = n
  BY <1>6
<1>8. Distinct(t)
  BY <1>6, <1>7 DEF Distinct, IsInjective
<1>9. Elems(t) = S
  <2>1. t \in Injection(1..n, S)
    BY <1>6 DEF Injection, IsInjective
  <2>2. IsFiniteSet(1..n) /\ Cardinality(1..n) = n
    BY FS_Interval
  <2>3. t \in Surjection(1..n, S)
    BY <1>2, <2>1, <2>2, FS_Injection
  <2>4. QED
    BY <1>6, <1>7, <2>3 DEF Surjection, Elems
<1>10. QED
  BY <1>5, <1>7, <1>8, <1>9

----------------------------------------------------------------------------
\* Linked and free blocks.

\* The list and malloc's free blocks share out the blocks.
Parted ==
    /\ list \in Seq(Blocks) /\ freeList \in Seq(Blocks)
    /\ Distinct(list) /\ Distinct(freeList)
    /\ Elems(list) \cap Elems(freeList) = {}
    /\ Elems(list) \cup Elems(freeList) = Blocks

\* The first place of a set of places.
LEMMA FirstPlace ==
    ASSUME NEW T, T \in SUBSET Nat, T # {}
    PROVE  \E k \in T : \A l \in T : k <= l
<1>1. PICK x \in T : \A y \in T : ~(<<y, x>> \in OpToRel(<, Nat))
  BY NatLessThanWellFounded, WFMin
<1>2. \A y \in T : ~(y < x)
  BY <1>1 DEF OpToRel
<1>3. ASSUME NEW y \in T PROVE x <= y
  <2>1. x \in Nat /\ y \in Nat /\ ~(y < x)
    BY <1>2
  <2>2. QED
    BY <2>1
<1>4. QED
  BY <1>3

\* find_sem finds a match where there is one.
LEMMA Found ==
    ASSUME list \in Seq(Blocks), NEW n, Matches(n) # {}
    PROVE  /\ FindPlace(n) \in 1..Len(list) /\ FindSem(n) \in Elems(list) /\ FindSem(n) \in Blocks
           /\ CString(m_name[FindSem(n)]) = n /\ FindSem(n) = list[FindPlace(n)]
<1>1. Matches(n) \in SUBSET Nat
  BY LenProperties DEF Matches
<1>2. FindPlace(n) \in Matches(n)
  <2>1. PICK T : T = Matches(n)
    OBVIOUS
  <2>2. \E k \in T : \A l \in T : k <= l
    BY <1>1, <2>1, FirstPlace
  <2>3. QED
    BY <2>1, <2>2 DEF FindPlace
<1>3. FindPlace(n) \in 1..Len(list) /\ CString(m_name[list[FindPlace(n)]]) = n
  BY <1>2 DEF Matches
<1>4. QED
  BY <1>3, ElementOfSeq DEF FindSem, Elems

\* A block that is appended comes from malloc.
LEMMA OpenParts ==
    ASSUME Parted, freeList # <<>>, list' = Append(list, Head(freeList)), freeList' = Tail(freeList)
    PROVE  /\ Parted' /\ Head(freeList) \in Elems(freeList) /\ Head(freeList) \in Blocks
           /\ Elems(list') = Elems(list) \cup {Head(freeList)}
<1>1. PICK b : b = Head(freeList)
  OBVIOUS
<1>2. /\ freeList' \in Seq(Blocks) /\ Distinct(freeList') /\ b \in Elems(freeList) /\ b \in Blocks
      /\ Elems(freeList') = Elems(freeList) \ {b}
  BY <1>1, Tailed DEF Parted
<1>3. /\ list' \in Seq(Blocks) /\ Distinct(list') /\ Elems(list') = Elems(list) \cup {b}
  BY <1>1, <1>2, Appended DEF Parted
<1>4. Parted'
  BY <1>2, <1>3 DEF Parted
<1>5. QED
  BY <1>1, <1>2, <1>3, <1>4

\* A block that is unlinked goes to malloc.
LEMMA UnlinkParts ==
    ASSUME Parted, NEW k \in 1..Len(list), list' = RemoveAt(list, k),
           freeList' = <<list[k]>> \o freeList
    PROVE  Parted' /\ Elems(list') = Elems(list) \ {list[k]}
<1>1. PICK b : b = list[k]
  OBVIOUS
<1>2. b \in Elems(list) /\ b \in Blocks /\ b \notin Elems(freeList)
  BY <1>1, ElementOfSeq DEF Parted, Elems
<1>3. list' \in Seq(Blocks) /\ Distinct(list') /\ Elems(list') = Elems(list) \ {b}
  BY <1>1, Removed DEF Parted
<1>4. /\ freeList' \in Seq(Blocks) /\ Distinct(freeList') /\ Elems(freeList') = Elems(freeList) \cup {b}
  BY <1>1, <1>2, Pushed DEF Parted
<1>5. Parted'
  BY <1>2, <1>3, <1>4 DEF Parted
<1>6. QED
  BY <1>1, <1>3, <1>5

\* At boot all blocks are free.
LEMMA PartedInit == TableInit => Parted
<1>1. SUFFICES ASSUME TableInit PROVE Parted
  OBVIOUS
<1>2. list = <<>> /\ freeList = SetToSeq(Blocks)
  BY <1>1 DEF TableInit
<1>3. freeList \in Seq(Blocks) /\ Distinct(freeList) /\ Elems(freeList) = Blocks
  BY <1>2, Listed, TableAssumption
<1>4. list \in Seq(Blocks) /\ Distinct(list) /\ Elems(list) = {}
  BY <1>2, EmptySeq DEF Distinct, Elems
<1>5. QED
  BY <1>3, <1>4 DEF Parted

\* Every step keeps the blocks shared out.
LEMMA PartedStep == Parted /\ [TableNext]_allVars => Parted'
<1>1. SUFFICES ASSUME Parted, [TableNext]_allVars PROVE Parted'
  OBVIOUS
<1>2. CASE UNCHANGED <<list, freeList>>
  BY <1>1, <1>2 DEF Parted
<1>3. ASSUME NEW p \in Proc, NEW n \in Name, NEW v \in InitValue, SemOpenNew(p, n, v) PROVE Parted'
  BY <1>1, <1>3, OpenParts DEF SemOpenNew
<1>4. ASSUME NEW p \in Proc, NEW n \in Name, SemUnlink(p, n) PROVE Parted'
  <2>1. FindPlace(n) \in 1..Len(list) /\ FindSem(n) = list[FindPlace(n)]
    BY <1>1, <1>4, Found DEF Parted, SemUnlink
  <2>2. list' = RemoveAt(list, FindPlace(n)) /\ freeList' = <<list[FindPlace(n)]>> \o freeList
    BY <1>4, <2>1 DEF SemUnlink
  <2>3. QED
    BY <1>1, <2>1, <2>2, UnlinkParts
<1>5. QED
  BY <1>1, <1>2, <1>3, <1>4
     DEF TableNext, SemOpenExisting, SemWait, SemPost, Forget, Resume, tableVars, allVars

\* A block is either linked or free, and only once: what sem_unlink frees has
\* left the list, and sem_open appends what malloc gave it.
LinkedOrFree ==
    /\ \A k, l \in 1..Len(list \o freeList) :
          (list \o freeList)[k] = (list \o freeList)[l] => k = l
    /\ Range(list \o freeList) = Blocks

\* LinkedOrFree, for names of all lengths and whatever the blocks held before.
THEOREM BlocksShared == TableSpec => []LinkedOrFree
<1>1. Parted => LinkedOrFree
  <2>1. SUFFICES ASSUME Parted PROVE LinkedOrFree
    OBVIOUS
  <2>2. PICK s, a, b : s = list \o freeList /\ a = Len(list) /\ b = Len(freeList)
    OBVIOUS
  <2>3. /\ s \in Seq(Blocks) /\ Len(s) = a + b /\ a \in Nat /\ b \in Nat
        /\ \A i \in 1..(a + b) : s[i] = IF i <= a THEN list[i] ELSE freeList[i - a]
    BY <2>1, <2>2, ConcatProperties, LenProperties DEF Parted
  <2>4. ASSUME NEW i \in 1..(a + b)
        PROVE  \/ i \in 1..a /\ s[i] = list[i]
               \/ i - a \in 1..b /\ s[i] = freeList[i - a]
    BY <2>3
  <2>5. ASSUME NEW k \in 1..Len(s), NEW l \in 1..Len(s), s[k] = s[l] PROVE k = l
    <3>1. CASE k \in 1..a /\ s[k] = list[k] /\ l \in 1..a /\ s[l] = list[l]
      BY <2>1, <2>2, <2>5, <3>1 DEF Parted, Distinct
    <3>2. CASE k - a \in 1..b /\ s[k] = freeList[k - a] /\ l - a \in 1..b /\ s[l] = freeList[l - a]
      <4>1. k - a = l - a
        BY <2>1, <2>2, <2>5, <3>2 DEF Parted, Distinct
      <4>2. QED
        BY <2>3, <4>1
    <3>3. CASE k \in 1..a /\ s[k] = list[k] /\ l - a \in 1..b /\ s[l] = freeList[l - a]
      BY <2>1, <2>2, <2>5, <3>3 DEF Parted, Elems
    <3>4. CASE l \in 1..a /\ s[l] = list[l] /\ k - a \in 1..b /\ s[k] = freeList[k - a]
      BY <2>1, <2>2, <2>5, <3>4 DEF Parted, Elems
    <3>5. QED
      BY <2>3, <2>4, <3>1, <3>2, <3>3, <3>4
  <2>6. Range(s) = Blocks
    <3>1. Range(s) = {s[i] : i \in 1..(a + b)}
      BY <2>3, LenProperties DEF Range
    <3>2. ASSUME NEW e \in Blocks PROVE \E i \in 1..(a + b) : s[i] = e
      <4>1. CASE e \in Elems(list)
        <5>1. PICK i \in 1..a : list[i] = e
          BY <2>2, <4>1 DEF Elems
        <5>2. i \in 1..(a + b) /\ i <= a
          BY <2>3
        <5>3. QED
          BY <2>3, <5>1, <5>2
      <4>2. CASE e \in Elems(freeList)
        <5>1. PICK i \in 1..b : freeList[i] = e
          BY <2>2, <4>2 DEF Elems
        <5>2. a + i \in 1..(a + b) /\ ~(a + i <= a) /\ (a + i) - a = i
          BY <2>3
        <5>3. s[a + i] = e
          BY <2>3, <5>1, <5>2
        <5>4. QED
          BY <5>2, <5>3
      <4>3. QED
        BY <2>1, <4>1, <4>2 DEF Parted
    <3>3. \A i \in 1..(a + b) : s[i] \in Blocks
      BY <2>3, ElementOfSeq
    <3>4. QED
      BY <3>1, <3>2, <3>3
  <2>7. QED
    BY <2>2, <2>5, <2>6 DEF LinkedOrFree
<1>2. QED
  BY <1>1, PartedInit, PartedStep, PTL DEF TableSpec

----------------------------------------------------------------------------
\* The pointers.

\* The node behind which k nodes of the list s are linked.
Node(s, k) == IF k = 0 THEN SemHead ELSE s[k]

\* Every node of s and its neighbours point to each other.
Linked(next, prev, s) ==
    /\ \A k \in 1..Len(s) : next[Node(s, k - 1)] = s[k] /\ prev[s[k]] = Node(s, k - 1)
    /\ next[Node(s, Len(s))] = NULL

Nodes == Blocks \cup {SemHead}

\* The pointers are those of the list.
LinkedInv == /\ m_prev \in [Nodes -> Nodes \cup {NULL}] /\ m_next \in [Nodes -> Nodes \cup {NULL}]
             /\ Linked(m_next, m_prev, list)

\* No node is at two places of a list.
LEMMA NodesDiffer ==
    ASSUME NEW s \in Seq(Blocks), Distinct(s)
    PROVE  /\ Len(s) \in Nat
           /\ \A i \in 0..Len(s) : Node(s, i) \in Nodes
           /\ \A i, j \in 0..Len(s) : Node(s, i) = Node(s, j) => i = j
<1>1. Len(s) \in Nat /\ \A i \in 1..Len(s) : s[i] \in Blocks
  BY LenProperties, ElementOfSeq
<1>2. SemHead \notin Blocks
  BY TableAssumption
<1>3. ASSUME NEW i \in 0..Len(s) PROVE Node(s, i) \in Nodes
  <2>1. i = 0 \/ i \in 1..Len(s)
    BY <1>1
  <2>2. QED
    BY <1>1, <2>1 DEF Node, Nodes
<1>4. ASSUME NEW i \in 0..Len(s), NEW j \in 0..Len(s), Node(s, i) = Node(s, j) PROVE i = j
  <2>1. (i = 0 \/ i \in 1..Len(s)) /\ (j = 0 \/ j \in 1..Len(s))
    BY <1>1
  <2>2. QED
    BY <1>1, <1>2, <1>4, <2>1 DEF Node, Distinct
<1>5. QED
  BY <1>1, <1>3, <1>4

\* sem_open links a new block behind the last node.
LEMMA OpenLinks ==
    ASSUME NEW s \in Seq(Blocks), Distinct(s), NEW next \in [Nodes -> Nodes \cup {NULL}],
           NEW prev \in [Nodes -> Nodes \cup {NULL}], Linked(next, prev, s),
           NEW b \in Blocks, b \notin Elems(s)
    PROVE  Linked([next EXCEPT ![b] = NULL, ![Node(s, Len(s))] = b],
                  [prev EXCEPT ![b] = Node(s, Len(s))], Append(s, b))
<1>1. PICK t, last, n2, p2 :
         /\ t = Append(s, b) /\ last = Node(s, Len(s))
         /\ n2 = [next EXCEPT ![b] = NULL, ![last] = b] /\ p2 = [prev EXCEPT ![b] = last]
  OBVIOUS
<1>2. /\ Len(s) \in Nat /\ \A i \in 0..Len(s) : Node(s, i) \in Nodes
      /\ \A i, j \in 0..Len(s) : Node(s, i) = Node(s, j) => i = j
  BY NodesDiffer
<1>3. /\ Len(t) = Len(s) + 1 /\ t[Len(s) + 1] = b /\ \A i \in 1..Len(s) : t[i] = s[i]
  BY <1>1, <1>2, AppendProperties
<1>4. \A i \in 0..Len(s) : Node(t, i) = Node(s, i) /\ Node(s, i) # b
  <2>1. b # SemHead
    BY TableAssumption
  <2>2. ASSUME NEW i \in 0..Len(s) PROVE i = 0 \/ i \in 1..Len(s)
    BY <1>2
  <2>3. QED
    BY <1>3, <2>1, <2>2 DEF Node, Elems
<1>5. last \in Nodes /\ b \in Nodes /\ last # b
  BY <1>1, <1>2, <1>4 DEF Nodes
<1>6. /\ \A x \in Nodes : n2[x] = IF x = last THEN b ELSE IF x = b THEN NULL ELSE next[x]
      /\ \A x \in Nodes : p2[x] = IF x = b THEN last ELSE prev[x]
  BY <1>1, <1>5
<1>7. ASSUME NEW k \in 1..Len(t) PROVE n2[Node(t, k - 1)] = t[k] /\ p2[t[k]] = Node(t, k - 1)
  <2>1. CASE k \in 1..Len(s)
    <3>1. k - 1 \in 0..Len(s) /\ k \in 0..Len(s) /\ k # 0 /\ k - 1 # Len(s) /\ Len(s) \in 0..Len(s)
      BY <1>2, <2>1
    <3>2. /\ Node(s, k - 1) \in Nodes /\ Node(s, k - 1) # last /\ Node(s, k - 1) # b
          /\ Node(s, k) = s[k] /\ s[k] \in Nodes /\ s[k] # b
      BY <1>1, <1>2, <1>4, <3>1 DEF Node
    <3>3. next[Node(s, k - 1)] = s[k] /\ prev[s[k]] = Node(s, k - 1)
      BY <2>1 DEF Linked
    <3>4. t[k] = s[k] /\ Node(t, k - 1) = Node(s, k - 1)
      BY <1>3, <1>4, <2>1, <3>1
    <3>5. QED
      BY <1>6, <3>2, <3>3, <3>4
  <2>2. CASE k = Len(s) + 1
    <3>1. k - 1 = Len(s) /\ Len(s) \in 0..Len(s)
      BY <1>2, <2>2
    <3>2. Node(t, k - 1) = last
      BY <1>1, <1>4, <3>1
    <3>3. QED
      BY <1>3, <1>5, <1>6, <2>2, <3>2
  <2>3. QED
    BY <1>2, <1>3, <2>1, <2>2
<1>8. n2[Node(t, Len(t))] = NULL
  <2>1. Node(t, Len(t)) = b
    BY <1>2, <1>3 DEF Node
  <2>2. QED
    BY <1>5, <1>6, <2>1
<1>9. Linked(n2, p2, t)
  BY <1>7, <1>8 DEF Linked
<1>10. QED
  BY <1>1, <1>9

\* sem_unlink ties the neighbours of the node it takes out together, wherever it is.
LEMMA UnlinkLinks ==
    ASSUME NEW s \in Seq(Blocks), Distinct(s), NEW next \in [Nodes -> Nodes \cup {NULL}],
           NEW prev \in [Nodes -> Nodes \cup {NULL}], Linked(next, prev, s), NEW k \in 1..Len(s)
    PROVE  Linked([next EXCEPT ![prev[s[k]]] = next[s[k]]],
                  IF next[s[k]] = NULL THEN prev ELSE [prev EXCEPT ![next[s[k]]] = prev[s[k]]],
                  RemoveAt(s, k))
<1>1. PICK t, a, c, n2, p2 :
         /\ t = RemoveAt(s, k) /\ a = prev[s[k]] /\ c = next[s[k]]
         /\ n2 = [next EXCEPT ![a] = c]
         /\ p2 = IF c = NULL THEN prev ELSE [prev EXCEPT ![c] = a]
  OBVIOUS
<1>2. /\ Len(s) \in Nat /\ k \in Int /\ \A i \in 0..Len(s) : Node(s, i) \in Nodes
      /\ \A i, j \in 0..Len(s) : Node(s, i) = Node(s, j) => i = j
  BY NodesDiffer
<1>3. Len(t) = Len(s) - 1 /\ \A i \in 1..Len(t) : t[i] = IF i < k THEN s[i] ELSE s[i + 1]
  BY <1>1, Removed
<1>4. \A i \in 0..Len(t) : Node(t, i) = IF i < k THEN Node(s, i) ELSE Node(s, i + 1)
  <2>1. SUFFICES ASSUME NEW i \in 0..Len(t)
                 PROVE  Node(t, i) = IF i < k THEN Node(s, i) ELSE Node(s, i + 1)
    OBVIOUS
  <2>2. CASE i = 0
    <3>1. i < k
      BY <1>2, <2>2
    <3>2. QED
      BY <2>2, <3>1 DEF Node
  <2>3. CASE i \in 1..Len(t)
    <3>1. i # 0 /\ i + 1 # 0
      BY <1>2, <1>3, <2>3
    <3>2. QED
      BY <1>3, <2>3, <3>1 DEF Node
  <2>4. QED
    BY <1>2, <1>3, <2>2, <2>3
<1>5. /\ k - 1 \in 0..Len(s) /\ a = Node(s, k - 1) /\ a \in Nodes
  <2>1. k - 1 \in 0..Len(s) /\ prev[s[k]] = Node(s, k - 1)
    BY <1>2 DEF Linked
  <2>2. QED
    BY <1>1, <1>2, <2>1
<1>6. \A x \in Nodes : n2[x] = IF x = a THEN c ELSE next[x]
  BY <1>1, <1>5
<1>7. \A i \in 1..Len(s) : /\ Node(s, i) = s[i] /\ s[i] \in Nodes
                           /\ next[Node(s, i - 1)] = s[i] /\ prev[s[i]] = Node(s, i - 1)
  <2>1. SUFFICES ASSUME NEW i \in 1..Len(s) PROVE Node(s, i) = s[i] /\ s[i] \in Nodes
    BY DEF Linked
  <2>2. i # 0 /\ i \in 0..Len(s)
    BY <1>2
  <2>3. QED
    BY <1>2, <2>2 DEF Node
<1>8. CASE k = Len(s)
  <2>1. c = NULL
    BY <1>1, <1>2, <1>7, <1>8 DEF Linked
  <2>2. ASSUME NEW i \in 1..Len(t) PROVE n2[Node(t, i - 1)] = t[i] /\ p2[t[i]] = Node(t, i - 1)
    <3>1. i \in 1..Len(s) /\ i - 1 \in 0..Len(s) /\ i - 1 # k - 1 /\ i < k /\ i - 1 < k /\ i - 1 \in 0..Len(t)
      BY <1>2, <1>3, <1>8
    <3>2. Node(t, i - 1) = Node(s, i - 1) /\ t[i] = s[i] /\ Node(s, i - 1) # a /\ Node(s, i - 1) \in Nodes
      BY <1>2, <1>3, <1>4, <1>5, <3>1
    <3>3. QED
      BY <1>1, <1>6, <1>7, <2>1, <3>1, <3>2
  <2>3. n2[Node(t, Len(t))] = NULL
    <3>1. Len(t) = k - 1 /\ Len(t) \in 0..Len(t) /\ Len(t) < k
      BY <1>2, <1>3, <1>8
    <3>2. Node(t, Len(t)) = a
      BY <1>4, <1>5, <3>1
    <3>3. QED
      BY <1>5, <1>6, <2>1, <3>2
  <2>4. QED
    BY <1>1, <2>2, <2>3 DEF Linked
<1>9. CASE k < Len(s)
  <2>1. k + 1 \in 1..Len(s) /\ (k + 1) - 1 = k
    BY <1>2, <1>9
  <2>2. c = s[k + 1] /\ c \in Nodes /\ c # NULL /\ c = Node(s, k + 1)
    <3>1. next[Node(s, (k + 1) - 1)] = s[k + 1] /\ Node(s, k) = s[k] /\ s[k + 1] \in Nodes
          /\ Node(s, k + 1) = s[k + 1]
      BY <1>7, <2>1
    <3>2. NULL \notin Nodes
      BY TableAssumption DEF Nodes
    <3>3. QED
      BY <1>1, <2>1, <3>1, <3>2
  <2>3. \A x \in Nodes : p2[x] = IF x = c THEN a ELSE prev[x]
    BY <1>1, <2>2
  <2>4. ASSUME NEW i \in 1..Len(t) PROVE n2[Node(t, i - 1)] = t[i] /\ p2[t[i]] = Node(t, i - 1)
    <3>1. CASE i < k
      <4>1. /\ i \in 1..Len(s) /\ i \in 0..Len(s) /\ i - 1 \in 0..Len(s) /\ i - 1 # k - 1
            /\ i - 1 < k /\ i - 1 \in 0..Len(t) /\ i # k + 1 /\ k + 1 \in 0..Len(s)
        BY <1>2, <1>3, <1>9, <3>1
      <4>2. /\ Node(t, i - 1) = Node(s, i - 1) /\ t[i] = s[i] /\ Node(s, i - 1) # a
            /\ Node(s, i - 1) \in Nodes /\ s[i] # c
        BY <1>2, <1>3, <1>4, <1>5, <1>7, <2>2, <3>1, <4>1
      <4>3. QED
        BY <1>6, <1>7, <2>3, <4>1, <4>2
    <3>2. CASE i = k
      <4>1. i - 1 < k /\ i - 1 \in 0..Len(t) /\ ~(i < k)
        BY <1>2, <1>3, <3>2
      <4>2. Node(t, i - 1) = a /\ t[i] = c
        BY <1>3, <1>4, <1>5, <2>2, <3>2, <4>1
      <4>3. QED
        BY <1>5, <1>6, <2>2, <2>3, <4>2
    <3>3. CASE i > k
      <4>1. /\ i + 1 \in 1..Len(s) /\ i \in 0..Len(s) /\ i # k - 1 /\ ~(i < k) /\ ~(i - 1 < k)
            /\ i - 1 \in 0..Len(t) /\ (i - 1) + 1 = i /\ (i + 1) - 1 = i /\ k - 1 \in 0..Len(s)
            /\ i + 1 # k + 1 /\ i + 1 \in 0..Len(s) /\ k + 1 \in 0..Len(s)
        BY <1>2, <1>3, <1>9, <3>3
      <4>2. Node(t, i - 1) = Node(s, i) /\ t[i] = s[i + 1]
        <5>1. Node(t, i - 1) = Node(s, (i - 1) + 1)
          BY <1>4, <4>1
        <5>2. QED
          BY <1>3, <4>1, <5>1
      <4>3. Node(s, i) # a /\ Node(s, i) \in Nodes /\ s[i + 1] # c /\ Node(s, i + 1) = s[i + 1]
        BY <1>2, <1>5, <1>7, <2>2, <4>1
      <4>4. next[Node(s, i)] = s[i + 1] /\ prev[s[i + 1]] = Node(s, i) /\ s[i + 1] \in Nodes
        <5>1. /\ next[Node(s, (i + 1) - 1)] = s[i + 1] /\ prev[s[i + 1]] = Node(s, (i + 1) - 1)
              /\ s[i + 1] \in Nodes
          BY <1>7, <4>1
        <5>2. QED
          BY <4>1, <5>1
      <4>5. QED
        BY <1>6, <2>3, <4>2, <4>3, <4>4
    <3>4. QED
      BY <1>2, <1>3, <3>1, <3>2, <3>3
  <2>5. n2[Node(t, Len(t))] = NULL
    <3>1. /\ Len(t) + 1 = Len(s) /\ Len(t) \in 0..Len(t) /\ ~(Len(t) < k) /\ Len(s) # k - 1
          /\ Len(s) \in 0..Len(s)
      BY <1>2, <1>3, <1>9
    <3>2. Node(t, Len(t)) = Node(s, Len(s))
      <4>1. Node(t, Len(t)) = Node(s, Len(t) + 1)
        BY <1>4, <3>1
      <4>2. QED
        BY <3>1, <4>1
    <3>3. Node(s, Len(s)) # a /\ Node(s, Len(s)) \in Nodes /\ next[Node(s, Len(s))] = NULL
      BY <1>2, <1>5, <3>1 DEF Linked
    <3>4. QED
      BY <1>6, <3>2, <3>3
  <2>6. QED
    BY <1>1, <2>4, <2>5 DEF Linked
<1>10. QED
  BY <1>2, <1>8, <1>9

\* At boot _semHead is alone.
LEMMA LinkedInit == TableInit => LinkedInv
<1>1. SUFFICES ASSUME TableInit PROVE LinkedInv
  OBVIOUS
<1>2. /\ list = <<>> /\ m_prev = [b \in Nodes |-> NULL] /\ m_next = [b \in Nodes |-> NULL]
  BY <1>1 DEF TableInit, Nodes
<1>3. Len(list) = 0
  BY <1>2, EmptySeq
<1>4. Linked(m_next, m_prev, list)
  BY <1>2, <1>3 DEF Linked, Node, Nodes
<1>5. QED
  BY <1>2, <1>4 DEF LinkedInv

\* Every step keeps the pointers those of the list.
LEMMA LinkedStep == Parted /\ LinkedInv /\ [TableNext]_allVars => LinkedInv'
<1>1. SUFFICES ASSUME Parted, LinkedInv, [TableNext]_allVars PROVE LinkedInv'
  OBVIOUS
<1>2. CASE UNCHANGED <<list, links>>
  BY <1>1, <1>2 DEF LinkedInv, Linked, Node, links
<1>3. ASSUME NEW p \in Proc, NEW n \in Name, NEW v \in InitValue, SemOpenNew(p, n, v) PROVE LinkedInv'
  <2>1. PICK b, last : b = Head(freeList) /\ last = Node(list, Len(list))
    OBVIOUS
  <2>2. b \in Blocks /\ b \notin Elems(list)
    <3>1. freeList # <<>> /\ freeList' = Tail(freeList) /\ list' = Append(list, Head(freeList))
      BY <1>3 DEF SemOpenNew
    <3>2. Head(freeList) \in Elems(freeList) /\ Head(freeList) \in Blocks
      BY <1>1, <3>1, OpenParts
    <3>3. QED
      BY <1>1, <2>1, <3>2 DEF Parted
  <2>3. last \in Nodes /\ last = LastNode
    <3>1. Len(list) \in Nat /\ Len(list) \in 0..Len(list) /\ Node(list, Len(list)) \in Nodes
      BY <1>1, NodesDiffer DEF Parted
    <3>2. list = <<>> <=> Len(list) = 0
      BY <1>1, EmptySeq DEF Parted
    <3>3. QED
      BY <2>1, <3>1, <3>2 DEF Node, LastNode
  <2>4. /\ list' = Append(list, b) /\ m_prev' = [m_prev EXCEPT ![b] = last]
        /\ m_next' = [m_next EXCEPT ![b] = NULL, ![last] = b]
    BY <1>3, <2>1, <2>3 DEF SemOpenNew
  <2>5. Linked(m_next', m_prev', list')
    BY <1>1, <2>1, <2>2, <2>4, OpenLinks DEF Parted, LinkedInv
  <2>6. m_prev' \in [Nodes -> Nodes \cup {NULL}] /\ m_next' \in [Nodes -> Nodes \cup {NULL}]
    BY <1>1, <2>2, <2>3, <2>4 DEF LinkedInv, Nodes
  <2>7. QED
    BY <2>5, <2>6 DEF LinkedInv
<1>4. ASSUME NEW p \in Proc, NEW n \in Name, SemUnlink(p, n) PROVE LinkedInv'
  <2>1. PICK k : k = FindPlace(n)
    OBVIOUS
  <2>2. k \in 1..Len(list) /\ FindSem(n) = list[k] /\ list[k] \in Blocks
    BY <1>1, <1>4, <2>1, Found DEF Parted, SemUnlink
  <2>3. /\ list' = RemoveAt(list, k)
        /\ m_next' = [m_next EXCEPT ![m_prev[list[k]]] = m_next[list[k]]]
        /\ m_prev' = IF m_next[list[k]] = NULL THEN m_prev
                     ELSE [m_prev EXCEPT ![m_next[list[k]]] = m_prev[list[k]]]
    BY <1>4, <2>1, <2>2 DEF SemUnlink, Unlinked
  <2>4. Linked(m_next', m_prev', list')
    BY <1>1, <2>2, <2>3, UnlinkLinks DEF Parted, LinkedInv
  <2>5. list[k] \in Nodes /\ m_next[list[k]] \in Nodes \cup {NULL} /\ m_prev[list[k]] \in Nodes \cup {NULL}
    BY <1>1, <2>2 DEF LinkedInv, Nodes
  <2>6. m_prev' \in [Nodes -> Nodes \cup {NULL}] /\ m_next' \in [Nodes -> Nodes \cup {NULL}]
    BY <1>1, <2>3, <2>5 DEF LinkedInv
  <2>7. QED
    BY <2>4, <2>6 DEF LinkedInv
<1>5. QED
  BY <1>1, <1>2, <1>3, <1>4
     DEF TableNext, SemOpenExisting, SemWait, SemPost, Forget, Resume, tableVars, allVars

\* Behind any sequence of sem_open and sem_unlink, for names of all lengths and lists of all
\* lengths: the pointers link _semHead, the open semaphores in their order and nothing else, and
\* m_prev leads back the same way.  sem_unlink keeps it so at both ends and in the middle.
THEOREM ListLinked == TableSpec => []PointersAreList
<1>1. Parted /\ LinkedInv => PointersAreList
  <2>1. SUFFICES ASSUME Parted, LinkedInv PROVE PointersAreList
    OBVIOUS
  <2>2. PICK node : node = <<SemHead>> \o list
    OBVIOUS
  <2>3. Len(list) \in Nat /\ list \in Seq(Nodes) /\ <<SemHead>> \in Seq(Nodes)
    BY <2>1, LenProperties DEF Parted, Nodes
  <2>4. Len(<<SemHead>>) = 1 /\ <<SemHead>>[1] = SemHead
    OBVIOUS
  <2>5. /\ Len(node) = 1 + Len(list)
        /\ \A i \in 1..(1 + Len(list)) : node[i] = IF i <= 1 THEN <<SemHead>>[i] ELSE list[i - 1]
    BY <2>2, <2>3, <2>4, ConcatProperties
  <2>6. \A k \in 0..Len(list) : node[k + 1] = Node(list, k)
    <3>1. SUFFICES ASSUME NEW k \in 0..Len(list) PROVE node[k + 1] = Node(list, k)
      OBVIOUS
    <3>2. k + 1 \in 1..(1 + Len(list)) /\ (k + 1) - 1 = k /\ (k + 1 <= 1 <=> k = 0) /\ (k = 0 => k + 1 = 1)
      BY <2>3
    <3>3. QED
      BY <2>4, <2>5, <3>2 DEF Node
  <2>7. ASSUME NEW k \in 1..Len(list)
        PROVE  m_next[node[k]] = node[k + 1] /\ m_prev[node[k + 1]] = node[k]
    <3>1. k \in 0..Len(list) /\ k - 1 \in 0..Len(list) /\ (k - 1) + 1 = k /\ k # 0
      BY <2>3
    <3>2. node[(k - 1) + 1] = Node(list, k - 1) /\ node[k + 1] = list[k]
      BY <2>6, <3>1 DEF Node
    <3>3. QED
      BY <2>1, <3>1, <3>2 DEF LinkedInv, Linked
  <2>8. m_next[node[Len(node)]] = NULL
    <3>1. Len(list) \in 0..Len(list) /\ Len(node) = Len(list) + 1
      BY <2>3, <2>5
    <3>2. node[Len(node)] = Node(list, Len(list))
      BY <2>6, <3>1
    <3>3. QED
      BY <2>1, <3>2 DEF LinkedInv, Linked
  <2>9. QED
    BY <2>2, <2>7, <2>8 DEF PointersAreList
<1>2. Parted /\ LinkedInv /\ [TableNext]_allVars => (Parted /\ LinkedInv)'
  BY PartedStep, LinkedStep
<1>3. QED
  BY <1>1, <1>2, PartedInit, LinkedInit, PTL DEF TableSpec

----------------------------------------------------------------------------
\* Names.

\* Names that strncpy without its NUL does not confuse: all of one length.
OneLength ==
    /\ \A m, n \in Name : Len(m) = Len(n)
    /\ \A n \in Name : \A k \in 1..Len(n) : n[k] # NUL

\* Behind a name of that length there is nothing but NULs, in every block.
Ended(a) == \A n \in Name, k \in 1..(NameSize + 1) : k > Len(n) => a[k] = NUL

\* What can be in an array of characters.
Char == STRING \cup {NUL}

\* A name that is copied over another of its length is the name a C function sees there.
LEMMA NameWritten ==
    ASSUME OneLength, NEW a \in [1..(NameSize + 1) -> Char], Ended(a), NEW n \in Name
    PROVE  /\ Strncpy(a, n) \in [1..(NameSize + 1) -> Char]
           /\ Ended(Strncpy(a, n))
           /\ CString(Strncpy(a, n)) = n
<1>1. /\ NameSize \in Nat /\ n \in Seq(Char) /\ Len(n) \in Nat /\ Len(n) <= NameSize
      /\ \A k \in 1..Len(n) : n[k] \in Char /\ n[k] # NUL
  <2>1. NameSize \in Nat /\ n \in Seq(STRING) /\ Len(n) <= NameSize
    BY TableAssumption
  <2>2. n \in [1..Len(n) -> STRING] /\ Len(n) \in Nat
    BY <2>1, LenProperties
  <2>3. n \in [1..Len(n) -> Char]
    BY <2>2 DEF Char
  <2>4. n \in Seq(Char)
    BY <2>2, <2>3
  <2>5. QED
    BY <2>1, <2>2, <2>3, <2>4 DEF OneLength
<1>2. Len(a) = NameSize + 1
  BY <1>1
<1>3. PICK c, L : c = Strncpy(a, n) /\ L = Len(n)
  OBVIOUS
<1>4. c = [k \in 1..(NameSize + 1) |-> IF k <= L THEN n[k] ELSE a[k]]
  BY <1>2, <1>3 DEF Strncpy
<1>5. /\ \A k \in 1..(NameSize + 1) : k <= L => c[k] = n[k]
      /\ \A k \in 1..(NameSize + 1) : k > L => c[k] = NUL
  BY <1>1, <1>3, <1>4 DEF Ended
<1>6. c \in [1..(NameSize + 1) -> Char]
  BY <1>1, <1>3, <1>4
<1>7. Ended(c)
  BY <1>3, <1>5 DEF Ended, OneLength
<1>8. CString(c) = n
  <2> DEFINE ends == {k \in 1..Len(c) : c[k] = NUL}
             last == CHOOSE k \in ends : \A l \in ends : k <= l
  <2>1. Len(c) = NameSize + 1 /\ c \in Seq(Char)
    BY <1>1, <1>6
  <2>2. L + 1 \in ends
    BY <1>1, <1>3, <1>5, <2>1
  <2>3. ASSUME NEW k \in ends PROVE k \in Int /\ L + 1 <= k
    BY <1>1, <1>3, <1>5, <2>1
  <2>4. CString(c) = IF ends = {} THEN c ELSE SubSeq(c, 1, last - 1)
    BY DEF CString
  <2> HIDE DEF ends
  <2>5. last \in ends /\ \A l \in ends : last <= l
    BY <2>2, <2>3
  <2> HIDE DEF last
  <2>6. last = L + 1
    <3>1. last \in Int /\ L + 1 <= last /\ last <= L + 1 /\ L \in Int
      BY <1>1, <1>3, <2>2, <2>3, <2>5
    <3>2. QED
      BY <3>1
  <2>7. CString(c) = SubSeq(c, 1, L)
    <3>1. last - 1 = L
      BY <1>1, <1>3, <2>6
    <3>2. QED
      BY <2>2, <2>4, <3>1
  <2>8. PICK t : t = SubSeq(c, 1, L)
    OBVIOUS
  <2>9. /\ t \in Seq(Char) /\ Len(t) = IF 1 <= L THEN L - 1 + 1 ELSE 0
        /\ \A i \in 1..(L - 1 + 1) : t[i] = c[1 + i - 1]
    <3>1. 1 \in Int /\ L \in Int /\ \A i \in 1..L : c[i] \in Char
      BY <1>1, <1>3, <1>6
    <3>2. QED
      BY <2>8, <3>1, SubSeqProperties
  <2>10. Len(t) = L /\ \A i \in 1..L : t[i] = n[i]
    BY <1>1, <1>3, <1>5, <2>9
  <2>11. t = n
    BY <1>1, <1>3, <2>9, <2>10, SeqEqual
  <2>12. QED
    BY <2>7, <2>8, <2>11
<1>9. QED
  BY <1>3, <1>6, <1>7, <1>8

\* The names of the linked blocks, what the handles are handles of, and why a process is in
\* sem_wait: it has a handle.
NamesInv ==
    /\ m_name \in [Blocks -> [1..(NameSize + 1) -> Char]]
    /\ \A b \in Blocks : Ended(m_name[b])
    /\ \A b, c \in Elems(list) : CString(m_name[b]) = CString(m_name[c]) => b = c
    /\ handle \in [Proc -> [Name -> Blocks \cup {NULL}]]
    /\ \A p \in Proc, n \in Name : handle[p][n] # NULL =>
          handle[p][n] \in Elems(list) /\ CString(m_name[handle[p][n]]) = n
    /\ at \in [Proc -> Blocks \cup {NULL}]
    /\ \A p \in Proc : at[p] # NULL => \E n \in Name : handle[p][n] = at[p]

\* The blocks, the names and the queues together.
TableInv == Parted /\ NamesInv /\ KP!IInv

\* sem_open of a name that exists.
LEMMA OpenExistingStep ==
    ASSUME TableInv, NEW p \in Proc, NEW n \in Name, SemOpenExisting(p, n)
    PROVE  NamesInv'
<1>1. PICK b : b = FindSem(n)
  OBVIOUS
<1>2. b \in Elems(list) /\ b \in Blocks /\ CString(m_name[b]) = n
  BY <1>1, Found DEF TableInv, Parted, SemOpenExisting
<1>3. /\ handle' = [handle EXCEPT ![p][n] = b] /\ UNCHANGED <<m_name, list, at>>
      /\ at[p] = NULL
  BY <1>1 DEF SemOpenExisting, kernelVars, K!InUserMode
<1>4. handle \in [Proc -> [Name -> Blocks \cup {NULL}]]
  BY DEF TableInv, NamesInv
<1>5. /\ handle' \in [Proc -> [Name -> Blocks \cup {NULL}]]
      /\ \A q \in Proc, m \in Name : handle'[q][m] = IF q = p /\ m = n THEN b ELSE handle[q][m]
  BY <1>2, <1>3, <1>4
<1>6. QED
  BY <1>2, <1>3, <1>5 DEF TableInv, NamesInv

\* sem_open of a new name.
LEMMA OpenNewStep ==
    ASSUME OneLength, TableInv, NEW p \in Proc, NEW n \in Name, NEW v \in InitValue, SemOpenNew(p, n, v)
    PROVE  NamesInv' /\ \A q \in Proc : at[q] # Head(freeList)
<1>1. PICK b : b = Head(freeList)
  OBVIOUS
<1>2. /\ b \in Elems(freeList) /\ b \in Blocks /\ Elems(list') = Elems(list) \cup {b}
      /\ b \notin Elems(list) /\ b # NULL
  BY <1>1, OpenParts, TableAssumption DEF TableInv, SemOpenNew, Parted
<1>3. /\ m_name' = [m_name EXCEPT ![b] = Strncpy(@, n)]
      /\ handle' = [handle EXCEPT ![p][n] = b] /\ UNCHANGED at /\ at[p] = NULL
  BY <1>1 DEF SemOpenNew, K!InUserMode
<1>4. /\ handle \in [Proc -> [Name -> Blocks \cup {NULL}]]
      /\ m_name \in [Blocks -> [1..(NameSize + 1) -> Char]]
      /\ \A c \in Blocks : Ended(m_name[c])
      /\ \A c, d \in Elems(list) : CString(m_name[c]) = CString(m_name[d]) => c = d
      /\ \A q \in Proc, m \in Name : handle[q][m] # NULL =>
          handle[q][m] \in Elems(list) /\ CString(m_name[handle[q][m]]) = m
      /\ at \in [Proc -> Blocks \cup {NULL}]
      /\ \A q \in Proc : at[q] # NULL => \E m \in Name : handle[q][m] = at[q]
  BY DEF TableInv, NamesInv
<1>5. /\ handle' \in [Proc -> [Name -> Blocks \cup {NULL}]]
      /\ \A q \in Proc, m \in Name : handle'[q][m] = IF q = p /\ m = n THEN b ELSE handle[q][m]
  BY <1>2, <1>3, <1>4
<1>6. /\ m_name' \in [Blocks -> [1..(NameSize + 1) -> Char]]
      /\ \A c \in Blocks : c # b => m_name'[c] = m_name[c]
      /\ CString(m_name'[b]) = n /\ Ended(m_name'[b])
  <2>1. m_name[b] \in [1..(NameSize + 1) -> Char] /\ Ended(m_name[b])
    BY <1>2, <1>4
  <2>2. PICK a : a = Strncpy(m_name[b], n)
    OBVIOUS
  <2>3. a \in [1..(NameSize + 1) -> Char] /\ Ended(a) /\ CString(a) = n
    BY <2>1, <2>2, NameWritten
  <2>4. m_name' = [m_name EXCEPT ![b] = a]
    BY <1>3, <2>2
  <2>5. QED
    BY <1>2, <1>4, <2>3, <2>4
<1>7. \A c \in Elems(list) : c \in Blocks /\ c # b /\ CString(m_name[c]) # n
  <2>1. Matches(n) = {}
    BY DEF SemOpenNew
  <2>2. \A k \in 1..Len(list) : CString(m_name[list[k]]) # n
    BY <2>1 DEF Matches
  <2>3. Elems(list) \subseteq Blocks
    BY DEF TableInv, Parted
  <2>4. QED
    BY <1>2, <2>2, <2>3 DEF Elems
<1>8. \A q \in Proc : at[q] # b
  BY <1>2, <1>4
<1>9. \A c, d \in Elems(list') : CString(m_name'[c]) = CString(m_name'[d]) => c = d
  BY <1>2, <1>4, <1>6, <1>7
<1>10. \A q \in Proc, m \in Name : handle'[q][m] # NULL =>
          handle'[q][m] \in Elems(list') /\ CString(m_name'[handle'[q][m]]) = m
  BY <1>2, <1>4, <1>5, <1>6, <1>7
<1>11. \A q \in Proc : at'[q] # NULL => \E m \in Name : handle'[q][m] = at'[q]
  BY <1>3, <1>4, <1>5
<1>12. \A c \in Blocks : Ended(m_name'[c])
  BY <1>4, <1>6
<1>13. NamesInv'
  BY <1>3, <1>4, <1>5, <1>6, <1>9, <1>10, <1>11, <1>12 DEF NamesInv, Ended
<1>14. QED
  BY <1>1, <1>8, <1>13

\* sem_unlink takes the name with it: nobody has a handle of that name any more.
LEMMA UnlinkStep ==
    ASSUME TableInv, NEW p \in Proc, NEW n \in Name, SemUnlink(p, n)
    PROVE  NamesInv'
<1>1. PICK b : b = FindSem(n)
  OBVIOUS
<1>2. /\ b \in Elems(list) /\ b \in Blocks /\ CString(m_name[b]) = n
      /\ FindPlace(n) \in 1..Len(list) /\ FindSem(n) = list[FindPlace(n)]
  BY <1>1, Found DEF TableInv, Parted, SemUnlink
<1>3. list' = RemoveAt(list, FindPlace(n)) /\ freeList' = <<list[FindPlace(n)]>> \o freeList
  BY <1>2 DEF SemUnlink
<1>4. Elems(list') = Elems(list) \ {b}
  BY <1>1, <1>2, <1>3, UnlinkParts DEF TableInv
<1>5. /\ handle' = [handle EXCEPT ![p][n] = NULL] /\ UNCHANGED <<m_name, at>> /\ at[p] = NULL
      /\ \A q \in Proc \ {p} : handle[q][n] = NULL
  BY DEF SemUnlink, kernelVars, K!InUserMode
<1>6. handle \in [Proc -> [Name -> Blocks \cup {NULL}]]
  BY DEF TableInv, NamesInv
<1>7. /\ handle' \in [Proc -> [Name -> Blocks \cup {NULL}]]
      /\ \A q \in Proc, m \in Name : handle'[q][m] = IF q = p /\ m = n THEN NULL ELSE handle[q][m]
  BY <1>5, <1>6
<1>8. \A q \in Proc, m \in Name : handle'[q][m] # NULL => m # n /\ handle'[q][m] = handle[q][m]
  BY <1>5, <1>7
<1>9. \A q \in Proc, m \in Name : handle'[q][m] # NULL =>
          handle'[q][m] \in Elems(list') /\ CString(m_name'[handle'[q][m]]) = m
  BY <1>2, <1>4, <1>5, <1>8 DEF TableInv, NamesInv
<1>10. \A q \in Proc : at'[q] # NULL => \E m \in Name : handle'[q][m] = at'[q]
  BY <1>5, <1>7 DEF TableInv, NamesInv
<1>11. QED
  BY <1>4, <1>5, <1>7, <1>9, <1>10 DEF TableInv, NamesInv

\* A process that forgets a handle is not inside sem_wait.
LEMMA ForgetStep ==
    ASSUME TableInv, NEW p \in Proc, NEW n \in Name, Forget(p, n)
    PROVE  NamesInv'
<1>1. /\ handle' = [handle EXCEPT ![p][n] = NULL] /\ UNCHANGED <<m_name, list, at>> /\ at[p] = NULL
  BY DEF Forget, kernelVars, K!InUserMode
<1>2. handle \in [Proc -> [Name -> Blocks \cup {NULL}]]
  BY DEF TableInv, NamesInv
<1>3. /\ handle' \in [Proc -> [Name -> Blocks \cup {NULL}]]
      /\ \A q \in Proc, m \in Name : handle'[q][m] = IF q = p /\ m = n THEN NULL ELSE handle[q][m]
  BY <1>1, <1>2
<1>4. QED
  BY <1>1, <1>3 DEF TableInv, NamesInv

\* A step that leaves the table alone and where a process only enters the sem_wait of a handle
\* of its own, or leaves it.
LEMMA AtStep ==
    ASSUME TableInv, UNCHANGED tableVars, NEW p \in Proc, NEW b \in Blocks \cup {NULL},
           at' = [at EXCEPT ![p] = b], b # NULL => \E n \in Name : handle[p][n] = b
    PROVE  NamesInv'
<1>1. /\ at' \in [Proc -> Blocks \cup {NULL}]
      /\ \A q \in Proc : at'[q] = IF q = p THEN b ELSE at[q]
  BY DEF TableInv, NamesInv
<1>2. QED
  BY <1>1 DEF TableInv, NamesInv, tableVars

\* The system calls on a handle, and the return from sleep_on.
LEMMA CallStep ==
    ASSUME TableInv, NEW p \in Proc, NEW n \in Name, SemWait(p, n) \/ SemPost(p, n) \/ Resume(p)
    PROVE  NamesInv'
<1>1. UNCHANGED tableVars
  BY DEF SemWait, SemPost, Resume
<1>2. /\ at \in [Proc -> Blocks \cup {NULL}] /\ handle \in [Proc -> [Name -> Blocks \cup {NULL}]]
      /\ at[p] \in Blocks \cup {NULL} /\ handle[p][n] \in Blocks \cup {NULL}
      /\ at = [at EXCEPT ![p] = at[p]]
  BY DEF TableInv, NamesInv
<1>3. \/ UNCHANGED at \/ at' = [at EXCEPT ![p] = NULL] \/ at' = [at EXCEPT ![p] = handle[p][n]]
  BY DEF SemWait, SemPost, Resume, K!SemWaitAcquire, K!SemWaitBlock, K!SemPost, K!Resume,
         K!ResumeAcquire, K!ResumeBlock
<1>4. CASE UNCHANGED at
  BY <1>1, <1>4 DEF TableInv, NamesInv, tableVars
<1>5. CASE at' = [at EXCEPT ![p] = NULL]
  BY <1>1, <1>5, AtStep
<1>6. CASE at' = [at EXCEPT ![p] = handle[p][n]]
  BY <1>1, <1>2, <1>6, AtStep
<1>7. QED
  BY <1>3, <1>4, <1>5, <1>6

----------------------------------------------------------------------------
\* The queues.

\* The constants are as the semaphores need them.
LEMMA KernelConstants == KP!NullAssumption /\ KP!BoundAssumption
BY TableAssumption DEF KP!NullAssumption, KP!BoundAssumption

\* Nobody waits at a block that is handed out again, so its queue is empty as sem_open leaves it.
LEMMA FreshSemaphore ==
    ASSUME KP!IInv, NEW b \in Blocks, NEW v \in 0..MaxValue, \A q \in Proc : at[q] # b,
           m_value' = [m_value EXCEPT ![b] = v], m_wait' = [m_wait EXCEPT ![b] = NULL],
           UNCHANGED <<state, tmp, at>>
    PROVE  KP!IInv'
<1>1. /\ m_wait \in [Blocks -> Proc \cup {NULL}] /\ m_value \in [Blocks -> 0..MaxValue]
  BY DEF KP!IInv, KP!TypeOK
<1>2. PICK below \in [Proc -> SUBSET Proc] : KP!Chains(below)
  BY DEF KP!IInv
<1>3. m_wait[b] = NULL
  BY <1>1, <1>2 DEF KP!Chains, KP!HeadOK
<1>4. m_wait' = m_wait
  BY <1>1, <1>3
<1>5. /\ m_value' \in [Blocks -> 0..MaxValue]
      /\ \A s \in Blocks : m_value'[s] = IF s = b THEN v ELSE m_value[s]
  BY <1>1
<1>6. KP!TypeOK' /\ KP!FramesOK' /\ KP!TmpInjective'
  BY <1>4, <1>5 DEF KP!IInv, KP!TypeOK, KP!FramesOK, KP!TmpInjective, KP!Sleeping
<1>7. KP!PositiveIsEmpty'
  BY <1>3, <1>4, <1>5 DEF KP!IInv, KP!PositiveIsEmpty
<1>8. KP!Chains(below)'
  BY <1>2, <1>4 DEF KP!Chains, KP!IsBelow, KP!ChainOK, KP!HeadOK, KP!Covered, KP!Sleeping
<1>9. QED
  BY <1>6, <1>7, <1>8 DEF KP!IInv

\* A system call on a handle is a step of the semaphores, and so keeps their invariant.
LEMMA KernelStep ==
    ASSUME TableInv, NEW p \in Proc, NEW n \in Name, SemWait(p, n) \/ SemPost(p, n) \/ Resume(p)
    PROVE  KP!IInv'
<1> USE DEF K!InUserMode, KP!InUserMode, K!WakeTmp, KP!WakeTmp, K!Enqueue, KP!Enqueue,
            K!WakeUp, KP!WakeUp, K!TASK_RUNNING, KP!TASK_RUNNING,
            K!TASK_UNINTERRUPTIBLE, KP!TASK_UNINTERRUPTIBLE
<1>1. ASSUME NEW s \in Blocks
      PROVE  /\ K!SemWaitAcquire(p, s) => KP!SemWaitAcquire(p, s)
             /\ K!SemWaitBlock(p, s) => KP!SemWaitBlock(p, s)
  BY ZenonT(30) DEF K!SemWaitAcquire, KP!SemWaitAcquire, K!SemWaitBlock, KP!SemWaitBlock
<1>2. ASSUME NEW s \in Blocks PROVE K!SemPost(p, s) => KP!SemPost(p, s)
  BY ZenonT(30) DEF K!SemPost, KP!SemPost
<1>3. K!Resume(p) => \E s \in Blocks : KP!ResumeAcquire(p, s) \/ KP!ResumeBlock(p, s)
  BY ZenonT(30) DEF K!Resume, K!ResumeAcquire, KP!ResumeAcquire, K!ResumeBlock, KP!ResumeBlock
<1>4. handle[p][n] # NULL => handle[p][n] \in Blocks
  BY DEF TableInv, NamesInv
<1>5. KP!Next
  BY <1>1, <1>2, <1>3, <1>4 DEF SemWait, SemPost, Resume, KP!Next
<1>6. QED
  BY <1>5, KP!IInvStep, KernelConstants DEF TableInv

\* At boot no name is in use.
LEMMA TableInvInit == TableInit => TableInv
<1>1. SUFFICES ASSUME TableInit PROVE TableInv
  OBVIOUS
<1>2. KP!Init
  <2>1. m_value \in [Blocks -> 0..MaxValue]
    BY <1>1, TableAssumption DEF TableInit
  <2>2. QED
    BY <1>1, <2>1 DEF TableInit, KP!Init, K!TASK_RUNNING, KP!TASK_RUNNING
<1>3. KP!IInv
  BY <1>2, KP!IInvInit, KernelConstants
<1>4. NUL \in Char
  BY DEF Char
<1>5. /\ m_name \in [Blocks -> [1..(NameSize + 1) -> Char]]
      /\ \A b \in Blocks : Ended(m_name[b])
  BY <1>1, <1>4 DEF TableInit, Ended
<1>6. Elems(list) = {} /\ at = [p \in Proc |-> NULL] /\ handle = [p \in Proc |-> [n \in Name |-> NULL]]
  BY <1>1, EmptySeq DEF TableInit, Elems
<1>7. NamesInv
  BY <1>5, <1>6 DEF NamesInv
<1>8. QED
  BY <1>1, <1>3, <1>7, PartedInit DEF TableInv

\* Every step keeps names, blocks and queues in order.
LEMMA TableInvStep == ASSUME OneLength PROVE TableInv /\ [TableNext]_allVars => TableInv'
<1>1. SUFFICES ASSUME TableInv, [TableNext]_allVars PROVE NamesInv' /\ KP!IInv'
  BY PartedStep DEF TableInv
<1>2. ASSUME UNCHANGED kernelVars PROVE KP!IInv'
  <2>1. UNCHANGED KP!vars
    BY <1>2 DEF kernelVars, KP!vars
  <2>2. QED
    BY <1>1, <2>1, KP!IInvStep, KernelConstants DEF TableInv
<1>3. CASE UNCHANGED allVars
  <2>1. NamesInv'
    BY <1>1, <1>3 DEF TableInv, NamesInv, allVars, kernelVars, tableVars
  <2>2. QED
    BY <1>2, <1>3, <2>1 DEF allVars
<1>4. ASSUME NEW p \in Proc, NEW n \in Name, SemOpenExisting(p, n) PROVE NamesInv' /\ KP!IInv'
  BY <1>1, <1>2, <1>4, OpenExistingStep DEF SemOpenExisting
<1>5. ASSUME NEW p \in Proc, NEW n \in Name, NEW v \in InitValue, SemOpenNew(p, n, v)
      PROVE  NamesInv' /\ KP!IInv'
  <2>1. NamesInv' /\ \A q \in Proc : at[q] # Head(freeList)
    BY <1>1, <1>5, OpenNewStep
  <2>2. PICK b : b = Head(freeList)
    OBVIOUS
  <2>3. b \in Blocks
    BY <1>1, <1>5, <2>2, OpenParts DEF TableInv, SemOpenNew
  <2>4. /\ m_value' = [m_value EXCEPT ![b] = v] /\ m_wait' = [m_wait EXCEPT ![b] = NULL]
        /\ UNCHANGED <<state, tmp, at>> /\ v \in 0..MaxValue
    BY <1>5, <2>2, TableAssumption DEF SemOpenNew
  <2>5. QED
    BY <1>1, <2>1, <2>2, <2>3, <2>4, FreshSemaphore DEF TableInv
<1>6. ASSUME NEW p \in Proc, NEW n \in Name, SemWait(p, n) \/ SemPost(p, n) PROVE NamesInv' /\ KP!IInv'
  BY <1>1, <1>6, CallStep, KernelStep
<1>7. ASSUME NEW p \in Proc, NEW n \in Name, Forget(p, n) PROVE NamesInv' /\ KP!IInv'
  BY <1>1, <1>2, <1>7, ForgetStep DEF Forget
<1>8. ASSUME NEW p \in Proc, NEW n \in Name, SemUnlink(p, n) PROVE NamesInv' /\ KP!IInv'
  BY <1>1, <1>2, <1>8, UnlinkStep DEF SemUnlink
<1>9. ASSUME NEW p \in Proc, Resume(p) PROVE NamesInv' /\ KP!IInv'
  <2>1. CASE Name # {}
    BY <1>1, <1>9, <2>1, CallStep, KernelStep
  <2>2. CASE Name = {}
    <3>1. at[p] = NULL
      BY <1>1, <2>2 DEF TableInv, NamesInv
    <3>2. FALSE
      BY <1>9, <3>1, TableAssumption DEF Resume, K!Resume, K!ResumeAcquire, K!ResumeBlock
    <3>3. QED
      BY <3>2
  <2>3. QED
    BY <2>1, <2>2
<1>10. QED
  BY <1>1, <1>3, <1>4, <1>5, <1>6, <1>7, <1>8, <1>9 DEF TableNext

\* The invariant holds in every state, for names of one length.
LEMMA TableInvCorrect == OneLength => (TableSpec => []TableInv)
<1>1. SUFFICES ASSUME OneLength PROVE TableSpec => []TableInv
  OBVIOUS
<1>2. TableInv /\ [TableNext]_allVars => TableInv'
  BY <1>1, TableInvStep
<1>3. QED
  BY <1>2, TableInvInit, PTL DEF TableSpec

\* Processes that open the same name get the same semaphore, however often blocks are freed and
\* handed out again with the leftovers of other names, as long as names have one length: the
\* strncpy of sem_open, which ends no string, leaves no trace then.
THEOREM SameName == OneLength => (TableSpec => []SameNameSameSemaphore)
<1>1. TableInv => SameNameSameSemaphore
  BY DEF TableInv, NamesInv, SameNameSameSemaphore
<1>2. QED
  BY <1>1, TableInvCorrect, PTL

\* A handle in use is never the block of a semaphore that sem_unlink removed, nor of another name.
THEOREM HandlesLive == OneLength => (TableSpec => []HandlesAreLive)
<1>1. TableInv => HandlesAreLive
  <2>1. SUFFICES ASSUME TableInv PROVE HandlesAreLive
    OBVIOUS
  <2>2. Range(list) = Elems(list)
    BY <2>1, LenProperties DEF TableInv, Parted, Range, Elems
  <2>3. QED
    BY <2>1, <2>2 DEF TableInv, NamesInv, HandlesAreLive
<1>2. QED
  BY <1>1, TableInvCorrect, PTL

\* The wake-ups survive recycling: sem_open resets the queue of the block it fills in, and nobody
\* is ever suspended in it, since a sleeper holds a handle of a linked block.
THEOREM WakeupsRecycled == OneLength => (TableSpec => []RecycledWakeups)
<1>1. TableInv => RecycledWakeups
  <2>1. SUFFICES ASSUME TableInv PROVE RecycledWakeups
    OBVIOUS
  <2>2. KP!NoLostWakeup /\ KP!SleeperReferencedOnce
    BY <2>1, KP!WakeupsLemma, KP!PointersLemma, KernelConstants DEF TableInv
  <2>3. K!NoLostWakeup
    BY <2>2, ZenonT(30) DEF KP!NoLostWakeup, K!NoLostWakeup, KP!Sleeping, K!Sleeping, K!TASK_RUNNING,
       KP!TASK_RUNNING, K!TASK_UNINTERRUPTIBLE, KP!TASK_UNINTERRUPTIBLE
  <2>4. K!SleeperReferencedOnce
    BY <2>2, ZenonT(30) DEF KP!SleeperReferencedOnce, K!SleeperReferencedOnce, KP!Sleeping, K!Sleeping,
       K!TASK_UNINTERRUPTIBLE, KP!TASK_UNINTERRUPTIBLE
  <2>5. QED
    BY <2>3, <2>4 DEF RecycledWakeups
<1>2. QED
  BY <1>1, TableInvCorrect, PTL
=============================================================================
