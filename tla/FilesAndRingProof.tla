--------------------------- MODULE FilesAndRingProof ---------------------------
(****************************************************************************)
(* Proofs about two systems, which share nothing but this module.           *)
(*                                                                          *)
(* Files: link counts and reference counts are exact and the directories    *)
(* form a tree, for any number of inodes, blocks, processes and paths; and  *)
(* a lone reader of /proc sees one text.                                    *)
(*                                                                          *)
(* Ring: the producer and the consumer of Lab 6, on semaphores and on one   *)
(* shared page, hand over every item in order, and no program waits on a    *)
(* semaphore whose name is gone, for any size of the ring and any number of *)
(* items, pages and failures.                                               *)
(****************************************************************************)
EXTENDS ProcFile, SharedRing, TLAPS, FiniteSetTheorems, SequenceTheorems,
        WellFoundedInduction

-----------------------------------------------------------------------------
\* FILES.

Kinds == {"free", "dir", "reg", "proc"}
Name == {"", ".", ".."} \cup {q.base : q \in Paths \cup NewPaths}
Slot == Name \X (0..NInodes)
Inodes == [kind : [Ino -> Kinds], nlinks : [Ino -> Nat], count : [Ino -> Nat],
           ent : [Ino -> Seq(Slot)], zone : [Ino -> Nat]]

\* What follows is about Q, L and E: kinds, links and entries of the inodes.

Dirs(Q) == {i \in Ino : Q[i] = "dir"}
Up(E, d) == E[d][2][2]

\* An entry beside "." and "..".
Names(Q, s) == s[1] \notin {"", ".", ".."} /\ s[2] \in Ino /\ Q[s[2]] # "free"

DirOK(Q, E, d) ==
    /\ Len(E[d]) >= 2
    /\ E[d][1] = <<".", d>>
    /\ E[d][2][1] = ".." /\ Up(E, d) \in Dirs(Q)
    /\ \A k \in 3..Len(E[d]) : E[d][k] = Hole \/ Names(Q, E[d][k])
    /\ \A j, k \in 1..Len(E[d]) : E[d][j][1] = E[d][k][1] /\ E[d][j] # Hole => j = k

\* A directory is named once, by its parent, and the root is not.
Parents(D, E) ==
    /\ Root \in D /\ Up(E, Root) = Root
    /\ \A c \in D : \A k \in 3..Len(E[c]) : E[c][k][2] # Root
    /\ \A d \in D \ {Root} : \E k \in 3..Len(E[Up(E, d)]) : E[Up(E, d)][k][2] = d
    /\ \A b, c \in D : \A j \in 3..Len(E[b]), k \in 3..Len(E[c]) :
          E[b][j][2] \in D /\ E[c][k][2] = E[b][j][2] => b = c /\ j = k

NoCircle(D, E) == \A C \in SUBSET (D \ {Root}) :
                     C # {} => \E c \in C : Up(E, c) \notin C

Tree(Q, E) == /\ Q \in [Ino -> Kinds] /\ E \in [Ino -> Seq(Slot)]
              /\ \A i \in Ino : Q[i] # "dir" => E[i] = <<>>
              /\ \A d \in Dirs(Q) : DirOK(Q, E, d)
              /\ Parents(Dirs(Q), E)
              /\ NoCircle(Dirs(Q), E)

\* The places of the entries for inode i, and that their number is known.
At(E, i) == {e \in Ino \X Nat : e[2] \in 1..Len(E[e[1]]) /\ E[e[1]][e[2]][2] = i}
Links(L, E) == /\ L \in [Ino -> Nat]
               /\ \A i \in Ino : IsFiniteSet(At(E, i)) /\ L[i] = Cardinality(At(E, i))

----------------------------------------------------------------------------
\* Entries.

LEMMA Typing ==
    /\ Hole \in Slot /\ Hole[1] = "" /\ Hole[2] = 0 /\ 0 \notin Ino /\ Root \in Ino
    /\ {"", ".", ".."} \subseteq Name
    /\ \A n \in Name, i \in Ino : <<n, i>> \in Slot
<1>1. 0 \notin Ino /\ Root \in Ino /\ Ino \subseteq 0..NInodes /\ 0 \in 0..NInodes
  BY FileSystemAssumption DEF Ino, Root
<1>2. {"", ".", ".."} \subseteq Name
  BY DEF Name
<1>3. Hole[1] = "" /\ Hole[2] = 0
  BY DEF Hole
<1>4. Hole \in Slot
  BY <1>1, <1>2, Zenon DEF Hole, Slot
<1>5. \A n \in Name, i \in Ino : <<n, i>> \in Slot
  BY <1>1 DEF Slot
<1> QED  BY <1>1, <1>2, <1>3, <1>4, <1>5, Zenon

\* One entry of directory d is set to s.
Set1(E, F, d, ix, s) ==
    /\ F \in [Ino -> Seq(Slot)]
    /\ \A c \in Ino \ {d} : F[c] = E[c]
    /\ Len(F[d]) = Len(E[d])
    /\ \A k \in 1..Len(E[d]) : F[d][k] = IF k = ix THEN s ELSE E[d][k]

Same(S, T) == S = T
\* Set T is S and one element more.
Adds(S, T, e) == T = S \cup {e} /\ e \notin S

LEMMA AddsCard ==
    ASSUME NEW S, NEW T, NEW e, Adds(S, T, e)
    PROVE  /\ IsFiniteSet(S) <=> IsFiniteSet(T)
           /\ IsFiniteSet(S) => Cardinality(T) = Cardinality(S) + 1
           /\ IsFiniteSet(T) => Cardinality(S) = Cardinality(T) - 1
<1>1. T = S \cup {e} /\ S = T \ {e} /\ e \in T /\ e \notin S
  BY DEF Adds
<1>2. ASSUME IsFiniteSet(S) PROVE IsFiniteSet(T) /\ Cardinality(T) = Cardinality(S) + 1
  BY ONLY <1>1, <1>2, FS_AddElement
<1>3. ASSUME IsFiniteSet(T) PROVE IsFiniteSet(S) /\ Cardinality(S) = Cardinality(T) - 1
  BY ONLY <1>1, <1>3, FS_RemoveElement
<1> QED  BY <1>2, <1>3

\* A hole may have been added to directory d.
Grown(E, F, d) == /\ F \in [Ino -> Seq(Slot)]
                  /\ \A c \in Ino \ {d} : F[c] = E[c]
                  /\ F[d] \in {E[d], Append(E[d], Hole)}

LEMMA Set1At ==
    ASSUME NEW E, E \in [Ino -> Seq(Slot)], NEW F, NEW d \in Ino, NEW ix \in 1..Len(E[d]),
           NEW s, Set1(E, F, d, ix, s), NEW i \in Ino
    PROVE  /\ E[d][ix][2] # i /\ s[2] # i => Same(At(E, i), At(F, i))
           /\ E[d][ix][2] # i /\ s[2] = i => Adds(At(E, i), At(F, i), <<d, ix>>)
           /\ E[d][ix][2] = i /\ s[2] # i => Adds(At(F, i), At(E, i), <<d, ix>>)
<1>1. ix \in Nat /\ <<d, ix>> \in Ino \X Nat
  OBVIOUS
<1>2. ASSUME NEW e \in Ino \X Nat, e # <<d, ix>> PROVE e \in At(F, i) <=> e \in At(E, i)
  <2>1. PICK c \in Ino, k \in Nat : e = <<c, k>>
    BY <1>2
  <2>2. CASE c # d
    BY <2>1, <2>2 DEF Set1, At
  <2>3. CASE c = d
    <3>1. k # ix
      BY <1>2, <2>1, <2>3
    <3> QED  BY <2>1, <2>3, <3>1 DEF Set1, At
  <2> QED  BY <2>2, <2>3
<1>3. <<d, ix>> \in At(F, i) <=> s[2] = i
  BY <1>1 DEF Set1, At
<1>4. <<d, ix>> \in At(E, i) <=> E[d][ix][2] = i
  BY <1>1 DEF At
<1>5. At(E, i) \subseteq Ino \X Nat /\ At(F, i) \subseteq Ino \X Nat
  BY DEF At
<1>6. ASSUME E[d][ix][2] # i, s[2] # i PROVE At(F, i) = At(E, i)
  <2>1. ASSUME NEW e \in Ino \X Nat PROVE e \in At(F, i) <=> e \in At(E, i)
    <3>1. CASE e = <<d, ix>>
      BY <1>3, <1>4, <1>6, <3>1
    <3>2. CASE e # <<d, ix>>
      BY <1>2, <3>2
    <3> QED  BY <3>1, <3>2
  <2> QED  BY <1>5, <2>1
<1>7. ASSUME E[d][ix][2] # i, s[2] = i PROVE At(F, i) = At(E, i) \cup {<<d, ix>>}
  BY <1>1, <1>2, <1>3, <1>5, <1>7
<1>8. ASSUME E[d][ix][2] = i, s[2] # i PROVE At(E, i) = At(F, i) \cup {<<d, ix>>}
  BY <1>1, <1>2, <1>4, <1>5, <1>8
<1> QED  BY <1>3, <1>4, <1>6, <1>7, <1>8 DEF Adds, Same

\* A hole at the end.
LEMMA Append1 ==
    ASSUME NEW s \in Seq(Slot), NEW n, n = Len(s), NEW t, t = Append(s, Hole)
    PROVE  /\ n \in Nat /\ t \in Seq(Slot) /\ Len(t) = n + 1 /\ t[n + 1] = Hole
           /\ \A k \in 1..n : t[k] = s[k]
<1>1. PICK h \in Slot : h = Hole
  BY Typing, Zenon
<1>2. t = Append(s, h) /\ n = Len(s)
  BY <1>1
<1> QED  BY <1>1, <1>2, AppendProperties

LEMMA GrownAt ==
    ASSUME NEW E, E \in [Ino -> Seq(Slot)], NEW F, NEW d \in Ino, Grown(E, F, d), NEW i \in Ino
    PROVE  At(F, i) = At(E, i)
<1>1. CASE F[d] = E[d]
  BY <1>1 DEF Grown, At
<1>2. CASE F[d] = Append(E[d], Hole)
  <2>1. PICK n \in Nat : n = Len(E[d])
    OBVIOUS
  <2>2. /\ Len(F[d]) = n + 1 /\ F[d][n + 1][2] # i
        /\ \A k \in 1..n : F[d][k] = E[d][k]
    <3>1. E[d] \in Seq(Slot) /\ i # 0 /\ Hole[2] = 0
      BY Typing, Zenon
    <3> QED  BY <1>2, <2>1, <3>1, Append1
  <2>3. ASSUME NEW c \in Ino, NEW k \in Nat
        PROVE  k \in 1..Len(F[c]) /\ F[c][k][2] = i <=> k \in 1..Len(E[c]) /\ E[c][k][2] = i
    <3>1. CASE c # d
      BY <3>1 DEF Grown
    <3>2. CASE c = d
      BY <2>1, <2>2, <3>2
    <3> QED  BY <3>1, <3>2
  <2> QED  BY <2>3 DEF At
<1> QED  BY <1>1, <1>2 DEF Grown

\* With a hole more nothing else changes.
LEMMA GrownTree ==
    ASSUME NEW Q, NEW E, Tree(Q, E), NEW F, NEW d \in Dirs(Q), Grown(E, F, d)
    PROVE  Tree(Q, F)
<1>1. d \in Ino /\ E \in [Ino -> Seq(Slot)]
  BY DEF Dirs, Tree
<1>2. PICK n \in Nat : n = Len(E[d])
  BY <1>1
<1>3. ASSUME F[d] # E[d]
      PROVE  Len(F[d]) = n + 1 /\ F[d][n + 1] = Hole /\ \A k \in 1..n : F[d][k] = E[d][k]
  <2>1. F[d] = Append(E[d], Hole) /\ E[d] \in Seq(Slot)
    BY <1>1, <1>3 DEF Grown
  <2> QED  BY <1>2, <2>1, Append1
<1>4. n >= 2
  BY <1>2 DEF Tree, DirOK
<1>5. ASSUME NEW c \in Ino
      PROVE  /\ Len(F[c]) \in Nat /\ Len(E[c]) \in Nat
             /\ \A k \in 1..Len(E[c]) : F[c][k] = E[c][k]
             /\ Len(E[c]) <= Len(F[c])
             /\ \A k \in 1..Len(F[c]) : k \in 1..Len(E[c]) \/ F[c][k] = Hole
             /\ c # d => F[c] = E[c]
  <2>1. CASE F[c] = E[c]
    BY <1>1, <2>1
  <2>2. CASE F[c] # E[c]
    <3>1. c = d
      BY <2>2 DEF Grown
    <3> QED  BY <1>2, <1>3, <2>2, <3>1
  <2> QED  BY <2>1, <2>2
<1>6. ASSUME NEW c \in Dirs(Q)
      PROVE  Up(F, c) = Up(E, c) /\ F[c][1] = E[c][1] /\ F[c][2] = E[c][2]
  <2>1. c \in Ino /\ Len(E[c]) >= 2 /\ Len(E[c]) \in Nat
    BY <1>1 DEF Dirs, Tree, DirOK
  <2> QED  BY <1>5, <2>1 DEF Up
<1>7. ASSUME NEW c \in Dirs(Q) PROVE DirOK(Q, F, c)
  <2>0. c \in Ino /\ DirOK(Q, E, c)
    BY DEF Dirs, Tree
  <2>1. Len(F[c]) >= 2 /\ F[c][1] = <<".", c>> /\ F[c][2][1] = ".." /\ Up(F, c) \in Dirs(Q)
    BY <1>5, <1>6, <2>0 DEF DirOK
  <2>2. \A k \in 3..Len(F[c]) : F[c][k] = Hole \/ Names(Q, F[c][k])
    BY <1>5, <2>0 DEF DirOK
  <2>3. ASSUME NEW j \in 1..Len(F[c]), NEW k \in 1..Len(F[c]),
               F[c][j][1] = F[c][k][1], F[c][j] # Hole
        PROVE  j = k
    <3>1. j \in 1..Len(E[c]) /\ F[c][j] = E[c][j]
      BY <1>5, <2>0, <2>3
    <3>2. E[c][j][1] # ""
      <4>1. CASE j = 1
        <5>1. E[c][j] = <<".", c>>
          BY <2>0, <4>1 DEF DirOK
        <5> QED  BY <5>1
      <4>2. CASE j = 2
        <5>1. E[c][j][1] = ".."
          BY <2>0, <4>2 DEF DirOK
        <5> QED  BY <5>1
      <4>3. CASE j # 1 /\ j # 2
        <5>1. j \in 3..Len(E[c])
          BY <3>1, <4>3
        <5> QED  BY <2>0, <2>3, <3>1, <5>1, Zenon DEF DirOK, Names
      <4> QED  BY <4>1, <4>2, <4>3, Zenon
    <3>3. F[c][k] # Hole
      BY <2>3, <3>1, <3>2, Typing, Zenon
    <3>4. k \in 1..Len(E[c]) /\ F[c][k] = E[c][k]
      BY <1>5, <2>0, <3>3
    <3> QED  BY <2>0, <2>3, <3>1, <3>4 DEF DirOK
  <2> QED  BY <2>1, <2>2, <2>3 DEF DirOK
<1>8. Parents(Dirs(Q), F)
  <2>0. Parents(Dirs(Q), E) /\ Dirs(Q) \subseteq Ino
    BY DEF Tree, Dirs
  <2>1. Root \in Dirs(Q) /\ Up(F, Root) = Root
    BY <1>6, <2>0 DEF Parents
  <2>2. \A c \in Dirs(Q) : \A k \in 3..Len(F[c]) : F[c][k][2] # Root
    <3> SUFFICES ASSUME NEW c \in Dirs(Q), NEW k \in 3..Len(F[c]) PROVE F[c][k][2] # Root
      OBVIOUS
    <3>1. CASE F[c][k] = Hole
      BY <3>1, Typing, Zenon
    <3>2. CASE F[c][k] # Hole
      <4>1. k \in 3..Len(E[c]) /\ F[c][k] = E[c][k]
        BY <1>5, <2>0, <3>2
      <4> QED  BY <2>0, <4>1 DEF Parents
    <3> QED  BY <3>1, <3>2
  <2>3. ASSUME NEW c \in Dirs(Q) \ {Root}
        PROVE  \E k \in 3..Len(F[Up(F, c)]) : F[Up(F, c)][k][2] = c
    <3>1. PICK k \in 3..Len(E[Up(E, c)]) : E[Up(E, c)][k][2] = c
      BY <2>0 DEF Parents
    <3>2. Up(F, c) = Up(E, c) /\ Up(E, c) \in Ino
      BY <1>6, <2>0 DEF Tree, DirOK
    <3> QED  BY <1>5, <3>1, <3>2
  <2>4. ASSUME NEW b \in Dirs(Q), NEW c \in Dirs(Q), NEW j \in 3..Len(F[b]),
               NEW k \in 3..Len(F[c]), F[b][j][2] \in Dirs(Q), F[c][k][2] = F[b][j][2]
        PROVE  b = c /\ j = k
    <3>1. F[b][j][2] # 0
      BY <2>0, <2>4, Typing, Zenon
    <3>2. F[b][j] # Hole /\ F[c][k] # Hole
      BY <2>4, <3>1, Typing, Zenon
    <3>3. /\ j \in 3..Len(E[b]) /\ F[b][j] = E[b][j]
          /\ k \in 3..Len(E[c]) /\ F[c][k] = E[c][k]
      BY <1>5, <2>0, <3>2
    <3> QED  BY <2>0, <2>4, <3>3 DEF Parents
  <2>5. \A b, c \in Dirs(Q) : \A j \in 3..Len(F[b]), k \in 3..Len(F[c]) :
           F[b][j][2] \in Dirs(Q) /\ F[c][k][2] = F[b][j][2] => b = c /\ j = k
    BY <2>4
  <2>6. \A c \in Dirs(Q) \ {Root} : \E k \in 3..Len(F[Up(F, c)]) : F[Up(F, c)][k][2] = c
    BY <2>3
  <2> QED  BY <2>1, <2>2, <2>5, <2>6 DEF Parents
<1>9. NoCircle(Dirs(Q), F)
  BY <1>6 DEF NoCircle, Tree
<1> QED  BY <1>5, <1>7, <1>8, <1>9 DEF Tree, Grown, Dirs

LEMMA Named ==
    ASSUME NEW Q, NEW E, NEW c, DirOK(Q, E, c), NEW j \in 1..Len(E[c]), Len(E[c]) \in Nat,
           E[c][j] # Hole
    PROVE  E[c][j][1] # ""
<1>1. CASE j = 1
  <2>1. E[c][j] = <<".", c>>
    BY <1>1 DEF DirOK
  <2> QED  BY <2>1
<1>2. CASE j = 2
  <2>1. E[c][j][1] = ".."
    BY <1>2 DEF DirOK
  <2> QED  BY <2>1
<1>3. CASE j # 1 /\ j # 2
  <2>1. j \in 3..Len(E[c])
    BY <1>3
  <2> QED  BY <2>1, Zenon DEF DirOK, Names
<1> QED  BY <1>1, <1>2, <1>3, Zenon

\* An entry of a file that is not a directory comes or goes.
LEMMA Set1Tree ==
    ASSUME NEW Q, NEW E, Tree(Q, E), NEW F, NEW d \in Dirs(Q), NEW ix \in 3..Len(E[d]),
           NEW s \in Slot, Set1(E, F, d, ix, s),
           E[d][ix][2] \notin Dirs(Q), s[2] \notin Dirs(Q),
           s = Hole \/ (Names(Q, s) /\ \A k \in 1..Len(E[d]) : E[d][k][1] # s[1])
    PROVE  Tree(Q, F)
<1>1. /\ d \in Ino /\ Dirs(Q) \subseteq Ino /\ E \in [Ino -> Seq(Slot)]
      /\ F \in [Ino -> Seq(Slot)]
  BY DEF Dirs, Tree, Set1
<1>2. ASSUME NEW c \in Ino
      PROVE  /\ Len(F[c]) = Len(E[c]) /\ Len(E[c]) \in Nat
             /\ c # d => F[c] = E[c]
             /\ \A k \in 1..Len(E[c]) : (c = d /\ k = ix) \/ F[c][k] = E[c][k]
  BY <1>1 DEF Set1
<1>3. F[d][ix] = s /\ ix \in 1..Len(E[d]) /\ ix >= 3
  BY <1>1 DEF Set1
<1>4. ASSUME NEW c \in Dirs(Q)
      PROVE  Up(F, c) = Up(E, c) /\ F[c][1] = E[c][1] /\ F[c][2] = E[c][2]
  <2>1. c \in Ino /\ Len(E[c]) >= 2 /\ Len(E[c]) \in Nat
    BY <1>1 DEF Tree, DirOK
  <2> QED  BY <1>2, <1>3, <2>1 DEF Up
<1>5. ASSUME NEW c \in Dirs(Q) PROVE DirOK(Q, F, c)
  <2>0. c \in Ino /\ DirOK(Q, E, c)
    BY DEF Dirs, Tree
  <2>1. Len(F[c]) >= 2 /\ F[c][1] = <<".", c>> /\ F[c][2][1] = ".." /\ Up(F, c) \in Dirs(Q)
    BY <1>2, <1>4, <2>0 DEF DirOK
  <2>2. \A k \in 3..Len(F[c]) : F[c][k] = Hole \/ Names(Q, F[c][k])
    BY <1>2, <1>3, <2>0 DEF DirOK
  <2>3. ASSUME NEW j \in 1..Len(F[c]), NEW k \in 1..Len(F[c]),
               F[c][j][1] = F[c][k][1], F[c][j] # Hole
        PROVE  j = k
    <3>0. j \in 1..Len(E[c]) /\ k \in 1..Len(E[c])
      BY <1>2, <2>0
    <3>1. CASE c = d /\ j = ix /\ k # ix
      BY <1>2, <1>3, <2>0, <2>3, <3>0, <3>1
    <3>2. CASE c = d /\ j # ix /\ k = ix
      <4>1. F[c][j] = E[c][j] /\ F[c][k] = s
        BY <1>2, <1>3, <2>0, <3>0, <3>2
      <4>2. E[c][j][1] # ""
        <5>1. DirOK(Q, E, c) /\ E[c][j] # Hole /\ Len(E[c]) \in Nat
          BY <1>2, <2>0, <2>3, <4>1
        <5> QED  BY <3>0, <5>1, Named, Zenon
      <4> QED  BY <2>3, <3>0, <3>2, <4>1, <4>2, Typing, Zenon
    <3>3. CASE F[c][j] = E[c][j] /\ F[c][k] = E[c][k]
      BY <2>0, <2>3, <3>0, <3>3 DEF DirOK
    <3> QED  BY <1>2, <2>0, <3>0, <3>1, <3>2, <3>3
  <2> QED  BY <2>1, <2>2, <2>3 DEF DirOK
<1>6. Parents(Dirs(Q), F)
  <2>0. Parents(Dirs(Q), E)
    BY DEF Tree
  <2>1. Root \in Dirs(Q) /\ Up(F, Root) = Root
    BY <1>4, <2>0 DEF Parents
  <2>2. ASSUME NEW b \in Dirs(Q), NEW j \in 3..Len(F[b]), F[b][j][2] \in Dirs(Q)
        PROVE  j \in 3..Len(E[b]) /\ F[b][j] = E[b][j]
    <3>1. j \in 3..Len(E[b]) /\ j \in 1..Len(E[b])
      BY <1>1, <1>2
    <3>2. CASE b = d /\ j = ix
      <4>1. F[b][j] = s
        BY <1>3, <3>2
      <4> QED  BY <2>2, <4>1
    <3>3. CASE ~(b = d /\ j = ix)
      <4>1. b \in Ino
        BY <1>1
      <4> QED  BY <1>2, <3>1, <3>3, <4>1
    <3> QED  BY <3>2, <3>3
  <2>3. ASSUME NEW c \in Dirs(Q), NEW k \in 3..Len(F[c]) PROVE F[c][k][2] # Root
    <3>1. CASE F[c][k][2] \in Dirs(Q)
      <4>1. k \in 3..Len(E[c]) /\ F[c][k] = E[c][k]
        BY ONLY <2>2, <3>1, c \in Dirs(Q), k \in 3..Len(F[c]), Zenon
      <4>2. E[c][k][2] # Root
        BY ONLY <2>0, <4>1, c \in Dirs(Q), Zenon DEF Parents
      <4> QED  BY <4>1, <4>2
    <3>2. CASE F[c][k][2] \notin Dirs(Q)
      BY <2>1, <3>2
    <3> QED  BY <3>1, <3>2
  <2>4. ASSUME NEW c \in Dirs(Q) \ {Root}
        PROVE  \E k \in 3..Len(F[Up(F, c)]) : F[Up(F, c)][k][2] = c
    <3>1. PICK k \in 3..Len(E[Up(E, c)]) : E[Up(E, c)][k][2] = c
      BY <2>0 DEF Parents
    <3>2. PICK u \in Ino : u = Up(E, c) /\ u = Up(F, c)
      BY <1>1, <1>4 DEF Tree, DirOK
    <3>3. k \in 3..Len(F[u]) /\ F[u][k] = E[u][k]
      BY <1>2, <3>1, <3>2
    <3> QED  BY <3>1, <3>2, <3>3
  <2>5. ASSUME NEW b \in Dirs(Q), NEW c \in Dirs(Q), NEW j \in 3..Len(F[b]),
               NEW k \in 3..Len(F[c]), F[b][j][2] \in Dirs(Q), F[c][k][2] = F[b][j][2]
        PROVE  b = c /\ j = k
    <3>1. /\ j \in 3..Len(E[b]) /\ F[b][j] = E[b][j]
          /\ k \in 3..Len(E[c]) /\ F[c][k] = E[c][k]
      BY <2>2, <2>5
    <3> QED  BY <2>0, <2>5, <3>1 DEF Parents
  <2>6. \A b, c \in Dirs(Q) : \A j \in 3..Len(F[b]), k \in 3..Len(F[c]) :
           F[b][j][2] \in Dirs(Q) /\ F[c][k][2] = F[b][j][2] => b = c /\ j = k
    BY <2>5
  <2>7. \A c \in Dirs(Q) \ {Root} : \E k \in 3..Len(F[Up(F, c)]) : F[Up(F, c)][k][2] = c
    BY <2>4
  <2> QED  BY <2>1, <2>3, <2>6, <2>7 DEF Parents
<1>7. NoCircle(Dirs(Q), F)
  BY <1>4 DEF NoCircle, Tree
<1> QED  BY <1>1, <1>2, <1>5, <1>6, <1>7 DEF Tree

\* An inode without entries is taken for a file, or freed.
LEMMA KindTree ==
    ASSUME NEW Q, NEW E, Tree(Q, E), NEW i \in Ino, Q[i] # "dir", At(E, i) = {},
           NEW x \in Kinds \ {"dir"}, NEW J, J = [Q EXCEPT ![i] = x]
    PROVE  Tree(J, E) /\ Dirs(J) = Dirs(Q)
<1>1. /\ J \in [Ino -> Kinds] /\ Dirs(J) = Dirs(Q) /\ \A j \in Ino \ {i} : J[j] = Q[j]
      /\ E \in [Ino -> Seq(Slot)] /\ \A j \in Ino : J[j] = "dir" <=> Q[j] = "dir"
  BY DEF Tree, Dirs
<1>2. ASSUME NEW d \in Dirs(Q) PROVE DirOK(J, E, d)
  <2>1. d \in Ino /\ DirOK(Q, E, d)
    BY DEF Dirs, Tree
  <2>2. ASSUME NEW k \in 3..Len(E[d]), Names(Q, E[d][k]) PROVE Names(J, E[d][k])
    <3>1. <<d, k>> \in Ino \X Nat /\ k \in 1..Len(E[d])
      BY <1>1, <2>1
    <3>2. E[d][k][2] # i
      BY <3>1 DEF At
    <3> QED  BY <1>1, <2>2, <3>2, Zenon DEF Names
  <2>3. /\ Len(E[d]) >= 2 /\ E[d][1] = <<".", d>> /\ E[d][2][1] = ".." /\ Up(E, d) \in Dirs(J)
        /\ \A j, k \in 1..Len(E[d]) : E[d][j][1] = E[d][k][1] /\ E[d][j] # Hole => j = k
    BY <1>1, <2>1 DEF DirOK
  <2>4. \A k \in 3..Len(E[d]) : E[d][k] = Hole \/ Names(J, E[d][k])
    BY <2>1, <2>2 DEF DirOK
  <2> QED  BY <2>3, <2>4 DEF DirOK
<1>3. Parents(Dirs(J), E) /\ NoCircle(Dirs(J), E)
  <2>1. Parents(Dirs(Q), E) /\ NoCircle(Dirs(Q), E)
    BY DEF Tree
  <2>2. Dirs(J) = Dirs(Q)
    BY <1>1
  <2> QED  BY <2>1, <2>2
<1> QED  BY <1>1, <1>2, <1>3 DEF Tree

Proper(name) == name \in Name /\ name \notin {"", ".", ".."}
Fresh(E, d, name) == \A k \in 1..Len(E[d]) : E[d][k][1] # name
Dotted(E, G, i, d) == G[i] = Dots(i, d) /\ \A c \in Ino \ {i} : G[c] = E[c]

\* A new directory i, named by entry ix of its parent d.  G: with "." and "..".
LEMMA MkdirTree ==
    ASSUME NEW Q, NEW E, Tree(Q, E), NEW i \in Ino, Q[i] = "free", At(E, i) = {},
           NEW d \in Dirs(Q), NEW ix \in 3..Len(E[d]), E[d][ix] = Hole,
           NEW name, Proper(name), Fresh(E, d, name),
           NEW J, J = [Q EXCEPT ![i] = "dir"], NEW G, Dotted(E, G, i, d),
           NEW F, Set1(G, F, d, ix, <<name, i>>)
    PROVE  Tree(J, F)
<1>1. /\ d \in Ino /\ d # i /\ E \in [Ino -> Seq(Slot)] /\ F \in [Ino -> Seq(Slot)]
      /\ J \in [Ino -> Kinds] /\ Dirs(J) = Dirs(Q) \cup {i} /\ i \notin Dirs(Q)
      /\ \A j \in Ino \ {i} : J[j] = Q[j]
      /\ Dirs(Q) \subseteq Ino /\ J[i] = "dir" /\ i # Root /\ Root \in Dirs(Q)
  <2>1. Q \in [Ino -> Kinds] /\ E \in [Ino -> Seq(Slot)] /\ Root \in Dirs(Q)
    BY DEF Tree, Parents
  <2>2. d \in Ino /\ d # i /\ Dirs(Q) \subseteq Ino /\ i \notin Dirs(Q)
    BY DEF Dirs
  <2>3. J \in [Ino -> Kinds] /\ J[i] = "dir" /\ \A j \in Ino \ {i} : J[j] = Q[j]
    BY <2>1 DEF Kinds
  <2>4. Dirs(J) = Dirs(Q) \cup {i}
    BY <2>3 DEF Dirs
  <2>5. F \in [Ino -> Seq(Slot)]
    BY DEF Set1
  <2> QED  BY <2>1, <2>2, <2>3, <2>4, <2>5
<1>2. /\ Len(F[i]) = 2 /\ F[i][1] = <<".", i>> /\ F[i][2] = <<"..", d>> /\ Up(F, i) = d
      /\ F[i][1][1] = "." /\ F[i][2][1] = ".."
  <2>1. F[i] = Dots(i, d)
    BY <1>1 DEF Set1, Dotted
  <2> QED  BY <2>1 DEF Dots, Up
<1>3. ASSUME NEW c \in Ino \ {i}
      PROVE  /\ Len(F[c]) = Len(E[c]) /\ Len(E[c]) \in Nat
             /\ c # d => F[c] = E[c]
             /\ \A k \in 1..Len(E[c]) : (c = d /\ k = ix) \/ F[c][k] = E[c][k]
  <2>1. G[c] = E[c] /\ E[c] \in Seq(Slot)
    BY <1>1 DEF Dotted
  <2>2. CASE c = d
    BY <2>1, <2>2 DEF Set1
  <2>3. CASE c # d
    BY <2>1, <2>3 DEF Set1
  <2> QED  BY <2>2, <2>3
<1>4. F[d][ix] = <<name, i>> /\ ix \in 1..Len(E[d]) /\ ix >= 3 /\ F[d][ix][1] = name
      /\ F[d][ix][2] = i
  <2>1. G[d] = E[d] /\ Len(E[d]) \in Nat /\ ix \in 1..Len(E[d]) /\ ix >= 3
    BY <1>1 DEF Dotted
  <2>2. F[d][ix] = <<name, i>>
    BY <2>1 DEF Set1
  <2> QED  BY <2>1, <2>2
<1>5. ASSUME NEW c \in Dirs(Q)
      PROVE  Up(F, c) = Up(E, c) /\ F[c][1] = E[c][1] /\ F[c][2] = E[c][2]
  <2>1. c \in Ino \ {i} /\ Len(E[c]) >= 2 /\ Len(E[c]) \in Nat
    <3>1. DirOK(Q, E, c)
      BY DEF Tree
    <3> QED  BY <1>1, <3>1 DEF DirOK
  <2>2. c # d => F[c] = E[c]
    BY <1>3, <2>1
  <2>3. 1 \in 1..Len(E[c]) /\ 2 \in 1..Len(E[c]) /\ ix # 1 /\ ix # 2
    BY <1>4, <2>1
  <2>4. F[c][1] = E[c][1] /\ F[c][2] = E[c][2]
    BY <1>3, <2>1, <2>3
  <2> QED  BY <2>4 DEF Up
<1>6. ASSUME NEW c \in Dirs(Q) PROVE DirOK(J, F, c)
  <2>0. c \in Ino \ {i} /\ DirOK(Q, E, c)
    BY <1>1 DEF Tree
  <2>1. Len(F[c]) >= 2 /\ F[c][1] = <<".", c>> /\ F[c][2][1] = ".." /\ Up(F, c) \in Dirs(J)
    BY <1>1, <1>3, <1>5, <2>0 DEF DirOK
  <2>2. ASSUME NEW k \in 3..Len(F[c]) PROVE F[c][k] = Hole \/ Names(J, F[c][k])
    <3>1. CASE c = d /\ k = ix
      BY <1>1, <1>4, <3>1, Zenon DEF Names, Proper
    <3>2. CASE F[c][k] = E[c][k] /\ k \in 3..Len(E[c])
      <4>1. E[c][k] = Hole \/ Names(Q, E[c][k])
        BY <2>0, <3>2 DEF DirOK
      <4>2. \A j \in Ino : Q[j] # "free" => J[j] # "free"
        BY <1>1
      <4> QED  BY <3>2, <4>1, <4>2, Zenon DEF Names
    <3> QED  BY <1>3, <2>0, <3>1, <3>2
  <2>3. ASSUME NEW j \in 1..Len(F[c]), NEW k \in 1..Len(F[c]),
               F[c][j][1] = F[c][k][1], F[c][j] # Hole
        PROVE  j = k
    <3>0. j \in 1..Len(E[c]) /\ k \in 1..Len(E[c])
      BY <1>3, <2>0
    <3>1. CASE c = d /\ j = ix /\ k # ix
      BY <1>3, <1>4, <2>0, <2>3, <3>0, <3>1 DEF Fresh
    <3>2. CASE c = d /\ j # ix /\ k = ix
      BY <1>3, <1>4, <2>0, <2>3, <3>0, <3>2 DEF Fresh
    <3>3. CASE F[c][j] = E[c][j] /\ F[c][k] = E[c][k]
      BY <2>0, <2>3, <3>0, <3>3 DEF DirOK
    <3> QED  BY <1>3, <2>0, <3>0, <3>1, <3>2, <3>3
  <2> QED  BY <2>1, <2>2, <2>3 DEF DirOK
<1>7. DirOK(J, F, i)
  <2>1. \A j, k \in 1..Len(F[i]) : F[i][j][1] = F[i][k][1] => j = k
    <3>1. \A j \in 1..Len(F[i]) : j = 1 \/ j = 2
      BY <1>2
    <3> QED  BY <1>2, <3>1
  <2>2. Len(F[i]) >= 2 /\ F[i][1] = <<".", i>> /\ F[i][2][1] = ".." /\ Up(F, i) \in Dirs(J)
    <3>1. d \in Dirs(J)
      BY <1>1
    <3>2. Len(F[i]) >= 2
      BY <1>2
    <3> QED  BY <1>2, <3>1, <3>2
  <2>3. \A k \in 3..Len(F[i]) : F[i][k] = Hole \/ Names(J, F[i][k])
    BY <1>2
  <2> QED  BY <2>1, <2>2, <2>3 DEF DirOK
<1>8. Parents(Dirs(J), F)
  <2>0. Parents(Dirs(Q), E)
    BY DEF Tree
  <2>1. Root \in Dirs(J) /\ Up(F, Root) = Root
    BY <1>1, <1>5, <2>0 DEF Parents
  \* An entry of the new table: the one for i, or an old one, and then not for i.
  <2>2. ASSUME NEW b \in Dirs(J), NEW j \in 3..Len(F[b]), F[b][j][2] \in Dirs(J)
        PROVE  \/ b = d /\ j = ix /\ F[b][j][2] = i
               \/ /\ b \in Dirs(Q) /\ j \in 3..Len(E[b]) /\ F[b][j] = E[b][j]
                  /\ F[b][j][2] \in Dirs(Q)
    <3>0. b # i
      BY <1>2, <2>2
    <3>1. b \in Dirs(Q) /\ b \in Ino \ {i}
      BY <1>1, <3>0
    <3>2. j \in 3..Len(E[b]) /\ j \in 1..Len(E[b]) /\ <<b, j>> \in Ino \X Nat
      BY <1>3, <3>1
    <3>3. E[b][j][2] # i
      BY <3>2 DEF At
    <3>4. CASE b = d /\ j = ix
      BY <1>4, <3>4
    <3>5. CASE F[b][j] = E[b][j]
      <4>1. F[b][j][2] \in Dirs(Q)
        BY <1>1, <2>2, <3>3, <3>5
      <4> QED  BY <3>1, <3>2, <3>5, <4>1
    <3> QED  BY <1>3, <3>1, <3>2, <3>4, <3>5
  <2>3. \A c \in Dirs(J) : \A k \in 3..Len(F[c]) : F[c][k][2] # Root
    <3> SUFFICES ASSUME NEW c \in Dirs(J), NEW k \in 3..Len(F[c]), F[c][k][2] = Root
                 PROVE  FALSE
      OBVIOUS
    <3>0. F[c][k][2] \in Dirs(J) /\ F[c][k][2] # i
      BY <1>1, <2>1
    <3>1. c \in Dirs(Q) /\ k \in 3..Len(E[c]) /\ E[c][k][2] = Root
      BY <2>2, <3>0
    <3> QED  BY <2>0, <3>1 DEF Parents
  <2>4. ASSUME NEW c \in Dirs(J) \ {Root}
        PROVE  \E k \in 3..Len(F[Up(F, c)]) : F[Up(F, c)][k][2] = c
    <3>1. CASE c = i
      BY <1>1, <1>2, <1>3, <1>4, <3>1
    <3>2. CASE c # i
      <4>0. c \in Dirs(Q) \ {Root}
        BY <1>1, <3>2
      <4>1. PICK k \in 3..Len(E[Up(E, c)]) : E[Up(E, c)][k][2] = c
        BY <2>0, <4>0 DEF Parents
      <4>2. PICK u \in Dirs(Q) : u = Up(E, c) /\ u = Up(F, c)
        BY <1>5, <4>0 DEF Tree, DirOK
      <4>3. Hole[2] # c /\ u \in Ino \ {i}
        BY <1>1, <4>0, Typing, Zenon
      <4>4. k \in 3..Len(F[u]) /\ F[u][k] = E[u][k]
        BY <1>3, <4>1, <4>2, <4>3
      <4> QED  BY <4>1, <4>2, <4>4
    <3> QED  BY <3>1, <3>2
  <2>5. ASSUME NEW b \in Dirs(J), NEW c \in Dirs(J), NEW j \in 3..Len(F[b]),
               NEW k \in 3..Len(F[c]), F[b][j][2] \in Dirs(J), F[c][k][2] = F[b][j][2]
        PROVE  b = c /\ j = k
    <3>1. CASE F[b][j][2] = i
      <4>1. b = d /\ j = ix
        BY <1>1, <2>2, <2>5, <3>1
      <4>2. c = d /\ k = ix
        <5>1. F[c][k][2] = i /\ F[c][k][2] \in Dirs(J)
          BY <2>5, <3>1
        <5> QED  BY <1>1, <2>2, <5>1
      <4> QED  BY <4>1, <4>2
    <3>2. CASE F[b][j][2] # i
      <4>1. /\ b \in Dirs(Q) /\ j \in 3..Len(E[b]) /\ F[b][j] = E[b][j]
            /\ F[b][j][2] \in Dirs(Q)
            /\ c \in Dirs(Q) /\ k \in 3..Len(E[c]) /\ F[c][k] = E[c][k]
        BY <2>2, <2>5, <3>2
      <4> QED  BY <2>0, <2>5, <4>1 DEF Parents
    <3> QED  BY <3>1, <3>2
  <2>6. \A b, c \in Dirs(J) : \A j \in 3..Len(F[b]), k \in 3..Len(F[c]) :
           F[b][j][2] \in Dirs(J) /\ F[c][k][2] = F[b][j][2] => b = c /\ j = k
    <3> TAKE b, c \in Dirs(J)
    <3> TAKE j \in 3..Len(F[b]), k \in 3..Len(F[c])
    <3> HAVE F[b][j][2] \in Dirs(J) /\ F[c][k][2] = F[b][j][2]
    <3> QED  BY <2>5
  <2>7. \A c \in Dirs(J) \ {Root} : \E k \in 3..Len(F[Up(F, c)]) : F[Up(F, c)][k][2] = c
    BY <2>4
  <2> QED  BY <2>1, <2>3, <2>6, <2>7 DEF Parents
<1>9. NoCircle(Dirs(J), F)
  <2> SUFFICES ASSUME NEW C \in SUBSET (Dirs(J) \ {Root}), C # {}
               PROVE  \E c \in C : Up(F, c) \notin C
    BY DEF NoCircle
  <2>1. CASE C = {i}
    BY <1>1, <1>2, <2>1
  <2>2. CASE C # {i}
    <3>1. C \ {i} \in SUBSET (Dirs(Q) \ {Root}) /\ C \ {i} # {}
      <4>1. \A c \in C \ {i} : c \in Dirs(Q) \ {Root}
        BY <1>1
      <4> QED  BY ONLY <2>2, <4>1, C # {}
    <3>2. PICK c \in C \ {i} : Up(E, c) \notin C \ {i}
      BY <3>1 DEF Tree, NoCircle
    <3>3. c \in Dirs(Q) /\ Up(E, c) \in Dirs(Q)
      BY <3>1 DEF Tree, DirOK
    <3> QED  BY <1>1, <1>5, <3>2, <3>3
  <2> QED  BY <2>1, <2>2
<1>10. ASSUME NEW j \in Ino, J[j] # "dir" PROVE F[j] = <<>>
  <2>1. j # i /\ j # d /\ Q[j] # "dir"
    BY <1>1, <1>10 DEF Dirs
  <2> QED  BY <1>3, <2>1 DEF Tree
<1> QED  BY <1>1, <1>6, <1>7, <1>8, <1>9, <1>10 DEF Tree

Emptied(G, F, i) == /\ F \in [Ino -> Seq(Slot)] /\ F[i] = <<>>
                    /\ \A c \in Ino \ {i} : F[c] = G[c]
EmptyDir(E, i) == \A k \in 3..Len(E[i]) : E[i][k] = Hole

\* An empty directory i goes, and entry ix of its parent d, which named it.
LEMMA RmdirTree ==
    ASSUME NEW Q, NEW E, Tree(Q, E), NEW i \in Dirs(Q), i # Root, EmptyDir(E, i),
           NEW d \in Dirs(Q), d # i, NEW ix \in 3..Len(E[d]), E[d][ix][2] = i,
           NEW J, J = [Q EXCEPT ![i] = "free"],
           NEW G, Set1(E, G, d, ix, Hole), NEW F, Emptied(G, F, i)
    PROVE  Tree(J, F) /\ Up(E, i) = d /\ At(F, i) = {}
<1>1. /\ d \in Ino /\ i \in Ino /\ E \in [Ino -> Seq(Slot)] /\ F \in [Ino -> Seq(Slot)]
      /\ J \in [Ino -> Kinds] /\ Dirs(J) = Dirs(Q) \ {i} /\ Dirs(Q) \subseteq Ino
      /\ \A j \in Ino \ {i} : J[j] = Q[j]
  <2>1. Q \in [Ino -> Kinds] /\ E \in [Ino -> Seq(Slot)]
    BY DEF Tree
  <2>2. d \in Ino /\ i \in Ino /\ Dirs(Q) \subseteq Ino
    BY DEF Dirs
  <2>3. J \in [Ino -> Kinds] /\ J[i] = "free" /\ \A j \in Ino \ {i} : J[j] = Q[j]
    BY <2>1, <2>2 DEF Kinds
  <2>4. Dirs(J) = Dirs(Q) \ {i}
    BY <2>3 DEF Dirs
  <2>5. F \in [Ino -> Seq(Slot)]
    BY DEF Emptied
  <2> QED  BY <2>1, <2>2, <2>3, <2>4, <2>5
<1>2. ASSUME NEW c \in Ino \ {i}
      PROVE  /\ Len(F[c]) = Len(E[c]) /\ Len(E[c]) \in Nat
             /\ c # d => F[c] = E[c]
             /\ \A k \in 1..Len(E[c]) : (c = d /\ k = ix) \/ F[c][k] = E[c][k]
  <2>1. F[c] = G[c] /\ E[c] \in Seq(Slot)
    BY <1>1 DEF Emptied
  <2>2. CASE c = d
    BY <2>1, <2>2 DEF Set1
  <2>3. CASE c # d
    BY <2>1, <2>3 DEF Set1
  <2> QED  BY <2>2, <2>3
<1>3. F[d][ix] = Hole /\ ix \in 1..Len(E[d]) /\ ix >= 3 /\ F[d][ix][2] \notin Ino
  <2>1. Len(E[d]) \in Nat /\ ix \in 1..Len(E[d]) /\ ix >= 3 /\ F[d] = G[d]
    BY <1>1 DEF Emptied
  <2>2. F[d][ix] = Hole
    BY <2>1 DEF Set1
  <2> QED  BY <2>1, <2>2, Typing, Zenon
<1>4. Parents(Dirs(Q), E) /\ Root \in Dirs(Q)
  BY DEF Tree, Parents
<1>5. ASSUME NEW c \in Dirs(Q) PROVE Up(E, c) # i
  <2>1. CASE c = Root
    BY <1>4, <2>1 DEF Parents
  <2>2. CASE c # Root
    <3>1. PICK k \in 3..Len(E[Up(E, c)]) : E[Up(E, c)][k][2] = c
      BY <1>4, <2>2 DEF Parents
    <3>2. Hole[2] # c
      BY <1>1, Typing, Zenon
    <3> QED  BY <3>1, <3>2 DEF EmptyDir
  <2> QED  BY <2>1, <2>2
<1>6. ASSUME NEW c \in Dirs(J)
      PROVE  Up(F, c) = Up(E, c) /\ F[c][1] = E[c][1] /\ F[c][2] = E[c][2]
  <2>1. c \in Ino \ {i} /\ Len(E[c]) >= 2 /\ Len(E[c]) \in Nat
    <3>1. DirOK(Q, E, c)
      BY <1>1 DEF Tree
    <3>2. Len(E[c]) >= 2
      BY <3>1 DEF DirOK
    <3>3. c \in Ino \ {i}
      BY <1>1
    <3>4. Len(E[c]) \in Nat
      BY <1>1, <3>3
    <3> QED  BY <3>2, <3>3, <3>4
  <2>2. 1 \in 1..Len(E[c]) /\ 2 \in 1..Len(E[c]) /\ ix # 1 /\ ix # 2
    BY <1>3, <2>1
  <2>3. F[c][1] = E[c][1] /\ F[c][2] = E[c][2]
    BY <1>2, <2>1, <2>2
  <2> QED  BY <2>3 DEF Up
\* An entry of the new table is a hole or an old entry, and not for i.
<1>7. ASSUME NEW b \in Dirs(J), NEW j \in 3..Len(F[b])
      PROVE  \/ F[b][j] = Hole
             \/ j \in 3..Len(E[b]) /\ F[b][j] = E[b][j] /\ F[b][j][2] # i
  <2>1. b \in Dirs(Q) /\ b \in Ino \ {i}
    BY <1>1
  <2>2. j \in 3..Len(E[b]) /\ j \in 1..Len(E[b])
    BY <1>2, <2>1
  <2>3. ASSUME E[b][j][2] = i PROVE b = d /\ j = ix
    BY <1>4, <2>1, <2>2, <2>3 DEF Parents
  <2>4. CASE b = d /\ j = ix
    BY <1>3, <2>4
  <2>5. CASE ~(b = d /\ j = ix)
    <3>1. F[b][j] = E[b][j]
      BY <1>2, <2>1, <2>2, <2>5
    <3> QED  BY <2>2, <2>3, <2>5, <3>1
  <2> QED  BY <2>4, <2>5
<1>8. ASSUME NEW c \in Dirs(J) PROVE DirOK(J, F, c)
  <2>0. c \in Ino \ {i} /\ c \in Dirs(Q) /\ DirOK(Q, E, c)
    BY <1>1 DEF Tree
  <2>1. Len(F[c]) >= 2 /\ F[c][1] = <<".", c>> /\ F[c][2][1] = ".." /\ Up(F, c) \in Dirs(J)
    BY <1>1, <1>2, <1>5, <1>6, <2>0 DEF DirOK
  <2>2. ASSUME NEW k \in 3..Len(F[c]) PROVE F[c][k] = Hole \/ Names(J, F[c][k])
    <3>1. CASE F[c][k] = Hole
      BY <3>1
    <3>2. CASE k \in 3..Len(E[c]) /\ F[c][k] = E[c][k] /\ F[c][k][2] # i
      <4>1. E[c][k] = Hole \/ Names(Q, E[c][k])
        BY <2>0, <3>2 DEF DirOK
      <4> QED  BY <1>1, <3>2, <4>1, Zenon DEF Names
    <3> QED  BY <1>7, <3>1, <3>2
  <2>3. ASSUME NEW j \in 1..Len(F[c]), NEW k \in 1..Len(F[c]),
               F[c][j][1] = F[c][k][1], F[c][j] # Hole
        PROVE  j = k
    <3>0. j \in 1..Len(E[c]) /\ k \in 1..Len(E[c])
      BY <1>2, <2>0
    <3>1. F[c][j] = E[c][j]
      BY <1>2, <1>3, <2>0, <2>3, <3>0
    <3>2. E[c][j][1] # ""
      <4>1. DirOK(Q, E, c) /\ E[c][j] # Hole /\ Len(E[c]) \in Nat
        BY <1>2, <2>0, <2>3, <3>1
      <4> QED  BY <3>0, <4>1, Named, Zenon
    <3>3. F[c][k] # Hole
      BY <2>3, <3>1, <3>2, Typing, Zenon
    <3>4. F[c][k] = E[c][k]
      BY <1>2, <1>3, <2>0, <3>0, <3>3
    <3> QED  BY <2>0, <2>3, <3>0, <3>1, <3>4 DEF DirOK
  <2> QED  BY <2>1, <2>2, <2>3 DEF DirOK
<1>9. Parents(Dirs(J), F)
  <2>1. Root \in Dirs(J) /\ Up(F, Root) = Root
    BY <1>1, <1>4, <1>6 DEF Parents
  <2>2. ASSUME NEW b \in Dirs(J), NEW j \in 3..Len(F[b]), F[b][j][2] \in Dirs(J)
        PROVE  b \in Dirs(Q) /\ j \in 3..Len(E[b]) /\ F[b][j] = E[b][j] /\ F[b][j][2] \in Dirs(Q)
    <3>1. F[b][j] # Hole
      BY <1>1, <2>2, Typing, Zenon
    <3>2. b \in Dirs(Q) /\ F[b][j][2] \in Dirs(Q)
      BY <1>1, <2>2
    <3> QED  BY <1>7, <3>1, <3>2
  <2>3. \A c \in Dirs(J) : \A k \in 3..Len(F[c]) : F[c][k][2] # Root
    <3> TAKE c \in Dirs(J)
    <3> TAKE k \in 3..Len(F[c])
    <3> SUFFICES ASSUME F[c][k][2] = Root PROVE FALSE
      OBVIOUS
    <3>1. c \in Dirs(Q) /\ k \in 3..Len(E[c]) /\ E[c][k][2] = Root
      BY <2>1, <2>2
    <3> QED  BY <1>4, <3>1 DEF Parents
  <2>4. ASSUME NEW c \in Dirs(J) \ {Root}
        PROVE  \E k \in 3..Len(F[Up(F, c)]) : F[Up(F, c)][k][2] = c
    <3>0. c \in Dirs(Q) \ {Root} /\ c # i
      BY <1>1
    <3>1. PICK k \in 3..Len(E[Up(E, c)]) : E[Up(E, c)][k][2] = c
      BY <1>4, <3>0 DEF Parents
    <3>2. PICK u \in Dirs(Q) : u = Up(E, c) /\ u = Up(F, c)
      BY <1>6, <3>0 DEF Tree, DirOK
    <3>3. u \in Ino \ {i}
      BY <1>1, <1>5, <3>0, <3>2
    <3>4. k \in 3..Len(F[u]) /\ k \in 1..Len(E[u])
      BY <1>2, <3>1, <3>2, <3>3
    <3>5. F[u][k] = E[u][k]
      BY <1>2, <3>0, <3>1, <3>2, <3>3, <3>4
    <3> QED  BY <3>1, <3>2, <3>4, <3>5
  <2>5. ASSUME NEW b \in Dirs(J), NEW c \in Dirs(J), NEW j \in 3..Len(F[b]),
               NEW k \in 3..Len(F[c]), F[b][j][2] \in Dirs(J), F[c][k][2] = F[b][j][2]
        PROVE  b = c /\ j = k
    <3>1. /\ b \in Dirs(Q) /\ j \in 3..Len(E[b]) /\ F[b][j] = E[b][j]
          /\ F[b][j][2] \in Dirs(Q)
          /\ c \in Dirs(Q) /\ k \in 3..Len(E[c]) /\ F[c][k] = E[c][k]
      BY <2>2, <2>5
    <3>2. E[b][j][2] \in Dirs(Q) /\ E[c][k][2] = E[b][j][2]
      BY <2>5, <3>1
    <3>3. \A x, y \in Dirs(Q) : \A m \in 3..Len(E[x]), n \in 3..Len(E[y]) :
             E[x][m][2] \in Dirs(Q) /\ E[y][n][2] = E[x][m][2] => x = y /\ m = n
      BY <1>4 DEF Parents
    <3> QED  BY <3>1, <3>2, <3>3
  <2>6. \A b, c \in Dirs(J) : \A j \in 3..Len(F[b]), k \in 3..Len(F[c]) :
           F[b][j][2] \in Dirs(J) /\ F[c][k][2] = F[b][j][2] => b = c /\ j = k
    <3> TAKE b, c \in Dirs(J)
    <3> TAKE j \in 3..Len(F[b]), k \in 3..Len(F[c])
    <3> HAVE F[b][j][2] \in Dirs(J) /\ F[c][k][2] = F[b][j][2]
    <3> QED  BY <2>5
  <2>7. \A c \in Dirs(J) \ {Root} : \E k \in 3..Len(F[Up(F, c)]) : F[Up(F, c)][k][2] = c
    BY <2>4
  <2> QED  BY <2>1, <2>3, <2>6, <2>7 DEF Parents
<1>10. NoCircle(Dirs(J), F)
  <2> SUFFICES ASSUME NEW C \in SUBSET (Dirs(J) \ {Root}), C # {}
               PROVE  \E c \in C : Up(F, c) \notin C
    BY DEF NoCircle
  <2>1. C \in SUBSET (Dirs(Q) \ {Root})
    BY <1>1
  <2>2. PICK c \in C : Up(E, c) \notin C
    BY <2>1 DEF Tree, NoCircle
  <2> QED  BY <1>6, <2>2
<1>11. ASSUME NEW j \in Ino, J[j] # "dir" PROVE F[j] = <<>>
  <2>1. CASE j = i
    BY <2>1 DEF Emptied
  <2>2. CASE j # i
    <3>1. j # d /\ Q[j] # "dir"
      BY <1>1, <1>11, <2>2 DEF Dirs
    <3> QED  BY <1>2, <2>2, <3>1 DEF Tree
  <2> QED  BY <2>1, <2>2
<1>12. Up(E, i) = d
  <2>1. PICK u \in Dirs(Q) : u = Up(E, i)
    BY DEF Tree, DirOK
  <2>2. PICK k \in 3..Len(E[u]) : E[u][k][2] = i
    BY <1>4, <2>1 DEF Parents
  <2> QED  BY <1>4, <2>1, <2>2 DEF Parents
<1>13. At(F, i) = {}
  <2> SUFFICES ASSUME NEW b \in Ino, NEW j \in 1..Len(F[b]), F[b][j][2] = i PROVE FALSE
    BY <1>1 DEF At
  <2>1. b \in Dirs(J)
    <3>1. CASE b = i
      BY <3>1 DEF Emptied
    <3>2. CASE b # i
      <4>1. J[b] = "dir"
        BY <1>11
      <4> QED  BY <4>1 DEF Dirs
    <3> QED  BY <3>1, <3>2
  <2>2. b \in Dirs(Q) /\ b # i /\ Len(F[b]) \in Nat /\ DirOK(J, F, b)
    <3>1. DirOK(J, F, b)
      BY <1>8, <2>1
    <3>2. b \in Dirs(Q) /\ b # i
      BY <1>1, <2>1
    <3>3. Len(F[b]) \in Nat
      BY <1>1
    <3> QED  BY <3>1, <3>2, <3>3
  <2>3. CASE j = 1
    BY <2>2, <2>3 DEF DirOK
  <2>4. CASE j = 2
    <3>1. Up(E, b) = i
      BY <1>6, <2>1, <2>4 DEF Up
    <3> QED  BY <1>5, <2>2, <3>1
  <2>5. CASE j \in 3..Len(F[b])
    <3>1. F[b][j] # Hole
      BY <1>1, Typing, Zenon
    <3> QED  BY <1>7, <2>1, <2>5, <3>1
  <2> QED  BY <2>2, <2>3, <2>4, <2>5
<1> QED  BY <1>1, <1>8, <1>9, <1>10, <1>11, <1>12, <1>13 DEF Tree

----------------------------------------------------------------------------
\* Link counts.

LEMMA EnterLinks ==
    ASSUME NEW L, NEW E, E \in [Ino -> Seq(Slot)], Links(L, E), NEW F, NEW d \in Ino,
           NEW ix \in 1..Len(E[d]), NEW s, Set1(E, F, d, ix, s), NEW i \in Ino,
           E[d][ix] = Hole, s[2] = i
    PROVE  Links([L EXCEPT ![i] = @ + 1], F)
<1>1. Hole[2] = 0 /\ \A j \in Ino : j # 0
  BY Typing, Zenon
<1>2. ASSUME NEW j \in Ino, j # i PROVE At(F, j) = At(E, j)
  <2>1. E[d][ix][2] # j /\ s[2] # j
    BY <1>1, <1>2
  <2>2. Same(At(E, j), At(F, j))
    BY <2>1, Set1At
  <2> QED  BY <2>2 DEF Same
<1>3. Adds(At(E, i), At(F, i), <<d, ix>>)
  <2>1. E[d][ix][2] # i /\ s[2] = i
    BY <1>1
  <2> QED  BY <2>1, Set1At
<1>4. IsFiniteSet(At(F, i)) /\ Cardinality(At(F, i)) = Cardinality(At(E, i)) + 1
  <2>1. IsFiniteSet(At(E, i))
    BY DEF Links
  <2> QED  BY <1>3, <2>1, AddsCard
<1> QED  BY <1>2, <1>4 DEF Links

LEMMA ClearLinks ==
    ASSUME NEW L, NEW E, E \in [Ino -> Seq(Slot)], Links(L, E), NEW F, NEW d \in Ino,
           NEW ix \in 1..Len(E[d]), Set1(E, F, d, ix, Hole), NEW i \in Ino, E[d][ix][2] = i
    PROVE  L[i] >= 1 /\ Links([L EXCEPT ![i] = @ - 1], F)
<1>1. Hole[2] = 0 /\ \A j \in Ino : j # 0
  BY Typing, Zenon
<1>2. ASSUME NEW j \in Ino, j # i PROVE At(F, j) = At(E, j)
  <2>1. E[d][ix][2] # j /\ Hole[2] # j
    BY <1>1, <1>2
  <2>2. Same(At(E, j), At(F, j))
    BY <2>1, Set1At
  <2> QED  BY <2>2 DEF Same
<1>3. Adds(At(F, i), At(E, i), <<d, ix>>)
  <2>1. E[d][ix][2] = i /\ Hole[2] # i
    BY <1>1
  <2> QED  BY <2>1, Set1At
<1>4. IsFiniteSet(At(F, i)) /\ Cardinality(At(F, i)) = Cardinality(At(E, i)) - 1
  <2>1. IsFiniteSet(At(E, i))
    BY DEF Links
  <2> QED  BY <1>3, <2>1, AddsCard
<1>5. L[i] >= 1
  <2>1. Cardinality(At(F, i)) \in Nat /\ L[i] = Cardinality(At(E, i)) /\ L[i] \in Nat
    BY <1>4, FS_CardinalityType DEF Links
  <2> QED  BY <1>4, <2>1
<1> QED  BY <1>2, <1>4, <1>5 DEF Links

\* "." and "..", and holes behind them.
LEMMA DotsAt ==
    ASSUME NEW E, NEW G, E \in [Ino -> Seq(Slot)], G \in [Ino -> Seq(Slot)],
           NEW i \in Ino, NEW d \in Ino, i # d, E[i] = <<>>, \A c \in Ino \ {i} : G[c] = E[c],
           Len(G[i]) >= 2, G[i][1][2] = i, G[i][2][2] = d, EmptyDir(G, i)
    PROVE  /\ Adds(At(E, i), At(G, i), <<i, 1>>) /\ Adds(At(E, d), At(G, d), <<i, 2>>)
           /\ \A j \in Ino \ {i, d} : Same(At(E, j), At(G, j))
<1>1. <<i, 1>> \in Ino \X Nat /\ <<i, 2>> \in Ino \X Nat /\ Len(G[i]) \in Nat
  OBVIOUS
<1>2. ASSUME NEW j \in Ino, NEW b \in Ino, NEW k \in Nat
      PROVE  <<b, k>> \in At(G, j) <=> \/ <<b, k>> \in At(E, j)
                                       \/ b = i /\ k = 1 /\ j = i
                                       \/ b = i /\ k = 2 /\ j = d
  <2>1. CASE b # i
    <3>1. G[b] = E[b]
      BY <2>1
    <3> QED  BY <2>1, <3>1 DEF At
  <2>2. CASE b = i
    <3>1. <<b, k>> \notin At(E, j)
      BY <2>2 DEF At
    <3>2. <<b, k>> \in At(G, j) <=> k \in 1..Len(G[i]) /\ G[i][k][2] = j
      BY <2>2 DEF At
    <3>3. CASE k = 1
      BY <1>1, <2>2, <3>1, <3>2, <3>3
    <3>4. CASE k = 2
      BY <1>1, <2>2, <3>1, <3>2, <3>4
    <3>5. CASE k # 1 /\ k # 2
      <4>1. k \in 1..Len(G[i]) => k \in 3..Len(G[i])
        BY <1>1, <3>5
      <4>2. k \in 1..Len(G[i]) => G[i][k][2] # j
        BY <4>1, Typing, Zenon DEF EmptyDir
      <4> QED  BY <3>1, <3>2, <3>5, <4>2
    <3> QED  BY <3>3, <3>4, <3>5
  <2> QED  BY <2>1, <2>2
<1>3. \A j \in Ino : At(E, j) \subseteq Ino \X Nat /\ At(G, j) \subseteq Ino \X Nat
  BY DEF At
<1>4. <<i, 1>> \notin At(E, i) /\ <<i, 2>> \notin At(E, d)
  BY DEF At
<1>5. At(G, i) = At(E, i) \cup {<<i, 1>>}
  BY <1>1, <1>2, <1>3
<1>6. At(G, d) = At(E, d) \cup {<<i, 2>>}
  BY <1>1, <1>2, <1>3
<1>7. ASSUME NEW j \in Ino \ {i, d} PROVE At(G, j) = At(E, j)
  <2>1. ASSUME NEW e \in Ino \X Nat PROVE e \in At(G, j) <=> e \in At(E, j)
    <3>1. PICK b \in Ino, k \in Nat : e = <<b, k>>
      OBVIOUS
    <3> QED  BY <1>2, <3>1
  <2> QED  BY <1>3, <2>1
<1> QED  BY <1>4, <1>5, <1>6, <1>7 DEF Adds, Same

LEMMA MkdirLinks ==
    ASSUME NEW L, NEW E, E \in [Ino -> Seq(Slot)], Links(L, E), NEW i \in Ino, NEW d \in Ino,
           i # d, E[i] = <<>>, At(E, i) = {}, NEW G, G \in [Ino -> Seq(Slot)], Dotted(E, G, i, d),
           NEW ix \in 1..Len(G[d]), G[d][ix] = Hole, NEW s, s[2] = i,
           NEW F, Set1(G, F, d, ix, s)
    PROVE  Links([L EXCEPT ![i] = 2, ![d] = @ + 1], F)
<1>1. /\ G[i] = Dots(i, d) /\ Len(G[i]) >= 2 /\ G[i][1][2] = i /\ G[i][2][2] = d
      /\ EmptyDir(G, i)
  BY DEF Dotted, Dots, EmptyDir
<1>2. /\ Adds(At(E, i), At(G, i), <<i, 1>>) /\ Adds(At(E, d), At(G, d), <<i, 2>>)
      /\ \A j \in Ino \ {i, d} : At(G, j) = At(E, j)
  <2>1. \A c \in Ino \ {i} : G[c] = E[c]
    BY DEF Dotted
  <2>2. /\ Adds(At(E, i), At(G, i), <<i, 1>>) /\ Adds(At(E, d), At(G, d), <<i, 2>>)
        /\ \A j \in Ino \ {i, d} : Same(At(E, j), At(G, j))
    BY <1>1, <2>1, DotsAt
  <2> QED  BY <2>2 DEF Same
<1>3. /\ \A j \in Ino : IsFiniteSet(At(E, j)) /\ L[j] = Cardinality(At(E, j))
      /\ L \in [Ino -> Nat] /\ L[i] = 0
  BY FS_EmptySet DEF Links
<1>4. IsFiniteSet(At(G, i)) /\ Cardinality(At(G, i)) = 1
  <2>1. IsFiniteSet(At(E, i)) /\ Cardinality(At(E, i)) = 0
    BY <1>3
  <2> QED  BY <1>2, <2>1, AddsCard
<1>5. IsFiniteSet(At(G, d)) /\ Cardinality(At(G, d)) = L[d] + 1
  BY <1>2, <1>3, AddsCard
<1>6. PICK N : N = [L EXCEPT ![i] = 1, ![d] = @ + 1]
  OBVIOUS
<1>7. Links(N, G)
  <2>1. N \in [Ino -> Nat] /\ N[i] = 1 /\ N[d] = L[d] + 1 /\ \A j \in Ino \ {i, d} : N[j] = L[j]
    BY ONLY <1>3, <1>6, i \in Ino, d \in Ino, i # d
  <2>2. ASSUME NEW j \in Ino PROVE IsFiniteSet(At(G, j)) /\ N[j] = Cardinality(At(G, j))
    <3>1. CASE j = i
      BY <1>4, <2>1, <3>1
    <3>2. CASE j = d
      BY <1>5, <2>1, <3>2
    <3>3. CASE j \notin {i, d}
      BY <1>2, <1>3, <2>1, <3>3
    <3> QED  BY <3>1, <3>2, <3>3
  <2> QED  BY <2>1, <2>2 DEF Links
<1>8. Links([N EXCEPT ![i] = @ + 1], F)
  BY <1>7, EnterLinks
<1>9. [N EXCEPT ![i] = @ + 1] = [L EXCEPT ![i] = 2, ![d] = @ + 1]
  BY <1>3, <1>6
<1> QED  BY <1>8, <1>9

LEMMA RmdirLinks ==
    ASSUME NEW L, NEW E, E \in [Ino -> Seq(Slot)], Links(L, E), NEW i \in Ino, NEW d \in Ino,
           i # d, Len(E[i]) >= 2, E[i][1][2] = i, E[i][2][2] = d, EmptyDir(E, i),
           NEW ix \in 1..Len(E[d]), E[d][ix][2] = i, NEW G, Set1(E, G, d, ix, Hole),
           NEW F, Emptied(G, F, i), At(F, i) = {}
    PROVE  L[d] >= 1 /\ Links([L EXCEPT ![i] = 0, ![d] = @ - 1], F)
<1>1. PICK N : N = [L EXCEPT ![i] = @ - 1]
  OBVIOUS
<1>2. Links(N, G) /\ L \in [Ino -> Nat] /\ N[d] = L[d]
  <2>1. Links(N, G) /\ L[i] >= 1
    BY <1>1, ClearLinks
  <2>2. L \in [Ino -> Nat]
    BY DEF Links
  <2>3. N[d] = L[d]
    BY <1>1, <2>2
  <2> QED  BY <2>1, <2>2, <2>3
<1>3. /\ F \in [Ino -> Seq(Slot)] /\ F[i] = <<>> /\ \A c \in Ino \ {i} : G[c] = F[c]
      /\ G \in [Ino -> Seq(Slot)] /\ G[i] = E[i] /\ EmptyDir(G, i)
  BY DEF Emptied, Set1, EmptyDir
<1>4. /\ Adds(At(F, d), At(G, d), <<i, 2>>)
      /\ \A j \in Ino \ {i, d} : At(G, j) = At(F, j)
  <2>1. Len(G[i]) >= 2 /\ G[i][1][2] = i /\ G[i][2][2] = d
    BY <1>3
  <2>2. /\ Adds(At(F, d), At(G, d), <<i, 2>>)
        /\ \A j \in Ino \ {i, d} : Same(At(F, j), At(G, j))
    BY <1>3, <2>1, DotsAt
  <2> QED  BY <2>2 DEF Same
<1>5. \A j \in Ino : IsFiniteSet(At(G, j)) /\ N[j] = Cardinality(At(G, j))
  BY <1>2 DEF Links
<1>7. IsFiniteSet(At(F, d)) /\ Cardinality(At(F, d)) = Cardinality(At(G, d)) - 1
  BY <1>4, <1>5, AddsCard
<1>8. Cardinality(At(F, d)) \in Nat /\ Cardinality(At(F, d)) = L[d] - 1
  BY <1>2, <1>5, <1>7, FS_CardinalityType
<1>9. L[d] >= 1 /\ L[d] \in Nat
  BY <1>2, <1>8
<1>10. IsFiniteSet(At(F, i)) /\ Cardinality(At(F, i)) = 0
  BY FS_EmptySet
<1>11. ASSUME NEW j \in Ino \ {i, d}
       PROVE  IsFiniteSet(At(F, j)) /\ Cardinality(At(F, j)) = L[j]
  BY <1>1, <1>2, <1>4, <1>5
<1> QED  BY <1>2, <1>7, <1>8, <1>9, <1>10, <1>11 DEF Links

----------------------------------------------------------------------------
\* Inodes.

Good(f) == /\ f \in Inodes
           /\ Tree(f.kind, f.ent)
           /\ Links(f.nlinks, f.ent)
           /\ \A i \in Ino : f.count[i] > 0 => f.kind[i] # "free"

\* Counts with one reference more to i, and none more when i is 0.
Plus(c, i) == [j \in Ino |-> IF j = i THEN c[j] + 1 ELSE c[j]]
Held(f, i) == [f EXCEPT !.count = Plus(@, i)]

\* What is referred to in b has the same kind, and the same zone unless it is a directory.
Kept(f, g, b) == \A j \in Ino : b[j] > 0 => /\ g.kind[j] = f.kind[j]
                                            /\ f.kind[j] # "dir" => g.zone[j] = f.zone[j]
Under(b, c) == \A j \in Ino : b[j] > 0 => c[j] > 0

\* f has become g, with counts c; what b refers to was not touched.
After(f, g, c, b) == Good(g) /\ g.count = c /\ Kept(f, g, b) /\ Under(b, c)

LEMMA PlusType ==
    ASSUME NEW c \in [Ino -> Nat], NEW i
    PROVE  /\ Plus(c, i) \in [Ino -> Nat]
           /\ i \notin Ino => Plus(c, i) = c
           /\ i \in Ino => Plus(c, i) = [c EXCEPT ![i] = @ + 1] /\ Plus(c, i)[i] = c[i] + 1
           /\ \A j \in Ino : j # i => Plus(c, i)[j] = c[j]
           /\ \A j \in Ino : c[j] <= Plus(c, i)[j]
<1>1. Plus(c, i) \in [Ino -> Nat] /\ \A j \in Ino : c[j] <= Plus(c, i)[j]
  BY DEF Plus
<1>2. \A j \in Ino : j # i => Plus(c, i)[j] = c[j]
  BY DEF Plus
<1>3. ASSUME i \notin Ino PROVE Plus(c, i) = c
  <2>1. \A j \in Ino : Plus(c, i)[j] = c[j]
    BY <1>2, <1>3
  <2> QED  BY <1>1, <2>1
<1>4. ASSUME i \in Ino PROVE Plus(c, i)[i] = c[i] + 1
  BY <1>4 DEF Plus
<1>5. ASSUME i \in Ino PROVE Plus(c, i) = [c EXCEPT ![i] = @ + 1]
  <2>1. \A j \in Ino : Plus(c, i)[j] = [c EXCEPT ![i] = @ + 1][j]
    BY <1>2, <1>4, <1>5
  <2> QED  BY <1>1, <2>1
<1> QED  BY <1>1, <1>2, <1>3, <1>4, <1>5

LEMMA PlusComm ==
    ASSUME NEW c \in [Ino -> Nat], NEW i, NEW j
    PROVE  Plus(Plus(c, i), j) = Plus(Plus(c, j), i)
BY DEF Plus

LEMMA PlusUnder ==
    ASSUME NEW b \in [Ino -> Nat], NEW c \in [Ino -> Nat], NEW i, Under(b, c)
    PROVE  Under(b, Plus(c, i)) /\ Under(b, b)
BY DEF Plus, Under

LEMMA Record ==
    ASSUME NEW f \in Inodes, NEW g \in Inodes, f.kind = g.kind, f.nlinks = g.nlinks,
           f.count = g.count, f.ent = g.ent, f.zone = g.zone
    PROVE  f = g
<1>1. f = [kind |-> f.kind, nlinks |-> f.nlinks, count |-> f.count, ent |-> f.ent,
           zone |-> f.zone]
  BY DEF Inodes
<1>2. g = [kind |-> g.kind, nlinks |-> g.nlinks, count |-> g.count, ent |-> g.ent,
           zone |-> g.zone]
  BY DEF Inodes
<1> QED  BY <1>1, <1>2

LEMMA HeldParts ==
    ASSUME NEW f \in Inodes, NEW i, NEW g, g = Held(f, i)
    PROVE  /\ g \in Inodes /\ g.kind = f.kind /\ g.nlinks = f.nlinks /\ g.ent = f.ent
           /\ g.zone = f.zone /\ g.count = Plus(f.count, i)
           /\ i \in Ino => g = iget(f, i)
           /\ i \notin Ino => g = f
<1>1. /\ f.count \in [Ino -> Nat] /\ f.kind \in [Ino -> Kinds] /\ f.nlinks \in [Ino -> Nat]
      /\ f.ent \in [Ino -> Seq(Slot)] /\ f.zone \in [Ino -> Nat]
  BY DEF Inodes
<1>2. Plus(f.count, i) \in [Ino -> Nat]
  BY <1>1, PlusType
<1>3. /\ g \in Inodes /\ g.kind = f.kind /\ g.nlinks = f.nlinks /\ g.ent = f.ent
      /\ g.zone = f.zone /\ g.count = Plus(f.count, i)
  BY <1>2 DEF Held, Inodes
<1>4. ASSUME i \in Ino PROVE g = iget(f, i)
  <2>1. Plus(f.count, i) = [f.count EXCEPT ![i] = @ + 1]
    BY <1>1, <1>4, PlusType
  <2> QED  BY <2>1 DEF Held, iget, Inodes
<1>5. ASSUME i \notin Ino PROVE g = f
  <2>1. Plus(f.count, i) = f.count
    BY <1>1, <1>5, PlusType
  <2> QED  BY <1>3, <2>1, Record
<1> QED  BY <1>3, <1>4, <1>5

Freed(f, i, g) == /\ g.kind = [f.kind EXCEPT ![i] = "free"]
                  /\ g.ent = [f.ent EXCEPT ![i] = <<>>]
                  /\ \A j \in Ino \ {i} : g.zone[j] = f.zone[j]
Alike(f, g) == g.kind = f.kind /\ g.ent = f.ent /\ g.zone = f.zone

LEMMA IputParts ==
    ASSUME NEW f \in Inodes, NEW i \in Ino, NEW c \in [Ino -> Nat], f.count = Plus(c, i),
           NEW g, g = iput(f, i)
    PROVE  /\ g \in Inodes /\ g.nlinks = f.nlinks /\ g.count = c
           /\ c[i] > 0 \/ f.nlinks[i] > 0 => Alike(f, g)
           /\ c[i] = 0 /\ f.nlinks[i] = 0 => Freed(f, i, g)
<1>1. /\ f.count \in [Ino -> Nat] /\ f.kind \in [Ino -> Kinds] /\ f.nlinks \in [Ino -> Nat]
      /\ f.ent \in [Ino -> Seq(Slot)] /\ f.zone \in [Ino -> Nat]
  BY DEF Inodes
<1>2. f.count[i] = c[i] + 1 /\ c[i] \in Nat /\ f.nlinks[i] \in Nat
  BY <1>1 DEF Plus
<1>3. [f.count EXCEPT ![i] = @ - 1] = c
  <2>1. PICK h : h = [f.count EXCEPT ![i] = @ - 1]
    OBVIOUS
  <2>2. h \in [Ino -> Int] /\ \A j \in Ino : h[j] = c[j]
    BY <1>1, <1>2, <2>1 DEF Plus
  <2>3. h = c
    BY <2>2
  <2> QED  BY <2>1, <2>3
<1>4. CASE c[i] > 0 \/ f.nlinks[i] > 0
  <2>1. g = [f EXCEPT !.count[i] = @ - 1]
    BY <1>2, <1>4 DEF iput
  <2>2. g.count = c
    BY <1>3, <2>1 DEF Inodes
  <2>3. g.kind = f.kind /\ g.ent = f.ent /\ g.zone = f.zone /\ g.nlinks = f.nlinks
    BY <2>1 DEF Inodes
  <2>4. g \in Inodes
    BY <2>1, <2>2, <2>3 DEF Inodes
  <2> QED  BY <1>2, <1>4, <2>2, <2>3, <2>4 DEF Alike
<1>5. CASE c[i] = 0 /\ f.nlinks[i] = 0
  <2>1. g = [f EXCEPT !.count[i] = 0, !.kind[i] = "free", !.ent[i] = <<>>, !.zone[i] = 0]
    BY <1>2, <1>5 DEF iput
  <2>2. /\ g.kind = [f.kind EXCEPT ![i] = "free"] /\ g.nlinks = f.nlinks
        /\ g.count = [f.count EXCEPT ![i] = 0] /\ g.ent = [f.ent EXCEPT ![i] = <<>>]
        /\ g.zone = [f.zone EXCEPT ![i] = 0]
        /\ DOMAIN g = {"kind", "nlinks", "count", "ent", "zone"}
        /\ g = [kind |-> g.kind, nlinks |-> g.nlinks, count |-> g.count, ent |-> g.ent,
                zone |-> g.zone]
    BY <2>1 DEF Inodes
  <2>3. g.count = c
    BY <1>1, <1>2, <1>5, <2>2 DEF Plus
  <2>4. <<>> \in Seq(Slot) /\ "free" \in Kinds
    BY DEF Kinds
  <2>5. /\ g.kind \in [Ino -> Kinds] /\ g.ent \in [Ino -> Seq(Slot)] /\ g.zone \in [Ino -> Nat]
    BY <1>1, <2>2, <2>4
  <2>6. g \in Inodes
    BY <1>1, <2>2, <2>3, <2>5 DEF Inodes
  <2>7. \A j \in Ino \ {i} : g.zone[j] = f.zone[j]
    BY <1>1, <2>2
  <2>8. Freed(f, i, g)
    BY <2>2, <2>7 DEF Freed
  <2> QED  BY <1>5, <2>2, <2>3, <2>6, <2>8
<1> QED  BY <1>2, <1>4, <1>5

LEMMA PutHeld ==
    ASSUME NEW f \in Inodes, NEW i \in Ino, f.nlinks[i] > 0
    PROVE  iput(Held(f, i), i) = f
<1>1. PICK h : h = Held(f, i)
  OBVIOUS
<1>2. PICK g : g = iput(h, i)
  OBVIOUS
<1>3. /\ h \in Inodes /\ h.kind = f.kind /\ h.nlinks = f.nlinks /\ h.ent = f.ent
      /\ h.zone = f.zone /\ h.count = Plus(f.count, i)
  BY <1>1, HeldParts
<1>4. f.count \in [Ino -> Nat]
  BY DEF Inodes
<1>5. /\ g \in Inodes /\ g.kind = f.kind /\ g.nlinks = f.nlinks /\ g.ent = f.ent
      /\ g.zone = f.zone /\ g.count = f.count
  <2>1. h.nlinks[i] > 0
    BY <1>3
  <2>2. Alike(h, g) /\ g \in Inodes /\ g.nlinks = h.nlinks /\ g.count = f.count
    BY <1>2, <1>3, <1>4, <2>1, IputParts
  <2> QED  BY <1>3, <2>2 DEF Alike
<1> QED  BY <1>1, <1>2, <1>5, Record

LEMMA HeldGood ==
    ASSUME NEW f, Good(f), NEW i \in Ino, f.kind[i] # "free", NEW g, g = Held(f, i)
    PROVE  Good(g)
<1>1. /\ f \in Inodes /\ f.count \in [Ino -> Nat]
  BY DEF Good, Inodes
<1>2. /\ g \in Inodes /\ g.kind = f.kind /\ g.nlinks = f.nlinks /\ g.ent = f.ent
      /\ g.count = Plus(f.count, i)
  BY <1>1, HeldParts
<1>3. \A j \in Ino : j # i => g.count[j] = f.count[j]
  BY <1>1, <1>2, PlusType
<1> QED  BY <1>2, <1>3 DEF Good

\* A directory names itself, and so has links.
LEMMA DirLinks ==
    ASSUME NEW f, Good(f), NEW i \in Ino, f.kind[i] = "dir"
    PROVE  f.nlinks[i] > 0
<1>1. /\ Len(f.ent[i]) >= 2 /\ f.ent[i][1] = <<".", i>> /\ f.ent \in [Ino -> Seq(Slot)]
  BY DEF Good, Tree, Dirs, DirOK
<1>2. <<i, 1>> \in At(f.ent, i)
  <2>1. 1 \in 1..Len(f.ent[i]) /\ f.ent[i][1][2] = i
    BY <1>1
  <2> QED  BY <2>1 DEF At
<1>3. IsFiniteSet(At(f.ent, i)) /\ f.nlinks[i] = Cardinality(At(f.ent, i))
  BY DEF Good, Links
<1>4. Cardinality(At(f.ent, i)) \in Nat /\ Cardinality(At(f.ent, i)) # 0
  BY <1>2, <1>3, FS_EmptySet, FS_CardinalityType
<1> QED  BY <1>3, <1>4

\* An inode that an entry names has links.
LEMMA EntryLinks ==
    ASSUME NEW f, Good(f), NEW d \in Ino, NEW k \in 1..Len(f.ent[d]), f.ent[d][k][2] \in Ino
    PROVE  f.nlinks[f.ent[d][k][2]] > 0
<1>1. PICK i \in Ino : i = f.ent[d][k][2]
  OBVIOUS
<1>2. <<d, k>> \in At(f.ent, i)
  <2>1. f.ent \in [Ino -> Seq(Slot)]
    BY DEF Good, Tree
  <2> QED  BY <1>1, <2>1 DEF At
<1>3. IsFiniteSet(At(f.ent, i)) /\ f.nlinks[i] = Cardinality(At(f.ent, i))
  BY DEF Good, Links
<1>4. Cardinality(At(f.ent, i)) \in Nat /\ Cardinality(At(f.ent, i)) # 0
  BY <1>2, <1>3, FS_EmptySet, FS_CardinalityType
<1> QED  BY <1>1, <1>3, <1>4

LEMMA NoLinks ==
    ASSUME NEW f, Good(f), NEW i \in Ino, f.nlinks[i] = 0
    PROVE  At(f.ent, i) = {} /\ f.kind[i] # "dir" /\ f.ent[i] = <<>>
<1>1. IsFiniteSet(At(f.ent, i)) /\ f.nlinks[i] = Cardinality(At(f.ent, i))
  BY DEF Good, Links
<1>2. f.kind[i] # "dir"
  BY DirLinks
<1>3. At(f.ent, i) = {}
  BY <1>1, FS_EmptySet
<1> QED  BY <1>2, <1>3 DEF Good, Tree

\* iput gives a reference back.
LEMMA PutGood ==
    ASSUME NEW f, Good(f), NEW i \in Ino, NEW c \in [Ino -> Nat], f.count = Plus(c, i),
           NEW g, g = iput(f, i)
    PROVE  Good(g) /\ g.count = c /\ Kept(f, g, c)
<1>1. f \in Inodes /\ Tree(f.kind, f.ent) /\ Links(f.nlinks, f.ent)
  BY DEF Good
<1>2. /\ g \in Inodes /\ g.nlinks = f.nlinks /\ g.count = c
      /\ c[i] > 0 \/ f.nlinks[i] > 0 => Alike(f, g)
      /\ c[i] = 0 /\ f.nlinks[i] = 0 => Freed(f, i, g)
  BY <1>1, IputParts
<1>3. \A j \in Ino : c[j] > 0 => f.count[j] > 0
  BY DEF Plus
<1>4. CASE c[i] > 0 \/ f.nlinks[i] > 0
  <2>1. g.kind = f.kind /\ g.ent = f.ent /\ g.zone = f.zone
    BY <1>2, <1>4 DEF Alike
  <2> QED  BY <1>1, <1>2, <1>3, <2>1 DEF Good, Kept
<1>5. CASE c[i] = 0 /\ f.nlinks[i] = 0
  <2>1. At(f.ent, i) = {} /\ f.kind[i] # "dir" /\ f.ent[i] = <<>>
    BY <1>5, NoLinks
  <2>2. g.ent = f.ent
    <3>1. f.ent \in [Ino -> Seq(Slot)]
      BY <1>1 DEF Inodes
    <3> QED  BY <1>2, <1>5, <2>1, <3>1 DEF Freed
  <2>3. g.kind = [f.kind EXCEPT ![i] = "free"] /\ "free" \in Kinds \ {"dir"}
    BY <1>2, <1>5 DEF Kinds, Freed
  <2>4. Tree(g.kind, g.ent)
    BY <1>1, <2>1, <2>2, <2>3, KindTree
  <2>5. \A j \in Ino : c[j] > 0 => g.kind[j] = f.kind[j] /\ g.zone[j] = f.zone[j]
    BY <1>1, <1>2, <1>5, <2>3 DEF Inodes, Freed
  <2> QED  BY <1>1, <1>2, <1>3, <2>2, <2>4, <2>5 DEF Good, Kept
<1>6. c[i] \in Nat /\ f.nlinks[i] \in Nat
  BY <1>1 DEF Inodes
<1> QED  BY <1>4, <1>5, <1>6

LEMMA PutAfter ==
    ASSUME NEW f, NEW h, NEW c \in [Ino -> Nat], NEW i \in Ino, NEW b, Under(b, c),
           After(f, h, Plus(c, i), b), NEW g, g = iput(h, i)
    PROVE  After(f, g, c, b)
<1>1. Good(h) /\ h.count = Plus(c, i) /\ Kept(f, h, b)
  BY DEF After
<1>2. Good(g) /\ g.count = c /\ Kept(h, g, c)
  BY <1>1, PutGood
<1>3. Kept(f, g, b)
  BY <1>1, <1>2 DEF Kept, Under
<1> QED  BY <1>2, <1>3 DEF After

LEMMA HeldAfter ==
    ASSUME NEW f, Good(f), NEW i \in Ino, f.kind[i] # "free", NEW g, g = Held(f, i)
    PROVE  After(f, g, Plus(f.count, i), f.count)
<1>1. f \in Inodes /\ f.count \in [Ino -> Nat]
  BY DEF Good, Inodes
<1>2. g.kind = f.kind /\ g.zone = f.zone /\ g.count = Plus(f.count, i)
  BY <1>1, HeldParts
<1>3. Good(g)
  BY HeldGood
<1>4. Under(f.count, Plus(f.count, i))
  BY <1>1 DEF Under, Plus
<1> QED  BY <1>2, <1>3, <1>4 DEF After, Kept

----------------------------------------------------------------------------
\* Looking up names.

\* The first of a set of places.
LEMMA MinIn ==
    ASSUME NEW T, T \in SUBSET Nat, T # {}
    PROVE  Min(T) \in T /\ \A y \in T : Min(T) <= y
<1>1. PICK x \in T : \A y \in T : ~(<<y, x>> \in OpToRel(<, Nat))
  BY NatLessThanWellFounded, WFMin, Zenon
<1>2. \A y \in T : ~(y < x)
  BY <1>1 DEF OpToRel
<1>3. ASSUME NEW y \in T PROVE x <= y
  <2>1. x \in Nat /\ y \in Nat /\ ~(y < x)
    BY <1>2
  <2> QED  BY <2>1
<1> QED  BY <1>3 DEF Min

\* Induction on a set of numbers.
LEMMA Induct ==
    ASSUME NEW T, 0 \in T, \A i \in Nat : i \in T => i + 1 \in T
    PROVE  Nat \subseteq T
<1> SUFFICES ASSUME NEW z \in Nat, z \notin T PROVE FALSE
  OBVIOUS
<1>1. PICK x \in Nat \ T : \A y \in Nat \ T : ~(<<y, x>> \in OpToRel(<, Nat))
  BY NatLessThanWellFounded, WFMin, Zenon
<1>2. x \in Nat /\ x # 0 /\ x - 1 \in Nat /\ (x - 1) + 1 = x
  <2>1. x \in Nat /\ x # 0
    BY ONLY <1>1, 0 \in T, Zenon
  <2> QED  BY ONLY <2>1
<1>3. x - 1 \in Nat \ T
  <2>1. x - 1 \in T => (x - 1) + 1 \in T
    BY <1>2
  <2> QED  BY <1>1, <1>2, <2>1, Zenon
<1>4. <<x - 1, x>> \in OpToRel(<, Nat)
  BY <1>1, <1>2 DEF OpToRel
<1> QED  BY <1>1, <1>3, <1>4, Zenon

\* find_entry finds an entry of the directory, if there is one with the name; "." and ".."
\* are always there.
LEMMA FindEntry ==
    ASSUME NEW f, Good(f), NEW d \in Ino, f.kind[d] = "dir", NEW name,
           NEW ix, ix = find_entry(f, d, name)
    PROVE  \/ ix = 0 /\ (name # "" => Fresh(f.ent, d, name) /\ name \notin {"", ".", ".."})
           \/ ix \in 1..Len(f.ent[d]) /\ f.ent[d][ix][2] \in Ino
              /\ f.kind[f.ent[d][ix][2]] # "free"
<1>1. /\ Tree(f.kind, f.ent) /\ d \in Dirs(f.kind) /\ DirOK(f.kind, f.ent, d)
      /\ f.ent[d] \in Seq(Slot)
  BY DEF Good, Tree, Dirs
<1>2. PICK E : E = f.ent[d]
  OBVIOUS
<1>3. Len(E) \in Nat /\ Len(E) >= 2 /\ DOMAIN E = 1..Len(E) /\ 1 \in 1..Len(E) /\ 2 \in 1..Len(E)
  BY <1>1, <1>2 DEF DirOK
<1>5. E[1][1] = "." /\ E[2][1] = ".." /\ E[1] # Hole /\ E[2] # Hole
  <2>1. E[1] = <<".", d>> /\ E[2][1] = ".."
    BY <1>1, <1>2 DEF DirOK
  <2>2. E[1][1] = "." /\ E[2][1] = ".." /\ Hole[1] = ""
    <3>1. E[1][1] = "."
      BY <2>1
    <3> QED  BY <2>1, <3>1, Typing, Zenon
  <2> QED  BY <2>2, Zenon
<1> DEFINE n == IF name = ".." /\ d = Root THEN "." ELSE name
           S == {k \in DOMAIN E : n # "" /\ E[k] # Hole /\ E[k][1] = n}
<1>4. ix = IF S = {} THEN 0 ELSE Min(S)
  BY <1>2, Zenon DEF find_entry
<1>6. CASE S = {}
  <2>1. ix = 0
    BY <1>4, <1>6, Zenon
  <2>2. ASSUME name # "" PROVE name \notin {"", ".", ".."}
    <3>1. name = "." => 1 \in S
      BY <1>3, <1>5
    <3>2. name = ".." => 1 \in S \/ 2 \in S
      BY <1>3, <1>5
    <3> QED  BY <1>6, <2>2, <3>1, <3>2, Zenon
  <2>3. ASSUME name # "" PROVE Fresh(f.ent, d, name)
    <3>1. n = name
      BY <2>2, <2>3, Zenon
    <3>2. \A k \in 1..Len(E) : E[k][1] # name
      BY <1>3, <1>6, <2>3, <3>1, Typing, Zenon
    <3> QED  BY <1>2, <3>2 DEF Fresh
  <2> QED  BY <2>1, <2>2, <2>3, Zenon
<1>7. CASE S # {}
  <2>1. S \in SUBSET Nat
    <3>1. \A k \in S : k \in 1..Len(E)
      BY <1>3, Zenon
    <3>2. 1..Len(E) \subseteq Nat
      BY <1>3
    <3> HIDE DEF S
    <3> QED  BY <3>1, <3>2
  <2>2. ix \in S
    <3> HIDE DEF S
    <3> QED  BY <1>4, <1>7, <2>1, MinIn
  <2>3. ix \in 1..Len(E) /\ E[ix] # Hole
    BY <1>3, <2>2, Zenon
  <2> HIDE DEF S, n
  <2>4. E[ix][2] \in Ino /\ f.kind[E[ix][2]] # "free"
    <3>1. CASE ix = 1
      BY <1>1, <1>2, <3>1 DEF DirOK
    <3>2. CASE ix = 2
      <4>1. Up(f.ent, d) \in Dirs(f.kind) /\ E[ix][2] = Up(f.ent, d)
        BY <1>1, <1>2, <3>2 DEF DirOK, Up
      <4> QED  BY <4>1 DEF Dirs
    <3>3. CASE ix # 1 /\ ix # 2
      <4>1. ix \in 3..Len(E)
        BY <1>3, <2>3, <3>3
      <4> QED  BY <1>1, <1>2, <2>3, <4>1, Zenon DEF DirOK, Names
    <3> QED  BY <3>1, <3>2, <3>3
  <2> QED  BY <1>2, <2>3, <2>4, Zenon
<1> QED  BY <1>6, <1>7, Zenon

\* The way along a path holds one inode, or none when it has failed, and changes nothing
\* else.
Walked(f, w) == /\ w.f = Held(f, w.dir)
                /\ \/ w.dir = 0
                   \/ w.dir \in Ino /\ f.nlinks[w.dir] > 0 /\ f.kind[w.dir] # "free"

LEMMA FollowWalks ==
    ASSUME NEW f, Good(f), NEW w, Walked(f, w), NEW name, NEW deny,
           NEW v, v = Follow(w, name, deny)
    PROVE  Walked(f, v)
<1>0. f \in Inodes /\ f = Held(f, 0)
  BY HeldParts, Typing, Zenon DEF Good
<1>1. CASE w.dir = 0
  BY <1>1 DEF Follow
<1>2. CASE w.dir # 0
  <2>1. PICK d \in Ino : d = w.dir /\ f.nlinks[d] > 0 /\ f.kind[d] # "free"
    BY <1>2 DEF Walked
  <2>2. PICK h : h = Held(f, d) /\ h = w.f
    BY <2>1 DEF Walked
  <2>3. Good(h) /\ iput(h, d) = f
    BY <1>0, <2>1, <2>2, HeldGood, PutHeld
  <2>4. h.kind = f.kind /\ h.ent = f.ent /\ h.nlinks = f.nlinks
    <3>1. f \in Inodes /\ h = Held(f, d)
      BY <1>0, <2>2
    <3> QED  BY ONLY <3>1, HeldParts
  <2>5. PICK ix : ix = find_entry(h, d, name)
    OBVIOUS
  <2>6. PICK i : i = h.ent[d][ix][2]
    OBVIOUS
  <2>7. v = IF ~Searchable(h, d, deny) \/ ix = 0 THEN [f |-> iput(h, d), dir |-> 0]
            ELSE [f |-> iget(iput(h, d), i), dir |-> i]
    BY <1>2, <2>1, <2>2, <2>5, <2>6 DEF Follow
  <2>8. CASE ~Searchable(h, d, deny) \/ ix = 0
    BY <1>0, <2>3, <2>7, <2>8 DEF Walked
  <2>9. CASE Searchable(h, d, deny) /\ ix # 0
    <3>1. h.kind[d] = "dir"
      BY <2>9 DEF Searchable
    <3>2. ix \in 1..Len(h.ent[d]) /\ i \in Ino /\ h.kind[i] # "free"
      BY <2>3, <2>5, <2>6, <2>9, <3>1, FindEntry, Zenon
    <3>3. h.nlinks[i] > 0
      BY <2>3, <2>6, <3>2, EntryLinks
    <3>4. iget(f, i) = Held(f, i)
      BY <1>0, <3>2, HeldParts
    <3>5. v.f = Held(f, i) /\ v.dir = i
      BY <2>3, <2>7, <2>9, <3>4
    <3> QED  BY <2>4, <3>2, <3>3, <3>5 DEF Walked
  <2> QED  BY <2>8, <2>9
<1> QED  BY <1>1, <1>2

Runs(w, n, start, dirs, deny) ==
    w = [k \in 0..n |-> IF k = 0 THEN start ELSE Follow(w[k - 1], dirs[k], deny)]

LEMMA RunExists ==
    ASSUME NEW n \in Nat, NEW start, NEW dirs, NEW deny
    PROVE  \E w : Runs(w, n, start, dirs, deny)
<1> DEFINE T == {k \in Nat : \E w : Runs(w, k, start, dirs, deny)}
<1>1. 0 \in T
  <2>1. PICK w : w = [k \in 0..0 |-> start]
    OBVIOUS
  <2>2. \A k \in 0..0 : k = 0 /\ start = IF k = 0 THEN start ELSE Follow(w[k - 1], dirs[k], deny)
    OBVIOUS
  <2>3. [k \in 0..0 |-> start]
        = [k \in 0..0 |-> IF k = 0 THEN start ELSE Follow(w[k - 1], dirs[k], deny)]
    BY ONLY <2>2
  <2> QED  BY <2>1, <2>3 DEF Runs
<1>2. ASSUME NEW m \in Nat, m \in T PROVE m + 1 \in T
  <2>1. PICK w : Runs(w, m, start, dirs, deny)
    BY <1>2
  <2>2. PICK z : z = Follow(w[m], dirs[m + 1], deny)
    OBVIOUS
  <2>3. PICK x : x = [k \in 0..(m + 1) |-> IF k <= m THEN w[k] ELSE z]
    OBVIOUS
  <2>4. ASSUME NEW k \in 0..(m + 1)
        PROVE  x[k] = IF k = 0 THEN start ELSE Follow(x[k - 1], dirs[k], deny)
    <3>1. CASE k <= m
      <4>1. x[k] = w[k] /\ k \in 0..m /\ (k # 0 => x[k - 1] = w[k - 1])
        BY <2>3, <3>1
      <4>2. w[k] = IF k = 0 THEN start ELSE Follow(w[k - 1], dirs[k], deny)
        BY <2>1, <4>1 DEF Runs
      <4> QED  BY <4>1, <4>2
    <3>2. CASE k = m + 1
      <4>1. x[k] = z /\ x[k - 1] = w[m] /\ k # 0
        BY <2>3, <3>2
      <4> QED  BY <2>2, <3>2, <4>1
    <3> QED  BY <3>1, <3>2
  <2>5. x = [k \in 0..(m + 1) |-> x[k]]
    BY <2>3
  <2>6. [k \in 0..(m + 1) |-> x[k]]
        = [k \in 0..(m + 1) |-> IF k = 0 THEN start ELSE Follow(x[k - 1], dirs[k], deny)]
    BY ONLY <2>4
  <2>7. Runs(x, m + 1, start, dirs, deny)
    BY <2>5, <2>6 DEF Runs
  <2> QED  BY <2>7
<1>3. n \in T
  <2> HIDE DEF T
  <2> QED  BY <1>1, <1>2, Induct
<1> QED  BY <1>3

LEMMA RunWalks ==
    ASSUME NEW f, Good(f), NEW n \in Nat, NEW start, Walked(f, start), NEW dirs, NEW deny,
           NEW w, Runs(w, n, start, dirs, deny)
    PROVE  Walked(f, w[n])
<1> DEFINE T == {k \in Nat : k <= n => Walked(f, w[k])}
<1>1. 0 \in T
  <2>1. w[0] = start
    BY DEF Runs
  <2> QED  BY <2>1
<1>2. ASSUME NEW m \in Nat, m \in T PROVE m + 1 \in T
  <2> SUFFICES ASSUME m + 1 <= n PROVE Walked(f, w[m + 1])
    OBVIOUS
  <2>1. m + 1 \in 0..n /\ m + 1 # 0 /\ (m + 1) - 1 = m /\ m <= n
    OBVIOUS
  <2>2. w[m + 1] = Follow(w[m], dirs[m + 1], deny)
    BY <2>1 DEF Runs
  <2>3. Walked(f, w[m])
    BY <1>2, <2>1
  <2> QED  BY <2>2, <2>3, FollowWalks
<1>3. n \in T
  <2> HIDE DEF T
  <2> QED  BY <1>1, <1>2, Induct
<1> QED  BY <1>3

\* dir_namei holds the directory it returns, and changes nothing else.
LEMMA DirNamei ==
    ASSUME NEW f, Good(f), NEW p, pwd[p] \in Ino, f.kind[pwd[p]] = "dir",
           NEW path \in Paths \cup NewPaths, NEW deny, NEW r, r = dir_namei(p, f, path, deny)
    PROVE  /\ r.f = Held(f, r.dir)
           /\ r.dir = 0 \/ (r.dir \in Ino /\ f.kind[r.dir] = "dir")
<1>0. f \in Inodes /\ f = Held(f, 0)
  BY HeldParts, Typing, Zenon DEF Good
<1> DEFINE n == Len(path.dirs)
           s == IF path.abs THEN Root ELSE pwd[p]
           start == [f |-> iget(f, s), dir |-> s]
           walk == CHOOSE w : Runs(w, n, start, path.dirs, deny)
           end == walk[n]
<1>11. r = IF ~path.abs /\ path.dirs = <<>> /\ path.base = "" THEN [f |-> f, dir |-> 0]
           ELSE IF end.dir # 0 /\ ~Searchable(end.f, end.dir, deny)
           THEN [f |-> iput(end.f, end.dir), dir |-> 0]
           ELSE end
  BY Zenon DEF dir_namei, Runs
<1>2. n \in Nat
  BY FileSystemAssumption
<1>4. s \in Ino /\ f.kind[s] = "dir"
  <2>1. f.kind[Root] = "dir" /\ Root \in Ino
    BY Typing, Zenon DEF Good, Tree, Parents, Dirs
  <2> QED  BY <2>1
<1>5. start.f = iget(f, s) /\ start.dir = s
  OBVIOUS
<1> HIDE DEF s, n, start
<1>6. Walked(f, start)
  <2>1. start.f = Held(f, s) /\ start.dir = s
    BY <1>0, <1>4, <1>5, HeldParts
  <2>2. f.nlinks[s] > 0
    BY <1>4, DirLinks
  <2> QED  BY <1>4, <2>1, <2>2 DEF Walked
<1>7. \E w : Runs(w, n, start, path.dirs, deny)
  BY <1>2, RunExists
<1>8. Runs(walk, n, start, path.dirs, deny)
  BY <1>7
<1> HIDE DEF walk
<1>10. Walked(f, end)
  BY <1>2, <1>6, <1>8, RunWalks
<1> HIDE DEF end
<1>12. CASE ~path.abs /\ path.dirs = <<>> /\ path.base = ""
  <2>1. r = [f |-> f, dir |-> 0]
    BY ONLY <1>11, <1>12, Zenon
  <2> QED  BY <1>0, <2>1
<1>13. CASE /\ ~(~path.abs /\ path.dirs = <<>> /\ path.base = "")
            /\ end.dir # 0 /\ ~Searchable(end.f, end.dir, deny)
  <2>1. r = [f |-> iput(end.f, end.dir), dir |-> 0]
    BY ONLY <1>11, <1>13, Zenon
  <2>2. iput(end.f, end.dir) = f
    BY <1>0, <1>10, <1>13, PutHeld, Zenon DEF Walked
  <2> QED  BY <1>0, <2>1, <2>2
<1>14. CASE /\ ~(~path.abs /\ path.dirs = <<>> /\ path.base = "")
            /\ ~(end.dir # 0 /\ ~Searchable(end.f, end.dir, deny))
  <2>1. r = end
    BY ONLY <1>11, <1>14, Zenon
  <2>2. CASE end.dir = 0
    BY <1>10, <2>1, <2>2 DEF Walked
  <2>3. CASE end.dir # 0
    <3>1. end.f.kind[end.dir] = "dir" /\ end.dir \in Ino /\ end.f = Held(f, end.dir)
      BY <1>10, <1>14, <2>3, Zenon DEF Walked, Searchable
    <3>2. end.f.kind = f.kind
      BY <1>0, <3>1, HeldParts
    <3> QED  BY <2>1, <3>1, <3>2
  <2> QED  BY <2>2, <2>3
<1> QED  BY <1>12, <1>13, <1>14, Zenon

\* So does namei with the inode it returns.
LEMMA Namei ==
    ASSUME NEW f, Good(f), NEW p, pwd[p] \in Ino, f.kind[pwd[p]] = "dir",
           NEW path \in Paths \cup NewPaths, NEW deny, NEW o, o = namei(p, f, path, deny)
    PROVE  Walked(f, o)
<1>0. f \in Inodes /\ f = Held(f, 0)
  BY HeldParts, Typing, Zenon DEF Good
<1>1. PICK r : r = dir_namei(p, f, path, deny)
  OBVIOUS
<1>2. /\ r.f = Held(f, r.dir)
      /\ r.dir = 0 \/ (r.dir \in Ino /\ f.kind[r.dir] = "dir")
  BY <1>1, DirNamei
<1>3. PICK ix : ix = find_entry(r.f, r.dir, path.base)
  OBVIOUS
<1>4. PICK i : i = r.f.ent[r.dir][ix][2]
  OBVIOUS
<1>5. o = IF r.dir = 0 \/ path.base = "" THEN r
          ELSE IF ix = 0 THEN [f |-> iput(r.f, r.dir), dir |-> 0]
          ELSE [f |-> iget(iput(r.f, r.dir), i), dir |-> i]
  BY <1>1, <1>3, <1>4, Zenon DEF namei
<1>6. CASE r.dir = 0
  BY <1>2, <1>5, <1>6 DEF Walked
<1>7. CASE r.dir # 0
  <2>1. PICK d \in Ino : d = r.dir /\ f.kind[d] = "dir"
    BY <1>2, <1>7
  <2>2. f.nlinks[d] > 0
    BY <2>1, DirLinks
  <2>3. Good(r.f) /\ iput(r.f, d) = f
    <3>1. r.f = Held(f, d) /\ f.kind[d] # "free"
      BY <1>2, <2>1
    <3> QED  BY <1>0, <2>2, <3>1, HeldGood, PutHeld
  <2>4. r.f.kind = f.kind /\ r.f.ent = f.ent /\ r.f.nlinks = f.nlinks
    <3>1. PICK h : h = Held(f, d)
      OBVIOUS
    <3>2. h.kind = f.kind /\ h.ent = f.ent /\ h.nlinks = f.nlinks
      BY ONLY <1>0, <3>1, HeldParts
    <3> QED  BY <1>2, <2>1, <3>1, <3>2
  <2>5. CASE path.base = ""
    BY <1>2, <1>5, <2>1, <2>2, <2>5, Zenon DEF Walked
  <2>6. CASE path.base # "" /\ ix = 0
    <3>1. o = [f |-> iput(r.f, r.dir), dir |-> 0]
      BY ONLY <1>5, <1>7, <2>6, Zenon
    <3>2. o.f = f /\ o.dir = 0
      BY <2>1, <2>3, <3>1
    <3> QED  BY <1>0, <3>2 DEF Walked
  <2>7. CASE path.base # "" /\ ix # 0
    <3>1. ix \in 1..Len(f.ent[d]) /\ f.ent[d][ix][2] \in Ino /\ f.kind[f.ent[d][ix][2]] # "free"
      <4>1. PICK h : h = r.f
        OBVIOUS
      <4>2. Good(h) /\ h.kind[d] = "dir" /\ ix = find_entry(h, d, path.base)
        BY <1>3, <2>1, <2>3, <2>4, <4>1
      <4>3. ix \in 1..Len(h.ent[d]) /\ h.ent[d][ix][2] \in Ino /\ h.kind[h.ent[d][ix][2]] # "free"
        BY <2>7, <4>2, FindEntry, Zenon
      <4> QED  BY <2>4, <4>1, <4>3
    <3>2. i \in Ino /\ i = f.ent[d][ix][2] /\ f.kind[i] # "free" /\ f.nlinks[i] > 0
      <4>1. i = f.ent[d][ix][2]
        BY <1>4, <2>1, <2>4
      <4>2. f.nlinks[f.ent[d][ix][2]] > 0
        BY <3>1, EntryLinks
      <4> QED  BY <3>1, <4>1, <4>2
    <3>3. iget(f, i) = Held(f, i)
      BY <1>0, <3>2, HeldParts
    <3>4. o.f = Held(f, i) /\ o.dir = i
      <4>1. o = [f |-> iget(iput(r.f, r.dir), i), dir |-> i]
        BY ONLY <1>5, <1>7, <2>7, Zenon
      <4> QED  BY <2>1, <2>3, <3>3, <4>1
    <3> QED  BY <3>2, <3>4 DEF Walked
  <2> QED  BY <2>5, <2>6, <2>7, Zenon
<1> QED  BY <1>6, <1>7

----------------------------------------------------------------------------
\* Entering a name.

LEMMA AddEntry ==
    ASSUME NEW f \in Inodes, NEW d \in Ino, NEW name, NEW a, a = add_entry(f, d, name),
           NEW h, h = a.f
    PROVE  /\ h \in Inodes /\ h.kind = f.kind /\ h.nlinks = f.nlinks /\ h.count = f.count
           /\ Grown(f.ent, h.ent, d)
           /\ \A j \in Ino \ {d} : h.zone[j] = f.zone[j]
           /\ a.at = 0 => h = f
           /\ a.at # 0 => a.at \in 1..Len(h.ent[d]) /\ h.ent[d][a.at] = Hole
<1> DEFINE holes == {k \in DOMAIN f.ent[d] : f.ent[d][k] = Hole}
           n == Len(f.ent[d])
           full == n = f.zone[d] * BlockEntries
           more == [f EXCEPT !.ent[d] = Append(@, Hole), !.zone[d] = IF full THEN @ + 1 ELSE @]
           none == name = "" \/ (holes = {} /\ full /\ FreeBlocks(f) = 0)
<1>1. a = IF none THEN [f |-> f, at |-> 0]
          ELSE IF holes # {} THEN [f |-> f, at |-> Min(holes)]
          ELSE [f |-> more, at |-> n + 1]
  BY Zenon DEF add_entry
<1>2. /\ f.count \in [Ino -> Nat] /\ f.kind \in [Ino -> Kinds] /\ f.nlinks \in [Ino -> Nat]
      /\ f.ent \in [Ino -> Seq(Slot)] /\ f.zone \in [Ino -> Nat]
  BY DEF Inodes
<1>3. n \in Nat /\ DOMAIN f.ent[d] = 1..n /\ f.ent[d] \in Seq(Slot)
  BY <1>2
<1>4. Grown(f.ent, f.ent, d)
  BY <1>2 DEF Grown
<1> HIDE DEF none
<1>5. CASE none
  <2>1. a = [f |-> f, at |-> 0]
    BY ONLY <1>1, <1>5
  <2>2. h = f /\ a.at = 0
    BY <2>1
  <2> QED  BY <1>4, <2>2
<1>6. CASE ~none /\ holes # {}
  <2>1. a = [f |-> f, at |-> Min(holes)]
    BY ONLY <1>1, <1>6
  <2>2. holes \in SUBSET Nat
    <3>1. \A k \in holes : k \in 1..n
      BY <1>3
    <3>2. 1..n \subseteq Nat
      BY <1>3
    <3> HIDE DEF holes
    <3> QED  BY <3>1, <3>2
  <2>3. Min(holes) \in holes
    <3> HIDE DEF holes
    <3> QED  BY <1>6, <2>2, MinIn
  <2>4. Min(holes) \in 1..n /\ f.ent[d][Min(holes)] = Hole
    BY <1>3, <2>3
  <2>5. h = f /\ a.at = Min(holes) /\ a.at # 0
    BY <2>1, <2>4
  <2> QED  BY <1>4, <2>4, <2>5
<1>7. CASE ~none /\ holes = {}
  <2>1. a = [f |-> more, at |-> n + 1]
    BY ONLY <1>1, <1>7
  <2>2. h = more /\ a.at = n + 1
    BY <2>1
  <2>3. PICK t : t = Append(f.ent[d], Hole)
    OBVIOUS
  <2>4. /\ t \in Seq(Slot) /\ Len(t) = n + 1 /\ t[n + 1] = Hole
    BY <1>3, <2>3, Append1
  <2>5. PICK z \in Nat : z = IF full THEN f.zone[d] + 1 ELSE f.zone[d]
    BY <1>2
  <2>6. h = [f EXCEPT !.ent[d] = t, !.zone[d] = z]
    BY <2>2, <2>3, <2>5
  <2> HIDE DEF more, full, holes
  <2>7. /\ h.kind = f.kind /\ h.nlinks = f.nlinks /\ h.count = f.count
        /\ h.ent = [f.ent EXCEPT ![d] = t] /\ h.zone = [f.zone EXCEPT ![d] = z]
    BY <2>6 DEF Inodes
  <2>8. h.ent \in [Ino -> Seq(Slot)] /\ h.zone \in [Ino -> Nat] /\ h.ent[d] = t
    BY <1>2, <2>4, <2>7
  <2>9. h \in Inodes
    BY <1>2, <2>6, <2>7, <2>8 DEF Inodes
  <2>10. Grown(f.ent, h.ent, d)
    BY <1>2, <2>3, <2>7, <2>8 DEF Grown
  <2>11. \A j \in Ino \ {d} : h.zone[j] = f.zone[j]
    BY <1>2, <2>7
  <2>12. a.at \in 1..Len(h.ent[d]) /\ h.ent[d][a.at] = Hole /\ a.at # 0
    BY <1>3, <2>2, <2>4, <2>8
  <2> QED  BY <2>7, <2>9, <2>10, <2>11, <2>12
<1> QED  BY <1>5, <1>6, <1>7

LEMMA SetEnt ==
    ASSUME NEW E, E \in [Ino -> Seq(Slot)], NEW d \in Ino, NEW ix \in 1..Len(E[d]),
           NEW s \in Slot, NEW F, F = [E EXCEPT ![d][ix] = s]
    PROVE  Set1(E, F, d, ix, s)
<1>1. PICK t : t = [E[d] EXCEPT ![ix] = s]
  OBVIOUS
<1>2. t \in Seq(Slot) /\ Len(t) = Len(E[d])
      /\ \A k \in 1..Len(E[d]) : t[k] = IF k = ix THEN s ELSE E[d][k]
  <2>1. E[d] \in Seq(Slot)
    OBVIOUS
  <2> QED  BY <1>1, <2>1
<1>3. F = [E EXCEPT ![d] = t]
  BY <1>1
<1> QED  BY <1>2, <1>3 DEF Set1

\* Only places behind "." and ".." are empty or lead to files.
LEMMA Behind ==
    ASSUME NEW Q, NEW E, Tree(Q, E), NEW d \in Dirs(Q), NEW ix \in 1..Len(E[d]),
           E[d][ix][2] \notin Dirs(Q)
    PROVE  ix \in 3..Len(E[d])
<1>1. DirOK(Q, E, d) /\ d \in Ino /\ Len(E[d]) \in Nat
  BY DEF Tree, Dirs
<1>2. ix # 1
  BY <1>1 DEF DirOK
<1>3. ix # 2
  BY <1>1 DEF DirOK, Up
<1> QED  BY <1>1, <1>2, <1>3

LEMMA FreshGrown ==
    ASSUME NEW E, E \in [Ino -> Seq(Slot)], NEW F, NEW d \in Ino, Grown(E, F, d), NEW name,
           Fresh(E, d, name), Proper(name)
    PROVE  Fresh(F, d, name)
<1>1. CASE F[d] = E[d]
  BY <1>1 DEF Fresh
<1>2. CASE F[d] = Append(E[d], Hole)
  <2>1. PICK n \in Nat : n = Len(E[d])
    OBVIOUS
  <2>2. Len(F[d]) = n + 1 /\ F[d][n + 1] = Hole /\ \A k \in 1..n : F[d][k] = E[d][k]
    <3>1. E[d] \in Seq(Slot)
      OBVIOUS
    <3> QED  BY <1>2, <2>1, <3>1, Append1
  <2>3. ASSUME NEW k \in 1..Len(F[d]) PROVE F[d][k][1] # name
    <3>1. CASE k = n + 1
      BY <2>2, <3>1, Typing, Zenon DEF Proper
    <3>2. CASE k # n + 1
      <4>1. k \in 1..n
        BY <2>2, <3>2
      <4> QED  BY <2>1, <2>2, <4>1 DEF Fresh
    <3> QED  BY <3>1, <3>2
  <2> QED  BY <2>3 DEF Fresh
<1> QED  BY <1>1, <1>2 DEF Grown

\* Updates that cancel.
LEMMA Still ==
    ASSUME NEW A, NEW F \in [Ino -> A], NEW i \in Ino, NEW v, F[i] = v
    PROVE  [F EXCEPT ![i] = v] = F
OBVIOUS

LEMMA Again ==
    ASSUME NEW A, NEW F \in [Ino -> A], NEW i \in Ino, NEW v, NEW w,
           NEW G, G = [F EXCEPT ![i] = v]
    PROVE  [G EXCEPT ![i] = w] = [F EXCEPT ![i] = w]
OBVIOUS

LEMMA FreeInode ==
    ASSUME NEW f, Good(f), NEW i \in Ino, f.kind[i] = "free"
    PROVE  /\ At(f.ent, i) = {} /\ f.nlinks[i] = 0 /\ f.count[i] = 0 /\ f.ent[i] = <<>>
<1>1. PICK E : E = f.ent
  OBVIOUS
<1>2. Tree(f.kind, E) /\ E \in [Ino -> Seq(Slot)]
  BY <1>1 DEF Good, Tree
<1>3. At(E, i) = {}
  <2> SUFFICES ASSUME NEW d \in Ino, NEW k \in 1..Len(E[d]), E[d][k][2] = i PROVE FALSE
    BY <1>2 DEF At
  <2>1. Len(E[d]) \in Nat
    BY <1>2
  <2>2. d \in Dirs(f.kind)
    <3>1. CASE f.kind[d] # "dir"
      BY <1>2, <3>1 DEF Tree
    <3>2. CASE f.kind[d] = "dir"
      BY <3>2 DEF Dirs
    <3> QED  BY <3>1, <3>2
  <2>3. DirOK(f.kind, E, d)
    BY <1>2, <2>2 DEF Tree
  <2>4. CASE k = 1
    BY <2>2, <2>3, <2>4 DEF DirOK, Dirs
  <2>5. CASE k = 2
    BY <2>3, <2>5 DEF DirOK, Dirs, Up
  <2>6. CASE k # 1 /\ k # 2
    <3>1. k \in 3..Len(E[d])
      BY <2>1, <2>6
    <3> QED  BY <2>3, <3>1, Typing, Zenon DEF DirOK, Names
  <2> QED  BY <2>4, <2>5, <2>6
<1>4. f.nlinks[i] = 0
  BY <1>1, <1>3, FS_EmptySet DEF Good, Links
<1>5. f.count[i] = 0
  <2>1. f.count[i] \in Nat /\ ~(f.count[i] > 0)
    BY DEF Good, Inodes
  <2> QED  BY <2>1
<1>6. f.ent[i] = <<>>
  BY DEF Good, Tree
<1> QED  BY <1>1, <1>3, <1>4, <1>5, <1>6

\* An inode is taken.
Took(f, g, i, x, l, e) == /\ g.kind = [f.kind EXCEPT ![i] = x]
                          /\ g.nlinks = [f.nlinks EXCEPT ![i] = l]
                          /\ g.ent = [f.ent EXCEPT ![i] = e]
                          /\ g.count = Plus(f.count, i)

LEMMA TakenParts ==
    ASSUME NEW f, Good(f), NEW i \in Ino, f.kind[i] = "free", NEW x \in Kinds, NEW l \in Nat,
           NEW e \in Seq(Slot), NEW z \in Nat, NEW g, g = Taken(f, i, x, l, e, z)
    PROVE  /\ g \in Inodes /\ Took(f, g, i, x, l, e)
           /\ Kept(f, g, f.count) /\ Under(f.count, g.count)
<1>1. /\ f.count \in [Ino -> Nat] /\ f.kind \in [Ino -> Kinds] /\ f.nlinks \in [Ino -> Nat]
      /\ f.ent \in [Ino -> Seq(Slot)] /\ f.zone \in [Ino -> Nat] /\ f \in Inodes
  BY DEF Good, Inodes
<1>2. f.count[i] = 0
  BY FreeInode
<1>3. /\ g.kind = [f.kind EXCEPT ![i] = x] /\ g.nlinks = [f.nlinks EXCEPT ![i] = l]
      /\ g.count = [f.count EXCEPT ![i] = 1] /\ g.ent = [f.ent EXCEPT ![i] = e]
      /\ g.zone = [f.zone EXCEPT ![i] = z]
      /\ g = [kind |-> g.kind, nlinks |-> g.nlinks, count |-> g.count, ent |-> g.ent,
              zone |-> g.zone]
  BY <1>1 DEF Taken, Inodes
<1>4. g.count = Plus(f.count, i)
  <2>1. Plus(f.count, i) = [f.count EXCEPT ![i] = @ + 1]
    BY <1>1, PlusType
  <2> QED  BY <1>2, <1>3, <2>1
<1>5. /\ g.kind \in [Ino -> Kinds] /\ g.nlinks \in [Ino -> Nat] /\ g.count \in [Ino -> Nat]
      /\ g.ent \in [Ino -> Seq(Slot)] /\ g.zone \in [Ino -> Nat]
  BY <1>1, <1>3
<1>6. g \in Inodes
  BY <1>3, <1>5 DEF Inodes
<1>7. Kept(f, g, f.count) /\ Under(f.count, g.count)
  BY <1>1, <1>2, <1>3 DEF Kept, Under
<1> QED  BY <1>3, <1>4, <1>6, <1>7 DEF Took

\* As a file without a name.
LEMMA TakeFile ==
    ASSUME NEW f, Good(f), NEW i \in Ino, f.kind[i] = "free", NEW x \in {"reg", "proc"},
           NEW z \in Nat, NEW g, g = Taken(f, i, x, 0, <<>>, z)
    PROVE  After(f, g, Plus(f.count, i), f.count)
<1>1. /\ f.count \in [Ino -> Nat] /\ f.kind \in [Ino -> Kinds] /\ f.nlinks \in [Ino -> Nat]
      /\ f.ent \in [Ino -> Seq(Slot)]
  BY DEF Good, Inodes
<1>2. x \in Kinds /\ x \in Kinds \ {"dir"} /\ x # "free" /\ 0 \in Nat /\ <<>> \in Seq(Slot)
  BY DEF Kinds
<1>3. /\ g \in Inodes /\ g.count = Plus(f.count, i)
      /\ g.kind = [f.kind EXCEPT ![i] = x] /\ g.nlinks = [f.nlinks EXCEPT ![i] = 0]
      /\ g.ent = [f.ent EXCEPT ![i] = <<>>]
      /\ Kept(f, g, f.count) /\ Under(f.count, g.count)
  <2>1. g \in Inodes /\ Took(f, g, i, x, 0, <<>>) /\ Kept(f, g, f.count) /\ Under(f.count, g.count)
    BY <1>2, TakenParts
  <2> QED  BY <2>1 DEF Took
<1>4. At(f.ent, i) = {} /\ f.nlinks[i] = 0 /\ f.ent[i] = <<>>
  BY FreeInode
<1>5. g.nlinks = f.nlinks /\ g.ent = f.ent
  BY <1>1, <1>3, <1>4
<1>6. Tree(g.kind, g.ent)
  BY <1>2, <1>3, <1>4, <1>5, KindTree DEF Good
<1>7. \A j \in Ino : g.count[j] > 0 => g.kind[j] # "free"
  BY <1>1, <1>2, <1>3 DEF Good, Plus
<1> QED  BY <1>3, <1>5, <1>6, <1>7 DEF After, Good

\* Only entries, and the blocks of directory d, are not the same.
SameBut(g, e, d) == /\ e \in Inodes /\ e.kind = g.kind /\ e.nlinks = g.nlinks /\ e.count = g.count
                    /\ \A j \in Ino \ {d} : e.zone[j] = g.zone[j]

LEMMA GrownLinks ==
    ASSUME NEW E, E \in [Ino -> Seq(Slot)], NEW F, NEW d \in Ino, Grown(E, F, d),
           NEW L, Links(L, E)
    PROVE  Links(L, F)
<1>1. \A i \in Ino : At(F, i) = At(E, i)
  BY GrownAt
<1> QED  BY <1>1 DEF Links

\* add_entry and the entry of the inode number, for a file.
LEMMA EnterName ==
    ASSUME NEW g \in Inodes, Tree(g.kind, g.ent), NEW d \in Ino, g.kind[d] = "dir",
           NEW i \in Ino, g.kind[i] \notin {"free", "dir"}, NEW name, Proper(name),
           Fresh(g.ent, d, name), NEW L, Links(L, g.ent),
           NEW a, a = add_entry(g, d, name), a.at # 0, NEW e, e = Entered(a, d, name, i)
    PROVE  SameBut(g, e, d) /\ Tree(e.kind, e.ent) /\ Links([L EXCEPT ![i] = @ + 1], e.ent)
<1>1. PICK h : h = a.f
  OBVIOUS
<1>2. /\ h \in Inodes /\ h.kind = g.kind /\ h.nlinks = g.nlinks /\ h.count = g.count
      /\ Grown(g.ent, h.ent, d)
      /\ \A j \in Ino \ {d} : h.zone[j] = g.zone[j]
      /\ a.at \in 1..Len(h.ent[d]) /\ h.ent[d][a.at] = Hole
  BY <1>1, AddEntry
<1>3. /\ g.ent \in [Ino -> Seq(Slot)] /\ h.ent \in [Ino -> Seq(Slot)] /\ d \in Dirs(h.kind)
      /\ d \in Dirs(g.kind)
  BY <1>2 DEF Inodes, Dirs
<1>4. Tree(h.kind, h.ent)
  BY <1>2, <1>3, GrownTree
<1>5. Links(L, h.ent)
  BY <1>2, <1>3, GrownLinks
<1>6. Fresh(h.ent, d, name)
  BY <1>2, <1>3, FreshGrown
<1>7. PICK F : F = [h.ent EXCEPT ![d][a.at] = <<name, i>>]
  OBVIOUS
<1>8. /\ F \in [Ino -> Seq(Slot)] /\ Tree(h.kind, F) /\ Links([L EXCEPT ![i] = @ + 1], F)
  <2>1. h.kind[i] \notin {"free", "dir"}
    BY <1>2
  <2>2. PICK N : N = [L EXCEPT ![i] = @ + 1]
    OBVIOUS
  <2>3. PICK ix \in 1..Len(h.ent[d]) : ix = a.at /\ h.ent[d][ix] = Hole
    BY <1>2
  <2>4. F = [h.ent EXCEPT ![d][ix] = <<name, i>>]
    BY <1>7, <2>3
  <2>5. F \in [Ino -> Seq(Slot)] /\ Tree(h.kind, F) /\ Links(N, F)
    <3>1. PICK Q : Q = h.kind
      OBVIOUS
    <3>2. PICK E : E = h.ent
      OBVIOUS
    <3>3. /\ Tree(Q, E) /\ d \in Dirs(Q) /\ ix \in 1..Len(E[d]) /\ E[d][ix] = Hole
          /\ Q[i] \notin {"free", "dir"} /\ Fresh(E, d, name)
          /\ F = [E EXCEPT ![d][ix] = <<name, i>>] /\ Links(L, E)
      BY <1>3, <1>4, <1>5, <1>6, <2>1, <2>3, <2>4, <3>1, <3>2
    <3>4. PICK s \in Slot : s = <<name, i>> /\ s[1] = name /\ s[2] = i
      BY Typing, Zenon DEF Proper
    <3>5. E \in [Ino -> Seq(Slot)] /\ d \in Ino /\ i \notin Dirs(Q)
      BY <3>3 DEF Tree, Dirs
    <3>6. Set1(E, F, d, ix, s)
      <4>1. F = [E EXCEPT ![d][ix] = s]
        BY <3>3, <3>4
      <4> QED  BY <3>3, <3>5, <4>1, SetEnt
    <3>7. E[d][ix][2] \notin Dirs(Q) /\ ix \in 3..Len(E[d])
      <4>1. E[d][ix][2] \notin Dirs(Q)
        BY <3>3, Typing, Zenon DEF Dirs
      <4> QED  BY <3>3, <4>1, Behind
    <3>8. Names(Q, s) /\ (\A k \in 1..Len(E[d]) : E[d][k][1] # s[1]) /\ s[2] \notin Dirs(Q)
      BY <3>3, <3>4, <3>5, Zenon DEF Names, Proper, Fresh
    <3>9. Tree(Q, F)
      BY <3>3, <3>5, <3>6, <3>7, <3>8, Set1Tree
    <3>10. Links(N, F)
      BY <2>2, <3>3, <3>4, <3>5, <3>6, EnterLinks
    <3>11. F \in [Ino -> Seq(Slot)]
      BY <3>6 DEF Set1
    <3> QED  BY <3>1, <3>9, <3>10, <3>11
  <2> QED  BY <2>2, <2>5
<1>9. e = [h EXCEPT !.ent = F]
  BY <1>1, <1>2, <1>7 DEF Entered, Inodes
<1>10. /\ e.kind = h.kind /\ e.nlinks = h.nlinks /\ e.count = h.count /\ e.zone = h.zone
       /\ e.ent = F /\ e \in Inodes
  BY <1>2, <1>8, <1>9 DEF Inodes
<1> QED  BY <1>2, <1>8, <1>10 DEF SameBut

LEMMA AfterTrans ==
    ASSUME NEW f, NEW h, NEW c, NEW b, After(f, h, c, b), NEW g, NEW k, After(h, g, k, c)
    PROVE  After(f, g, k, b)
BY DEF After, Kept, Under

\* open_namei and sys_mknod make a file.
Made(f, d, i, name, a, g) ==
    /\ i # d
    /\ a.at # 0 => After(f, Entered(a, d, name, i), Plus(Plus(f.count, i), d), f.count)
    /\ a.at = 0 => a.f = g
    /\ After(f, [g EXCEPT !.nlinks[i] = @ - 1], Plus(Plus(f.count, d), i), f.count)
    /\ After(f, [iput(g, d) EXCEPT !.nlinks[i] = 0], Plus(f.count, i), f.count)

LEMMA CreateFile ==
    ASSUME NEW f, Good(f), NEW d \in Ino, f.kind[d] = "dir", NEW h, h = Held(f, d),
           NEW name, Proper(name), Fresh(h.ent, d, name), NEW i \in Ino, h.kind[i] = "free",
           NEW x \in {"reg", "proc"}, NEW z \in Nat, NEW g, g = Taken(h, i, x, 1, <<>>, z),
           NEW a, a = add_entry(g, d, name)
    PROVE  Made(f, d, i, name, a, g)
<1>0. /\ f \in Inodes /\ f.count \in [Ino -> Nat] /\ f.kind[d] # "free" /\ f.nlinks[d] > 0
  BY DirLinks DEF Good, Inodes
<1>1. /\ h \in Inodes /\ h.kind = f.kind /\ h.nlinks = f.nlinks /\ h.ent = f.ent
      /\ h.zone = f.zone /\ h.count = Plus(f.count, d)
  <2>1. f \in Inodes /\ h = Held(f, d)
    BY <1>0
  <2> QED  BY ONLY <2>1, HeldParts
<1>2. Good(h) /\ After(f, h, Plus(f.count, d), f.count)
  BY <1>0, HeldGood, HeldAfter
<1>3. i # d
  BY <1>0, <1>1
<1>4. PICK g0 : g0 = Taken(h, i, x, 0, <<>>, z)
  OBVIOUS
<1>5. After(h, g0, Plus(h.count, i), h.count)
  BY <1>2, <1>4, TakeFile
<1>6. After(f, g0, Plus(Plus(f.count, d), i), f.count)
  BY <1>1, <1>2, <1>5, AfterTrans
<1>7. At(h.ent, i) = {} /\ h.nlinks[i] = 0 /\ h.count[i] = 0 /\ h.ent[i] = <<>>
  BY <1>2, FreeInode
<1>8. /\ g.kind = g0.kind /\ g.ent = g0.ent /\ g.count = g0.count /\ g.zone = g0.zone
      /\ g.nlinks = [h.nlinks EXCEPT ![i] = 1] /\ g0.nlinks = [h.nlinks EXCEPT ![i] = 0]
      /\ g.kind = [h.kind EXCEPT ![i] = x] /\ g.ent = [h.ent EXCEPT ![i] = <<>>]
      /\ g.zone = [h.zone EXCEPT ![i] = z]
  BY <1>1, <1>4 DEF Taken, Inodes
<1>9. x \in Kinds /\ x \notin {"free", "dir"} /\ 1 \in Nat /\ <<>> \in Seq(Slot)
  BY DEF Kinds
<1>10. g \in Inodes /\ g0 \in Inodes /\ Good(g0) /\ Kept(f, g0, f.count)
  <2>1. g \in Inodes
    BY <1>2, <1>9, TakenParts
  <2> QED  BY <1>6, <2>1 DEF After, Good
<1>11. h.ent \in [Ino -> Seq(Slot)] /\ h.kind \in [Ino -> Kinds] /\ h.nlinks \in [Ino -> Nat]
       /\ h.zone \in [Ino -> Nat]
  BY <1>1 DEF Inodes
<1>12. g.ent = h.ent
  <2>1. [h.ent EXCEPT ![i] = <<>>] = h.ent
    BY ONLY <1>7, <1>11, Still
  <2> QED  BY ONLY <1>8, <2>1
<1>13. g.kind[i] = x /\ g.kind[d] = "dir" /\ g.nlinks[d] > 0 /\ g.nlinks[i] = 1
  BY <1>0, <1>1, <1>3, <1>8, <1>11
<1>14. a.at = 0 => a.f = g
  <2>1. PICK b : b = a.f
    OBVIOUS
  <2> QED  BY <1>10, <2>1, AddEntry
<1>15. ASSUME a.at # 0
       PROVE  After(f, Entered(a, d, name, i), Plus(Plus(f.count, i), d), f.count)
  <2>1. PICK e : e = Entered(a, d, name, i)
    OBVIOUS
  <2>2. Tree(g.kind, g.ent) /\ Links(g0.nlinks, g.ent)
    BY <1>8, <1>10 DEF Good
  <2>3. SameBut(g, e, d) /\ Tree(e.kind, e.ent)
        /\ Links([g0.nlinks EXCEPT ![i] = @ + 1], e.ent)
    <3>1. g \in Inodes /\ g.kind[d] = "dir" /\ g.kind[i] \notin {"free", "dir"}
          /\ Fresh(g.ent, d, name)
      BY <1>9, <1>10, <1>12, <1>13
    <3> QED  BY <1>15, <2>1, <2>2, <3>1, EnterName
  <2>4. [g0.nlinks EXCEPT ![i] = @ + 1] = e.nlinks
    <3>1. e.nlinks = g.nlinks
      BY <2>3 DEF SameBut
    <3> QED  BY <1>8, <1>11, <3>1
  <2>5. Good(e)
    <3>1. \A j \in Ino : g0.count[j] > 0 => g0.kind[j] # "free"
      BY <1>10 DEF Good
    <3> QED  BY <1>8, <2>3, <2>4, <3>1 DEF Good, SameBut
  <2>6. Kept(f, e, f.count)
    <3>1. e.kind = g0.kind /\ \A j \in Ino \ {d} : e.zone[j] = g0.zone[j]
      <4>1. g.kind = g0.kind /\ g.zone = g0.zone
        BY ONLY <1>8
      <4> QED  BY ONLY <4>1, <2>3 DEF SameBut
    <3>2. g0.kind[d] = "dir"
      BY <1>8, <1>13
    <3>3. ASSUME NEW j \in Ino, f.count[j] > 0
          PROVE  e.kind[j] = f.kind[j] /\ (f.kind[j] # "dir" => e.zone[j] = f.zone[j])
      <4>1. g0.kind[j] = f.kind[j] /\ (f.kind[j] # "dir" => g0.zone[j] = f.zone[j])
        BY <1>10, <3>3 DEF Kept
      <4> QED  BY <3>1, <3>2, <4>1
    <3> QED  BY <3>3 DEF Kept
  <2>7. e.count = Plus(Plus(f.count, i), d) /\ Under(f.count, e.count)
    <3>1. e.count = g0.count
      BY <1>8, <2>3 DEF SameBut
    <3>2. g0.count = Plus(Plus(f.count, d), i) /\ Under(f.count, g0.count)
      BY <1>6 DEF After
    <3>3. Plus(Plus(f.count, d), i) = Plus(Plus(f.count, i), d)
      BY <1>0, PlusComm
    <3> QED  BY <3>1, <3>2, <3>3
  <2> QED  BY <2>1, <2>5, <2>6, <2>7 DEF After
<1>16. After(f, [g EXCEPT !.nlinks[i] = @ - 1], Plus(Plus(f.count, d), i), f.count)
  <2>1. PICK q : q = [g EXCEPT !.nlinks[i] = @ - 1]
    OBVIOUS
  <2>2. PICK N : N = [g.nlinks EXCEPT ![i] = 0]
    OBVIOUS
  <2>3. N = g0.nlinks
    BY <1>8, <1>11, <2>2
  <2>4. q = [g EXCEPT !.nlinks = N]
    BY <1>10, <1>13, <2>1, <2>2 DEF Inodes
  <2>5. /\ q.kind = g.kind /\ q.ent = g.ent /\ q.count = g.count /\ q.zone = g.zone
        /\ q.nlinks = N /\ q \in Inodes
    BY <1>10, <2>3, <2>4 DEF Inodes
  <2>6. q = g0
    <3>1. /\ q \in Inodes /\ g0 \in Inodes /\ q.kind = g0.kind /\ q.nlinks = g0.nlinks
          /\ q.count = g0.count /\ q.ent = g0.ent /\ q.zone = g0.zone
      BY ONLY <1>8, <1>10, <2>3, <2>5
    <3> QED  BY ONLY <3>1, Record
  <2> QED  BY <1>6, <2>1, <2>6
<1>17. After(f, [iput(g, d) EXCEPT !.nlinks[i] = 0], Plus(f.count, i), f.count)
  <2>1. PICK v : v = iput(g, d)
    OBVIOUS
  <2>2. g.count = Plus(Plus(f.count, i), d) /\ Plus(f.count, i) \in [Ino -> Nat]
    <3>1. g0.count = Plus(Plus(f.count, d), i)
      BY <1>6 DEF After
    <3>2. Plus(Plus(f.count, d), i) = Plus(Plus(f.count, i), d)
      BY <1>0, PlusComm
    <3> QED  BY <1>0, <1>8, <3>1, <3>2, PlusType
  <2>3. v \in Inodes /\ v.nlinks = g.nlinks /\ v.count = Plus(f.count, i) /\ Alike(g, v)
    BY <1>10, <1>13, <2>1, <2>2, IputParts
  <2>4. PICK q : q = [v EXCEPT !.nlinks[i] = 0]
    OBVIOUS
  <2>5. /\ q.kind = g.kind /\ q.ent = g.ent /\ q.count = Plus(f.count, i) /\ q.zone = g.zone
        /\ q.nlinks = g0.nlinks /\ q \in Inodes
    <3>1. /\ q.kind = v.kind /\ q.ent = v.ent /\ q.count = v.count /\ q.zone = v.zone
          /\ q.nlinks = [v.nlinks EXCEPT ![i] = 0] /\ q \in Inodes
      BY <2>3, <2>4 DEF Inodes
    <3>2. [g.nlinks EXCEPT ![i] = 0] = g0.nlinks
      <4>1. h.nlinks \in [Ino -> Nat] /\ g.nlinks = [h.nlinks EXCEPT ![i] = 1]
        BY ONLY <1>8, <1>11
      <4>2. [g.nlinks EXCEPT ![i] = 0] = [h.nlinks EXCEPT ![i] = 0]
        BY ONLY <4>1, Again
      <4> QED  BY ONLY <4>2, <1>8
    <3> QED  BY <2>3, <3>1, <3>2 DEF Alike
  <2>6. PICK t : t = Taken(f, i, x, 0, <<>>, z)
    OBVIOUS
  <2>7. f.kind[i] = "free"
    BY <1>1
  <2>8. After(f, t, Plus(f.count, i), f.count)
    BY <2>6, <2>7, TakeFile
  <2>9. t \in Inodes /\ t.count = Plus(f.count, i)
    BY <2>8 DEF After, Good
  <2>10. /\ t.kind = [f.kind EXCEPT ![i] = x] /\ t.ent = [f.ent EXCEPT ![i] = <<>>]
         /\ t.zone = [f.zone EXCEPT ![i] = z] /\ t.nlinks = [f.nlinks EXCEPT ![i] = 0]
    BY <1>0, <2>6 DEF Taken, Inodes
  <2>11. q = t
    BY <1>1, <1>8, <2>5, <2>9, <2>10, Record
  <2> QED  BY <2>1, <2>4, <2>8, <2>11
<1> QED  BY <1>3, <1>14, <1>15, <1>16, <1>17 DEF Made

\* sys_mkdir makes a directory.
LEMMA MkdirGood ==
    ASSUME NEW f, Good(f), NEW d \in Ino, f.kind[d] = "dir", NEW h, h = Held(f, d),
           NEW name, Proper(name), Fresh(h.ent, d, name), NEW i \in Ino, h.kind[i] = "free",
           NEW g, g = Taken(h, i, "dir", 2, Dots(i, d), 1),
           NEW a, a = add_entry(g, d, name), a.at # 0,
           NEW q, q = [Entered(a, d, name, i) EXCEPT !.nlinks[d] = @ + 1]
    PROVE  After(f, q, Plus(Plus(f.count, d), i), f.count)
<1>0. /\ f \in Inodes /\ f.count \in [Ino -> Nat] /\ f.kind[d] # "free" /\ f.nlinks[d] > 0
  BY DirLinks DEF Good, Inodes
<1>1. /\ h \in Inodes /\ h.kind = f.kind /\ h.nlinks = f.nlinks /\ h.ent = f.ent
      /\ h.zone = f.zone /\ h.count = Plus(f.count, d)
  <2>1. f \in Inodes /\ h = Held(f, d)
    BY <1>0
  <2> QED  BY ONLY <2>1, HeldParts
<1>2. Good(h) /\ After(f, h, Plus(f.count, d), f.count)
  BY <1>0, HeldGood, HeldAfter
<1>3. i # d
  BY <1>0, <1>1
<1>4. PICK E0 : E0 = f.ent
  OBVIOUS
<1>5. PICK L : L = f.nlinks
  OBVIOUS
<1>6. PICK Q : Q = f.kind
  OBVIOUS
<1>7. /\ E0 \in [Ino -> Seq(Slot)] /\ Q \in [Ino -> Kinds] /\ L \in [Ino -> Nat]
      /\ Tree(Q, E0) /\ Links(L, E0) /\ Q[i] = "free" /\ d \in Dirs(Q)
  BY <1>0, <1>1, <1>4, <1>5, <1>6 DEF Good, Inodes, Dirs
<1>8. At(E0, i) = {} /\ f.count[i] = 0 /\ E0[i] = <<>>
  BY <1>4, <1>6, <1>7, FreeInode
<1>9. Dots(i, d) \in Seq(Slot) /\ "dir" \in Kinds
  <2>1. PICK s \in Slot, t \in Slot : s = <<".", i>> /\ t = <<"..", d>>
    BY Typing, Zenon
  <2>2. <<s, t>> \in Seq(Slot)
    OBVIOUS
  <2> QED  BY <2>1, <2>2 DEF Dots, Kinds
<1>10. /\ g \in Inodes /\ g.kind = [Q EXCEPT ![i] = "dir"] /\ g.nlinks = [L EXCEPT ![i] = 2]
       /\ g.ent = [E0 EXCEPT ![i] = Dots(i, d)]
       /\ g.count = Plus(Plus(f.count, d), i) /\ g.zone = [f.zone EXCEPT ![i] = 1]
       /\ Under(h.count, g.count)
  <2>1. g \in Inodes /\ Took(h, g, i, "dir", 2, Dots(i, d)) /\ Under(h.count, g.count)
    BY <1>2, <1>9, TakenParts
  <2>2. g.zone = [h.zone EXCEPT ![i] = 1]
    BY <1>1 DEF Taken, Inodes
  <2> QED  BY <1>1, <1>4, <1>5, <1>6, <2>1, <2>2 DEF Took
<1>11. PICK A : A = a.f
  OBVIOUS
<1>12. /\ A \in Inodes /\ A.kind = g.kind /\ A.nlinks = g.nlinks /\ A.count = g.count
       /\ Grown(g.ent, A.ent, d)
       /\ \A j \in Ino \ {d} : A.zone[j] = g.zone[j]
       /\ a.at \in 1..Len(A.ent[d]) /\ A.ent[d][a.at] = Hole
  BY <1>10, <1>11, AddEntry
<1>13. PICK G : G = A.ent
  OBVIOUS
<1>14. PICK ix : ix = a.at
  OBVIOUS
<1>15. PICK E : E = [G EXCEPT ![i] = <<>>]
  OBVIOUS
<1>16. G \in [Ino -> Seq(Slot)] /\ E \in [Ino -> Seq(Slot)] /\ E[i] = <<>>
       /\ \A c \in Ino \ {i} : E[c] = G[c]
  BY <1>12, <1>13, <1>15 DEF Inodes
<1>17. /\ G[i] = Dots(i, d) /\ \A c \in Ino \ {d, i} : G[c] = E0[c]
       /\ G[d] \in {E0[d], Append(E0[d], Hole)}
  <2>1. PICK H : H = g.ent
    OBVIOUS
  <2>2. H = [E0 EXCEPT ![i] = Dots(i, d)] /\ Grown(H, G, d)
    BY <1>10, <1>12, <1>13, <2>1
  <2>3. H[i] = Dots(i, d) /\ \A c \in Ino \ {i} : H[c] = E0[c]
    BY ONLY <1>7, <2>2, i \in Ino
  <2>4. \A c \in Ino \ {d} : G[c] = H[c]
    BY ONLY <2>2 DEF Grown
  <2>5. G[d] \in {H[d], Append(H[d], Hole)}
    BY ONLY <2>2 DEF Grown
  <2>6. H[d] = E0[d]
    BY ONLY <1>3, <2>3, d \in Ino
  <2> QED  BY ONLY <1>3, <2>3, <2>4, <2>5, <2>6, d \in Ino, i \in Ino
<1>18. Grown(E0, E, d)
  BY ONLY <1>3, <1>8, <1>16, <1>17, d \in Ino, i \in Ino DEF Grown
<1>19. Tree(Q, E) /\ Links(L, E) /\ At(E, i) = {}
  <2>1. Tree(Q, E)
    BY <1>7, <1>18, GrownTree
  <2>2. Links(L, E)
    BY <1>7, <1>18, GrownLinks
  <2>3. At(E, i) = {}
    BY <1>7, <1>8, <1>18, GrownAt
  <2> QED  BY <2>1, <2>2, <2>3
<1>20. Fresh(E, d, name)
  <2>1. Fresh(E0, d, name)
    BY <1>1, <1>4
  <2> QED  BY <1>7, <1>18, <2>1, FreshGrown
<1>21. Dotted(E, G, i, d)
  BY <1>16, <1>17 DEF Dotted
<1>22. ix \in 1..Len(G[d]) /\ G[d][ix] = Hole /\ G[d] = E[d]
  BY <1>3, <1>12, <1>13, <1>14, <1>16
<1>23. ix \in 3..Len(E[d]) /\ E[d][ix] = Hole
  <2>1. ix \in 1..Len(E[d]) /\ E[d][ix] = Hole /\ E[d][ix][2] \notin Dirs(Q)
    BY <1>22, Typing, Zenon DEF Dirs
  <2> QED  BY <1>7, <1>19, <2>1, Behind
<1>24. PICK s \in Slot : s = <<name, i>> /\ s[2] = i
  BY Typing, Zenon DEF Proper
<1>25. PICK F : F = [G EXCEPT ![d][ix] = s]
  OBVIOUS
<1>26. Set1(G, F, d, ix, s)
  BY <1>16, <1>22, <1>25, SetEnt
<1>27. PICK J : J = [Q EXCEPT ![i] = "dir"]
  OBVIOUS
<1>28. Tree(J, F)
  <2>1. Set1(G, F, d, ix, <<name, i>>)
    BY <1>24, <1>26
  <2> QED  BY <1>7, <1>19, <1>20, <1>21, <1>23, <1>27, <2>1, MkdirTree
<1>29. Links([L EXCEPT ![i] = 2, ![d] = @ + 1], F)
  BY <1>3, <1>16, <1>19, <1>21, <1>22, <1>24, <1>26, MkdirLinks
<1>30. PICK N : N = [L EXCEPT ![i] = 2, ![d] = @ + 1]
  OBVIOUS
<1>31. N = [g.nlinks EXCEPT ![d] = @ + 1]
  BY ONLY <1>3, <1>7, <1>10, <1>30, i \in Ino, d \in Ino
<1>32. q = [A EXCEPT !.ent = F, !.nlinks = N]
  BY <1>11, <1>12, <1>13, <1>14, <1>24, <1>25, <1>31 DEF Entered, Inodes
<1>33. F \in [Ino -> Seq(Slot)] /\ N \in [Ino -> Nat]
  BY <1>26, <1>29, <1>30 DEF Set1, Links
<1>34. /\ q.kind = J /\ q.nlinks = N /\ q.count = g.count /\ q.ent = F /\ q.zone = A.zone
       /\ q \in Inodes
  BY <1>10, <1>12, <1>27, <1>32, <1>33, Zenon DEF Inodes
<1>35. \A j \in Ino : j # i => J[j] = f.kind[j]
  BY <1>6, <1>7, <1>27
<1>36. Kept(f, q, f.count)
  <2>1. \A j \in Ino \ {d, i} : q.zone[j] = f.zone[j]
    BY <1>0, <1>10, <1>12, <1>34 DEF Inodes
  <2>2. ASSUME NEW j \in Ino, f.count[j] > 0
        PROVE  q.kind[j] = f.kind[j] /\ (f.kind[j] # "dir" => q.zone[j] = f.zone[j])
    <3>1. j # i
      BY <1>8, <2>2
    <3>2. f.kind[j] # "dir" => j # d
      OBVIOUS
    <3> QED  BY <1>34, <1>35, <2>1, <3>1, <3>2
  <2> QED  BY <2>2 DEF Kept
<1>37. \A j \in Ino : q.count[j] > 0 => q.kind[j] # "free"
  <2> SUFFICES ASSUME NEW j \in Ino, q.count[j] > 0 PROVE q.kind[j] # "free"
    OBVIOUS
  <2>1. CASE j = i
    BY <1>7, <1>27, <1>34, <2>1
  <2>2. CASE j # i
    <3>1. h.count[j] > 0
      <4>1. h.count \in [Ino -> Nat] /\ q.count = Plus(h.count, i)
        BY <1>0, <1>1, <1>10, <1>34, PlusType
      <4> QED  BY <2>2, <4>1, PlusType
    <3> QED  BY <1>1, <1>2, <1>34, <1>35, <2>2, <3>1 DEF Good
  <2> QED  BY <2>1, <2>2
<1>38. Under(f.count, q.count)
  <2>1. Under(f.count, h.count)
    BY <1>1, <1>2 DEF After
  <2> QED  BY <1>10, <1>34, <2>1 DEF Under
<1>39. Good(q)
  BY <1>28, <1>29, <1>30, <1>34, <1>37 DEF Good
<1> QED  BY <1>10, <1>34, <1>36, <1>38, <1>39 DEF After

\* sys_rmdir removes a directory.
LEMMA RmdirGood ==
    ASSUME NEW f, Good(f), NEW d \in Ino, f.kind[d] = "dir", NEW h, h = Held(f, d),
           NEW ix \in 1..Len(f.ent[d]), NEW i \in Ino, f.ent[d][ix][2] = i, i # d,
           f.kind[i] = "dir", NEW g, g = Held(h, i), ~Busy(g, i), empty_dir(g, i),
           NEW y, y = Removed(g, d, ix, i)
    PROVE  After(f, y, f.count, f.count)
<1>0. /\ f \in Inodes /\ f.count \in [Ino -> Nat] /\ f.kind[d] # "free"
  BY DEF Good, Inodes
<1>1. /\ h \in Inodes /\ h.kind = f.kind /\ h.nlinks = f.nlinks /\ h.ent = f.ent
      /\ h.zone = f.zone /\ h.count = Plus(f.count, d)
  <2>1. f \in Inodes /\ h = Held(f, d)
    BY <1>0
  <2> QED  BY ONLY <2>1, HeldParts
<1>2. /\ g \in Inodes /\ g.kind = h.kind /\ g.nlinks = h.nlinks /\ g.ent = h.ent
      /\ g.zone = h.zone /\ g.count = Plus(h.count, i)
  <2>1. h \in Inodes /\ g = Held(h, i)
    BY <1>1
  <2> QED  BY ONLY <2>1, HeldParts
<1>3. PICK E : E = f.ent
  OBVIOUS
<1>4. PICK L : L = f.nlinks
  OBVIOUS
<1>5. PICK Q : Q = f.kind
  OBVIOUS
<1>6. /\ E \in [Ino -> Seq(Slot)] /\ Q \in [Ino -> Kinds] /\ L \in [Ino -> Nat]
      /\ Tree(Q, E) /\ Links(L, E) /\ d \in Dirs(Q) /\ i \in Dirs(Q)
      /\ ix \in 1..Len(E[d]) /\ E[d][ix][2] = i
  BY <1>0, <1>3, <1>4, <1>5 DEF Good, Inodes, Dirs
<1>7. DirOK(Q, E, d) /\ DirOK(Q, E, i) /\ Parents(Dirs(Q), E)
  BY <1>6 DEF Tree
<1>8. EmptyDir(E, i)
  BY <1>1, <1>2, <1>3 DEF empty_dir, EmptyDir
<1>9. ix \in 3..Len(E[d])
  <2>1. ix # 1
    BY <1>6, <1>7 DEF DirOK
  <2>2. ix # 2
    <3> SUFFICES ASSUME ix = 2 PROVE FALSE
      OBVIOUS
    <3>1. Up(E, d) = i /\ d # Root
      BY <1>6, <1>7 DEF Up, Parents
    <3>2. PICK k \in 3..Len(E[i]) : E[i][k][2] = d
      BY <1>6, <1>7, <3>1 DEF Parents
    <3> QED  BY <1>8, <3>2, Typing, Zenon DEF EmptyDir
  <2>3. Len(E[d]) \in Nat
    BY <1>6
  <2> QED  BY <1>6, <2>1, <2>2, <2>3
<1>10. i # Root
  BY <1>6, <1>7, <1>9 DEF Parents
<1>11. PICK G : G = [E EXCEPT ![d][ix] = Hole]
  OBVIOUS
<1>12. Set1(E, G, d, ix, Hole)
  <2>1. Hole \in Slot
    BY Typing, Zenon
  <2> QED  BY <1>6, <1>11, <2>1, SetEnt
<1>13. PICK F : F = [G EXCEPT ![i] = <<>>]
  OBVIOUS
<1>14. Emptied(G, F, i) /\ G \in [Ino -> Seq(Slot)]
  BY <1>12, <1>13 DEF Set1, Emptied
<1>15. PICK J : J = [Q EXCEPT ![i] = "free"]
  OBVIOUS
<1>16. Tree(J, F) /\ Up(E, i) = d /\ At(F, i) = {}
  <2>1. /\ Tree(Q, E) /\ i \in Dirs(Q) /\ i # Root /\ EmptyDir(E, i) /\ d \in Dirs(Q) /\ d # i
        /\ ix \in 3..Len(E[d]) /\ E[d][ix][2] = i
        /\ J = [Q EXCEPT ![i] = "free"] /\ Set1(E, G, d, ix, Hole) /\ Emptied(G, F, i)
    BY <1>6, <1>8, <1>9, <1>10, <1>12, <1>14, <1>15
  <2> QED  BY ONLY <2>1, RmdirTree
<1>17. PICK N : N = [L EXCEPT ![i] = 0, ![d] = @ - 1]
  OBVIOUS
<1>18. Links(N, F)
  <2>1. Len(E[i]) >= 2 /\ E[i][1][2] = i /\ E[i][2][2] = d
    BY <1>7, <1>16 DEF DirOK, Up
  <2> QED  BY <1>6, <1>8, <1>12, <1>14, <1>16, <1>17, <2>1, RmdirLinks
<1>19. F \in [Ino -> Seq(Slot)] /\ N \in [Ino -> Nat] /\ J \in [Ino -> Kinds]
  BY <1>14, <1>16, <1>18 DEF Emptied, Links, Tree
<1>20. f.count[i] = 0
  <2>1. h.count \in [Ino -> Nat] /\ h.count[i] = f.count[i] /\ f.count[i] \in Nat
    BY <1>0, <1>1, PlusType
  <2>2. g.count[i] = h.count[i] + 1
    BY <1>2, <2>1, PlusType
  <2> QED  BY <2>1, <2>2 DEF Busy
<1>21. \A j \in Ino : f.count[j] > 0 => J[j] # "free"
  BY <1>5, <1>6, <1>15, <1>20 DEF Good
<1>22. N[d] > 0 /\ N[i] = 0
  <2>1. PICK x : x = [kind |-> J, nlinks |-> N, count |-> f.count, ent |-> F, zone |-> f.zone]
    OBVIOUS
  <2>2. Good(x) /\ x.kind[d] = "dir" /\ x.nlinks = N
    <3>1. x \in Inodes
      BY <1>0, <1>19, <2>1 DEF Inodes
    <3>2. x.kind = J /\ x.nlinks = N /\ x.count = f.count /\ x.ent = F
      BY <2>1
    <3>3. J[d] = "dir"
      BY <1>5, <1>6, <1>15
    <3> QED  BY <1>16, <1>18, <1>21, <3>1, <3>2, <3>3 DEF Good
  <2>3. N[d] > 0
    BY <2>2, DirLinks
  <2>4. N[i] = 0
    BY <1>6, <1>17
  <2> QED  BY <2>3, <2>4
<1>23. PICK q : q = [g EXCEPT !.ent[d][ix] = Hole, !.nlinks[i] = 0, !.nlinks[d] = @ - 1]
  OBVIOUS
<1>24. PICK a : a = [g EXCEPT !.ent[d][ix] = Hole]
  OBVIOUS
<1>25. /\ q.kind = Q /\ q.nlinks = N /\ q.count = g.count /\ q.ent = G /\ q.zone = f.zone
       /\ q \in Inodes
  <2>1. /\ g \in Inodes /\ g.ent = E /\ g.nlinks = L /\ g.kind = Q
        /\ g.count \in [Ino -> Nat] /\ g.zone = f.zone /\ g.zone \in [Ino -> Nat]
    BY <1>1, <1>2, <1>3, <1>4, <1>5 DEF Inodes
  <2>2. a = [kind |-> Q, nlinks |-> L, count |-> g.count, ent |-> G, zone |-> f.zone]
    BY ONLY <1>11, <1>24, <2>1 DEF Inodes
  <2>3. q = [a EXCEPT !.nlinks[i] = 0, !.nlinks[d] = @ - 1]
    BY ONLY <1>23, <1>24, Zenon
  <2>4. a.nlinks = L
    BY ONLY <2>2
  <2>5. N = [[L EXCEPT ![i] = 0] EXCEPT ![d] = L[d] - 1]
    BY ONLY <1>6, <1>17, i # d, i \in Ino, d \in Ino
  <2>6. q = [a EXCEPT !.nlinks[i] = 0, !.nlinks[d] = L[d] - 1]
    BY ONLY <1>6, <2>2, <2>3, i # d, i \in Ino, d \in Ino
  <2>7. q = [a EXCEPT !.nlinks = N]
    BY ONLY <2>4, <2>5, <2>6, Zenon
  <2>8. q = [kind |-> Q, nlinks |-> N, count |-> g.count, ent |-> G, zone |-> f.zone]
    BY ONLY <2>2, <2>7
  <2> QED  BY ONLY <1>6, <1>14, <1>19, <2>1, <2>8 DEF Inodes
<1>26. q.count = Plus(Plus(f.count, i), d) /\ Plus(f.count, i) \in [Ino -> Nat]
  <2>1. q.count = Plus(Plus(f.count, d), i)
    BY <1>1, <1>2, <1>25
  <2>2. Plus(Plus(f.count, d), i) = Plus(Plus(f.count, i), d)
    BY <1>0, PlusComm
  <2> QED  BY <1>0, <2>1, <2>2, PlusType
<1>27. PICK w : w = iput(q, d)
  OBVIOUS
<1>28. w \in Inodes /\ w.nlinks = N /\ w.count = Plus(f.count, i) /\ Alike(q, w)
  <2>1. q \in Inodes /\ q.nlinks[d] > 0
    BY <1>22, <1>25
  <2> QED  BY <1>25, <1>26, <1>27, <2>1, IputParts
<1>29. y = iput(w, i)
  BY <1>23, <1>27 DEF Removed
<1>30. y \in Inodes /\ y.nlinks = N /\ y.count = f.count /\ Freed(w, i, y)
  <2>1. w.nlinks[i] = 0
    BY <1>22, <1>28
  <2> QED  BY <1>0, <1>20, <1>28, <1>29, <2>1, IputParts
<1>31. y.kind = J /\ y.ent = F /\ \A j \in Ino \ {i} : y.zone[j] = f.zone[j]
  BY <1>13, <1>15, <1>25, <1>28, <1>30 DEF Freed, Alike
<1>32. Good(y)
  BY <1>16, <1>18, <1>21, <1>30, <1>31 DEF Good
<1>33. Kept(f, y, f.count)
  <2>1. \A j \in Ino \ {i} : J[j] = f.kind[j]
    BY <1>5, <1>6, <1>15
  <2> QED  BY <1>20, <1>31, <2>1 DEF Kept
<1>34. Under(f.count, f.count)
  BY DEF Under
<1> QED  BY <1>30, <1>32, <1>33, <1>34 DEF After

\* sys_unlink takes away the name of a file.
LEMMA UnlinkGood ==
    ASSUME NEW f, Good(f), NEW d \in Ino, f.kind[d] = "dir", NEW h, h = Held(f, d),
           NEW ix \in 1..Len(f.ent[d]), NEW i \in Ino, f.ent[d][ix][2] = i,
           f.kind[i] # "dir", f.kind[i] # "free", NEW g, g = Held(h, i),
           NEW left, left = (IF g.nlinks[i] = 0 THEN 0 ELSE g.nlinks[i] - 1),
           NEW q, q = [g EXCEPT !.ent[d][ix] = Hole, !.nlinks[i] = left]
    PROVE  After(f, q, Plus(Plus(f.count, d), i), f.count)
<1>0. /\ f \in Inodes /\ f.count \in [Ino -> Nat] /\ f.kind[d] # "free"
  BY DEF Good, Inodes
<1>1. /\ h \in Inodes /\ h.kind = f.kind /\ h.nlinks = f.nlinks /\ h.ent = f.ent
      /\ h.zone = f.zone /\ h.count = Plus(f.count, d)
  <2>1. f \in Inodes /\ h = Held(f, d)
    BY <1>0
  <2> QED  BY ONLY <2>1, HeldParts
<1>2. /\ g \in Inodes /\ g.kind = h.kind /\ g.nlinks = h.nlinks /\ g.ent = h.ent
      /\ g.zone = h.zone /\ g.count = Plus(h.count, i)
  <2>1. h \in Inodes /\ g = Held(h, i)
    BY <1>1
  <2> QED  BY ONLY <2>1, HeldParts
<1>3. PICK E : E = f.ent
  OBVIOUS
<1>4. PICK L : L = f.nlinks
  OBVIOUS
<1>5. PICK Q : Q = f.kind
  OBVIOUS
<1>6. /\ E \in [Ino -> Seq(Slot)] /\ Q \in [Ino -> Kinds] /\ L \in [Ino -> Nat]
      /\ Tree(Q, E) /\ Links(L, E) /\ d \in Dirs(Q) /\ Q[i] # "dir"
      /\ ix \in 1..Len(E[d]) /\ E[d][ix][2] = i
  BY <1>0, <1>3, <1>4, <1>5 DEF Good, Inodes, Dirs
<1>7. PICK F : F = [E EXCEPT ![d][ix] = Hole]
  OBVIOUS
<1>8. PICK N : N = [L EXCEPT ![i] = @ - 1]
  OBVIOUS
<1>9. F \in [Ino -> Seq(Slot)] /\ Tree(Q, F) /\ L[i] >= 1 /\ Links(N, F)
  <2>1. Hole \in Slot /\ Hole[2] \notin Dirs(Q) /\ i \notin Dirs(Q)
    BY <1>6, Typing, Zenon DEF Dirs
  <2>2. Set1(E, F, d, ix, Hole)
    BY <1>6, <1>7, <2>1, SetEnt
  <2>3. ix \in 3..Len(E[d])
    BY <1>6, <2>1, Behind
  <2>4. Tree(Q, F)
    BY <1>6, <2>1, <2>2, <2>3, Set1Tree
  <2>5. L[i] >= 1 /\ Links(N, F)
    BY <1>6, <1>8, <2>2, ClearLinks
  <2> QED  BY <2>2, <2>4, <2>5 DEF Set1
<1>10. left = L[i] - 1
  BY <1>1, <1>2, <1>4, <1>6, <1>9
<1>11. N = [L EXCEPT ![i] = left]
  BY <1>8, <1>10
<1>12. N \in [Ino -> Nat]
  BY <1>9 DEF Links
<1>13. q = [g EXCEPT !.ent = F, !.nlinks = N]
  BY <1>1, <1>2, <1>3, <1>4, <1>7, <1>11 DEF Inodes
<1>14. /\ q.kind = Q /\ q.nlinks = N /\ q.count = g.count /\ q.ent = F /\ q.zone = f.zone
       /\ q \in Inodes
  <2>1. /\ q.kind = g.kind /\ q.nlinks = N /\ q.count = g.count /\ q.ent = F /\ q.zone = g.zone
        /\ q \in Inodes
    BY ONLY <1>2, <1>9, <1>12, <1>13 DEF Inodes
  <2> QED  BY <1>1, <1>2, <1>5, <2>1
<1>15. PICK c : c = f.count
  OBVIOUS
<1>16. q.count = Plus(Plus(c, d), i) /\ c \in [Ino -> Nat] /\ Under(c, Plus(Plus(c, d), i))
  <2>1. Under(c, c) /\ Plus(c, d) \in [Ino -> Nat]
    BY <1>0, <1>15, PlusType DEF Under
  <2>2. Under(c, Plus(c, d))
    BY <1>0, <1>15, <2>1, PlusUnder
  <2>3. Under(c, Plus(Plus(c, d), i))
    BY <1>0, <1>15, <2>1, <2>2, PlusUnder
  <2> QED  BY <1>0, <1>1, <1>2, <1>14, <1>15, <2>3
<1>17. \A j \in Ino : q.count[j] > 0 => Q[j] # "free"
  <2> SUFFICES ASSUME NEW j \in Ino, q.count[j] > 0 PROVE Q[j] # "free"
    OBVIOUS
  <2>1. CASE j = i \/ j = d
    BY <1>0, <1>5, <2>1
  <2>2. CASE j # i /\ j # d
    <3>1. c[j] > 0
      <4>1. Plus(c, d) \in [Ino -> Nat] /\ Plus(c, d)[j] = c[j]
        BY <1>16, <2>2, PlusType
      <4>2. q.count[j] = Plus(c, d)[j]
        <5>1. PICK b : b = Plus(c, d)
          OBVIOUS
        <5>2. Plus(b, i)[j] = b[j]
          BY <2>2, <4>1, <5>1, PlusType
        <5> QED  BY <1>16, <5>1, <5>2
      <4> QED  BY <4>1, <4>2
    <3> QED  BY <1>5, <1>15, <3>1 DEF Good
  <2> QED  BY <2>1, <2>2
<1>18. Good(q)
  BY <1>9, <1>14, <1>17 DEF Good
<1>19. Kept(f, q, f.count)
  BY <1>5, <1>14 DEF Kept
<1> QED  BY <1>15, <1>16, <1>18, <1>19 DEF After

\* sys_link gives file i another name.
LEMMA LinkGood ==
    ASSUME NEW f, Good(f), NEW i \in Ino, f.kind[i] # "free", f.kind[i] # "dir",
           NEW f1, f1 = Held(f, i), NEW d \in Ino, f.kind[d] = "dir", NEW h, h = Held(f1, d),
           NEW name, Proper(name), Fresh(h.ent, d, name),
           NEW a, a = add_entry(h, d, name), a.at # 0,
           NEW X, X = [iput(Entered(a, d, name, i), d) EXCEPT !.nlinks[i] = @ + 1]
    PROVE  After(f, X, Plus(f.count, i), f.count)
<1>0. /\ f \in Inodes /\ f.count \in [Ino -> Nat] /\ f.kind[d] # "free" /\ f.nlinks[d] > 0
  BY DirLinks DEF Good, Inodes
<1>1. /\ f1 \in Inodes /\ f1.kind = f.kind /\ f1.nlinks = f.nlinks /\ f1.ent = f.ent
      /\ f1.zone = f.zone /\ f1.count = Plus(f.count, i)
  <2>1. f \in Inodes /\ f1 = Held(f, i)
    BY <1>0
  <2> QED  BY ONLY <2>1, HeldParts
<1>2. /\ h \in Inodes /\ h.kind = f1.kind /\ h.nlinks = f1.nlinks /\ h.ent = f1.ent
      /\ h.zone = f1.zone /\ h.count = Plus(f1.count, d)
  <2>1. f1 \in Inodes /\ h = Held(f1, d)
    BY <1>1
  <2> QED  BY ONLY <2>1, HeldParts
<1>3. Good(f1) /\ After(f, f1, Plus(f.count, i), f.count)
  BY HeldGood, HeldAfter
<1>4. PICK L : L = h.nlinks
  OBVIOUS
<1>5. PICK e : e = Entered(a, d, name, i)
  OBVIOUS
<1>6. L \in [Ino -> Nat] /\ L = f.nlinks /\ L[d] > 0
  BY <1>0, <1>1, <1>2, <1>4 DEF Inodes
<1>7. SameBut(h, e, d) /\ Tree(e.kind, e.ent) /\ Links([L EXCEPT ![i] = @ + 1], e.ent)
  <2>1. /\ Tree(h.kind, h.ent) /\ h.kind[d] = "dir" /\ h.kind[i] \notin {"free", "dir"}
        /\ Links(L, h.ent)
    BY <1>1, <1>2, <1>3, <1>4 DEF Good
  <2> QED  BY <1>2, <1>5, <2>1, EnterName
<1>8. PICK y : y = iput(e, d)
  OBVIOUS
<1>9. y \in Inodes /\ y.nlinks = L /\ y.count = Plus(f.count, i) /\ Alike(e, y)
  <2>1. e \in Inodes /\ e.nlinks = L /\ e.nlinks[d] > 0 /\ e.count = Plus(Plus(f.count, i), d)
    BY <1>1, <1>2, <1>4, <1>6, <1>7 DEF SameBut
  <2>2. Plus(f.count, i) \in [Ino -> Nat]
    BY <1>0, PlusType
  <2> QED  BY <1>8, <2>1, <2>2, IputParts
<1>10. PICK N : N = [L EXCEPT ![i] = @ + 1]
  OBVIOUS
<1>11. N \in [Ino -> Nat] /\ Links(N, e.ent)
  BY <1>6, <1>7, <1>10
<1>12. X = [y EXCEPT !.nlinks = N]
  BY <1>5, <1>8, <1>9, <1>10 DEF Inodes
<1>13. /\ X.kind = y.kind /\ X.nlinks = N /\ X.count = y.count /\ X.ent = y.ent /\ X.zone = y.zone
       /\ X \in Inodes
  BY ONLY <1>9, <1>11, <1>12 DEF Inodes
<1>14. /\ X.kind = f.kind /\ X.ent = e.ent /\ X.zone = e.zone /\ e.kind = f.kind
       /\ X.count = f1.count
  BY <1>1, <1>2, <1>7, <1>9, <1>13 DEF Alike, SameBut
<1>15. Good(X)
  BY <1>1, <1>3, <1>7, <1>11, <1>13, <1>14 DEF Good
<1>16. Kept(f, X, f.count)
  <2>1. \A j \in Ino \ {d} : e.zone[j] = f.zone[j]
    BY <1>1, <1>2, <1>7 DEF SameBut
  <2>2. ASSUME NEW j \in Ino, f.kind[j] # "dir" PROVE X.zone[j] = f.zone[j]
    <3>1. j # d
      BY <2>2
    <3> QED  BY <1>14, <2>1, <3>1
  <2> QED  BY <1>14, <2>2 DEF Kept
<1>17. Under(f.count, X.count)
  BY <1>3, <1>14 DEF After
<1> QED  BY <1>1, <1>14, <1>15, <1>16, <1>17 DEF After

----------------------------------------------------------------------------
\* What a call does.

\* Nothing is held that was not; p has opened i; p has closed its file.
Quiet == After(fs, fs', fs.count, fs.count) /\ pwd' = pwd /\ file' = file
Opens(p, i) == /\ After(fs, fs', Plus(fs.count, i), fs.count) /\ pwd' = pwd
               /\ file[p] = 0 /\ file' = [file EXCEPT ![p] = i]

\* d is 0, or a directory that is held once more in h than in f.
Found(f, h, d) == \/ d = 0 /\ h = f
                  \/ d \in Ino /\ f.kind[d] = "dir" /\ h = Held(f, d)

LEMMA PutBack ==
    ASSUME NEW f, Good(f), NEW h, NEW d \in Ino, After(f, h, Plus(f.count, d), f.count),
           NEW g, g = iput(h, d)
    PROVE  After(f, g, f.count, f.count)
<1>1. f.count \in [Ino -> Nat] /\ Under(f.count, f.count)
  BY DEF Good, Inodes, Under
<1> QED  BY <1>1, PutAfter

LEMMA PutFirst ==
    ASSUME NEW f, Good(f), NEW h, NEW d \in Ino, NEW i \in Ino,
           After(f, h, Plus(Plus(f.count, i), d), f.count), NEW g, g = iput(h, d)
    PROVE  After(f, g, Plus(f.count, i), f.count)
<1>1. f.count \in [Ino -> Nat] /\ Under(f.count, f.count)
  BY DEF Good, Inodes, Under
<1>2. PICK c : c = Plus(f.count, i)
  OBVIOUS
<1>3. c \in [Ino -> Nat] /\ Under(f.count, c)
  BY <1>1, <1>2, PlusType, PlusUnder
<1>4. After(f, h, Plus(c, d), f.count)
  BY <1>2
<1>5. After(f, g, c, f.count)
  BY <1>3, <1>4, PutAfter
<1> QED  BY <1>2, <1>5

LEMMA Turned ==
    ASSUME NEW f, Good(f), NEW h, NEW d \in Ino, NEW i \in Ino,
           After(f, h, Plus(Plus(f.count, i), d), f.count)
    PROVE  After(f, h, Plus(Plus(f.count, d), i), f.count)
<1>1. f.count \in [Ino -> Nat]
  BY DEF Good, Inodes
<1>2. Plus(Plus(f.count, i), d) = Plus(Plus(f.count, d), i)
  BY <1>1, PlusComm
<1> QED  BY <1>2

LEMMA Stays == ASSUME NEW f, Good(f) PROVE After(f, f, f.count, f.count)
BY DEF After, Kept, Under

LEMMA FoundBack ==
    ASSUME NEW f, Good(f), NEW d \in Ino, f.kind[d] # "free", NEW h, h = Held(f, d),
           NEW g, g = iput(h, d)
    PROVE  /\ Good(h) /\ After(f, h, Plus(f.count, d), f.count)
           /\ After(f, g, f.count, f.count)
<1>1. Good(h) /\ After(f, h, Plus(f.count, d), f.count)
  BY HeldGood, HeldAfter
<1> QED  BY <1>1, PutBack

\* The refusals of mknod and mkdir.
LEMMA RefusedQuiet ==
    ASSUME Good(fs), NEW r, Found(fs, r.f, r.dir), NEW path, NEW deny,
           Refused(r, path, deny)
    PROVE  After(fs, fs', fs.count, fs.count)
<1>1. CASE r.dir = 0
  <2>1. fs' = fs
    BY <1>1, Typing, Zenon DEF Refused, Found
  <2> QED  BY <2>1, Stays
<1>2. CASE r.dir # 0
  <2>1. r.dir \in Ino /\ fs.kind[r.dir] = "dir" /\ r.f = Held(fs, r.dir)
        /\ fs' = iput(r.f, r.dir)
    BY <1>2, Zenon DEF Refused, Found
  <2>2. fs.kind[r.dir] # "free"
    BY <2>1
  <2> QED  BY <2>1, <2>2, FoundBack
<1> QED  BY <1>1, <1>2

HasBase(path) == path.base # ""

\* Where a file is made.
LEMMA NewInode ==
    ASSUME NEW f, Good(f), NEW d \in Ino, f.kind[d] = "dir", NEW h, h = Held(f, d),
           NEW path \in Paths \cup NewPaths, HasBase(path),
           find_entry(h, d, path.base) = 0, FreeInodes(h) # {}, NEW i, i = new_inode(h)
    PROVE  /\ i \in Ino /\ h.kind[i] = "free"
           /\ Proper(path.base) /\ Fresh(h.ent, d, path.base)
<1>1. FreeInodes(h) \in SUBSET Nat
  BY FileSystemAssumption DEF FreeInodes, Ino
<1>2. i \in FreeInodes(h)
  BY <1>1, MinIn DEF new_inode
<1>3. Good(h) /\ h.kind[d] = "dir"
  <2>1. f.kind[d] # "free" /\ f \in Inodes
    BY DEF Good
  <2>2. Good(h)
    BY <2>1, HeldGood
  <2>3. h.kind = f.kind
    <3>1. f \in Inodes /\ h = Held(f, d)
      BY <2>1
    <3> QED  BY ONLY <3>1, HeldParts
  <2> QED  BY <2>2, <2>3
<1>4. PICK ix : ix = find_entry(h, d, path.base)
  OBVIOUS
<1>5. ix = 0 /\ 0 \notin 1..Len(h.ent[d])
  BY <1>4
<1>6. Fresh(h.ent, d, path.base) /\ path.base \notin {"", ".", ".."}
  BY <1>3, <1>4, <1>5, FindEntry, Zenon DEF HasBase
<1>7. path.base \in Name
  BY Zenon DEF Name
<1> QED  BY <1>2, <1>6, <1>7, Zenon DEF FreeInodes, Proper

LEMMA DirFound ==
    ASSUME Good(fs), NEW p, pwd[p] \in Ino, fs.kind[pwd[p]] = "dir",
           NEW path \in Paths \cup NewPaths, NEW deny, NEW r, r = dir_namei(p, fs, path, deny)
    PROVE  Found(fs, r.f, r.dir)
<1>1. /\ r.f = Held(fs, r.dir)
      /\ r.dir = 0 \/ (r.dir \in Ino /\ fs.kind[r.dir] = "dir")
  BY DirNamei
<1>2. ASSUME r.dir = 0 PROVE r.f = fs
  <2>1. fs \in Inodes /\ 0 \notin Ino
    BY Typing, Zenon DEF Good
  <2> QED  BY <1>1, <1>2, <2>1, HeldParts
<1> QED  BY <1>1, <1>2 DEF Found

\* The entry that a path leads to.
LEMMA FoundEntry ==
    ASSUME NEW f, Good(f), NEW h, NEW d, d # 0, Found(f, h, d), NEW name,
           NEW ix, ix = find_entry(h, d, name), ix # 0
    PROVE  /\ d \in Ino /\ f.kind[d] = "dir" /\ h = Held(f, d) /\ Good(h)
           /\ h.kind = f.kind /\ h.ent = f.ent /\ h.nlinks = f.nlinks
           /\ ix \in 1..Len(f.ent[d]) /\ f.ent[d][ix][2] \in Ino
           /\ f.kind[f.ent[d][ix][2]] # "free"
<1>1. d \in Ino /\ f.kind[d] = "dir" /\ h = Held(f, d) /\ f \in Inodes
  BY DEF Found, Good
<1>2. f.kind[d] # "free"
  BY <1>1
<1>3. Good(h)
  BY <1>1, <1>2, HeldGood
<1>4. h.kind = f.kind /\ h.ent = f.ent /\ h.nlinks = f.nlinks
  <2>1. f \in Inodes /\ h = Held(f, d)
    BY <1>1
  <2> QED  BY ONLY <2>1, HeldParts
<1>5. ix \in 1..Len(h.ent[d]) /\ h.ent[d][ix][2] \in Ino /\ h.kind[h.ent[d][ix][2]] # "free"
  <2>1. h.kind[d] = "dir"
    BY <1>1, <1>4
  <2> QED  BY <1>1, <1>3, <2>1, FindEntry, Zenon
<1> QED  BY <1>1, <1>3, <1>4, <1>5

LEMMA OpenExistingDoes ==
    ASSUME Good(fs), NEW p, file[p] = 0, pwd' = pwd, NEW path, NEW deny,
           NEW r, Found(fs, r.f, r.dir),
           NEW ix, ix = (IF r.dir = 0 THEN 0 ELSE find_entry(r.f, r.dir, path.base)),
           OpenExisting(p, path, deny, r, ix)
    PROVE  Quiet \/ \E i \in Ino : Opens(p, i)
<1>1. PICK h, d : h = r.f /\ d = r.dir
  OBVIOUS
<1>2. d # 0 /\ ix # 0 /\ ix = find_entry(h, d, path.base)
  BY <1>1 DEF OpenExisting
<1>3. /\ d \in Ino /\ fs.kind[d] = "dir" /\ h = Held(fs, d) /\ h.ent = fs.ent
      /\ ix \in 1..Len(fs.ent[d]) /\ fs.ent[d][ix][2] \in Ino
      /\ fs.kind[fs.ent[d][ix][2]] # "free"
  BY <1>1, <1>2, FoundEntry
<1>4. PICK i \in Ino : i = h.ent[d][ix][2] /\ fs.kind[i] # "free"
  BY <1>3
<1>5. PICK f0 : f0 = iput(h, d)
  OBVIOUS
<1>6. PICK g : g = iget(f0, i)
  OBVIOUS
<1>7. f0 = fs
  <2>1. fs.nlinks[d] > 0 /\ fs \in Inodes
    BY <1>3, DirLinks DEF Good
  <2> QED  BY <1>3, <1>5, <2>1, PutHeld
<1>8. g = Held(fs, i)
  <2>1. fs \in Inodes
    BY DEF Good
  <2>2. PICK g1 : g1 = Held(fs, i)
    OBVIOUS
  <2>3. g1 = iget(fs, i)
    BY ONLY <2>1, <2>2, i \in Ino, HeldParts
  <2> QED  BY <1>6, <1>7, <2>2, <2>3
<1>9. After(fs, g, Plus(fs.count, i), fs.count) /\ After(fs, iput(g, i), fs.count, fs.count)
  BY <1>4, <1>8, FoundBack
<1>10. \/ fs' = f0 /\ file' = file
       \/ fs' = g /\ file' = [file EXCEPT ![p] = i]
       \/ fs' = iput(g, i) /\ file' = file
  BY <1>1, <1>4, <1>5, <1>6 DEF OpenExisting
<1>11. CASE fs' = f0 /\ file' = file
  BY <1>7, <1>11, Stays DEF Quiet
<1>12. CASE fs' = g /\ file' = [file EXCEPT ![p] = i]
  BY <1>9, <1>12 DEF Opens
<1>13. CASE fs' = iput(g, i) /\ file' = file
  BY <1>9, <1>13 DEF Quiet
<1> QED  BY <1>10, <1>11, <1>12, <1>13

LEMMA OpenDirectoryDoes ==
    ASSUME Good(fs), NEW p, file[p] = 0, pwd' = pwd, NEW path, NEW r, Found(fs, r.f, r.dir),
           OpenDirectory(p, path, r)
    PROVE  Quiet \/ \E i \in Ino : Opens(p, i)
<1>1. PICK h, d : h = r.f /\ d = r.dir
  OBVIOUS
<1>2. CASE d = 0
  <2>1. fs' = fs /\ file' = file
    BY <1>1, <1>2, Typing, Zenon DEF OpenDirectory, Found
  <2> QED  BY <2>1, Stays DEF Quiet
<1>3. CASE d # 0
  <2>1. d \in Ino /\ fs.kind[d] = "dir" /\ h = Held(fs, d) /\ fs.kind[d] # "free"
    BY <1>1, <1>3 DEF Found
  <2>2. /\ After(fs, h, Plus(fs.count, d), fs.count)
        /\ After(fs, iput(h, d), fs.count, fs.count)
    BY <2>1, FoundBack
  <2>3. \/ fs' = h /\ file' = [file EXCEPT ![p] = d]
        \/ fs' = iput(h, d) /\ file' = file
    BY <1>1, <1>3, Zenon DEF OpenDirectory
  <2> QED  BY <2>1, <2>2, <2>3 DEF Quiet, Opens
<1> QED  BY <1>2, <1>3

LEMMA OpenMissingDoes ==
    ASSUME Good(fs), NEW p, file[p] = 0, pwd' = pwd, NEW path \in Paths \cup NewPaths, NEW deny,
           NEW r, Found(fs, r.f, r.dir),
           NEW ix, ix = (IF r.dir = 0 THEN 0 ELSE find_entry(r.f, r.dir, path.base)),
           OpenMissing(p, path, deny, r, ix)
    PROVE  Quiet \/ \E i \in Ino : Opens(p, i)
<1>1. PICK h, d : h = r.f /\ d = r.dir
  OBVIOUS
<1>2. d # 0 /\ HasBase(path) /\ find_entry(h, d, path.base) = 0
  BY <1>1, Zenon DEF OpenMissing, HasBase
<1>3. d \in Ino /\ fs.kind[d] = "dir" /\ h = Held(fs, d) /\ fs.kind[d] # "free"
  BY <1>1, <1>2 DEF Found
<1>4. PICK i : i = new_inode(h)
  OBVIOUS
<1>5. PICK g : g = Taken(h, i, "reg", 1, <<>>, 0)
  OBVIOUS
<1>6. PICK a : a = add_entry(g, d, path.base)
  OBVIOUS
<1>7. \/ fs' = iput(h, d) /\ file' = file
      \/ /\ FreeInodes(h) # {}
         /\ \/ /\ a.at = 0 /\ file' = file
               /\ fs' = iput(iput([g EXCEPT !.nlinks[i] = @ - 1], i), d)
            \/ /\ a.at # 0 /\ file' = [file EXCEPT ![p] = i]
               /\ fs' = iput(Entered(a, d, path.base, i), d)
  BY <1>1, <1>4, <1>5, <1>6, Zenon DEF OpenMissing
<1>8. CASE fs' = iput(h, d) /\ file' = file
  BY <1>3, <1>8, FoundBack DEF Quiet
<1>9. ASSUME FreeInodes(h) # {}
      PROVE  i \in Ino /\ Made(fs, d, i, path.base, a, g)
  <2>1. /\ i \in Ino /\ h.kind[i] = "free"
        /\ Proper(path.base) /\ Fresh(h.ent, d, path.base)
    BY <1>2, <1>3, <1>4, <1>9, NewInode
  <2>2. "reg" \in {"reg", "proc"} /\ 0 \in Nat
    OBVIOUS
  <2> QED  BY <1>3, <1>5, <1>6, <2>1, <2>2, CreateFile
<1>10. CASE /\ FreeInodes(h) # {} /\ a.at = 0 /\ file' = file
            /\ fs' = iput(iput([g EXCEPT !.nlinks[i] = @ - 1], i), d)
  <2>1. PICK q : q = [g EXCEPT !.nlinks[i] = @ - 1]
    OBVIOUS
  <2>2. i \in Ino /\ After(fs, q, Plus(Plus(fs.count, d), i), fs.count)
    BY <1>9, <1>10, <2>1 DEF Made
  <2>3. After(fs, iput(q, i), Plus(fs.count, d), fs.count)
    BY <1>3, <2>2, PutFirst
  <2>4. After(fs, iput(iput(q, i), d), fs.count, fs.count)
    BY <1>3, <2>3, PutBack
  <2> QED  BY <1>10, <2>1, <2>4 DEF Quiet
<1>11. CASE /\ FreeInodes(h) # {} /\ a.at # 0 /\ file' = [file EXCEPT ![p] = i]
            /\ fs' = iput(Entered(a, d, path.base, i), d)
  <2>1. PICK e : e = Entered(a, d, path.base, i)
    OBVIOUS
  <2>2. i \in Ino /\ After(fs, e, Plus(Plus(fs.count, i), d), fs.count)
    BY <1>9, <1>11, <2>1 DEF Made
  <2>3. After(fs, iput(e, d), Plus(fs.count, i), fs.count)
    BY <1>3, <2>2, PutFirst
  <2> QED  BY <1>11, <2>1, <2>2, <2>3 DEF Opens
<1> QED  BY <1>7, <1>8, <1>10, <1>11

\* What a call finds when it begins.
Ready(p) == /\ Good(fs) /\ pwd[p] \in Ino /\ fs.kind[pwd[p]] = "dir" /\ fs.count[pwd[p]] > 0
            /\ file[p] = 0 \/ (file[p] \in Ino /\ fs.count[file[p]] > 0)

LEMMA OpenDoes ==
    ASSUME NEW p, Ready(p), NEW path \in Paths, Open(p, path)
    PROVE  Quiet \/ \E i \in Ino : Opens(p, i)
<1>1. Good(fs) /\ file[p] = 0 /\ pwd' = pwd
  BY DEF Ready, Open
<1>2. PICK deny, r, ix :
          /\ r = dir_namei(p, fs, path, deny)
          /\ ix = (IF r.dir = 0 THEN 0 ELSE find_entry(r.f, r.dir, path.base))
          /\ \/ OpenExisting(p, path, deny, r, ix)
             \/ OpenMissing(p, path, deny, r, ix)
             \/ OpenDirectory(p, path, r)
  BY DEF Open
<1>3. Found(fs, r.f, r.dir)
  BY <1>2, DirFound DEF Ready
<1>4. CASE OpenExisting(p, path, deny, r, ix)
  BY <1>1, <1>2, <1>3, <1>4, OpenExistingDoes
<1>5. CASE OpenMissing(p, path, deny, r, ix)
  BY <1>1, <1>2, <1>3, <1>5, OpenMissingDoes
<1>6. CASE OpenDirectory(p, path, r)
  BY <1>1, <1>2, <1>3, <1>6, OpenDirectoryDoes
<1> QED  BY <1>2, <1>4, <1>5, <1>6

LEMMA MknodDoes ==
    ASSUME NEW p, Ready(p), NEW path \in Paths, NEW dev \in Devs, sys_mknod(p, path, dev)
    PROVE  Quiet
<1>1. Good(fs) /\ file' = file /\ pwd' = pwd
  BY DEF Ready, sys_mknod, Unchanged
<1>2. PICK r : /\ r = dir_namei(p, fs, path, {})
               /\ \/ Refused(r, path, {})
                  \/ LET i == new_inode(r.f)
                         a == add_entry(Taken(r.f, i, "proc", 1, <<>>, dev), r.dir, path.base)
                     IN /\ Creating(r, path, {})
                        /\ fs' = IF a.at = 0
                                 THEN iput([iput(a.f, r.dir) EXCEPT !.nlinks[i] = 0], i)
                                 ELSE iput(iput(Entered(a, r.dir, path.base, i), r.dir), i)
  BY DEF sys_mknod
<1>3. Found(fs, r.f, r.dir)
  BY <1>2, DirFound DEF Ready
<1>4. CASE Refused(r, path, {})
  BY <1>1, <1>3, <1>4, RefusedQuiet DEF Quiet
<1>5. CASE ~Refused(r, path, {})
  <2>1. PICK h, d : h = r.f /\ d = r.dir
    OBVIOUS
  <2>2. PICK i : i = new_inode(h)
    OBVIOUS
  <2>3. PICK g : g = Taken(h, i, "proc", 1, <<>>, dev)
    OBVIOUS
  <2>4. PICK a : a = add_entry(g, d, path.base)
    OBVIOUS
  <2>5. /\ Creating(r, path, {})
        /\ fs' = IF a.at = 0 THEN iput([iput(a.f, d) EXCEPT !.nlinks[i] = 0], i)
                 ELSE iput(iput(Entered(a, d, path.base, i), d), i)
    BY <1>2, <1>5, <2>1, <2>2, <2>3, <2>4
  <2>6. d # 0 /\ HasBase(path) /\ find_entry(h, d, path.base) = 0 /\ FreeInodes(h) # {}
    BY <2>1, <2>5, Zenon DEF Creating, HasBase
  <2>7. d \in Ino /\ fs.kind[d] = "dir" /\ h = Held(fs, d)
    BY <1>3, <2>1, <2>6 DEF Found
  <2>8. i \in Ino /\ Made(fs, d, i, path.base, a, g)
    <3>1. /\ i \in Ino /\ h.kind[i] = "free"
          /\ Proper(path.base) /\ Fresh(h.ent, d, path.base)
      BY <1>1, <2>2, <2>6, <2>7, NewInode
    <3>2. "proc" \in {"reg", "proc"} /\ dev \in Nat
      BY FileSystemAssumption
    <3> QED  BY <1>1, <2>3, <2>4, <2>7, <3>1, <3>2, CreateFile
  <2>9. CASE a.at = 0
    <3>1. PICK q : q = [iput(g, d) EXCEPT !.nlinks[i] = 0]
      OBVIOUS
    <3>2. After(fs, q, Plus(fs.count, i), fs.count) /\ a.f = g
      BY <2>8, <2>9, <3>1 DEF Made
    <3>3. After(fs, iput(q, i), fs.count, fs.count)
      BY <1>1, <2>8, <3>2, PutBack
    <3> QED  BY <1>1, <2>5, <2>9, <3>1, <3>2, <3>3 DEF Quiet
  <2>10. CASE a.at # 0
    <3>1. PICK e : e = Entered(a, d, path.base, i)
      OBVIOUS
    <3>2. After(fs, e, Plus(Plus(fs.count, i), d), fs.count)
      BY <2>8, <2>10, <3>1 DEF Made
    <3>3. After(fs, iput(e, d), Plus(fs.count, i), fs.count)
      BY <1>1, <2>7, <2>8, <3>2, PutFirst
    <3>4. After(fs, iput(iput(e, d), i), fs.count, fs.count)
      BY <1>1, <2>8, <3>3, PutBack
    <3> QED  BY <1>1, <2>5, <2>10, <3>1, <3>4 DEF Quiet
  <2> QED  BY <2>9, <2>10
<1> QED  BY <1>4, <1>5

LEMMA MkdirDoes ==
    ASSUME NEW p, Ready(p), NEW path \in Paths, sys_mkdir(p, path)
    PROVE  Quiet
<1>1. Good(fs) /\ file' = file /\ pwd' = pwd /\ fs \in Inodes
  BY DEF Ready, sys_mkdir, Good
<1>2. PICK r : /\ r = dir_namei(p, fs, path, {})
               /\ LET i == new_inode(r.f)
                      g == Taken(r.f, i, "dir", 2, Dots(i, r.dir), 1)
                      a == add_entry(g, r.dir, path.base)
                  IN \/ Refused(r, path, {})
                     \/ /\ Creating(r, path, {})
                        /\ \/ fs' = iput(Taken(iput(r.f, r.dir), i, "reg", 0, <<>>, 0), i)
                           \/ fs' = fs
                           \/ /\ a.at # 0
                              /\ fs' = iput(iput([Entered(a, r.dir, path.base, i)
                                                    EXCEPT !.nlinks[r.dir] = @ + 1], r.dir), i)
  BY DEF sys_mkdir
<1>3. Found(fs, r.f, r.dir)
  BY <1>2, DirFound DEF Ready
<1>4. CASE Refused(r, path, {})
  BY <1>1, <1>3, <1>4, RefusedQuiet DEF Quiet
<1>5. CASE ~Refused(r, path, {})
  <2>1. PICK h, d : h = r.f /\ d = r.dir
    OBVIOUS
  <2>2. PICK i : i = new_inode(h)
    OBVIOUS
  <2>3. PICK g : g = Taken(h, i, "dir", 2, Dots(i, d), 1)
    OBVIOUS
  <2>4. PICK a : a = add_entry(g, d, path.base)
    OBVIOUS
  <2>5. PICK q : q = [Entered(a, d, path.base, i) EXCEPT !.nlinks[d] = @ + 1]
    OBVIOUS
  <2>6. /\ Creating(r, path, {})
        /\ \/ fs' = iput(Taken(iput(h, d), i, "reg", 0, <<>>, 0), i)
           \/ fs' = fs
           \/ a.at # 0 /\ fs' = iput(iput(q, d), i)
    BY <1>2, <1>5, <2>1, <2>2, <2>3, <2>4, <2>5
  <2>7. d # 0 /\ HasBase(path) /\ find_entry(h, d, path.base) = 0 /\ FreeInodes(h) # {}
    BY <2>1, <2>6, Zenon DEF Creating, HasBase
  <2>8. d \in Ino /\ fs.kind[d] = "dir" /\ h = Held(fs, d)
    BY <1>3, <2>1, <2>7 DEF Found
  <2>9. /\ i \in Ino /\ h.kind[i] = "free"
        /\ Proper(path.base) /\ Fresh(h.ent, d, path.base)
    BY <1>1, <2>2, <2>7, <2>8, NewInode
  <2>10. CASE fs' = iput(Taken(iput(h, d), i, "reg", 0, <<>>, 0), i)
    <3>1. iput(h, d) = fs /\ fs.kind[i] = "free"
      <4>1. fs.nlinks[d] > 0
        BY <1>1, <2>8, DirLinks
      <4>2. iput(h, d) = fs
        BY <1>1, <2>8, <4>1, PutHeld
      <4>3. h.kind = fs.kind
        BY ONLY <1>1, <2>8, HeldParts
      <4> QED  BY <2>9, <4>2, <4>3
    <3>2. PICK g0 : g0 = Taken(fs, i, "reg", 0, <<>>, 0)
      OBVIOUS
    <3>3. After(fs, g0, Plus(fs.count, i), fs.count)
      <4>1. "reg" \in {"reg", "proc"} /\ 0 \in Nat
        OBVIOUS
      <4> QED  BY <1>1, <2>9, <3>1, <3>2, <4>1, TakeFile
    <3>4. After(fs, iput(g0, i), fs.count, fs.count)
      BY <1>1, <2>9, <3>3, PutBack
    <3> QED  BY <1>1, <2>10, <3>1, <3>2, <3>4 DEF Quiet
  <2>11. CASE fs' = fs
    BY <1>1, <2>11, Stays DEF Quiet
  <2>12. CASE a.at # 0 /\ fs' = iput(iput(q, d), i)
    <3>1. After(fs, q, Plus(Plus(fs.count, d), i), fs.count)
      BY <1>1, <2>3, <2>4, <2>5, <2>8, <2>9, <2>12, MkdirGood
    <3>2. After(fs, q, Plus(Plus(fs.count, i), d), fs.count)
      BY <1>1, <2>8, <2>9, <3>1, Turned
    <3>3. After(fs, iput(q, d), Plus(fs.count, i), fs.count)
      BY <1>1, <2>8, <2>9, <3>2, PutFirst
    <3>4. After(fs, iput(iput(q, d), i), fs.count, fs.count)
      BY <1>1, <2>9, <3>3, PutBack
    <3> QED  BY <1>1, <2>12, <3>4 DEF Quiet
  <2> QED  BY <2>6, <2>10, <2>11, <2>12
<1> QED  BY <1>4, <1>5

LEMMA HeldTwo ==
    ASSUME NEW f, Good(f), NEW d \in Ino, f.kind[d] # "free", NEW i \in Ino, f.kind[i] # "free",
           NEW h, h = Held(f, d), NEW g, g = iget(h, i)
    PROVE  /\ g = Held(h, i) /\ g.kind = f.kind /\ g.nlinks = f.nlinks /\ g.ent = f.ent
           /\ After(f, g, Plus(Plus(f.count, d), i), f.count)
<1>1. Good(h) /\ After(f, h, Plus(f.count, d), f.count)
  BY FoundBack
<1>2. /\ h \in Inodes /\ h.kind = f.kind /\ h.nlinks = f.nlinks /\ h.ent = f.ent
      /\ h.count = Plus(f.count, d)
  <2>1. f \in Inodes /\ h = Held(f, d)
    BY DEF Good
  <2> QED  BY ONLY <2>1, HeldParts
<1>3. PICK g1 : g1 = Held(h, i)
  OBVIOUS
<1>4. /\ g1.kind = f.kind /\ g1.nlinks = f.nlinks /\ g1.ent = f.ent /\ g1 = iget(h, i)
  <2>1. h \in Inodes /\ g1 = Held(h, i) /\ i \in Ino
    BY <1>2, <1>3
  <2>2. g1.kind = h.kind /\ g1.nlinks = h.nlinks /\ g1.ent = h.ent /\ g1 = iget(h, i)
    BY ONLY <2>1, HeldParts
  <2> QED  BY <1>2, <2>2
<1>5. After(h, g1, Plus(h.count, i), h.count)
  <2>1. h.kind[i] # "free"
    BY <1>2
  <2> QED  BY <1>1, <1>3, <2>1, FoundBack
<1>6. After(f, g1, Plus(Plus(f.count, d), i), f.count)
  BY <1>1, <1>2, <1>5, AfterTrans
<1> QED  BY <1>3, <1>4, <1>6

LEMMA PutBoth ==
    ASSUME NEW f, Good(f), NEW h, NEW d \in Ino, NEW i \in Ino,
           After(f, h, Plus(Plus(f.count, d), i), f.count)
    PROVE  /\ After(f, iput(iput(h, i), d), f.count, f.count)
           /\ After(f, iput(iput(h, d), i), f.count, f.count)
<1>1. After(f, iput(h, i), Plus(f.count, d), f.count)
  BY PutFirst
<1>2. After(f, h, Plus(Plus(f.count, i), d), f.count)
  BY Turned
<1>3. After(f, iput(h, d), Plus(f.count, i), f.count)
  BY <1>2, PutFirst
<1> QED  BY <1>1, <1>3, PutBack

LEMMA RmdirDoes ==
    ASSUME NEW p, Ready(p), NEW path \in Paths, sys_rmdir(p, path)
    PROVE  Quiet
<1>1. Good(fs) /\ file' = file /\ pwd' = pwd
  BY DEF Ready, sys_rmdir, Unchanged
<1>2. PICK r : /\ r = dir_namei(p, fs, path, {})
               /\ LET ix == find_entry(r.f, r.dir, path.base)
                      i == r.f.ent[r.dir][ix][2]
                      g == iget(r.f, i)
                      refuse == Busy(g, i) \/ i = r.dir \/ g.kind[i] # "dir" \/ ~empty_dir(g, i)
                  IN \/ r.dir = 0 /\ fs' = r.f
                     \/ r.dir # 0 /\ fs' = iput(r.f, r.dir)
                     \/ /\ r.dir # 0 /\ ix # 0
                        /\ fs' = IF refuse THEN iput(iput(g, r.dir), i)
                                 ELSE Removed(g, r.dir, ix, i)
  BY DEF sys_rmdir
<1>3. Found(fs, r.f, r.dir)
  BY <1>2, DirFound DEF Ready
<1>4. PICK h, d : h = r.f /\ d = r.dir
  OBVIOUS
<1>5. CASE d = 0 /\ fs' = h
  BY <1>1, <1>3, <1>4, <1>5, Typing, Stays, Zenon DEF Quiet, Found
<1>6. CASE d # 0
  <2>1. d \in Ino /\ fs.kind[d] = "dir" /\ h = Held(fs, d) /\ fs.kind[d] # "free"
    BY <1>3, <1>4, <1>6 DEF Found
  <2>2. CASE fs' = iput(h, d)
    BY <1>1, <2>1, <2>2, FoundBack DEF Quiet
  <2>3. CASE fs' # iput(h, d)
    <3>1. PICK ix : ix = find_entry(h, d, path.base)
      OBVIOUS
    <3>2. PICK i : i = h.ent[d][ix][2]
      OBVIOUS
    <3>3. PICK g : g = iget(h, i)
      OBVIOUS
    <3>4. /\ ix # 0
          /\ \/ fs' = iput(iput(g, d), i)
             \/ /\ ~Busy(g, i) /\ i # d /\ g.kind[i] = "dir" /\ empty_dir(g, i)
                /\ fs' = Removed(g, d, ix, i)
      BY <1>2, <1>4, <1>6, <2>3, <3>1, <3>2, <3>3
    <3>5. /\ ix \in 1..Len(fs.ent[d]) /\ i \in Ino /\ fs.ent[d][ix][2] = i
          /\ fs.kind[i] # "free"
      <4>1. /\ h.ent = fs.ent /\ ix \in 1..Len(fs.ent[d]) /\ fs.ent[d][ix][2] \in Ino
            /\ fs.kind[fs.ent[d][ix][2]] # "free"
        BY <1>1, <1>3, <1>4, <1>6, <3>1, <3>4, FoundEntry
      <4> QED  BY <3>2, <4>1
    <3>6. /\ g = Held(h, i) /\ g.kind = fs.kind
          /\ After(fs, g, Plus(Plus(fs.count, d), i), fs.count)
      BY <1>1, <2>1, <3>3, <3>5, HeldTwo
    <3>7. CASE fs' = iput(iput(g, d), i)
      BY <1>1, <2>1, <3>5, <3>6, <3>7, PutBoth DEF Quiet
    <3>8. CASE /\ ~Busy(g, i) /\ i # d /\ g.kind[i] = "dir" /\ empty_dir(g, i)
               /\ fs' = Removed(g, d, ix, i)
      <4>1. fs.kind[i] = "dir"
        BY <3>6, <3>8
      <4>2. After(fs, fs', fs.count, fs.count)
        BY <1>1, <2>1, <3>5, <3>6, <3>8, <4>1, RmdirGood
      <4> QED  BY <1>1, <4>2 DEF Quiet
    <3> QED  BY <3>4, <3>7, <3>8
  <2> QED  BY <2>2, <2>3
<1> QED  BY <1>2, <1>4, <1>5, <1>6

\* What sys_unlink does to the entry ix of directory d.
Unnamed(h, d, ix, sticky) ==
    LET i == h.ent[d][ix][2]
        g == iget(h, i)
        left == IF g.nlinks[i] = 0 THEN 0 ELSE g.nlinks[i] - 1
    IN IF sticky \/ g.kind[i] = "dir" THEN iput(iput(g, i), d)
       ELSE iput(iput([g EXCEPT !.ent[d][ix] = Hole, !.nlinks[i] = left], i), d)

LEMMA UnlinkDoes ==
    ASSUME NEW p, Ready(p), NEW path \in Paths, sys_unlink(p, path)
    PROVE  Quiet
<1>1. Good(fs) /\ file' = file /\ pwd' = pwd
  BY DEF Ready, sys_unlink, Unchanged
<1>2. PICK deny, r :
          /\ r = dir_namei(p, fs, path, deny)
          /\ LET ix == find_entry(r.f, r.dir, path.base)
             IN \/ r.dir = 0 /\ fs' = r.f
                \/ /\ r.dir # 0 /\ (path.base = "" \/ ~permission(r.f, r.dir, "w", deny) \/ ix = 0)
                   /\ fs' = iput(r.f, r.dir)
                \/ /\ r.dir # 0 /\ path.base # "" /\ permission(r.f, r.dir, "w", deny) /\ ix # 0
                   /\ \E sticky \in IF p \in Super THEN {FALSE} ELSE BOOLEAN :
                         fs' = Unnamed(r.f, r.dir, ix, sticky)
  BY ZenonT(60) DEF sys_unlink, Unnamed
<1>3. Found(fs, r.f, r.dir)
  BY <1>2, DirFound, Zenon DEF Ready
<1>4. PICK h, d : h = r.f /\ d = r.dir
  OBVIOUS
<1>5. CASE d = 0 /\ fs' = h
  BY <1>1, <1>3, <1>4, <1>5, Typing, Stays, Zenon DEF Quiet, Found
<1>6. CASE d # 0
  <2>1. d \in Ino /\ fs.kind[d] = "dir" /\ h = Held(fs, d) /\ fs.kind[d] # "free"
    BY <1>3, <1>4, <1>6 DEF Found
  <2>2. CASE fs' = iput(h, d)
    BY <1>1, <2>1, <2>2, FoundBack DEF Quiet
  <2>3. CASE fs' # iput(h, d)
    <3>1. PICK ix : ix = find_entry(h, d, path.base)
      OBVIOUS
    <3>2. PICK i : i = h.ent[d][ix][2]
      OBVIOUS
    <3>3. PICK g : g = iget(h, i)
      OBVIOUS
    <3>4. PICK left : left = (IF g.nlinks[i] = 0 THEN 0 ELSE g.nlinks[i] - 1)
      OBVIOUS
    <3>5. PICK q : q = [g EXCEPT !.ent[d][ix] = Hole, !.nlinks[i] = left]
      OBVIOUS
    <3>6. /\ ix # 0
          /\ \/ fs' = iput(iput(g, i), d)
             \/ g.kind[i] # "dir" /\ fs' = iput(iput(q, i), d)
      <4>1. PICK sticky : ix # 0 /\ fs' = Unnamed(h, d, ix, sticky)
        BY <1>2, <1>4, <1>6, <2>3, <3>1, Zenon
      <4> QED  BY <3>2, <3>3, <3>4, <3>5, <4>1 DEF Unnamed
    <3>7. /\ ix \in 1..Len(fs.ent[d]) /\ i \in Ino /\ fs.ent[d][ix][2] = i
          /\ fs.kind[i] # "free"
      <4>1. /\ h.ent = fs.ent /\ ix \in 1..Len(fs.ent[d]) /\ fs.ent[d][ix][2] \in Ino
            /\ fs.kind[fs.ent[d][ix][2]] # "free"
        BY <1>1, <1>3, <1>4, <1>6, <3>1, <3>6, FoundEntry
      <4> QED  BY <3>2, <4>1
    <3>8. /\ g = Held(h, i) /\ g.kind = fs.kind
          /\ After(fs, g, Plus(Plus(fs.count, d), i), fs.count)
      BY <1>1, <2>1, <3>3, <3>7, HeldTwo
    <3>9. CASE fs' = iput(iput(g, i), d)
      BY <1>1, <2>1, <3>7, <3>8, <3>9, PutBoth DEF Quiet
    <3>10. CASE g.kind[i] # "dir" /\ fs' = iput(iput(q, i), d)
      <4>1. fs.kind[i] # "dir"
        BY <3>8, <3>10
      <4>2. After(fs, q, Plus(Plus(fs.count, d), i), fs.count)
        BY <1>1, <2>1, <3>4, <3>5, <3>7, <3>8, <4>1, UnlinkGood, Zenon
      <4> QED  BY <1>1, <2>1, <3>7, <3>10, <4>2, PutBoth DEF Quiet
    <3> QED  BY <3>6, <3>9, <3>10
  <2> QED  BY <2>2, <2>3
<1> QED  BY <1>2, <1>4, <1>5, <1>6, Zenon

\* What sys_link does to inode i, when directory d has been found in h.
Linked(h, d, a, name, i) == iput([iput(Entered(a, d, name, i), d) EXCEPT !.nlinks[i] = @ + 1], i)

LEMMA LinkDoes ==
    ASSUME NEW p, Ready(p), NEW old \in Paths, NEW new \in NewPaths, sys_link(p, old, new)
    PROVE  Quiet
<1>1. Good(fs) /\ file' = file /\ pwd' = pwd /\ fs \in Inodes
  BY Zenon DEF Ready, sys_link, Unchanged, Good
<1>2. PICK deny, o :
          /\ o = namei(p, fs, old, deny)
          /\ LET r == dir_namei(p, o.f, new, deny)
                 a == add_entry(r.f, r.dir, new.base)
                 i == o.dir
             IN \/ i = 0 /\ fs' = o.f
                \/ i # 0 /\ o.f.kind[i] = "dir" /\ fs' = iput(o.f, i)
                \/ i # 0 /\ o.f.kind[i] # "dir" /\ r.dir = 0 /\ fs' = iput(r.f, i)
                \/ /\ i # 0 /\ o.f.kind[i] # "dir" /\ r.dir # 0
                   /\ fs' = IF \/ new.base = "" \/ ~permission(r.f, r.dir, "w", deny)
                               \/ find_entry(r.f, r.dir, new.base) # 0 \/ a.at = 0
                            THEN iput(iput(r.f, r.dir), i)
                            ELSE Linked(r.f, r.dir, a, new.base, i)
  BY DEF sys_link, Linked
<1>3. PICK h1, i : h1 = o.f /\ i = o.dir
  OBVIOUS
<1>4. h1 = Held(fs, i) /\ (i = 0 \/ (i \in Ino /\ fs.kind[i] # "free"))
  <2>1. Walked(fs, o)
    BY <1>1, <1>2, Namei, Zenon DEF Ready
  <2> QED  BY <1>3, <2>1 DEF Walked
<1>5. CASE i = 0
  <2>1. h1 = fs
    <3>1. fs \in Inodes /\ h1 = Held(fs, i) /\ i \notin Ino
      BY <1>1, <1>4, <1>5, Typing, Zenon
    <3> QED  BY ONLY <3>1, HeldParts
  <2> QED  BY <1>1, <1>2, <1>3, <1>5, <2>1, Stays DEF Quiet
<1>6. CASE i # 0
  <2>1. i \in Ino /\ fs.kind[i] # "free"
    BY <1>4, <1>6
  <2>2. /\ Good(h1) /\ After(fs, h1, Plus(fs.count, i), fs.count)
        /\ After(fs, iput(h1, i), fs.count, fs.count)
    BY <1>1, <1>4, <2>1, FoundBack
  <2>3. h1.kind = fs.kind /\ h1.count = Plus(fs.count, i)
    <3>1. fs \in Inodes /\ h1 = Held(fs, i)
      BY <1>1, <1>4
    <3> QED  BY ONLY <3>1, HeldParts
  <2>4. CASE fs' = iput(h1, i)
    BY <1>1, <2>2, <2>4 DEF Quiet
  <2>5. CASE fs' # iput(h1, i)
    <3>1. PICK r : r = dir_namei(p, h1, new, deny)
      OBVIOUS
    <3>2. PICK h, d : h = r.f /\ d = r.dir
      OBVIOUS
    <3>3. PICK a : a = add_entry(h, d, new.base)
      OBVIOUS
    <3>4. h = Held(h1, d) /\ (d = 0 \/ (d \in Ino /\ h1.kind[d] = "dir"))
      <4>1. pwd[p] \in Ino /\ h1.kind[pwd[p]] = "dir" /\ new \in Paths \cup NewPaths
        BY <2>3 DEF Ready
      <4> QED  BY <2>2, <3>1, <3>2, <4>1, DirNamei
    <3>5. /\ h1.kind[i] # "dir"
          /\ \/ d = 0 /\ fs' = iput(h, i)
             \/ d # 0 /\ fs' = iput(iput(h, d), i)
             \/ /\ d # 0 /\ HasBase(new) /\ find_entry(h, d, new.base) = 0 /\ a.at # 0
                /\ fs' = Linked(h, d, a, new.base, i)
      BY <1>2, <1>3, <1>6, <2>5, <3>1, <3>2, <3>3, Zenon DEF HasBase
    <3>6. CASE d = 0 /\ fs' = iput(h, i)
      <4>1. h = h1
        <5>1. h1 \in Inodes /\ h = Held(h1, d) /\ d \notin Ino
          BY <2>2, <3>4, <3>6, Typing, Zenon DEF Good
        <5> QED  BY ONLY <5>1, HeldParts
      <4> QED  BY <2>5, <3>6, <4>1
    <3>7. CASE d # 0
      <4>1. d \in Ino /\ fs.kind[d] = "dir" /\ h1.kind[d] = "dir" /\ h1.kind[d] # "free"
        BY <2>3, <3>4, <3>7
      <4>2. Good(h) /\ After(h1, h, Plus(h1.count, d), h1.count)
        BY <2>2, <3>4, <4>1, FoundBack
      <4>3. CASE fs' = iput(iput(h, d), i)
        <5>1. After(fs, h, Plus(Plus(fs.count, i), d), fs.count)
          BY <2>2, <2>3, <4>2, AfterTrans
        <5> QED  BY <1>1, <2>1, <4>1, <4>3, <5>1, PutBoth DEF Quiet
      <4>4. CASE /\ HasBase(new) /\ find_entry(h, d, new.base) = 0 /\ a.at # 0
                 /\ fs' = Linked(h, d, a, new.base, i)
        <5>1. PICK X : X = [iput(Entered(a, d, new.base, i), d) EXCEPT !.nlinks[i] = @ + 1]
          OBVIOUS
        <5>2. Proper(new.base) /\ Fresh(h.ent, d, new.base)
          <6>1. PICK ix : ix = find_entry(h, d, new.base)
            OBVIOUS
          <6>2. h.kind[d] = "dir" /\ ix = 0
            <7>1. h1 \in Inodes /\ h = Held(h1, d)
              BY <2>2, <3>4 DEF Good
            <7>2. h.kind = h1.kind
              BY ONLY <7>1, HeldParts
            <7> QED  BY <4>1, <4>4, <6>1, <7>2
          <6>3. 0 \notin 1..Len(h.ent[d])
            OBVIOUS
          <6>4. Fresh(h.ent, d, new.base) /\ new.base \notin {"", ".", ".."}
            BY <4>1, <4>2, <4>4, <6>1, <6>2, <6>3, FindEntry, Zenon DEF HasBase
          <6>5. new.base \in Name
            BY Zenon DEF Name
          <6> QED  BY <6>4, <6>5, Zenon DEF Proper
        <5>3. After(fs, X, Plus(fs.count, i), fs.count)
          <6>1. fs.kind[i] # "dir"
            BY <2>3, <3>5
          <6> QED  BY <1>1, <1>4, <2>1, <3>3, <3>4, <4>1, <4>4, <5>1, <5>2, <6>1, LinkGood
        <5>4. After(fs, iput(X, i), fs.count, fs.count)
          BY <1>1, <2>1, <5>3, PutBack
        <5>5. fs' = iput(X, i)
          BY <4>4, <5>1 DEF Linked
        <5> QED  BY <1>1, <5>4, <5>5 DEF Quiet
      <4> QED  BY <3>5, <3>7, <4>3, <4>4
    <3> QED  BY <3>5, <3>6, <3>7
  <2> QED  BY <2>4, <2>5
<1> QED  BY <1>5, <1>6

----------------------------------------------------------------------------
\* p closes its file; p moves to directory i.
Closes(p) == /\ file[p] \in Ino /\ pwd' = pwd /\ file' = [file EXCEPT ![p] = 0]
             /\ \E c \in [Ino -> Nat] : Plus(c, file[p]) = fs.count /\ After(fs, fs', c, c)
Moves(p, i) == /\ file' = file /\ pwd' = [pwd EXCEPT ![p] = i] /\ fs'.kind[i] = "dir"
               /\ \E c \in [Ino -> Nat] : /\ Plus(c, pwd[p]) = Plus(fs.count, i)
                                          /\ After(fs, fs', c, c)

LEMMA Minus ==
    ASSUME NEW c \in [Ino -> Nat], NEW i \in Ino, c[i] > 0
    PROVE  \E b \in [Ino -> Nat] : Plus(b, i) = c
<1>1. PICK b : b = [c EXCEPT ![i] = @ - 1]
  OBVIOUS
<1>2. b \in [Ino -> Nat] /\ b[i] = c[i] - 1 /\ \A j \in Ino : j # i => b[j] = c[j]
  BY <1>1
<1>3. Plus(b, i) = c
  BY <1>2 DEF Plus
<1> QED  BY <1>2, <1>3

LEMMA CloseDoes ==
    ASSUME NEW p, Ready(p), sys_close(p)
    PROVE  Closes(p)
<1>1. /\ Good(fs) /\ fs.count \in [Ino -> Nat]
      /\ file[p] \in Ino /\ fs.count[file[p]] > 0
      /\ fs' = iput(fs, file[p]) /\ file' = [file EXCEPT ![p] = 0] /\ pwd' = pwd
  BY DEF Ready, sys_close, Good, Inodes
<1>2. PICK c \in [Ino -> Nat] : Plus(c, file[p]) = fs.count
  BY <1>1, Minus
<1>3. Good(fs') /\ fs'.count = c /\ Kept(fs, fs', c)
  <2>1. PICK g, i : g = fs' /\ i = file[p]
    OBVIOUS
  <2>2. Good(fs) /\ i \in Ino /\ fs.count = Plus(c, i) /\ g = iput(fs, i)
    BY <1>1, <1>2, <2>1
  <2>3. Good(g) /\ g.count = c /\ Kept(fs, g, c)
    BY <2>2, PutGood
  <2> QED  BY <2>1, <2>3
<1>4. Under(c, c)
  BY DEF Under
<1> QED  BY <1>1, <1>2, <1>3, <1>4 DEF Closes, After

LEMMA ChdirDoes ==
    ASSUME NEW p, Ready(p), NEW path \in Paths, sys_chdir(p, path)
    PROVE  Quiet \/ \E i \in Ino : Moves(p, i)
<1>1. Good(fs) /\ file' = file /\ fs \in Inodes /\ fs.count \in [Ino -> Nat]
  BY DEF Ready, sys_chdir, Good, Inodes
<1>2. PICK deny, o :
          /\ o = namei(p, fs, path, deny)
          /\ \/ o.dir = 0 /\ fs' = o.f /\ pwd' = pwd
             \/ o.dir # 0 /\ fs' = iput(o.f, o.dir) /\ pwd' = pwd
             \/ /\ o.dir # 0 /\ o.f.kind[o.dir] = "dir"
                /\ fs' = iput(o.f, pwd[p]) /\ pwd' = [pwd EXCEPT ![p] = o.dir]
  BY DEF sys_chdir
<1>3. PICK h, i : h = o.f /\ i = o.dir
  OBVIOUS
<1>4. h = Held(fs, i) /\ (i = 0 \/ (i \in Ino /\ fs.kind[i] # "free"))
  <2>1. Walked(fs, o)
    BY <1>1, <1>2, Namei DEF Ready
  <2> QED  BY <1>3, <2>1 DEF Walked
<1>5. CASE i = 0
  <2>1. h = fs
    <3>1. fs \in Inodes /\ h = Held(fs, i) /\ i \notin Ino
      BY <1>1, <1>4, <1>5, Typing, Zenon
    <3> QED  BY ONLY <3>1, HeldParts
  <2> QED  BY <1>1, <1>2, <1>3, <1>5, <2>1, Stays DEF Quiet
<1>6. CASE i # 0
  <2>1. i \in Ino /\ fs.kind[i] # "free"
    BY <1>4, <1>6
  <2>2. Good(h) /\ After(fs, iput(h, i), fs.count, fs.count)
    BY <1>1, <1>4, <2>1, FoundBack
  <2>3. CASE fs' = iput(h, i) /\ pwd' = pwd
    BY <1>1, <2>2, <2>3 DEF Quiet
  <2>4. CASE h.kind[i] = "dir" /\ fs' = iput(h, pwd[p]) /\ pwd' = [pwd EXCEPT ![p] = i]
    <3>1. PICK w \in Ino : w = pwd[p] /\ fs.kind[w] = "dir" /\ fs.count[w] > 0
      BY DEF Ready
    <3>2. /\ h \in Inodes /\ h.kind = fs.kind /\ h.nlinks = fs.nlinks /\ h.zone = fs.zone
          /\ h.count = Plus(fs.count, i)
      <4>1. fs \in Inodes /\ h = Held(fs, i)
        BY <1>1, <1>4
      <4> QED  BY ONLY <4>1, HeldParts
    <3>3. PICK c \in [Ino -> Nat] : Plus(c, w) = h.count
      <4>1. h.count \in [Ino -> Nat] /\ h.count[w] > 0
        <5>1. PICK b : b = Plus(fs.count, i)
          OBVIOUS
        <5>2. b \in [Ino -> Nat] /\ fs.count[w] <= b[w] /\ fs.count[w] \in Nat /\ b[w] \in Nat
          BY <1>1, <5>1, PlusType
        <5> QED  BY <3>1, <3>2, <5>1, <5>2
      <4> QED  BY <4>1, Minus
    <3>4. PICK g : g = iput(h, w)
      OBVIOUS
    <3>5. Good(g) /\ g.count = c /\ Kept(h, g, c)
      BY <2>2, <3>3, <3>4, PutGood
    <3>6. g.kind = fs.kind
      <4>1. fs.nlinks[w] > 0
        BY <1>1, <3>1, DirLinks
      <4>2. Alike(h, g)
        <5>1. h.nlinks[w] > 0 /\ h.count = Plus(c, w)
          BY <3>2, <3>3, <4>1
        <5> QED  BY <3>2, <3>4, <5>1, IputParts
      <4> QED  BY <3>2, <4>2 DEF Alike
    <3>7. After(fs, g, c, c)
      <4>1. Kept(fs, g, c)
        BY <3>2, <3>5 DEF Kept
      <4>2. Under(c, c)
        BY DEF Under
      <4> QED  BY <3>5, <4>1, <4>2 DEF After
    <3>8. fs' = g /\ fs'.kind[i] = "dir"
      BY <2>4, <3>1, <3>2, <3>4, <3>6
    <3> QED  BY <1>1, <2>1, <2>4, <3>1, <3>2, <3>3, <3>7, <3>8 DEF Moves
  <2> QED  BY <1>2, <1>3, <1>6, <2>3, <2>4
<1> QED  BY <1>5, <1>6

----------------------------------------------------------------------------
\* References.

Holders(w, i) == {p \in Proc : w[p] = i}
Counted(c, w, o) ==
    \A i \in Ino : c[i] = Cardinality(Holders(w, i)) + Cardinality(Holders(o, i))
                          + (IF i = Root THEN Cardinality(Proc) ELSE 0)

LEMMA HoldersFinite ==
    ASSUME NEW w, NEW i
    PROVE  /\ IsFiniteSet(Holders(w, i)) /\ Cardinality(Holders(w, i)) \in Nat
           /\ Cardinality(Proc) \in Nat
           /\ \A p \in Proc : w[p] = i => Cardinality(Holders(w, i)) > 0
<1>1. IsFiniteSet(Proc) /\ Holders(w, i) \subseteq Proc
  BY FileSystemAssumption DEF Holders
<1>2. IsFiniteSet(Holders(w, i))
  BY <1>1, FS_Subset
<1>3. Cardinality(Holders(w, i)) \in Nat /\ Cardinality(Proc) \in Nat
  BY <1>1, <1>2, FS_CardinalityType
<1>4. ASSUME NEW p \in Proc, w[p] = i PROVE Cardinality(Holders(w, i)) > 0
  <2>1. Holders(w, i) # {}
    BY <1>4 DEF Holders
  <2>2. Cardinality(Holders(w, i)) # 0
    BY <1>2, <2>1, FS_EmptySet
  <2> QED  BY <1>3, <2>2
<1> QED  BY <1>2, <1>3, <1>4

\* One process holds i and no longer k.
Reheld(w, v, i, k) ==
    /\ Cardinality(Holders(v, i)) = Cardinality(Holders(w, i)) + 1
    /\ Cardinality(Holders(w, k)) = Cardinality(Holders(v, k)) + 1
    /\ \A j : j # i /\ j # k => Cardinality(Holders(v, j)) = Cardinality(Holders(w, j))

LEMMA Rehold ==
    ASSUME NEW S, NEW w \in [Proc -> S], NEW p \in Proc, NEW i \in S, NEW k, k = w[p], k # i,
           NEW v, v = [w EXCEPT ![p] = i]
    PROVE  v \in [Proc -> S] /\ Reheld(w, v, i, k)
<1>1. v[p] = i /\ \A q \in Proc : q # p => v[q] = w[q]
  OBVIOUS
<1>2. Adds(Holders(w, i), Holders(v, i), p)
  BY <1>1 DEF Adds, Holders
<1>3. Adds(Holders(v, k), Holders(w, k), p)
  BY <1>1 DEF Adds, Holders
<1>4. ASSUME NEW j, j # i, j # k PROVE Cardinality(Holders(v, j)) = Cardinality(Holders(w, j))
  <2>1. Holders(v, j) = Holders(w, j)
    BY <1>1, <1>4 DEF Holders
  <2> QED  BY <2>1
<1>5. Cardinality(Holders(v, i)) = Cardinality(Holders(w, i)) + 1
  BY <1>2, AddsCard, HoldersFinite
<1>6. Cardinality(Holders(w, k)) = Cardinality(Holders(v, k)) + 1
  BY <1>3, AddsCard, HoldersFinite
<1> QED  BY <1>4, <1>5, <1>6 DEF Reheld

\* A file is opened or closed, or a directory is changed.
LEMMA CountedOpen ==
    ASSUME NEW c \in [Ino -> Nat], NEW w, NEW o \in [Proc -> 0..NInodes], Counted(c, w, o),
           NEW p \in Proc, o[p] = 0, NEW i \in Ino, NEW v, v = [o EXCEPT ![p] = i]
    PROVE  v \in [Proc -> 0..NInodes] /\ Counted(Plus(c, i), w, v)
<1>1. i \in 0..NInodes /\ i # 0 /\ 0 \notin Ino
  BY FileSystemAssumption DEF Ino
<1>2. /\ v \in [Proc -> 0..NInodes]
      /\ Cardinality(Holders(v, i)) = Cardinality(Holders(o, i)) + 1
      /\ \A j : j # i /\ j # 0 => Cardinality(Holders(v, j)) = Cardinality(Holders(o, j))
  <2>1. PICK k : k = 0
    OBVIOUS
  <2>2. /\ o \in [Proc -> 0..NInodes] /\ p \in Proc /\ i \in 0..NInodes /\ k = o[p] /\ k # i
        /\ v = [o EXCEPT ![p] = i]
    BY <1>1, <2>1
  <2>3. v \in [Proc -> 0..NInodes] /\ Reheld(o, v, i, k)
    BY ONLY <2>2, Rehold
  <2> QED  BY ONLY <2>1, <2>3 DEF Reheld
<1>3. ASSUME NEW j \in Ino
      PROVE  Plus(c, i)[j] = Cardinality(Holders(w, j)) + Cardinality(Holders(v, j))
                             + (IF j = Root THEN Cardinality(Proc) ELSE 0)
  <2>1. PICK x, y, z, r : /\ x = Cardinality(Holders(w, j)) /\ y = Cardinality(Holders(o, j))
                          /\ z = Cardinality(Holders(v, j))
                          /\ r = (IF j = Root THEN Cardinality(Proc) ELSE 0)
    OBVIOUS
  <2>2. x \in Nat /\ y \in Nat /\ z \in Nat /\ r \in Nat
    BY <2>1, HoldersFinite
  <2>3. c[j] = x + y + r
    BY <2>1 DEF Counted
  <2>4. z = IF j = i THEN y + 1 ELSE y
    BY <1>1, <1>2, <2>1
  <2>5. Plus(c, i)[j] = IF j = i THEN c[j] + 1 ELSE c[j]
    BY DEF Plus
  <2>6. Plus(c, i)[j] = x + z + r
    BY ONLY <2>2, <2>3, <2>4, <2>5
  <2> QED  BY <2>1, <2>6
<1> QED  BY <1>2, <1>3 DEF Counted

LEMMA CountedClose ==
    ASSUME NEW c \in [Ino -> Nat], NEW w, NEW o \in [Proc -> 0..NInodes], NEW p \in Proc,
           NEW i \in Ino, o[p] = i, Counted(Plus(c, i), w, o), NEW v, v = [o EXCEPT ![p] = 0]
    PROVE  v \in [Proc -> 0..NInodes] /\ Counted(c, w, v)
<1>1. 0 \in 0..NInodes /\ i # 0 /\ 0 \notin Ino
  BY FileSystemAssumption DEF Ino
<1>2. /\ v \in [Proc -> 0..NInodes]
      /\ Cardinality(Holders(o, i)) = Cardinality(Holders(v, i)) + 1
      /\ \A j : j # 0 /\ j # i => Cardinality(Holders(v, j)) = Cardinality(Holders(o, j))
  <2>1. PICK k : k = 0
    OBVIOUS
  <2>2. /\ o \in [Proc -> 0..NInodes] /\ p \in Proc /\ k \in 0..NInodes /\ i = o[p] /\ i # k
        /\ v = [o EXCEPT ![p] = k]
    BY <1>1, <2>1
  <2>3. v \in [Proc -> 0..NInodes] /\ Reheld(o, v, k, i)
    BY ONLY <2>2, Rehold
  <2> QED  BY ONLY <2>1, <2>3 DEF Reheld
<1>3. ASSUME NEW j \in Ino
      PROVE  c[j] = Cardinality(Holders(w, j)) + Cardinality(Holders(v, j))
                    + (IF j = Root THEN Cardinality(Proc) ELSE 0)
  <2>1. PICK x, y, z, r : /\ x = Cardinality(Holders(w, j)) /\ y = Cardinality(Holders(o, j))
                          /\ z = Cardinality(Holders(v, j))
                          /\ r = (IF j = Root THEN Cardinality(Proc) ELSE 0)
    OBVIOUS
  <2>2. x \in Nat /\ y \in Nat /\ z \in Nat /\ r \in Nat /\ c[j] \in Nat
    BY <2>1, HoldersFinite
  <2>3. Plus(c, i)[j] = x + y + r
    BY <2>1 DEF Counted
  <2>4. y = IF j = i THEN z + 1 ELSE z
    BY <1>1, <1>2, <2>1
  <2>5. Plus(c, i)[j] = IF j = i THEN c[j] + 1 ELSE c[j]
    BY DEF Plus
  <2>6. c[j] = x + z + r
    BY ONLY <2>2, <2>3, <2>4, <2>5
  <2> QED  BY <2>1, <2>6
<1> QED  BY <1>2, <1>3 DEF Counted

LEMMA CountedMove ==
    ASSUME NEW b \in [Ino -> Nat], NEW c \in [Ino -> Nat], NEW w \in [Proc -> Ino], NEW o,
           Counted(b, w, o), NEW p \in Proc, NEW i \in Ino, Plus(c, w[p]) = Plus(b, i),
           NEW v, v = [w EXCEPT ![p] = i]
    PROVE  v \in [Proc -> Ino] /\ Counted(c, v, o)
<1>0. PICK k \in Ino : k = w[p]
  OBVIOUS
<1>1. \A j \in Ino : (IF j = k THEN c[j] + 1 ELSE c[j]) = (IF j = i THEN b[j] + 1 ELSE b[j])
  <2>1. \A j \in Ino : Plus(c, k)[j] = Plus(b, i)[j]
    BY <1>0
  <2> QED  BY <2>1 DEF Plus
<1>2. CASE k = i
  <2>1. v = w
    BY <1>0, <1>2
  <2>2. \A j \in Ino : c[j] = b[j]
    BY <1>1, <1>2
  <2> QED  BY <2>1, <2>2 DEF Counted
<1>3. CASE k # i
  <2>0. /\ v \in [Proc -> Ino]
        /\ Cardinality(Holders(v, i)) = Cardinality(Holders(w, i)) + 1
        /\ Cardinality(Holders(w, k)) = Cardinality(Holders(v, k)) + 1
        /\ \A j : j # i /\ j # k => Cardinality(Holders(v, j)) = Cardinality(Holders(w, j))
    <3>1. /\ w \in [Proc -> Ino] /\ p \in Proc /\ i \in Ino /\ k = w[p] /\ k # i
          /\ v = [w EXCEPT ![p] = i]
      BY <1>0, <1>3
    <3>2. v \in [Proc -> Ino] /\ Reheld(w, v, i, k)
      BY ONLY <3>1, Rehold
    <3> QED  BY ONLY <3>2 DEF Reheld
  <2>1. ASSUME NEW j \in Ino
        PROVE  c[j] = Cardinality(Holders(v, j)) + Cardinality(Holders(o, j))
                      + (IF j = Root THEN Cardinality(Proc) ELSE 0)
    <3>1. PICK x, y, z, r : /\ x = Cardinality(Holders(w, j)) /\ y = Cardinality(Holders(o, j))
                            /\ z = Cardinality(Holders(v, j))
                            /\ r = (IF j = Root THEN Cardinality(Proc) ELSE 0)
      OBVIOUS
    <3>2. x \in Nat /\ y \in Nat /\ z \in Nat /\ r \in Nat /\ c[j] \in Nat /\ b[j] \in Nat
      BY <3>1, HoldersFinite
    <3>3. b[j] = x + y + r
      BY <3>1 DEF Counted
    <3>4. IF j = i THEN z = x + 1 ELSE IF j = k THEN x = z + 1 ELSE z = x
      BY <1>3, <2>0, <3>1
    <3>5. (IF j = k THEN c[j] + 1 ELSE c[j]) = (IF j = i THEN b[j] + 1 ELSE b[j])
      BY <1>1
    <3>6. c[j] = z + y + r
      BY ONLY <1>3, <3>2, <3>3, <3>4, <3>5
    <3> QED  BY <3>1, <3>6
  <2> QED  BY <2>0, <2>1 DEF Counted
<1> QED  BY <1>2, <1>3

LEMMA CountedHeld ==
    ASSUME NEW c \in [Ino -> Nat], NEW w, NEW o, Counted(c, w, o), NEW p \in Proc, NEW i \in Ino,
           w[p] = i \/ o[p] = i
    PROVE  c[i] > 0
<1>1. PICK x, y, r : /\ x = Cardinality(Holders(w, i)) /\ y = Cardinality(Holders(o, i))
                     /\ r = (IF i = Root THEN Cardinality(Proc) ELSE 0)
  OBVIOUS
<1>2. x \in Nat /\ y \in Nat /\ r \in Nat
  BY <1>1, HoldersFinite
<1>3. x > 0 \/ y > 0
  BY <1>1, HoldersFinite
<1>4. c[i] = x + y + r
  BY <1>1 DEF Counted
<1> QED  BY ONLY <1>2, <1>3, <1>4

\* What holds of the file system in every state.
FileSystemInv ==
    /\ Good(fs)
    /\ pwd \in [Proc -> Ino] /\ file \in [Proc -> 0..NInodes]
    /\ \A p \in Proc : fs.kind[pwd[p]] = "dir"
    /\ Counted(fs.count, pwd, file)

\* An open file stays what it is.
Steady == \A q \in Proc : file[q] # 0 /\ file'[q] = file[q] =>
             /\ fs'.kind[file[q]] = fs.kind[file[q]]
             /\ fs.kind[file[q]] # "dir" => fs'.zone[file[q]] = fs.zone[file[q]]

LEMMA InvReady ==
    ASSUME FileSystemInv, NEW p \in Proc
    PROVE  Ready(p)
<1>1. fs.count \in [Ino -> Nat] /\ pwd[p] \in Ino
  BY DEF FileSystemInv, Good, Inodes
<1>2. fs.count[pwd[p]] > 0
  BY <1>1, CountedHeld DEF FileSystemInv
<1>3. ASSUME file[p] # 0 PROVE file[p] \in Ino /\ fs.count[file[p]] > 0
  <2>1. file[p] \in Ino
    BY <1>3, FileSystemAssumption DEF FileSystemInv, Ino
  <2> QED  BY <1>1, <2>1, CountedHeld DEF FileSystemInv
<1> QED  BY <1>1, <1>2, <1>3 DEF Ready, FileSystemInv

\* A step keeps what is held before it and after it.
LEMMA HeldStays ==
    ASSUME FileSystemInv, NEW b, NEW c, After(fs, fs', c, b),
           pwd' \in [Proc -> Ino], file' \in [Proc -> 0..NInodes], Counted(c, pwd', file'),
           \A q \in Proc : fs'.kind[pwd'[q]] = "dir",
           \A q \in Proc : file[q] # 0 /\ file'[q] = file[q] => b[file[q]] > 0
    PROVE  FileSystemInv' /\ Steady
<1>1. Good(fs') /\ fs'.count = c /\ Kept(fs, fs', b)
  BY DEF After
<1>2. FileSystemInv'
  <2>1. Counted(fs'.count, pwd', file')
    BY <1>1
  <2> QED  BY <1>1, <2>1 DEF FileSystemInv
<1>3. Steady
  <2> SUFFICES ASSUME NEW q \in Proc, file[q] # 0, file'[q] = file[q]
               PROVE  /\ fs'.kind[file[q]] = fs.kind[file[q]]
                      /\ fs.kind[file[q]] # "dir" => fs'.zone[file[q]] = fs.zone[file[q]]
    BY DEF Steady
  <2>1. file[q] \in Ino
    BY FileSystemAssumption DEF FileSystemInv, Ino
  <2> QED  BY <1>1, <2>1 DEF Kept
<1> QED  BY <1>2, <1>3

LEMMA CallStep ==
    ASSUME FileSystemInv, NEW p \in Proc,
           Quiet \/ (\E i \in Ino : Opens(p, i)) \/ Closes(p) \/ (\E i \in Ino : Moves(p, i))
    PROVE  FileSystemInv' /\ Steady
<1>0. /\ fs.count \in [Ino -> Nat] /\ pwd \in [Proc -> Ino] /\ file \in [Proc -> 0..NInodes]
      /\ Counted(fs.count, pwd, file)
      /\ \A q \in Proc : fs.kind[pwd[q]] = "dir"
  BY DEF FileSystemInv, Good, Inodes
<1>1. \A q \in Proc : /\ pwd[q] \in Ino /\ fs.count[pwd[q]] > 0
                      /\ file[q] # 0 => file[q] \in Ino /\ fs.count[file[q]] > 0
  BY InvReady DEF Ready
<1>2. CASE Quiet
  <2>1. After(fs, fs', fs.count, fs.count) /\ pwd' = pwd /\ file' = file
    BY <1>2 DEF Quiet
  <2>2. \A q \in Proc : fs'.kind[pwd'[q]] = "dir"
    BY <1>0, <1>1, <2>1 DEF After, Kept
  <2> QED  BY <1>0, <1>1, <2>1, <2>2, HeldStays
<1>3. CASE \E i \in Ino : Opens(p, i)
  <2>1. PICK i \in Ino : Opens(p, i)
    BY <1>3
  <2>2. /\ After(fs, fs', Plus(fs.count, i), fs.count) /\ pwd' = pwd
        /\ file[p] = 0 /\ file' = [file EXCEPT ![p] = i]
    BY <2>1 DEF Opens
  <2>3. \A q \in Proc : fs'.kind[pwd'[q]] = "dir"
    BY <1>0, <1>1, <2>2 DEF After, Kept
  <2>4. file' \in [Proc -> 0..NInodes] /\ Counted(Plus(fs.count, i), pwd, file')
    BY <1>0, <2>2, CountedOpen
  <2> QED  BY <1>0, <1>1, <2>2, <2>3, <2>4, HeldStays
<1>4. CASE Closes(p)
  <2>1. PICK c \in [Ino -> Nat] : Plus(c, file[p]) = fs.count /\ After(fs, fs', c, c)
    BY <1>4 DEF Closes
  <2>2. file[p] \in Ino /\ pwd' = pwd /\ file' = [file EXCEPT ![p] = 0]
    BY <1>4 DEF Closes
  <2>3. file' \in [Proc -> 0..NInodes] /\ Counted(c, pwd, file')
    <3>1. Counted(Plus(c, file[p]), pwd, file)
      BY <1>0, <2>1
    <3> QED  BY <1>0, <2>2, <3>1, CountedClose
  <2>4. \A q \in Proc : c[pwd[q]] > 0
    BY <1>1, <2>3, CountedHeld
  <2>5. \A q \in Proc : fs'.kind[pwd'[q]] = "dir"
    BY <1>0, <1>1, <2>1, <2>2, <2>4 DEF After, Kept
  <2>6. \A q \in Proc : file[q] # 0 /\ file'[q] = file[q] => c[file[q]] > 0
    BY <1>1, <2>3, CountedHeld
  <2> QED  BY <1>0, <2>1, <2>2, <2>3, <2>5, <2>6, HeldStays
<1>5. CASE \E i \in Ino : Moves(p, i)
  <2>1. PICK i \in Ino : Moves(p, i)
    BY <1>5
  <2>2. file' = file /\ pwd' = [pwd EXCEPT ![p] = i] /\ fs'.kind[i] = "dir"
    BY <2>1 DEF Moves
  <2>3. PICK c \in [Ino -> Nat] : Plus(c, pwd[p]) = Plus(fs.count, i) /\ After(fs, fs', c, c)
    BY <2>1 DEF Moves
  <2>4. pwd' \in [Proc -> Ino] /\ Counted(c, pwd', file)
    BY <1>0, <2>2, <2>3, CountedMove
  <2>5. \A q \in Proc : fs'.kind[pwd'[q]] = "dir"
    <3> SUFFICES ASSUME NEW q \in Proc PROVE fs'.kind[pwd'[q]] = "dir"
      OBVIOUS
    <3>1. CASE q = p
      BY <1>0, <2>2, <3>1
    <3>2. CASE q # p
      <4>1. pwd'[q] = pwd[q] /\ pwd'[q] \in Ino
        BY <1>0, <2>2, <2>4, <3>2
      <4>2. c[pwd[q]] > 0
        BY <2>4, <4>1, CountedHeld
      <4> QED  BY <1>0, <1>1, <2>3, <4>1, <4>2 DEF After, Kept
    <3> QED  BY <3>1, <3>2
  <2>6. \A q \in Proc : file[q] # 0 /\ file'[q] = file[q] => c[file[q]] > 0
    BY <1>1, <2>4, CountedHeld
  <2> QED  BY <1>0, <2>2, <2>3, <2>4, <2>5, <2>6, HeldStays
<1> QED  BY <1>2, <1>3, <1>4, <1>5

LEMMA NextStep ==
    ASSUME FileSystemInv, Next
    PROVE  FileSystemInv' /\ Steady
<1>1. PICK p \in Proc :
         \/ \E path \in Paths :
               \/ Open(p, path)
               \/ \E dev \in Devs : sys_mknod(p, path, dev)
               \/ sys_mkdir(p, path)
               \/ sys_rmdir(p, path)
               \/ sys_unlink(p, path)
               \/ \E new \in NewPaths : sys_link(p, path, new)
               \/ sys_chdir(p, path)
         \/ sys_close(p)
  BY DEF Next
<1>2. Ready(p)
  BY InvReady
<1>3. Quiet \/ (\E i \in Ino : Opens(p, i)) \/ Closes(p) \/ (\E i \in Ino : Moves(p, i))
  <2>1. CASE sys_close(p)
    BY <1>2, <2>1, CloseDoes
  <2>2. ASSUME NEW path \in Paths, Open(p, path) PROVE Quiet \/ \E i \in Ino : Opens(p, i)
    BY <1>2, <2>2, OpenDoes
  <2>3. ASSUME NEW path \in Paths, NEW dev \in Devs, sys_mknod(p, path, dev) PROVE Quiet
    BY <1>2, <2>3, MknodDoes
  <2>4. ASSUME NEW path \in Paths, sys_mkdir(p, path) PROVE Quiet
    BY <1>2, <2>4, MkdirDoes
  <2>5. ASSUME NEW path \in Paths, sys_rmdir(p, path) PROVE Quiet
    BY <1>2, <2>5, RmdirDoes
  <2>6. ASSUME NEW path \in Paths, sys_unlink(p, path) PROVE Quiet
    BY <1>2, <2>6, UnlinkDoes
  <2>7. ASSUME NEW path \in Paths, NEW new \in NewPaths, sys_link(p, path, new) PROVE Quiet
    BY <1>2, <2>7, LinkDoes
  <2>8. ASSUME NEW path \in Paths, sys_chdir(p, path)
        PROVE  Quiet \/ \E i \in Ino : Moves(p, i)
    BY <1>2, <2>8, ChdirDoes
  <2> QED  BY <1>1, <2>1, <2>2, <2>3, <2>4, <2>5, <2>6, <2>7, <2>8
<1> QED  BY <1>3, CallStep

LEMMA StutterStep ==
    ASSUME FileSystemInv, UNCHANGED vars
    PROVE  FileSystemInv' /\ Steady
BY DEF FileSystemInv, Steady, vars

----------------------------------------------------------------------------
\* The initial state.

LEMMA InitEntries ==
    ASSUME FileSystemInit
    PROVE  /\ fs.ent[Root] = Dots(Root, Root) /\ Len(fs.ent[Root]) = 2
           /\ fs.ent[Root][1] = <<".", Root>> /\ fs.ent[Root][2] = <<"..", Root>>
           /\ \A i \in Ino \ {Root} : fs.ent[i] = <<>>
           /\ fs.ent \in [Ino -> Seq(Slot)]
<1>1. fs.ent = [i \in Ino |-> IF i = Root THEN Dots(Root, Root) ELSE <<>>]
  BY DEF FileSystemInit
<1>2. PICK s \in Slot, t \in Slot : s = <<".", Root>> /\ t = <<"..", Root>>
  BY Typing, Zenon
<1>3. Dots(Root, Root) = <<s, t>> /\ <<s, t>> \in Seq(Slot) /\ <<>> \in Seq(Slot)
  BY <1>2 DEF Dots
<1>4. fs.ent[Root] = <<s, t>> /\ \A i \in Ino \ {Root} : fs.ent[i] = <<>>
  BY <1>1, <1>3, Typing, Zenon
<1>5. Len(<<s, t>>) = 2 /\ <<s, t>>[1] = s /\ <<s, t>>[2] = t
  OBVIOUS
<1>6. fs.ent \in [Ino -> Seq(Slot)]
  BY <1>1, <1>3
<1> QED  BY <1>2, <1>3, <1>4, <1>5, <1>6

LEMMA InitGood ==
    ASSUME FileSystemInit
    PROVE  Good(fs)
<1>1. PICK E : E = fs.ent
  OBVIOUS
<1>2. PICK Q : Q = fs.kind
  OBVIOUS
<1>3. /\ Len(E[Root]) = 2 /\ E[Root][1] = <<".", Root>> /\ E[Root][2] = <<"..", Root>>
      /\ \A i \in Ino \ {Root} : E[i] = <<>>
      /\ E \in [Ino -> Seq(Slot)]
  BY <1>1, InitEntries
<1>4. Q = [i \in Ino |-> IF i = Root THEN "dir" ELSE "free"]
  BY <1>2 DEF FileSystemInit
<1>5. Q \in [Ino -> Kinds] /\ Dirs(Q) = {Root} /\ Q[Root] = "dir"
  BY <1>4, Typing, Zenon DEF Kinds, Dirs
<1>6. Up(E, Root) = Root
  BY <1>3 DEF Up
<1>7. DirOK(Q, E, Root)
  <2>1. E[Root][2][1] = ".." /\ E[Root][1][1] = "."
    BY <1>3
  <2>2. ASSUME NEW j \in 1..Len(E[Root]), NEW k \in 1..Len(E[Root]),
               E[Root][j][1] = E[Root][k][1]
        PROVE  j = k
    <3>1. (j = 1 \/ j = 2) /\ (k = 1 \/ k = 2)
      BY <1>3
    <3> QED  BY <2>1, <2>2, <3>1
  <2>3. 3..Len(E[Root]) = {}
    BY <1>3
  <2> QED  BY <1>3, <1>5, <1>6, <2>1, <2>2, <2>3 DEF DirOK
<1>8. Parents(Dirs(Q), E)
  <2>1. 3..Len(E[Root]) = {}
    BY <1>3
  <2> QED  BY <1>5, <1>6, <2>1 DEF Parents
<1>9. NoCircle(Dirs(Q), E)
  BY <1>5 DEF NoCircle
<1>10. Tree(Q, E)
  BY <1>3, <1>5, <1>7, <1>8, <1>9 DEF Tree, Dirs
<1>11. At(E, Root) = {<<Root, 1>>, <<Root, 2>>} /\ \A i \in Ino \ {Root} : At(E, i) = {}
  <2>1. ASSUME NEW d \in Ino, NEW k \in 1..Len(E[d])
        PROVE  d = Root /\ (k = 1 \/ k = 2) /\ E[d][k][2] = Root
    <3>1. d = Root
      BY <1>3
    <3>2. k = 1 \/ k = 2
      <4>1. k \in 1..2
        BY ONLY <1>3, <3>1, k \in 1..Len(E[d])
      <4> QED  BY ONLY <4>1
    <3> QED  BY <1>3, <3>1, <3>2
  <2>2. /\ Root \in Ino /\ 1 \in Nat /\ 2 \in Nat /\ 1 \in 1..Len(E[Root]) /\ 2 \in 1..Len(E[Root])
        /\ E[Root][1][2] = Root /\ E[Root][2][2] = Root
    <3>1. Root \in Ino
      BY Typing, Zenon
    <3>2. 1 \in Nat /\ 2 \in Nat /\ 1 \in 1..2 /\ 2 \in 1..2
      OBVIOUS
    <3>3. 1 \in 1..Len(E[Root]) /\ 2 \in 1..Len(E[Root])
      BY ONLY <1>3, <3>2
    <3>4. E[Root][1][2] = Root /\ E[Root][2][2] = Root
      BY ONLY <1>3
    <3> QED  BY ONLY <3>1, <3>2, <3>3, <3>4
  <2> QED  BY <2>1, <2>2 DEF At
<1>12. Links(fs.nlinks, E)
  <2>1. fs.nlinks = [i \in Ino |-> IF i = Root THEN 2 ELSE 0]
    BY DEF FileSystemInit
  <2>2. IsFiniteSet(At(E, Root)) /\ Cardinality(At(E, Root)) = 2
    <3>1. Adds({}, {<<Root, 1>>}, <<Root, 1>>)
      BY DEF Adds
    <3>2. Adds({<<Root, 1>>}, At(E, Root), <<Root, 2>>)
      BY <1>11 DEF Adds
    <3>3. IsFiniteSet({}) /\ Cardinality({}) = 0
      BY FS_EmptySet
    <3>4. IsFiniteSet({<<Root, 1>>}) /\ Cardinality({<<Root, 1>>}) = 1
      BY <3>1, <3>3, AddsCard
    <3> QED  BY <3>2, <3>4, AddsCard
  <2>3. \A i \in Ino \ {Root} : IsFiniteSet(At(E, i)) /\ Cardinality(At(E, i)) = 0
    BY <1>11, FS_EmptySet
  <2> QED  BY <2>1, <2>2, <2>3 DEF Links
<1>13. /\ fs.count = [i \in Ino |-> IF i = Root THEN 2 * Cardinality(Proc) ELSE 0]
       /\ fs.nlinks = [i \in Ino |-> IF i = Root THEN 2 ELSE 0]
       /\ fs.zone = [i \in Ino |-> IF i = Root THEN 1 ELSE 0]
       /\ fs = [kind |-> fs.kind, nlinks |-> fs.nlinks, count |-> fs.count, ent |-> fs.ent,
                zone |-> fs.zone]
  BY DEF FileSystemInit
<1>14. fs \in Inodes
  <2>1. Cardinality(Proc) \in Nat
    BY FileSystemAssumption, FS_CardinalityType
  <2>2. 2 * Cardinality(Proc) \in Nat
    BY <2>1
  <2>3. fs.count \in [Ino -> Nat] /\ fs.nlinks \in [Ino -> Nat] /\ fs.zone \in [Ino -> Nat]
    BY ONLY <1>13, <2>2
  <2> QED  BY <1>1, <1>2, <1>3, <1>5, <1>13, <2>3 DEF Inodes
<1>15. \A i \in Ino : fs.count[i] > 0 => fs.kind[i] # "free"
  BY <1>2, <1>4, <1>13
<1> QED  BY <1>1, <1>2, <1>10, <1>12, <1>14, <1>15 DEF Good

LEMMA InitInv ==
    ASSUME FileSystemInit
    PROVE  FileSystemInv
<1>1. /\ pwd = [p \in Proc |-> Root] /\ file = [p \in Proc |-> 0]
      /\ fs.count = [i \in Ino |-> IF i = Root THEN 2 * Cardinality(Proc) ELSE 0]
      /\ fs.kind = [i \in Ino |-> IF i = Root THEN "dir" ELSE "free"]
  BY DEF FileSystemInit
<1>2. pwd \in [Proc -> Ino] /\ file \in [Proc -> 0..NInodes]
  <2>1. Root \in Ino
    BY Typing, Zenon
  <2>2. 0 \in 0..NInodes
    BY FileSystemAssumption
  <2> QED  BY ONLY <1>1, <2>1, <2>2
<1>3. \A p \in Proc : fs.kind[pwd[p]] = "dir"
  BY <1>1, Typing, Zenon
<1>4. Counted(fs.count, pwd, file)
  <2> SUFFICES ASSUME NEW i \in Ino
               PROVE  fs.count[i] = Cardinality(Holders(pwd, i)) + Cardinality(Holders(file, i))
                                    + (IF i = Root THEN Cardinality(Proc) ELSE 0)
    BY DEF Counted
  <2>1. Holders(file, i) = {} /\ Cardinality({}) = 0
    BY <1>1, Typing, FS_EmptySet, Zenon DEF Holders
  <2>2. Cardinality(Proc) \in Nat
    BY FileSystemAssumption, FS_CardinalityType
  <2>3. CASE i = Root
    <3>1. Holders(pwd, i) = Proc
      BY <1>1, <2>3 DEF Holders
    <3> QED  BY <1>1, <2>1, <2>2, <2>3, <3>1
  <2>4. CASE i # Root
    <3>1. Holders(pwd, i) = {}
      BY <1>1, <2>4 DEF Holders
    <3> QED  BY <1>1, <2>1, <2>4, <3>1
  <2> QED  BY <2>3, <2>4
<1> QED  BY <1>2, <1>3, <1>4, InitGood DEF FileSystemInv

----------------------------------------------------------------------------
\* What the invariant says of the entries.

LEMMA EntriesAre ==
    ASSUME Good(fs), NEW e
    PROVE  e \in Entries <=> /\ e \in Ino \X Nat /\ e[1] \in Dirs(fs.kind)
                             /\ e[2] \in 1..Len(fs.ent[e[1]]) /\ EntryOf(e) # Hole
<1>1. fs.ent \in [Ino -> Seq(Slot)]
  BY DEF Good, Inodes
<1>2. \A d \in Ino : DOMAIN fs.ent[d] = 1..Len(fs.ent[d]) /\ Len(fs.ent[d]) \in Nat
  BY <1>1
<1>3. ASSUME e \in Entries
      PROVE  /\ e \in Ino \X Nat /\ e[1] \in Dirs(fs.kind)
             /\ e[2] \in 1..Len(fs.ent[e[1]]) /\ EntryOf(e) # Hole
  <2>1. PICK d \in Ino : /\ fs.kind[d] = "dir"
                         /\ e \in {<<d, k>> : k \in {k \in DOMAIN fs.ent[d] : fs.ent[d][k] # Hole}}
    BY <1>3 DEF Entries
  <2>2. PICK k \in DOMAIN fs.ent[d] : e = <<d, k>> /\ fs.ent[d][k] # Hole
    BY <2>1
  <2>3. k \in 1..Len(fs.ent[d]) /\ k \in Nat
    BY <1>2, <2>2
  <2> QED  BY <2>1, <2>2, <2>3 DEF Dirs, EntryOf
<1>4. ASSUME e \in Ino \X Nat, e[1] \in Dirs(fs.kind), e[2] \in 1..Len(fs.ent[e[1]]),
             EntryOf(e) # Hole
      PROVE  e \in Entries
  <2>1. PICK d \in Ino, k \in Nat : e = <<d, k>>
    BY <1>4
  <2>2. fs.kind[d] = "dir" /\ k \in DOMAIN fs.ent[d] /\ fs.ent[d][k] # Hole
    BY <1>2, <1>4, <2>1 DEF Dirs, EntryOf
  <2> QED  BY <2>1, <2>2 DEF Entries
<1> QED  BY <1>3, <1>4

LEMMA NamingAt ==
    ASSUME Good(fs), NEW i \in Ino
    PROVE  Naming(i) = At(fs.ent, i)
<1>1. Tree(fs.kind, fs.ent) /\ Hole[2] # i
  BY Typing, Zenon DEF Good
<1>2. ASSUME NEW e \in Naming(i) PROVE e \in At(fs.ent, i)
  <2>1. e \in Entries /\ EntryOf(e)[2] = i
    BY <1>2 DEF Naming
  <2> QED  BY <2>1, EntriesAre DEF At, EntryOf
<1>3. ASSUME NEW e \in At(fs.ent, i) PROVE e \in Naming(i)
  <2>1. e \in Ino \X Nat /\ e[2] \in 1..Len(fs.ent[e[1]]) /\ EntryOf(e)[2] = i /\ e[1] \in Ino
    BY <1>3 DEF At, EntryOf
  <2>2. EntryOf(e) # Hole
    BY <1>1, <2>1
  <2>3. e[1] \in Dirs(fs.kind)
    <3>1. CASE fs.kind[e[1]] = "dir"
      BY <2>1, <3>1 DEF Dirs
    <3>2. CASE fs.kind[e[1]] # "dir"
      <4>1. fs.ent[e[1]] = <<>>
        BY <1>1, <2>1, <3>2 DEF Tree
      <4> QED  BY <2>1, <4>1
    <3> QED  BY <3>1, <3>2
  <2>4. e \in Entries
    BY <2>1, <2>2, <2>3, EntriesAre
  <2> QED  BY <2>1, <2>4 DEF Naming
<1> QED  BY <1>2, <1>3

LEMMA LinksFollow ==
    ASSUME FileSystemInv
    PROVE  LinkCountsExact
BY NamingAt DEF LinkCountsExact, FileSystemInv, Good, Links

LEMMA RefsFollow ==
    ASSUME FileSystemInv
    PROVE  RefsExact
BY DEF RefsExact, FileSystemInv, Counted, Holders

LEMMA TreeFollows ==
    ASSUME FileSystemInv
    PROVE  NamespaceIsTree
<1>1. PICK E : E = fs.ent
  OBVIOUS
<1>2. PICK Q : Q = fs.kind
  OBVIOUS
<1>3. PICK D : D = Dirs(Q)
  OBVIOUS
<1>4. /\ Good(fs) /\ Tree(Q, E) /\ E \in [Ino -> Seq(Slot)] /\ Parents(D, E) /\ NoCircle(D, E)
      /\ D \subseteq Ino
      /\ \A d \in D : DirOK(Q, E, d)
      /\ \A d \in D : Q[d] = "dir"
  BY <1>1, <1>2, <1>3 DEF FileSystemInv, Good, Tree, Dirs
<1>5. ASSUME NEW e \in Entries
      PROVE  /\ e \in Ino \X Nat /\ e[1] \in D /\ e[2] \in 1..Len(E[e[1]])
             /\ EntryOf(e) # Hole /\ EntryOf(e) = E[e[1]][e[2]] /\ Len(E[e[1]]) \in Nat
  <2>1. /\ e \in Ino \X Nat /\ e[1] \in D /\ e[2] \in 1..Len(E[e[1]]) /\ EntryOf(e) # Hole
    BY <1>1, <1>2, <1>3, <1>4, EntriesAre
  <2>2. EntryOf(e) = E[e[1]][e[2]]
    BY <1>1 DEF EntryOf
  <2> QED  BY <1>4, <2>1, <2>2
<1>6. ASSUME NEW e \in Entries PROVE Q[EntryOf(e)[2]] # "free"
  <2>1. PICK d \in D : \E k \in 1..Len(E[d]) : /\ E[d][k] = EntryOf(e) /\ E[d][k] # Hole
                                              /\ Len(E[d]) \in Nat
    BY <1>5
  <2>2. PICK k \in 1..Len(E[d]) : E[d][k] = EntryOf(e) /\ E[d][k] # Hole /\ Len(E[d]) \in Nat
    BY <2>1
  <2>3. DirOK(Q, E, d) /\ Q[d] = "dir"
    BY <1>4
  <2>4. CASE k = 1
    BY <2>2, <2>3, <2>4 DEF DirOK
  <2>5. CASE k = 2
    BY <2>2, <2>3, <2>5 DEF DirOK, Up, Dirs
  <2>6. CASE k # 1 /\ k # 2
    <3>1. k \in 3..Len(E[d])
      BY <2>2, <2>6
    <3> QED  BY <2>2, <2>3, <3>1, Zenon DEF DirOK, Names
  <2> QED  BY <2>4, <2>5, <2>6
<1>7. ASSUME NEW e1 \in Entries, NEW e2 \in Entries, e1[1] = e2[1],
             EntryOf(e1)[1] = EntryOf(e2)[1]
      PROVE  e1 = e2
  <2>1. PICK d \in D : d = e1[1] /\ d = e2[1]
    BY <1>5, <1>7
  <2>2. /\ e1[2] \in 1..Len(E[d]) /\ e2[2] \in 1..Len(E[d]) /\ E[d][e1[2]] # Hole
        /\ E[d][e1[2]][1] = E[d][e2[2]][1]
    BY <1>5, <1>7, <2>1
  <2>3. e1[2] = e2[2]
    BY <1>4, <2>2 DEF DirOK
  <2>4. e1 = <<e1[1], e1[2]>> /\ e2 = <<e2[1], e2[2]>>
    BY <1>5
  <2> QED  BY <1>7, <2>3, <2>4
<1>8. ASSUME NEW d \in Ino \ {Root}, Q[d] = "dir"
      PROVE  \E up \in Ino :
                /\ {e[1] : e \in {e \in Naming(d) : EntryOf(e)[1] \notin {".", ".."}}} = {up}
                /\ E[d][2] = <<"..", up>>
  <2>0. d \in D
    BY <1>3, <1>8 DEF Dirs
  <2>1. PICK up \in D : up = Up(E, d)
    BY <1>3, <1>4, <2>0 DEF DirOK
  <2>2. E[d][2] = <<"..", up>>
    <3>1. Len(E[d]) >= 2 /\ E[d][2][1] = ".." /\ E[d][2][2] = up /\ Len(E[d]) \in Nat
      BY <1>4, <2>0, <2>1 DEF DirOK, Up
    <3>2. 2 \in 1..Len(E[d]) /\ E[d] \in Seq(Slot)
      BY <1>4, <3>1
    <3>3. E[d][2] \in Slot
      BY <3>2
    <3>4. E[d][2] = <<E[d][2][1], E[d][2][2]>>
      BY <3>3 DEF Slot
    <3> QED  BY <3>1, <3>4
  <2>3. PICK k \in 3..Len(E[up]) : E[up][k][2] = d
    BY <1>4, <2>0, <2>1 DEF Parents
  <2>4. Len(E[up]) \in Nat /\ k \in 1..Len(E[up]) /\ k \in Nat /\ d # 0
    <3>1. up \in Ino
      BY <1>4
    <3>2. Len(E[up]) \in Nat
      BY <1>4, <3>1
    <3>3. k \in 1..Len(E[up]) /\ k \in Nat
      BY ONLY <3>2, k \in 3..Len(E[up])
    <3>4. d # 0
      BY Typing, Zenon
    <3> QED  BY ONLY <3>2, <3>3, <3>4
  <2>5. E[up][k] # Hole /\ E[up][k][1] \notin {"", ".", ".."}
    <3>1. E[up][k] # Hole
      BY <2>3, <2>4, Typing, Zenon
    <3> QED  BY <1>4, <2>3, <3>1, Zenon DEF DirOK, Names
  <2>6. /\ <<up, k>> \in Naming(d) /\ EntryOf(<<up, k>>)[1] \notin {".", ".."}
    <3>1. <<up, k>> \in Ino \X Nat /\ <<up, k>>[1] = up /\ <<up, k>>[2] = k
      BY <1>4, <2>4
    <3>2. EntryOf(<<up, k>>) = E[up][k]
      BY <1>1 DEF EntryOf
    <3>3. <<up, k>> \in Entries
      <4>1. PICK e : e = <<up, k>>
        OBVIOUS
      <4>2. /\ e \in Ino \X Nat /\ e[1] \in Dirs(fs.kind) /\ e[2] \in 1..Len(fs.ent[e[1]])
            /\ EntryOf(e) # Hole
        BY <1>1, <1>2, <1>3, <2>4, <2>5, <3>1, <3>2, <4>1, Zenon
      <4> QED  BY <1>4, <4>1, <4>2, EntriesAre
    <3> QED  BY <2>3, <2>5, <3>2, <3>3, Zenon DEF Naming
  <2>7. ASSUME NEW e \in Naming(d), EntryOf(e)[1] \notin {".", ".."} PROVE e[1] = up
    <3>1. e \in Entries /\ EntryOf(e)[2] = d
      BY <2>7 DEF Naming
    <3>0. PICK b \in D : b = e[1]
      BY <1>5, <3>1
    <3>2. PICK j \in 1..Len(E[b]) : /\ E[b][j] = EntryOf(e) /\ E[b][j][2] = d
                                    /\ Len(E[b]) \in Nat
      BY <1>5, <3>0, <3>1
    <3>3. DirOK(Q, E, b)
      BY <1>4
    <3>4. j # 1
      BY <2>7, <3>2, <3>3 DEF DirOK
    <3>5. j # 2
      BY <2>7, <3>2, <3>3 DEF DirOK
    <3>6. j \in 3..Len(E[b])
      BY <3>2, <3>4, <3>5
    <3>7. b = up /\ j = k
      BY <1>4, <2>0, <2>3, <3>2, <3>6 DEF Parents
    <3> QED  BY <3>0, <3>7
  <2>8. {e[1] : e \in {e \in Naming(d) : EntryOf(e)[1] \notin {".", ".."}}} = {up}
    <3>1. <<up, k>>[1] = up
      OBVIOUS
    <3> QED  BY <2>6, <2>7, <3>1
  <2> QED  BY <1>4, <2>2, <2>8
<1>9. ASSUME NEW C \in (SUBSET {d \in Ino \ {Root} : Q[d] = "dir"}) \ {{}}
      PROVE  \E d \in C : E[d][2][2] \notin C
  <2>1. C \in SUBSET (D \ {Root}) /\ C # {}
    BY <1>3, <1>9 DEF Dirs
  <2> QED  BY <1>4, <2>1 DEF NoCircle, Up
<1>10. ASSUME NEW p \in Proc PROVE Q[pwd[p]] = "dir" /\ (file[p] # 0 => Q[file[p]] # "free")
  <2>1. Ready(p)
    BY InvReady
  <2> QED  BY <1>2, <1>4, <2>1 DEF Ready, Good
<1> QED  BY <1>1, <1>2, <1>6, <1>7, <1>8, <1>9, <1>10 DEF NamespaceIsTree

----------------------------------------------------------------------------
\* The readers of /proc.

ProcType == /\ f_pos \in [Proc -> 0..MaxText] /\ took \in [Proc -> 0..MaxText]
            /\ text \in [Devs -> [0..MaxText -> Proc \cup {0}]]
            /\ disturbed \in [Proc -> BOOLEAN]

\* What p has read and will read, from buffer b, is the text that it took.
OneText(b, p, off, n) == /\ n \in 1..MaxText /\ off <= n
                         /\ \A k \in 0..(n - 1) : b[k] = p
                         /\ b[n] = 0

Readers == \A d \in Devs : \A p \in OpenOn(d) :
              f_pos[p] > 0 /\ ~disturbed[p] => OneText(text[d], p, f_pos[p], took[p])

ReaderInv == ProcType /\ Readers

LEMMA ReadersFollow ==
    ASSUME ReaderInv
    PROVE  LoneReaderSeesOneText
BY DEF ReaderInv, Readers, OneText, LoneReaderSeesOneText

LEMMA BlankType == Blank \in [0..MaxText -> Proc \cup {0}]
BY DEF Blank

LEMMA ProcInitInv ==
    ASSUME ProcInit
    PROVE  ReaderInv
<1>1. 0 \in 0..MaxText
  BY ProcFileAssumption
<1>2. ProcType
  BY <1>1, BlankType DEF ProcInit, ProcType
<1>3. Readers
  BY DEF ProcInit, Readers, OpenOn
<1> QED  BY <1>2, <1>3 DEF ReaderInv

\* A call does not reach the text of a file that stays open.
LEMMA FileCallReaders ==
    ASSUME FileSystemInv, ReaderInv, FileCall
    PROVE  ReaderInv'
<1>1. Steady
  BY NextStep DEF FileCall
<1>2. /\ f_pos' = [p \in Proc |-> IF file'[p] = file[p] THEN f_pos[p] ELSE 0]
      /\ took' = [p \in Proc |-> IF file'[p] = file[p] THEN took[p] ELSE 0]
      /\ disturbed' = [p \in Proc |-> file'[p] = file[p] /\ disturbed[p]]
      /\ text' = [d \in Devs |-> IF \E p \in OpenOn(d) : f_pos'[p] > 0 THEN text[d] ELSE Blank]
  BY DEF FileCall
<1>3. 0 \in 0..MaxText
  BY ProcFileAssumption
<1>4. ProcType'
  <2>1. f_pos' \in [Proc -> 0..MaxText] /\ took' \in [Proc -> 0..MaxText]
    BY <1>2, <1>3 DEF ReaderInv, ProcType
  <2>2. disturbed' \in [Proc -> BOOLEAN]
    BY <1>2 DEF ReaderInv, ProcType
  <2>3. text' \in [Devs -> [0..MaxText -> Proc \cup {0}]]
    BY <1>2, BlankType DEF ReaderInv, ProcType
  <2> QED  BY <2>1, <2>2, <2>3 DEF ProcType
<1>5. ASSUME NEW d \in Devs, NEW p \in OpenOn(d)', f_pos'[p] > 0, ~disturbed'[p]
      PROVE  OneText(text'[d], p, f_pos'[p], took'[p])
  <2>1. p \in Proc /\ file'[p] # 0 /\ fs'.kind[file'[p]] = "proc" /\ fs'.zone[file'[p]] = d
    BY <1>5 DEF OpenOn
  <2>2. /\ file'[p] = file[p] /\ f_pos'[p] = f_pos[p] /\ took'[p] = took[p]
        /\ ~disturbed[p]
    <3>1. f_pos'[p] = IF file'[p] = file[p] THEN f_pos[p] ELSE 0
      BY ONLY <1>2, <2>1
    <3>2. file'[p] = file[p] /\ f_pos'[p] = f_pos[p]
      BY ONLY <1>5, <3>1
    <3>3. took'[p] = took[p]
      BY ONLY <1>2, <2>1, <3>2
    <3>4. disturbed'[p] <=> file'[p] = file[p] /\ disturbed[p]
      BY ONLY <1>2, <2>1
    <3>5. ~disturbed[p]
      BY ONLY <1>5, <3>2, <3>4
    <3> QED  BY ONLY <3>2, <3>3, <3>5
  <2>3. fs'.kind[file[p]] = fs.kind[file[p]]
        /\ (fs.kind[file[p]] # "dir" => fs'.zone[file[p]] = fs.zone[file[p]])
    BY <1>1, <2>1, <2>2 DEF Steady
  <2>4. p \in OpenOn(d)
    BY <2>1, <2>2, <2>3 DEF OpenOn
  <2>5. text'[d] = text[d]
    BY <1>2, <1>5, <2>4
  <2> QED  BY <1>5, <2>2, <2>4, <2>5 DEF ReaderInv, Readers
<1>6. Readers'
  BY <1>5 DEF Readers
<1> QED  BY <1>4, <1>6 DEF ReaderInv

\* The place where a read ends.
LEMMA EndIs ==
    ASSUME NEW b, NEW x \in 0..MaxText, NEW ends, ends = {k \in x..MaxText : b[k] = 0},
           NEW end, end = (IF ends = {} THEN MaxText ELSE Min(ends))
    PROVE  /\ end \in x..MaxText
           /\ \A n \in x..MaxText : b[n] = 0 => end <= n
<1>1. MaxText \in Nat /\ x \in Nat /\ x <= MaxText
  BY ProcFileAssumption
<1>2. ends \in SUBSET Nat
  BY <1>1
<1>3. CASE ends = {}
  BY <1>1, <1>3
<1>4. CASE ends # {}
  <2>1. Min(ends) \in ends /\ \A y \in ends : Min(ends) <= y
    BY <1>2, <1>4, MinIn
  <2> QED  BY <1>4, <2>1
<1> QED  BY <1>3, <1>4

LEMMA ReadReaders ==
    ASSUME ReaderInv, NEW p \in Proc, sys_read(p)
    PROVE  ReaderInv'
<1>1. PICK d : d = fs.zone[file[p]]
  OBVIOUS
<1>2. /\ file[p] # 0 /\ fs.kind[file[p]] = "proc" /\ fs' = fs /\ file' = file
      /\ d \in Devs => p \in OpenOn(d)
  BY <1>1 DEF sys_read, vars, OpenOn
<1>3. PICK count \in 1..MaxCount : proc_read(p, d, count)
  BY <1>1 DEF sys_read
<1>4. PICK n \in IF Refreshing(p) THEN 1..MaxText ELSE {0} :
        LET buf == IF Refreshing(p) THEN Refreshed(text[d], p, n) ELSE text[d]
            ends == {k \in f_pos[p]..MaxText : buf[k] = 0}
            end == IF ends = {} THEN MaxText ELSE Min(ends)
            off == IF f_pos[p] + count < end THEN f_pos[p] + count ELSE end
        IN /\ f_pos' = [f_pos EXCEPT ![p] = off]
           /\ text' = [text EXCEPT ![d] = IF off > 0 \/ \E q \in OpenOn(d) : f_pos[q] > 0
                                          THEN buf ELSE Blank]
           /\ took' = IF f_pos[p] = 0 THEN [took EXCEPT ![p] = n] ELSE took
           /\ disturbed' = [q \in Proc |->
                              IF q = p THEN disturbed[p] /\ f_pos[p] # 0
                              ELSE disturbed[q] \/ (q \in OpenOn(d) /\ f_pos[q] > 0 /\ Refreshing(p))]
  BY <1>3 DEF proc_read
<1>5. PICK x : x = f_pos[p]
  OBVIOUS
<1>6. PICK buf : buf = IF x = 0 THEN Refreshed(text[d], p, n) ELSE text[d]
  OBVIOUS
<1>7. PICK ends : ends = {k \in x..MaxText : buf[k] = 0}
  OBVIOUS
<1>8. PICK end : end = IF ends = {} THEN MaxText ELSE Min(ends)
  OBVIOUS
<1>9. PICK off : off = IF x + count < end THEN x + count ELSE end
  OBVIOUS
<1>10. PICK t : t = IF off > 0 \/ \E q \in OpenOn(d) : f_pos[q] > 0 THEN buf ELSE Blank
  OBVIOUS
<1>11. /\ f_pos' = [f_pos EXCEPT ![p] = off]
       /\ text' = [text EXCEPT ![d] = t]
       /\ took' = IF x = 0 THEN [took EXCEPT ![p] = n] ELSE took
       /\ disturbed' = [q \in Proc |->
                          IF q = p THEN disturbed[p] /\ x # 0
                          ELSE disturbed[q] \/ (q \in OpenOn(d) /\ f_pos[q] > 0 /\ x = 0)]
       /\ x = 0 => n \in 1..MaxText
  BY <1>4, <1>5, <1>6, <1>7, <1>8, <1>9, <1>10 DEF Refreshing
<1>12. /\ MaxText \in Nat /\ MaxCount \in Nat /\ count \in Nat /\ count > 0 /\ 0 \notin Proc
       /\ x \in 0..MaxText
       /\ f_pos \in [Proc -> 0..MaxText] /\ took \in [Proc -> 0..MaxText]
       /\ text \in [Devs -> [0..MaxText -> Proc \cup {0}]] /\ disturbed \in [Proc -> BOOLEAN]
  BY <1>5, ProcFileAssumption DEF ReaderInv, ProcType
<1>13. end \in x..MaxText /\ \A m \in x..MaxText : buf[m] = 0 => end <= m
  BY <1>7, <1>8, <1>12, EndIs
<1>14. off \in x..MaxText /\ off <= end
  BY ONLY <1>9, <1>12, <1>13
<1>15. d \in Devs => buf \in [0..MaxText -> Proc \cup {0}]
  <2> SUFFICES ASSUME d \in Devs PROVE buf \in [0..MaxText -> Proc \cup {0}]
    OBVIOUS
  <2>1. text[d] \in [0..MaxText -> Proc \cup {0}]
    BY <1>12
  <2>2. Refreshed(text[d], p, n) \in [0..MaxText -> Proc \cup {0}]
    BY <2>1 DEF Refreshed
  <2> QED  BY <1>6, <2>1, <2>2
<1>16. ProcType'
  <2>1. f_pos' \in [Proc -> 0..MaxText]
    <3>1. off \in 0..MaxText
      BY ONLY <1>12, <1>14
    <3> QED  BY ONLY <1>11, <1>12, <3>1
  <2>2. took' \in [Proc -> 0..MaxText]
    <3>1. x = 0 => n \in 0..MaxText
      BY ONLY <1>11, <1>12
    <3> QED  BY ONLY <1>11, <1>12, <3>1
  <2>3. text' \in [Devs -> [0..MaxText -> Proc \cup {0}]]
    <3>1. d \in Devs => t \in [0..MaxText -> Proc \cup {0}]
      BY <1>10, <1>15, BlankType
    <3> QED  BY ONLY <1>11, <1>12, <3>1
  <2>4. disturbed' \in [Proc -> BOOLEAN]
    BY <1>11, <1>12
  <2> QED  BY <2>1, <2>2, <2>3, <2>4 DEF ProcType
<1>17. ASSUME NEW e \in Devs, NEW q \in OpenOn(e), f_pos'[q] > 0, ~disturbed'[q]
       PROVE  OneText(text'[e], q, f_pos'[q], took'[q])
  <2>0. q \in Proc /\ fs.zone[file[q]] = e
    BY DEF OpenOn
  <2>1. CASE q = p
    <3>1. e = d /\ f_pos'[q] = off /\ off > 0 /\ text'[e] = buf
      BY <1>1, <1>10, <1>11, <1>12, <1>17, <2>0, <2>1
    <3>2. CASE x = 0
      <4>1. n \in 1..MaxText /\ took'[q] = n /\ buf = Refreshed(text[d], p, n)
        BY <1>6, <1>11, <1>12, <2>1, <3>2
      <4>2. buf = [k \in 0..MaxText |-> IF k < n THEN p ELSE IF k = n THEN 0 ELSE text[d][k]]
        BY <1>12, <3>1, <4>1 DEF Refreshed
      <4>3. n \in x..MaxText /\ n \in Nat /\ n \in 0..MaxText
        BY ONLY <1>12, <3>2, <4>1
      <4>4. buf[n] = 0
        BY ONLY <4>2, <4>3
      <4>5. \A k \in 0..(n - 1) : buf[k] = p
        BY ONLY <1>12, <4>1, <4>2
      <4>6. off <= n
        BY ONLY <1>12, <1>13, <1>14, <4>3, <4>4
      <4> QED  BY <2>1, <3>1, <4>1, <4>4, <4>5, <4>6 DEF OneText
    <3>3. CASE x # 0
      <4>1. took'[q] = took[q] /\ ~disturbed[q] /\ buf = text[d] /\ f_pos[q] = x /\ x > 0
        BY <1>5, <1>6, <1>11, <1>12, <1>17, <2>0, <2>1, <3>3
      <4>2. OneText(buf, q, x, took[q])
        BY <1>17, <3>1, <4>1 DEF ReaderInv, Readers
      <4>3. took[q] \in x..MaxText /\ buf[took[q]] = 0
        BY <1>12, <4>2 DEF OneText
      <4>4. off <= took[q]
        BY <1>12, <1>13, <1>14, <4>3
      <4> QED  BY <3>1, <4>1, <4>2, <4>4 DEF OneText
    <3> QED  BY <3>2, <3>3
  <2>2. CASE q # p
    <3>1. f_pos'[q] = f_pos[q] /\ took'[q] = took[q] /\ ~disturbed[q] /\ f_pos[q] > 0
          /\ ~(q \in OpenOn(d) /\ f_pos[q] > 0 /\ x = 0)
      BY <1>11, <1>12, <1>17, <2>0, <2>2
    <3>2. text'[e] = text[e]
      <4>1. CASE e # d
        BY <1>11, <1>12, <4>1
      <4>2. CASE e = d
        <5>1. t = buf /\ buf = text[d]
          BY <1>6, <1>10, <3>1, <4>2
        <5> QED  BY <1>11, <1>12, <4>2, <5>1
      <4> QED  BY <4>1, <4>2
    <3> QED  BY <3>1, <3>2 DEF ReaderInv, Readers
  <2> QED  BY <2>1, <2>2
<1>18. Readers'
  <2>1. \A e \in Devs : OpenOn(e)' = OpenOn(e)
    BY <1>2 DEF OpenOn
  <2> QED  BY <1>17, <2>1 DEF Readers
<1> QED  BY <1>16, <1>18 DEF ReaderInv

LEMMA SeekReaders ==
    ASSUME ReaderInv, NEW p \in Proc, sys_lseek(p)
    PROVE  ReaderInv'
<1>1. PICK off \in 0..(f_pos[p] - 1) : f_pos' = [f_pos EXCEPT ![p] = off]
  BY DEF sys_lseek
<1>2. /\ text' = [d \in Devs |-> IF \E q \in OpenOn(d) : f_pos'[q] > 0 THEN text[d] ELSE Blank]
      /\ took' = IF f_pos'[p] = 0 THEN [took EXCEPT ![p] = 0] ELSE took
      /\ disturbed' = [disturbed EXCEPT ![p] = @ /\ f_pos'[p] > 0]
      /\ fs' = fs /\ file' = file
  BY DEF sys_lseek, vars
<1>3. /\ MaxText \in Nat
      /\ f_pos \in [Proc -> 0..MaxText] /\ took \in [Proc -> 0..MaxText]
      /\ text \in [Devs -> [0..MaxText -> Proc \cup {0}]] /\ disturbed \in [Proc -> BOOLEAN]
  BY ProcFileAssumption DEF ReaderInv, ProcType
<1>4. off \in 0..MaxText /\ off < f_pos[p] /\ 0 \in 0..MaxText
  BY <1>3
<1>5. ProcType'
  <2>1. f_pos' \in [Proc -> 0..MaxText] /\ took' \in [Proc -> 0..MaxText]
    BY <1>1, <1>2, <1>3, <1>4
  <2>2. text' \in [Devs -> [0..MaxText -> Proc \cup {0}]]
    BY <1>2, <1>3, BlankType
  <2>3. disturbed' \in [Proc -> BOOLEAN]
    BY <1>2, <1>3
  <2> QED  BY <2>1, <2>2, <2>3 DEF ProcType
<1>6. ASSUME NEW d \in Devs, NEW q \in OpenOn(d), f_pos'[q] > 0, ~disturbed'[q]
      PROVE  OneText(text'[d], q, f_pos'[q], took'[q])
  <2>0. q \in Proc
    BY DEF OpenOn
  <2>1. text'[d] = text[d]
    BY <1>2, <1>6
  <2>2. /\ f_pos'[q] <= f_pos[q] /\ f_pos[q] > 0 /\ f_pos'[q] \in Nat /\ f_pos[q] \in Nat
    BY <1>1, <1>3, <1>4, <1>6, <2>0
  <2>3. took'[q] = took[q] /\ ~disturbed[q]
    BY <1>2, <1>3, <1>6, <2>0
  <2>4. OneText(text[d], q, f_pos[q], took[q])
    BY <1>6, <2>2, <2>3 DEF ReaderInv, Readers
  <2> QED  BY <1>3, <2>0, <2>1, <2>2, <2>3, <2>4 DEF OneText
<1>7. Readers'
  <2>1. \A d \in Devs : OpenOn(d)' = OpenOn(d)
    BY <1>2 DEF OpenOn
  <2> QED  BY <1>6, <2>1 DEF Readers
<1> QED  BY <1>5, <1>7 DEF ReaderInv

----------------------------------------------------------------------------
\* The theorems.

LEMMA ProcStep ==
    ASSUME FileSystemInv, ReaderInv, [ProcNext]_<<vars, procVars>>
    PROVE  FileSystemInv' /\ ReaderInv'
<1>1. CASE FileCall
  <2>1. Next
    BY <1>1 DEF FileCall
  <2> QED  BY <1>1, <2>1, NextStep, FileCallReaders
<1>2. ASSUME NEW p \in Proc, sys_read(p) PROVE FileSystemInv' /\ ReaderInv'
  <2>1. UNCHANGED vars
    BY <1>2 DEF sys_read
  <2> QED  BY <1>2, <2>1, StutterStep, ReadReaders
<1>3. ASSUME NEW p \in Proc, sys_lseek(p) PROVE FileSystemInv' /\ ReaderInv'
  <2>1. UNCHANGED vars
    BY <1>3 DEF sys_lseek
  <2> QED  BY <1>3, <2>1, StutterStep, SeekReaders
<1>4. CASE UNCHANGED <<vars, procVars>>
  <2>1. UNCHANGED vars
    BY <1>4
  <2>2. ReaderInv'
    BY <1>4 DEF ReaderInv, ProcType, Readers, OpenOn, vars, procVars
  <2> QED  BY <2>1, <2>2, StutterStep
<1> QED  BY <1>1, <1>2, <1>3, <1>4 DEF ProcNext

\* In every state of the names and inodes the entries are a tree, and links and
\* references are counted as they are: no call of namei.c, open or close leaves
\* them otherwise on any of its paths.
THEOREM FileSystemInvariant == Spec => []FileSystemInv
<1>1. FileSystemInit => FileSystemInv
  BY InitInv
<1>2. FileSystemInv /\ [Next]_vars => FileSystemInv'
  BY NextStep, StutterStep
<1> QED  BY <1>1, <1>2, PTL DEF Spec

\* A process whose file stays open keeps it as it is, whatever the others do to its
\* names: the inode is not freed and not made something else.
THEOREM OpenFilesSteady == Spec => [][Steady]_vars
<1>1. FileSystemInv /\ [Next]_vars => [Steady]_vars
  BY NextStep, StutterStep
<1> QED  BY <1>1, FileSystemInvariant, PTL DEF Spec

\* The same holds when processes also read and seek in /proc, and what they read is
\* one text.
THEOREM ProcInvariant == ProcSpec => [](FileSystemInv /\ ReaderInv)
<1>1. ProcInit => FileSystemInv /\ ReaderInv
  BY InitInv, ProcInitInv DEF ProcInit
<1>2. FileSystemInv /\ ReaderInv /\ [ProcNext]_<<vars, procVars>> => FileSystemInv' /\ ReaderInv'
  BY ProcStep
<1> QED  BY <1>1, <1>2, PTL DEF ProcSpec

\* i_nlinks is the number of entries that name the inode (add_entry, rmdir,
\* unlink, link and the error paths of mknod and mkdir).
THEOREM LinkCounts == ProcSpec => []LinkCountsExact
<1>1. FileSystemInv => LinkCountsExact
  BY LinksFollow
<1> QED  BY <1>1, ProcInvariant, PTL

\* i_count is the number of references that processes hold: every iget has its iput
\* on every path through a call.
THEOREM References == ProcSpec => []RefsExact
<1>1. FileSystemInv => RefsExact
  BY RefsFollow
<1> QED  BY <1>1, ProcInvariant, PTL

\* Directories form a tree under the root, without a circle; sys_link refuses a
\* directory and sys_rmdir one that is in use or not empty.
THEOREM Namespace == ProcSpec => []NamespaceIsTree
<1>1. FileSystemInv => NamespaceIsTree
  BY TreeFollows
<1> QED  BY <1>1, ProcInvariant, PTL

\* A lone reader of a proc node sees one snapshot to its end (proc_read takes a new
\* one at position 0 only), whatever is done to the names meanwhile.
THEOREM LoneReader == ProcSpec => []LoneReaderSeesOneText
<1>1. ReaderInv => LoneReaderSeesOneText
  BY ReadersFollow
<1> QED  BY <1>1, ProcInvariant, PTL

-----------------------------------------------------------------------------
\* RING: the kernel of the two programs, as modules SemaphoreProof and
\* SharedMemoryProof prove it.

KP == INSTANCE SemaphoreProof WITH Proc <- Programs, Sem <- Sems,
          MaxValue <- MAXDATA + BUFFERSIZE
MP == INSTANCE SharedMemoryProof WITH
          Proc <- Programs \cup {"shell"}, Init0 <- "shell", Key <- {KEY},
          Executables <- Files, Careful <- TRUE, MaxLost <- MaxFailures, MaxUses <- 255

\* What the data of the programs brings with it: where in a page brk is, and what shmat returns.
Offsets ==
    /\ \A p \in Programs \cup {"shell"} : p \in alive => brk[p] % PAGE_SIZE = OFFSET
    /\ \A p \in Programs : attached[p][KEY] # NULL => attached[p][KEY] % PAGE_SIZE = OFFSET
RingPages == MP!MemInv /\ Offsets

\* The word of the page where item n goes.
Word(n) == OFFSET + (n % BUFFERSIZE)

Dead == {p \in Programs : state[p] = K!TASK_ZOMBIE}

\* Where a program is in its text.
Setup == {"execve", "open mutex", "open empty", "open full", "open log", "shmget", "shmat"}
Loop == {"wait first", "wait mutex", "access", "post mutex", "post other"}
Unlinks == {"unlink mutex", "unlink empty", "unlink full"}
Labels == {"none", "failed", "exit", "gone"} \cup Setup \cup Loop \cup Unlinks
Before(s) == CASE s = "bufferMutex" -> {"none", "failed", "execve", "open mutex"}
               [] s = "empty" -> {"none", "failed", "execve", "open mutex", "open empty"}
               [] s = "full" -> {"none", "failed", "execve", "open mutex", "open empty", "open full"}
Beyond(s) == CASE s = "bufferMutex" -> {"unlink empty", "unlink full", "exit", "gone"}
               [] s = "empty" -> {"unlink full", "exit", "gone"}
               [] s = "full" -> {"exit", "gone"}

RingTypes ==
    /\ pc \in [Programs -> Labels] /\ pc["producer"] \notin Unlinks
    /\ pos \in [Programs -> Nat] /\ pos["producer"] <= MAXDATA
    /\ output \in Seq(Int) /\ pos["consumer"] = Len(output)
    /\ linked \subseteq Sems
    /\ word \in [1..NrPages -> [0..(PAGE_SIZE - 1) -> Int]]

\* What the kernel knows of a program, by where the program is.
Phases ==
    \A p \in Programs :
        /\ p \in Dead <=> pc[p] \in {"none", "gone"}
        /\ attached[p][KEY] # NULL <=> pc[p] \in Loop \cup Unlinks \cup {"exit"}

\* Where a program is that the kernel suspends in sem_wait.
First(p) == IF p = "producer" THEN "empty" ELSE "full"
Suspended ==
    \A p \in Programs :
        \/ at[p] = NULL
        \/ at[p] = First(p) /\ pc[p] = "wait mutex"
        \/ at[p] = "bufferMutex" /\ pc[p] = "access"

\* The counts of items, by where the programs are.
Progress ==
    /\ pos["producer"] > 0 => pc["producer"] \in Loop \cup {"exit", "gone"}
    /\ pc["producer"] \in {"wait mutex", "access"} => pos["producer"] < MAXDATA
    /\ pc["producer"] \in {"exit", "gone"} => pos["producer"] = MAXDATA
    /\ Len(output) > 0 => pc["consumer"] \in Loop \cup Unlinks \cup {"exit", "gone"}
    /\ pc["consumer"] \in Loop => Len(output) < MAXDATA
    /\ pc["consumer"] \in Unlinks \cup {"exit", "gone"} => Len(output) = MAXDATA

\* A semaphore that does not exist has not been opened yet, or the consumer has
\* removed it.
Known ==
    \A s \in Sems \ linked : \/ \A p \in Programs : pc[p] \in Before(s)
                             \/ pc["consumer"] \in Beyond(s)

\* The units of `empty` and of `full` that are under way.
One(condition) == IF condition THEN 1 ELSE 0
TakesSlot == One(\/ pc["producer"] = "access"
                 \/ pc["producer"] = "wait mutex" /\ at["producer"] # "empty")
OwesSlot == One(pc["consumer"] \in {"post mutex", "post other"})
TakesItem == One(\/ pc["consumer"] = "access"
                 \/ pc["consumer"] = "wait mutex" /\ at["consumer"] # "full")
OwesItem == One(pc["producer"] \in {"post mutex", "post other"})

SlotsAddUp ==
    m_value["empty"] + TakesSlot + (pos["producer"] - Len(output)) + OwesSlot <= BUFFERSIZE
ItemsAddUp ==
    m_value["full"] + TakesItem + Len(output) + OwesItem <= pos["producer"]

\* The items that are still to be read are in the page of KEY, while a program has it.
Stored ==
    (\E p \in Programs : attached[p][KEY] # NULL) =>
        \A n \in Len(output)..(pos["producer"] - 1) :
            word[sharedPages[KEY].physicalAddress][Word(n)] = n
Printed == \A k \in 1..Len(output) : output[k] = k - 1

Control == RingTypes /\ Phases /\ Suspended /\ Progress /\ Known
Accounts == SlotsAddUp /\ ItemsAddUp
RingInv == KP!IInv /\ RingPages /\ Control /\ Accounts /\ Stored /\ Printed

----------------------------------------------------------------------------
\* The modules of the kernel, with the constants they have here.

\* The constants are as module Semaphore needs them.
LEMMA QueueConstants == KP!NullAssumption /\ KP!BoundAssumption
BY RingAssumption, NullIsNothing DEF KP!NullAssumption, KP!BoundAssumption

\* The constants are as module SharedMemory needs them.
LEMMA MemoryConstants == MP!MemoryAssumption /\ MP!FileBelowBrk
<1>1. IsFiniteSet(Programs \cup {"shell"})
  <2>1. IsFiniteSet({"producer"}) /\ IsFiniteSet({"consumer"}) /\ IsFiniteSet({"shell"})
    BY FS_Singleton
  <2>2. IsFiniteSet(({"producer"} \cup {"consumer"}) \cup {"shell"})
    BY <2>1, FS_Union
  <2>3. ({"producer"} \cup {"consumer"}) \cup {"shell"} = Programs \cup {"shell"}
    BY DEF Programs
  <2>4. QED
    BY <2>2, <2>3
<1>2. IsFiniteSet({KEY})
  BY FS_Singleton
<1>3. NULL \notin Nat \cup MP!Entry \cup Files
  BY NullIsNothing DEF M!Entry, M!Page, MP!Entry, MP!Page
<1>4. \A e \in Files : e.end_data = 0 /\ e.brk \in Brks /\ e.brk \in Nat
  BY RingAssumption DEF Files
<1>5. MP!MemoryAssumption
  <2>1. \A e \in Files : e.end_data \in Nat /\ e.brk \in Nat /\ e.end_data <= e.brk
    BY <1>4
  <2>2. /\ NrPages \in Nat /\ NrVirtual \in Nat /\ PAGE_SIZE \in Nat \ {0}
        /\ MaxFailures \in Nat /\ 255 \in Nat
    BY RingAssumption
  <2>3. TRUE \in BOOLEAN /\ "shell" \in Programs \cup {"shell"}
    OBVIOUS
  <2>4. QED
    BY ONLY <1>1, <1>2, <1>3, <2>1, <2>2, <2>3, Zenon DEF MP!MemoryAssumption, IsFiniteSet, MP!IsFiniteSet
<1>6. MP!FileBelowBrk
  <2>1. ASSUME NEW e \in Files PROVE e.end_data <= (e.brk \div PAGE_SIZE) * PAGE_SIZE
    <3>1. (e.brk \div PAGE_SIZE) * PAGE_SIZE \in Nat
      BY <1>4, RingAssumption, MP!PageFound
    <3>2. QED
      BY <1>4, <3>1
  <2>2. QED
    BY <2>1 DEF MP!FileBelowBrk
<1>7. QED
  BY <1>5, <1>6

\* The types of the queues.
LEMMA QueueTypes ==
    ASSUME KP!IInv
    PROVE  /\ m_value \in [Sems -> Nat] /\ m_wait \in [Sems -> Programs \cup {NULL}]
           /\ state \in [Programs -> {"running", "uninterruptible", "zombie"}]
           /\ tmp \in [Programs -> Programs \cup {NULL}]
           /\ at \in [Programs -> Sems \cup {NULL}]
<1>1. MAXDATA + BUFFERSIZE \in Nat /\ 0..(MAXDATA + BUFFERSIZE) \subseteq Nat
  BY RingAssumption
<1>2. QED
  BY <1>1 DEF KP!IInv, KP!TypeOK, KP!TaskState, KP!TASK_RUNNING, KP!TASK_UNINTERRUPTIBLE,
              KP!TASK_ZOMBIE

\* A pointer of the queues is to a program that sleeps.
LEMMA PointedTo ==
    ASSUME KP!IInv
    PROVE  /\ \A s \in Sems : m_wait[s] # NULL =>
                 state[m_wait[s]] = "uninterruptible" /\ at[m_wait[s]] = s
           /\ \A p \in Programs : tmp[p] # NULL => state[tmp[p]] = "uninterruptible"
<1>1. KP!SleeperReferencedOnce
  BY KP!PointersLemma, QueueConstants
<1>2. QED
  BY <1>1 DEF KP!SleeperReferencedOnce, KP!Sleeping, KP!TASK_UNINTERRUPTIBLE

----------------------------------------------------------------------------
\* What the steps keep of the kernel's invariants.

\* A step of a program inside the kernel's queues.
QueueStep(p) ==
    \/ \E s \in Sems : K!SemWaitAcquire(p, s) \/ K!SemWaitBlock(p, s) \/ K!SemPost(p, s)
    \/ K!Resume(p)
    \/ K!Exit(p)

LEMMA QueuesKept ==
    ASSUME KP!IInv, NEW p \in Programs, QueueStep(p)
    PROVE  KP!IInv'
<1> USE DEF K!InUserMode, KP!InUserMode, K!WakeTmp, KP!WakeTmp, K!Enqueue, KP!Enqueue,
            K!WakeUp, KP!WakeUp, K!TASK_RUNNING, KP!TASK_RUNNING,
            K!TASK_UNINTERRUPTIBLE, KP!TASK_UNINTERRUPTIBLE
<1>1. ASSUME NEW s \in Sems
      PROVE  /\ K!SemWaitAcquire(p, s) => KP!SemWaitAcquire(p, s)
             /\ K!SemWaitBlock(p, s) => KP!SemWaitBlock(p, s)
  BY ZenonT(30) DEF K!SemWaitAcquire, KP!SemWaitAcquire, K!SemWaitBlock, KP!SemWaitBlock
<1>2. ASSUME NEW s \in Sems PROVE K!SemPost(p, s) => KP!SemPost(p, s)
  BY ZenonT(30) DEF K!SemPost, KP!SemPost
<1>3. K!Resume(p) => \E s \in Sems : KP!ResumeAcquire(p, s) \/ KP!ResumeBlock(p, s)
  BY ZenonT(30) DEF K!Resume, K!ResumeAcquire, KP!ResumeAcquire, K!ResumeBlock, KP!ResumeBlock
<1>4. K!Exit(p) => KP!Exit(p)
  BY ZenonT(30) DEF K!Exit, KP!Exit, K!TASK_ZOMBIE, KP!TASK_ZOMBIE
<1>5. KP!Next
  BY <1>1, <1>2, <1>3, <1>4 DEF QueueStep, KP!Next
<1>6. QED
  BY <1>5, KP!IInvStep, QueueConstants

\* The queues stay as they are.
LEMMA QueuesSame ==
    ASSUME KP!IInv, UNCHANGED semVars
    PROVE  KP!IInv'
<1>1. UNCHANGED KP!vars
  BY DEF semVars, KP!vars
<1>2. QED
  BY <1>1, KP!IInvStep, QueueConstants

\* sem_open gives a value to a semaphore at which nobody waits.
LEMMA QueuesOpened ==
    ASSUME KP!IInv, NEW s \in Sems, NEW v \in 0..(MAXDATA + BUFFERSIZE),
           \A q \in Programs : at[q] # s,
           m_value' = [m_value EXCEPT ![s] = v], UNCHANGED <<m_wait, state, tmp, at>>
    PROVE  KP!IInv'
<1>1. /\ m_wait \in [Sems -> Programs \cup {NULL}]
      /\ m_value \in [Sems -> 0..(MAXDATA + BUFFERSIZE)]
  BY DEF KP!IInv, KP!TypeOK
<1>2. PICK below \in [Programs -> SUBSET Programs] : KP!Chains(below)
  BY DEF KP!IInv
<1>3. m_wait[s] = NULL
  BY <1>1, <1>2 DEF KP!Chains, KP!HeadOK
<1>4. /\ m_value' \in [Sems -> 0..(MAXDATA + BUFFERSIZE)]
      /\ \A r \in Sems : m_value'[r] = IF r = s THEN v ELSE m_value[r]
  BY <1>1
<1>5. KP!TypeOK' /\ KP!FramesOK' /\ KP!TmpInjective'
  BY <1>4 DEF KP!IInv, KP!TypeOK, KP!FramesOK, KP!TmpInjective, KP!Sleeping
<1>6. KP!PositiveIsEmpty'
  BY <1>3, <1>4 DEF KP!IInv, KP!PositiveIsEmpty
<1>7. KP!Chains(below)'
  BY <1>2 DEF KP!Chains, KP!IsBelow, KP!ChainOK, KP!HeadOK, KP!Covered, KP!Sleeping
<1>8. QED
  BY <1>5, <1>6, <1>7 DEF KP!IInv

\* The shell makes a running program of one that is not there.
LEMMA QueuesStarted ==
    ASSUME KP!IInv, NEW p \in Programs, state[p] = "zombie",
           state' = [state EXCEPT ![p] = K!TASK_RUNNING], UNCHANGED <<m_value, m_wait, tmp, at>>
    PROVE  KP!IInv'
<1>1. PICK below \in [Programs -> SUBSET Programs] : KP!Chains(below)
  BY DEF KP!IInv
<1>2. state \in [Programs -> {"running", "uninterruptible", "zombie"}]
  BY QueueTypes
<1>3. /\ state' \in [Programs -> {"running", "uninterruptible", "zombie"}]
      /\ state'[p] = "running" /\ \A q \in Programs \ {p} : state'[q] = state[q]
  BY <1>2 DEF K!TASK_RUNNING
<1>4. \A q \in Programs : /\ KP!Sleeping(q)' <=> KP!Sleeping(q)
                          /\ state[q] = "running" => state'[q] = "running"
                          /\ state'[q] = "zombie" => state[q] = "zombie"
  BY <1>3 DEF KP!Sleeping, KP!TASK_UNINTERRUPTIBLE
<1>5. KP!TypeOK' /\ KP!FramesOK' /\ KP!TmpInjective' /\ KP!PositiveIsEmpty'
  BY <1>3, <1>4 DEF KP!IInv, KP!TypeOK, KP!FramesOK, KP!TmpInjective, KP!PositiveIsEmpty,
     KP!TaskState, KP!TASK_RUNNING, KP!TASK_UNINTERRUPTIBLE, KP!TASK_ZOMBIE
<1>6. KP!IsBelow(below)' /\ KP!ChainOK(below)' /\ KP!HeadOK(below)'
  <2>1. KP!IsBelow(below)'
    BY <1>1 DEF KP!Chains, KP!IsBelow
  <2>2. KP!ChainOK(below)'
    BY <1>1, <1>4 DEF KP!Chains, KP!ChainOK
  <2>3. KP!HeadOK(below)'
    <3>1. m_wait \in [Sems -> Programs \cup {NULL}]
      BY QueueTypes
    <3>2. QED
      BY <1>1, <1>4, <3>1 DEF KP!Chains, KP!HeadOK
  <2>4. QED
    BY <2>1, <2>2, <2>3
<1>7. KP!Covered(below)'
  BY <1>1, <1>4 DEF KP!Chains, KP!Covered, KP!TASK_RUNNING
<1>8. QED
  BY <1>1, <1>5, <1>6, <1>7 DEF KP!IInv, KP!Chains

\* A page further, an address is at the same place.
LEMMA NextPage ==
    ASSUME NEW b \in Nat PROVE (b + PAGE_SIZE) % PAGE_SIZE = b % PAGE_SIZE
<1>1. PICK v \in Nat, o \in Nat, P \in Nat \ {0}, s \in Nat :
         v = b \div PAGE_SIZE /\ o = b % PAGE_SIZE /\ P = PAGE_SIZE /\ s = v * PAGE_SIZE
  BY RingAssumption
<1>2. b = s + o /\ o < P /\ (v + 1) * P = s + P
  BY <1>1, RingAssumption
<1>3. (b + P) \div P = v + 1
  <2>1. (v + 1) * P <= b + P /\ b + P < (v + 1) * P + P
    BY <1>2
  <2>2. QED
    BY <2>1, MP!PageOf
<1>4. b + P = ((b + P) \div P) * P + ((b + P) % P) /\ (b + P) % P \in Nat
  OBVIOUS
<1>5. PICK t \in Nat : t = (b + P) % P
  BY <1>4
<1>6. b + P = s + P + t
  BY <1>2, <1>3, <1>4, <1>5
<1>7. QED
  BY <1>1, <1>2, <1>5, <1>6

\* A step of a program in the shared memory.
PageStep(p) == \/ M!ShmgetExisting(p, KEY) \/ M!ShmgetNew(p, KEY) \/ M!Shmat(p, KEY)
               \/ M!Fork("shell", p) \/ M!Exit(p) \/ M!Exec(p)
               \/ UNCHANGED memVars

LEMMA PagesKept ==
    ASSUME RingPages, NEW p \in Programs, PageStep(p)
    PROVE  RingPages'
<1>1. MP!MemInv'
  <2> USE DEF M!Page, MP!Page, M!Virtual, MP!Virtual, M!Entry, MP!Entry,
              M!FreePages, MP!FreePages, M!get_free_page, MP!get_free_page
  <2>1. M!ShmgetExisting(p, KEY) => MP!ShmgetExisting(p, KEY)
    BY ZenonT(30) DEF M!ShmgetExisting, MP!ShmgetExisting
  <2>2. M!ShmgetNew(p, KEY) => MP!ShmgetNew(p, KEY)
    BY ZenonT(30) DEF M!ShmgetNew, MP!ShmgetNew
  <2>3. M!Shmat(p, KEY) => MP!Shmat(p, KEY)
    BY ZenonT(30) DEF M!Shmat, MP!Shmat, M!PutPage, MP!PutPage
  <2>4. M!Fork("shell", p) => MP!Fork("shell", p)
    BY ZenonT(30) DEF M!Fork, MP!Fork, M!MapsOf, MP!MapsOf, M!Cardinality, MP!Cardinality, M!IsFiniteSet, MP!IsFiniteSet
  <2>5. M!FreePageTables(p) => MP!FreePageTables(p)
    BY ZenonT(30) DEF M!FreePageTables, MP!FreePageTables, M!Freed, MP!Freed,
       M!FreePage, MP!FreePage, M!KeyOf, MP!KeyOf
  <2>6. (M!Exit(p) => MP!Exit(p)) /\ (M!Exec(p) => MP!Exec(p))
    BY <2>5, Zenon DEF M!Exit, MP!Exit, M!Exec, MP!Exec
  <2>7. (UNCHANGED memVars) => UNCHANGED MP!vars
    BY DEF memVars, MP!vars
  <2>8. [MP!MemoryNext]_MP!vars
    BY <2>1, <2>2, <2>3, <2>4, <2>6, <2>7 DEF PageStep, MP!MemoryNext
  <2>9. QED
    BY <2>8, MP!MemInvStep, MemoryConstants DEF RingPages
<1>2. Offsets'
  <2>1. /\ attached \in [Programs \cup {"shell"} -> [{KEY} -> Nat \cup {NULL}]]
        /\ brk \in [Programs \cup {"shell"} -> Nat] /\ Offsets
        /\ p \in Programs \cup {"shell"} /\ "shell" \in Programs \cup {"shell"}
    BY DEF RingPages, MP!MemInv, MP!MemTypes, MP!MemoryTypeOK
  <2>2. CASE M!ShmgetExisting(p, KEY) \/ M!ShmgetNew(p, KEY) \/ UNCHANGED memVars
    <3>1. UNCHANGED <<alive, brk, attached>>
      BY <2>2, Zenon DEF M!ShmgetExisting, M!ShmgetNew, memVars
    <3>2. QED
      BY <2>1, <3>1, Zenon DEF Offsets
  <2>3. CASE M!Shmat(p, KEY)
    <3>1. /\ alive' = alive /\ p \in alive
          /\ brk' = [brk EXCEPT ![p] = @ + PAGE_SIZE]
          /\ attached' = [attached EXCEPT ![p][KEY] = brk[p]]
      BY <2>3, Zenon DEF M!Shmat
    <3>2. brk[p] % PAGE_SIZE = OFFSET /\ (brk[p] + PAGE_SIZE) % PAGE_SIZE = OFFSET
      BY <2>1, <3>1, NextPage DEF Offsets
    <3>3. brk'[p] % PAGE_SIZE = OFFSET /\ attached'[p][KEY] % PAGE_SIZE = OFFSET
      <4>1. brk'[p] = brk[p] + PAGE_SIZE /\ attached'[p][KEY] = brk[p]
        BY <2>1, <3>1
      <4>2. QED
        BY <3>2, <4>1
    <3>4. /\ \A q \in Programs \cup {"shell"} : q # p => brk'[q] = brk[q]
          /\ \A q \in Programs : q # p => attached'[q][KEY] = attached[q][KEY]
      BY <2>1, <3>1
    <3>5. QED
      BY <2>1, <3>1, <3>3, <3>4, Zenon DEF Offsets
  <2>4. CASE M!Fork("shell", p)
    <3>1. /\ alive' = alive \cup {p} /\ "shell" \in alive
          /\ brk' = [brk EXCEPT ![p] = brk["shell"]]
          /\ attached' = [attached EXCEPT ![p] = attached["shell"]]
          /\ attached["shell"][KEY] = NULL
      BY <2>4 DEF M!Fork
    <3>2. brk'[p] % PAGE_SIZE = OFFSET /\ attached'[p][KEY] = NULL
      BY <2>1, <3>1 DEF Offsets
    <3>3. /\ \A q \in Programs \cup {"shell"} : q # p => brk'[q] = brk[q]
          /\ \A q \in Programs : q # p => attached'[q] = attached[q]
      BY <2>1, <3>1
    <3>4. QED
      BY <2>1, <3>1, <3>2, <3>3 DEF Offsets
  <2>5. CASE M!Exit(p) \/ M!Exec(p)
    <3>1. attached' = [attached EXCEPT ![p] = [k \in {KEY} |-> NULL]]
      BY <2>5 DEF M!Exit, M!Exec, M!FreePageTables
    <3>2. /\ \A q \in Programs : q # p => attached'[q] = attached[q]
          /\ attached'[p][KEY] = NULL
      BY <2>1, <3>1
    <3>3. \A q \in Programs \cup {"shell"} : q # p => brk'[q] = brk[q] /\ (q \in alive' <=> q \in alive)
      BY <2>1, <2>5 DEF M!Exit, M!Exec
    <3>4. p \in alive' => brk'[p] % PAGE_SIZE = OFFSET
      <4>1. CASE M!Exit(p)
        BY <4>1 DEF M!Exit
      <4>2. CASE M!Exec(p)
        <5>1. PICK e \in Files : brk' = [brk EXCEPT ![p] = e.brk]
          BY <4>2, Zenon DEF M!Exec
        <5>2. e.brk \in Brks
          BY DEF Files
        <5>3. QED
          BY <2>1, <5>1, <5>2, RingAssumption
      <4>3. QED
        BY <2>5, <4>1, <4>2
    <3>5. QED
      BY <2>1, <3>2, <3>3, <3>4 DEF Offsets
  <2>6. QED
    BY <2>2, <2>3, <2>4, <2>5 DEF PageStep
<1>3. QED
  BY <1>1, <1>2 DEF RingPages

----------------------------------------------------------------------------
\* The page of the ring.

\* p has the page of KEY.
Has(p) == attached[p][KEY] # NULL

\* The frame that is the page of KEY.
Frame == sharedPages[KEY].physicalAddress

\* The page of a program's memory where it has the page of KEY.
Where(p) == attached[p][KEY] \div PAGE_SIZE

\* shmat's address is OFFSET words into the page of KEY.
LEMMA WhereThePageIs ==
    ASSUME RingPages, NEW p \in Programs, Has(p)
    PROVE  /\ attached[p][KEY] \in Nat /\ attached[p][KEY] % PAGE_SIZE = OFFSET
           /\ Where(p) \in MP!Virtual /\ MP!HasAt(p, KEY, Where(p))
           /\ pg_table[p][Where(p)] # NULL /\ pg_table[p][Where(p)].page = Frame
           /\ sharedPages[KEY].count > 0 /\ Frame \in 1..NrPages /\ Frame # NULL
<1>1. PICK v \in MP!Virtual : MP!HasAt(p, KEY, v)
  BY DEF Has, RingPages, MP!MemInv, MP!Attachments
<1>2. attached[p][KEY] \in Nat
  BY DEF Has, RingPages, MP!MemInv, MP!MemTypes
<1>3. attached[p][KEY] % PAGE_SIZE = OFFSET
  BY DEF Has, RingPages, Offsets
<1>4. Where(p) = v
  <2>1. PICK a \in Nat : a = attached[p][KEY]
    BY <1>2
  <2>2. v * PAGE_SIZE <= a /\ a < v * PAGE_SIZE + PAGE_SIZE /\ v \in Int
    BY <1>1, <2>1 DEF MP!HasAt, MP!On, MP!Virtual
  <2>3. a \div PAGE_SIZE = v
    BY <2>2, RingAssumption, MP!PageOf
  <2>4. QED
    BY <2>1, <2>3 DEF Where
<1>5. /\ pg_table[p][v] # NULL /\ pg_table[p][v].page = Frame
      /\ sharedPages[KEY].count > 0
  BY <1>1 DEF MP!HasAt, Frame
<1>6. Frame \in 1..NrPages
  BY <1>5, MP!KeyFrame, MemoryConstants DEF RingPages, Frame, MP!Page
<1>7. Frame # NULL
  BY <1>6, NullIsNothing
<1>8. QED
  BY <1>1, <1>2, <1>3, <1>4, <1>5, <1>6, <1>7

\* A place of the ring is a word of the page.
LEMMA InThePage ==
    ASSUME NEW n \in Nat
    PROVE  /\ n % BUFFERSIZE \in 0..(BUFFERSIZE - 1)
           /\ Word(n) \in 0..(PAGE_SIZE - 1)
<1>1. n % BUFFERSIZE \in 0..(BUFFERSIZE - 1)
  BY RingAssumption
<1>2. ASSUME NEW m \in 0..(BUFFERSIZE - 1) PROVE OFFSET + m \in 0..(PAGE_SIZE - 1)
  BY RingAssumption
<1>3. QED
  BY <1>1, <1>2 DEF Word

\* A word further in the same page.
LEMMA Further ==
    ASSUME NEW a \in Nat, NEW m \in Nat, (a % PAGE_SIZE) + m < PAGE_SIZE
    PROVE  /\ (a + m) \div PAGE_SIZE = a \div PAGE_SIZE
           /\ (a + m) % PAGE_SIZE = (a % PAGE_SIZE) + m
<1>1. PICK v \in Nat, o \in Nat, P \in Nat \ {0}, s \in Nat :
         v = a \div PAGE_SIZE /\ o = a % PAGE_SIZE /\ P = PAGE_SIZE /\ s = v * PAGE_SIZE
  BY RingAssumption
<1>2. a = s + o /\ o + m < P
  BY <1>1, RingAssumption
<1>3. s <= a + m /\ a + m < s + P
  BY <1>2
<1>4. (a + m) \div PAGE_SIZE = v
  BY <1>1, <1>3, MP!PageOf, RingAssumption
<1>5. a + m = ((a + m) \div PAGE_SIZE) * PAGE_SIZE + ((a + m) % PAGE_SIZE) /\ (a + m) % PAGE_SIZE \in Nat
  BY RingAssumption
<1>6. PICK t \in Nat : t = (a + m) % PAGE_SIZE
  BY <1>5
<1>7. a + m = s + t
  BY <1>1, <1>4, <1>5, <1>6
<1>8. QED
  BY <1>1, <1>2, <1>4, <1>6, <1>7

\* Where the program finds item n.
LEMMA PlaceIs ==
    ASSUME RingPages, NEW p \in Programs, Has(p), NEW n \in Nat
    PROVE  Place(p, n) = <<Frame, Word(n)>> /\ Place(p, n) # NULL
<1>1. PICK a \in Nat, m \in 0..(BUFFERSIZE - 1) : a = attached[p][KEY] /\ m = n % BUFFERSIZE
  BY WhereThePageIs, InThePage
<1>2. a % PAGE_SIZE = OFFSET /\ pg_table[p][a \div PAGE_SIZE] # NULL
      /\ pg_table[p][a \div PAGE_SIZE].page = Frame
  BY <1>1, WhereThePageIs DEF Where
<1>3. (a + m) \div PAGE_SIZE = a \div PAGE_SIZE /\ (a + m) % PAGE_SIZE = OFFSET + m
  <2>1. OFFSET + m < PAGE_SIZE /\ m \in Nat
    BY RingAssumption
  <2>2. QED
    BY <1>2, <2>1, Further
<1>4. Place(p, n) = <<Frame, Word(n)>>
  <2>1. Place(p, n) = M!Physical(p, a + m)
    BY <1>1 DEF Place
  <2>2. M!Physical(p, a + m) = <<Frame, OFFSET + m>>
    BY <1>2, <1>3, Zenon DEF M!Physical
  <2>3. QED
    BY <1>1, <2>1, <2>2 DEF Word
<1>5. <<Frame, Word(n)>> \in Nat \X Nat
  BY WhereThePageIs, InThePage, RingAssumption
<1>6. QED
  BY <1>4, <1>5, NullIsNothing

\* Two items that are both on their way are in different places.
LEMMA Slots ==
    ASSUME NEW a \in Nat, NEW b \in Nat, a < b, b - a < BUFFERSIZE
    PROVE  Word(a) # Word(b)
<1> SUFFICES ASSUME a % BUFFERSIZE = b % BUFFERSIZE PROVE FALSE
  <2>1. a % BUFFERSIZE \in Nat /\ b % BUFFERSIZE \in Nat /\ OFFSET \in Nat
    BY RingAssumption
  <2>2. QED
    BY <2>1 DEF Word
<1> USE RingAssumption
<1> DEFINE x == a \div BUFFERSIZE
           y == b \div BUFFERSIZE
<1>1. x \in Int /\ y \in Int
  OBVIOUS
<1>2. /\ a = BUFFERSIZE * x + (a % BUFFERSIZE)
      /\ b = BUFFERSIZE * y + (b % BUFFERSIZE)
      /\ a % BUFFERSIZE \in Int
  OBVIOUS
<1> HIDE DEF x, y
<1>3. b - a = BUFFERSIZE * (y - x)
  <2>1. BUFFERSIZE * (y - x) = BUFFERSIZE * y - BUFFERSIZE * x
    BY <1>1
  <2>2. QED
    BY <1>1, <1>2, <2>1
<1>4. CASE y - x <= 0
  <2>1. BUFFERSIZE * (y - x) <= 0
    BY <1>1, <1>4
  <2>2. QED
    BY <1>3, <2>1
<1>5. CASE y - x >= 1
  <2>1. BUFFERSIZE * (y - x) >= BUFFERSIZE
    BY <1>1, <1>5
  <2>2. QED
    BY <1>3, <2>1
<1>6. QED
  BY <1>1, <1>4, <1>5

\* A step by which nobody gets the page, and which leaves the tables of those alone who keep it,
\* leaves them the same page.
LEMMA FrameKept ==
    ASSUME RingPages, RingPages', NEW q \in Programs, Has(q), Has(q)',
           pg_table'[q] = pg_table[q], attached'[q] = attached[q]
    PROVE  Frame' = Frame
<1>1. pg_table[q][Where(q)].page = Frame
  BY WhereThePageIs
<1>2. pg_table'[q][Where(q)].page = Frame'
  <2>1. PICK v \in MP!Virtual : MP!HasAt(q, KEY, v)'
    BY DEF Has, RingPages, MP!MemInv, MP!Attachments
  <2>2. PICK a \in Nat : a = attached[q][KEY]
    BY WhereThePageIs
  <2>3. v * PAGE_SIZE <= a /\ a < v * PAGE_SIZE + PAGE_SIZE /\ v \in Int
    BY <2>1, <2>2 DEF MP!HasAt, MP!On, MP!Virtual
  <2>4. Where(q) = v
    <3>1. a \div PAGE_SIZE = v
      BY <2>3, RingAssumption, MP!PageOf
    <3>2. QED
      BY <2>2, <3>1 DEF Where
  <2>5. QED
    BY <2>1, <2>4 DEF MP!HasAt, Frame
<1>3. QED
  BY <1>1, <1>2

----------------------------------------------------------------------------
\* What the kernel's steps do to m_value, to at and to the dead.

\* A call of sem_wait.
LEMMA WaitEffect ==
    ASSUME KP!IInv, NEW p \in Programs, NEW s \in Sems,
           K!SemWaitAcquire(p, s) \/ K!SemWaitBlock(p, s)
    PROVE  /\ Dead' = Dead
           /\ \/ /\ m_value[s] > 0 /\ m_value' = [m_value EXCEPT ![s] = @ - 1]
                 /\ at' = at
              \/ m_value' = m_value /\ at' = [at EXCEPT ![p] = s]
BY QueueTypes DEF Dead, K!SemWaitAcquire, K!SemWaitBlock, K!Enqueue, K!InUserMode,
   K!TASK_RUNNING, K!TASK_UNINTERRUPTIBLE, K!TASK_ZOMBIE

\* The return from sleep_on.
LEMMA ResumeEffect ==
    ASSUME KP!IInv, NEW p \in Programs, K!Resume(p)
    PROVE  /\ at[p] \in Sems /\ Dead' = Dead
           /\ \/ /\ m_value[at[p]] > 0 /\ m_value' = [m_value EXCEPT ![at[p]] = @ - 1]
                 /\ at' = [at EXCEPT ![p] = NULL]
              \/ m_value' = m_value /\ at' = at
<1>1. tmp[p] # NULL => tmp[p] \in Programs /\ state[tmp[p]] = "uninterruptible"
  BY QueueTypes, PointedTo
<1>2. at[p] \in Sems /\ state[p] = "running"
  BY DEF K!Resume, K!ResumeAcquire, K!ResumeBlock, K!TASK_RUNNING
<1>3. /\ state' \in {K!WakeTmp(p), [K!WakeTmp(p) EXCEPT ![p] = "uninterruptible"]}
      /\ \/ /\ m_value[at[p]] > 0 /\ m_value' = [m_value EXCEPT ![at[p]] = @ - 1]
            /\ at' = [at EXCEPT ![p] = NULL]
         \/ m_value' = m_value /\ at' = at
  BY DEF K!Resume, K!ResumeAcquire, K!ResumeBlock, K!TASK_UNINTERRUPTIBLE
<1>4. Dead' = Dead
  BY <1>1, <1>2, <1>3, QueueTypes DEF Dead, K!WakeTmp, K!TASK_RUNNING, K!TASK_ZOMBIE
<1>5. QED
  BY <1>2, <1>3, <1>4

\* A call of sem_post.
LEMMA PostEffect ==
    ASSUME KP!IInv, NEW p \in Programs, NEW s \in Sems, K!SemPost(p, s)
    PROVE  Dead' = Dead /\ m_value' = [m_value EXCEPT ![s] = @ + 1] /\ at' = at
<1>1. m_wait[s] # NULL => m_wait[s] \in Programs /\ state[m_wait[s]] = "uninterruptible"
  BY QueueTypes, PointedTo
<1>2. Dead' = Dead
  BY <1>1, QueueTypes DEF Dead, K!SemPost, K!WakeUp, K!TASK_RUNNING, K!TASK_ZOMBIE
<1>3. QED
  BY <1>2 DEF K!SemPost

----------------------------------------------------------------------------
\* What keeps each part of Control.

\* The labels with the page attached.
Attached == Loop \cup Unlinks \cup {"exit"}

\* A statement of p is made outside sem_wait, and moves nobody else.
LEMMA Moved ==
    ASSUME KP!IInv, RingTypes, NEW p \in Programs, NEW from, NEW to, Goto(p, from, to)
    PROVE  /\ pc[p] = from /\ pc' = [pc EXCEPT ![p] = to]
           /\ pc'[p] = to /\ \A q \in Programs \ {p} : pc'[q] = pc[q]
           /\ p \notin Dead /\ at[p] = NULL /\ K!InUserMode(p)
BY DEF RingTypes, Goto, K!InUserMode, Dead, K!TASK_RUNNING, K!TASK_ZOMBIE

\* The types, when the data stay as they are.
LEMMA TypesMoved ==
    ASSUME RingTypes, NEW p \in Programs, NEW to \in Labels, pc' = [pc EXCEPT ![p] = to],
           p = "producer" => to \notin Unlinks,
           UNCHANGED <<pos, output, word>>, linked' \subseteq Sems
    PROVE  RingTypes'
<1>1. pc' \in [Programs -> Labels]
  BY DEF RingTypes
<1>2. pc'["producer"] \notin Unlinks
  BY DEF RingTypes, Programs
<1>3. QED
  BY <1>1, <1>2 DEF RingTypes

\* A step that neither starts nor ends a program, nor attaches the page.
LEMMA PhasesMoved ==
    ASSUME Phases, RingTypes, NEW p \in Programs, NEW to, pc' = [pc EXCEPT ![p] = to],
           Dead' = Dead, attached' = attached,
           {pc[p], to} \cap {"none", "gone"} = {},
           pc[p] \in Attached <=> to \in Attached
    PROVE  Phases'
<1>1. pc'[p] = to /\ \A q \in Programs \ {p} : pc'[q] = pc[q]
  BY DEF RingTypes
<1>2. QED
  BY <1>1 DEF Phases, Attached

\* A step of a program that is not suspended, and that it leaves so.
LEMMA SuspendedMoved ==
    ASSUME Suspended, RingTypes, NEW p \in Programs, NEW to, pc' = [pc EXCEPT ![p] = to],
           at' = at, at[p] = NULL
    PROVE  Suspended'
<1>1. pc'[p] = to /\ \A q \in Programs \ {p} : pc'[q] = pc[q]
  BY DEF RingTypes
<1>2. QED
  BY <1>1, Zenon DEF Suspended

\* A step that makes and removes no name.
LEMMA NamesMoved ==
    ASSUME Known, RingTypes, NEW p \in Programs, NEW to, pc' = [pc EXCEPT ![p] = to],
           linked' = linked,
           \A s \in Sems : pc[p] \in Before(s) => to \in Before(s) \/ s \in linked,
           \A s \in Sems : p = "consumer" /\ pc[p] \in Beyond(s) => to \in Beyond(s)
    PROVE  Known'
<1>1. pc'[p] = to /\ \A q \in Programs \ {p} : pc'[q] = pc[q]
  BY DEF RingTypes
<1>2. QED
  BY <1>1 DEF Known

\* The items and the page stay as they are.
LEMMA ContentsSame ==
    ASSUME Stored, Printed, UNCHANGED <<attached, output, pos, word, sharedPages>>
    PROVE  Stored' /\ Printed'
BY DEF Stored, Printed

----------------------------------------------------------------------------
\* The system calls on the semaphores.

\* The calls of sem_wait in the two programs.
Waits(p, from, s, to) ==
    \/ /\ from = "wait first" /\ s = First(p) /\ to = "wait mutex"
       /\ p = "producer" => pos["producer"] < MAXDATA
    \/ from = "wait mutex" /\ s = "bufferMutex" /\ to = "access"

\* The terms of the accounts.
LEMMA Numbers ==
    ASSUME KP!IInv, RingTypes
    PROVE  /\ m_value \in [Sems -> Nat] /\ at \in [Programs -> Sems \cup {NULL}]
           /\ pos["producer"] \in Nat /\ Len(output) \in Nat /\ BUFFERSIZE \in Nat
           /\ m_value["empty"] \in Nat /\ m_value["full"] \in Nat
           /\ {TakesSlot, OwesSlot, TakesItem, OwesItem} \subseteq {0, 1}
<1>1. {TakesSlot, OwesSlot, TakesItem, OwesItem} \subseteq {0, 1}
  BY DEF TakesSlot, OwesSlot, TakesItem, OwesItem, One
<1>2. m_value \in [Sems -> Nat] /\ at \in [Programs -> Sems \cup {NULL}]
  BY QueueTypes
<1>3. QED
  BY <1>1, <1>2, RingAssumption DEF RingTypes, Programs, Sems

\* sem_wait: a unit of `empty` or of `full` that is taken is on its way from then on, and one
\* that a suspended program will take is still in the value.
LEMMA WaitAccounts ==
    ASSUME RingInv, NEW p \in Programs, NEW s \in Sems, NEW from, NEW to,
           Waits(p, from, s, to), Wait(p, from, s, to)
    PROVE  Accounts'
<1>1. KP!IInv /\ RingTypes /\ Suspended /\ SlotsAddUp /\ ItemsAddUp
  BY DEF RingInv, Control, Accounts
<1>2. /\ pc[p] = from /\ pc'[p] = to /\ (\A q \in Programs \ {p} : pc'[q] = pc[q])
      /\ at[p] = NULL /\ UNCHANGED <<pos, output>>
  BY <1>1, Moved DEF Wait, ringVars
<1>3. \/ m_value[s] > 0 /\ m_value' = [m_value EXCEPT ![s] = @ - 1] /\ at' = at
      \/ m_value' = m_value /\ at' = [at EXCEPT ![p] = s]
  BY <1>1, WaitEffect DEF Wait
<1>4. /\ m_value \in [Sems -> Nat] /\ at \in [Programs -> Sems \cup {NULL}]
      /\ pos["producer"] \in Nat /\ Len(output) \in Nat /\ BUFFERSIZE \in Nat
      /\ m_value["empty"] \in Nat /\ m_value["full"] \in Nat
      /\ {TakesSlot, OwesSlot, TakesItem, OwesItem} \subseteq {0, 1}
  BY <1>1, Numbers
<1>5. NULL \notin Sems
  BY NullIsNothing
<1>6. CASE m_value[s] > 0 /\ m_value' = [m_value EXCEPT ![s] = @ - 1] /\ at' = at
  <2>1. CASE p = "producer"
    <3>1. pc'["consumer"] = pc["consumer"] /\ at'["consumer"] = at["consumer"]
      BY <1>2, <1>6, <2>1 DEF Programs
    <3>2. OwesSlot' = OwesSlot /\ TakesItem' = TakesItem /\ OwesItem' = 0 /\ OwesItem = 0
      BY <1>2, <2>1, <3>1, Zenon DEF OwesSlot, TakesItem, OwesItem, One, Waits
    <3>3. CASE from = "wait first"
      <4>1. TakesSlot = 0 /\ TakesSlot' = 1 /\ s = "empty"
        BY <1>2, <1>5, <1>6, <2>1, <3>3, Zenon DEF TakesSlot, One, Waits, First, Sems
      <4>2. m_value'["empty"] = m_value["empty"] - 1 /\ m_value'["full"] = m_value["full"]
        BY <1>4, <1>6, <4>1 DEF Sems
      <4>3. QED
        BY <1>1, <1>2, <1>4, <3>2, <4>1, <4>2 DEF Accounts, SlotsAddUp, ItemsAddUp
    <3>4. CASE from = "wait mutex"
      <4>1. TakesSlot = 1 /\ TakesSlot' = 1 /\ s = "bufferMutex"
        BY <1>2, <1>5, <1>6, <2>1, <3>4, Zenon DEF TakesSlot, One, Waits, Sems
      <4>2. m_value'["empty"] = m_value["empty"] /\ m_value'["full"] = m_value["full"]
        BY <1>4, <1>6, <4>1 DEF Sems
      <4>3. QED
        BY <1>1, <1>2, <1>4, <3>2, <4>1, <4>2 DEF Accounts, SlotsAddUp, ItemsAddUp
    <3>5. QED
      BY <3>3, <3>4, Zenon DEF Waits
  <2>2. CASE p = "consumer"
    <3>1. pc'["producer"] = pc["producer"] /\ at'["producer"] = at["producer"]
      BY <1>2, <1>6, <2>2 DEF Programs
    <3>2. OwesItem' = OwesItem /\ TakesSlot' = TakesSlot /\ OwesSlot' = 0 /\ OwesSlot = 0
      BY <1>2, <2>2, <3>1, Zenon DEF OwesSlot, TakesSlot, OwesItem, One, Waits
    <3>3. CASE from = "wait first"
      <4>1. TakesItem = 0 /\ TakesItem' = 1 /\ s = "full"
        BY <1>2, <1>5, <1>6, <2>2, <3>3, Zenon DEF TakesItem, One, Waits, First, Sems
      <4>2. m_value'["full"] = m_value["full"] - 1 /\ m_value'["empty"] = m_value["empty"]
        BY <1>4, <1>6, <4>1 DEF Sems
      <4>3. QED
        BY <1>1, <1>2, <1>4, <3>2, <4>1, <4>2 DEF Accounts, SlotsAddUp, ItemsAddUp
    <3>4. CASE from = "wait mutex"
      <4>1. TakesItem = 1 /\ TakesItem' = 1 /\ s = "bufferMutex"
        BY <1>2, <1>5, <1>6, <2>2, <3>4, Zenon DEF TakesItem, One, Waits, Sems
      <4>2. m_value'["empty"] = m_value["empty"] /\ m_value'["full"] = m_value["full"]
        BY <1>4, <1>6, <4>1 DEF Sems
      <4>3. QED
        BY <1>1, <1>2, <1>4, <3>2, <4>1, <4>2 DEF Accounts, SlotsAddUp, ItemsAddUp
    <3>5. QED
      BY <3>3, <3>4, Zenon DEF Waits
  <2>3. QED
    BY <2>1, <2>2 DEF Programs
<1>7. CASE m_value' = m_value /\ at' = [at EXCEPT ![p] = s]
  <2>1. at'[p] = s /\ \A q \in Programs \ {p} : at'[q] = at[q]
    BY <1>4, <1>7
  <2>2. /\ OwesSlot' = OwesSlot /\ OwesItem' = OwesItem
        /\ TakesSlot' = TakesSlot /\ TakesItem' = TakesItem
    BY <1>2, <1>5, <2>1, Zenon DEF OwesSlot, OwesItem, TakesSlot, TakesItem, One, Waits, First, Programs, Sems
  <2>3. QED
    BY <1>1, <1>2, <1>7, <2>2 DEF Accounts, SlotsAddUp, ItemsAddUp
<1>8. QED
  BY <1>3, <1>6, <1>7

LEMMA WaitKeeps ==
    ASSUME RingInv, NEW p \in Programs, NEW s \in Sems, NEW from, NEW to,
           Waits(p, from, s, to), Wait(p, from, s, to)
    PROVE  RingInv'
<1>1. /\ KP!IInv /\ RingPages /\ RingTypes /\ Phases /\ Suspended /\ Progress /\ Known
      /\ Stored /\ Printed
  BY DEF RingInv, Control
<1>2. /\ pc[p] = from /\ pc' = [pc EXCEPT ![p] = to] /\ pc'[p] = to
      /\ (\A q \in Programs \ {p} : pc'[q] = pc[q]) /\ at[p] = NULL
      /\ UNCHANGED <<word, linked, pos, output, failures, attached, sharedPages>>
      /\ linked' \subseteq Sems
  BY <1>1, Moved DEF Wait, ringVars, memVars, RingTypes
<1>3. KP!IInv'
  BY <1>1, QueuesKept DEF Wait, QueueStep
<1>4. RingPages'
  BY <1>1, PagesKept DEF Wait, PageStep
<1>5. /\ Dead' = Dead
      /\ \/ at' = at
         \/ at' = [at EXCEPT ![p] = s]
  BY <1>1, WaitEffect DEF Wait
<1>6. RingTypes'
  <2>1. to \in Labels /\ to \notin Unlinks
    BY Zenon DEF Waits, Labels, Loop, Unlinks
  <2>2. QED
    BY <1>1, <1>2, <2>1, TypesMoved
<1>7. Phases'
  BY <1>1, <1>2, <1>5, PhasesMoved, Zenon DEF Waits, Attached, Loop
<1>8. Suspended'
  <2>1. CASE at' = at
    BY <1>1, <1>2, <2>1, SuspendedMoved
  <2>2. CASE at' = [at EXCEPT ![p] = s]
    BY <1>1, <1>2, <2>2, QueueTypes, Zenon DEF Suspended, Waits
  <2>3. QED
    BY <1>5, <2>1, <2>2
<1>9. Progress'
  BY <1>1, <1>2, Zenon DEF Progress, Waits, Programs, Loop, Unlinks
<1>10. Known'
  BY <1>1, <1>2, NamesMoved, Zenon DEF Waits, Before, Beyond, Sems
<1>11. Stored' /\ Printed'
  BY <1>1, <1>2, ContentsSame
<1>12. Accounts'
  BY WaitAccounts
<1>13. QED
  BY <1>3, <1>4, <1>6, <1>7, <1>8, <1>9, <1>10, <1>11, <1>12 DEF RingInv, Control

\* The calls of sem_post in the two programs.
Posts(p, from, s, to) ==
    \/ from = "post mutex" /\ s = "bufferMutex" /\ to = "post other"
    \/ p = "producer" /\ from = "post other" /\ s = "full" /\ to = "wait first"
    \/ p = "consumer" /\ from = "post other" /\ s = "empty" /\ to = "wait first"

\* sem_post: a unit that was owed is in the value.
LEMMA PostAccounts ==
    ASSUME RingInv, NEW p \in Programs, NEW s \in Sems, NEW from, NEW to,
           Posts(p, from, s, to), Post(p, from, s, to)
    PROVE  Accounts'
<1>1. KP!IInv /\ RingTypes /\ SlotsAddUp /\ ItemsAddUp
  BY DEF RingInv, Control, Accounts
<1>2. /\ pc[p] = from /\ pc'[p] = to /\ (\A q \in Programs \ {p} : pc'[q] = pc[q])
      /\ at[p] = NULL /\ UNCHANGED <<pos, output>>
  BY <1>1, Moved DEF Post, ringVars
<1>3. m_value' = [m_value EXCEPT ![s] = @ + 1] /\ at' = at
  BY <1>1, PostEffect DEF Post
<1>4. /\ m_value \in [Sems -> Nat] /\ at \in [Programs -> Sems \cup {NULL}]
      /\ pos["producer"] \in Nat /\ Len(output) \in Nat /\ BUFFERSIZE \in Nat
      /\ m_value["empty"] \in Nat /\ m_value["full"] \in Nat
      /\ {TakesSlot, OwesSlot, TakesItem, OwesItem} \subseteq {0, 1}
  BY <1>1, Numbers
<1>5. TakesSlot' = TakesSlot /\ TakesItem' = TakesItem
  BY <1>2, <1>3, Zenon DEF TakesSlot, TakesItem, One, Posts, Programs
<1>6. CASE s = "bufferMutex"
  <2>1. m_value'["empty"] = m_value["empty"] /\ m_value'["full"] = m_value["full"]
    BY <1>3, <1>4, <1>6 DEF Sems
  <2>2. OwesSlot' = OwesSlot /\ OwesItem' = OwesItem
    BY <1>2, <1>6, Zenon DEF OwesSlot, OwesItem, One, Posts, Programs
  <2>3. QED
    BY <1>1, <1>2, <1>4, <1>5, <2>1, <2>2 DEF Accounts, SlotsAddUp, ItemsAddUp
<1>7. CASE s = "full"
  <2>1. m_value'["empty"] = m_value["empty"] /\ m_value'["full"] = m_value["full"] + 1
    BY <1>3, <1>4, <1>7 DEF Sems
  <2>2. OwesSlot' = OwesSlot /\ OwesItem = 1 /\ OwesItem' = 0
    BY <1>2, <1>7, Zenon DEF OwesSlot, OwesItem, One, Posts, Programs
  <2>3. QED
    BY <1>1, <1>2, <1>4, <1>5, <2>1, <2>2 DEF Accounts, SlotsAddUp, ItemsAddUp
<1>8. CASE s = "empty"
  <2>1. m_value'["empty"] = m_value["empty"] + 1 /\ m_value'["full"] = m_value["full"]
    BY <1>3, <1>4, <1>8 DEF Sems
  <2>2. OwesItem' = OwesItem /\ OwesSlot = 1 /\ OwesSlot' = 0
    BY <1>2, <1>8, Zenon DEF OwesSlot, OwesItem, One, Posts, Programs
  <2>3. QED
    BY <1>1, <1>2, <1>4, <1>5, <2>1, <2>2 DEF Accounts, SlotsAddUp, ItemsAddUp
<1>9. QED
  BY <1>6, <1>7, <1>8 DEF Sems

LEMMA PostKeeps ==
    ASSUME RingInv, NEW p \in Programs, NEW s \in Sems, NEW from, NEW to,
           Posts(p, from, s, to), Post(p, from, s, to)
    PROVE  RingInv'
<1>1. /\ KP!IInv /\ RingPages /\ RingTypes /\ Phases /\ Suspended /\ Progress /\ Known
      /\ Stored /\ Printed
  BY DEF RingInv, Control
<1>2. /\ pc[p] = from /\ pc' = [pc EXCEPT ![p] = to] /\ pc'[p] = to
      /\ (\A q \in Programs \ {p} : pc'[q] = pc[q]) /\ at[p] = NULL
      /\ UNCHANGED <<word, linked, pos, output, failures, attached, sharedPages>>
      /\ linked' \subseteq Sems
  BY <1>1, Moved DEF Post, ringVars, memVars, RingTypes
<1>3. KP!IInv' /\ RingPages'
  BY <1>1, QueuesKept, PagesKept DEF Post, QueueStep, PageStep
<1>4. Dead' = Dead /\ at' = at
  BY <1>1, PostEffect DEF Post
<1>5. RingTypes'
  <2>1. to \in Labels /\ to \notin Unlinks
    BY Zenon DEF Posts, Labels, Loop, Unlinks
  <2>2. QED
    BY <1>1, <1>2, <2>1, TypesMoved
<1>6. Phases'
  BY <1>1, <1>2, <1>4, PhasesMoved, Zenon DEF Posts, Attached, Loop
<1>7. Suspended'
  BY <1>1, <1>2, <1>4, SuspendedMoved
<1>8. Progress'
  BY <1>1, <1>2, Zenon DEF Progress, Posts, Programs, Loop, Unlinks
<1>9. Known'
  BY <1>1, <1>2, NamesMoved, Zenon DEF Posts, Before, Beyond, Sems
<1>10. Stored' /\ Printed'
  BY <1>1, <1>2, ContentsSame
<1>11. Accounts'
  BY PostAccounts
<1>12. QED
  BY <1>3, <1>5, <1>6, <1>7, <1>8, <1>9, <1>10, <1>11 DEF RingInv, Control

\* The return from sleep_on: a unit of the value is on its way, or the program sleeps on.
LEMMA ResumeKeeps ==
    ASSUME RingInv, NEW p \in Programs, Resume(p)
    PROVE  RingInv'
<1>1. /\ KP!IInv /\ RingPages /\ RingTypes /\ Phases /\ Suspended /\ Progress /\ Known
      /\ SlotsAddUp /\ ItemsAddUp /\ Stored /\ Printed
  BY DEF RingInv, Control, Accounts
<1>2. UNCHANGED <<word, linked, pos, output, failures, attached, sharedPages, pc>>
  BY DEF Resume, ringVars, memVars
<1>3. KP!IInv' /\ RingPages'
  BY <1>1, QueuesKept, PagesKept DEF Resume, QueueStep, PageStep
<1>4. /\ at[p] \in Sems /\ Dead' = Dead
      /\ \/ /\ m_value[at[p]] > 0 /\ m_value' = [m_value EXCEPT ![at[p]] = @ - 1]
            /\ at' = [at EXCEPT ![p] = NULL]
         \/ m_value' = m_value /\ at' = at
  BY <1>1, ResumeEffect DEF Resume
<1>5. /\ m_value \in [Sems -> Nat] /\ at \in [Programs -> Sems \cup {NULL}]
      /\ pos["producer"] \in Nat /\ Len(output) \in Nat /\ BUFFERSIZE \in Nat
      /\ m_value["empty"] \in Nat /\ m_value["full"] \in Nat
      /\ {TakesSlot, OwesSlot, TakesItem, OwesItem} \subseteq {0, 1}
  BY <1>1, Numbers
<1>6. RingTypes' /\ Phases' /\ Progress' /\ Known'
  BY <1>1, <1>2, <1>4, Zenon DEF RingTypes, Phases, Progress, Known
<1>7. Stored' /\ Printed'
  BY <1>1, <1>2, ContentsSame
<1>8. CASE m_value' = m_value /\ at' = at
  <2>1. Suspended' /\ Accounts'
    BY <1>1, <1>2, <1>8, Zenon DEF Suspended, Accounts, SlotsAddUp, ItemsAddUp, TakesSlot, TakesItem,
       OwesSlot, OwesItem
  <2>2. QED
    BY <1>3, <1>6, <1>7, <2>1 DEF RingInv, Control
<1>9. CASE /\ m_value[at[p]] > 0 /\ m_value' = [m_value EXCEPT ![at[p]] = @ - 1]
           /\ at' = [at EXCEPT ![p] = NULL]
  <2>1. at'[p] = NULL /\ \A q \in Programs \ {p} : at'[q] = at[q]
    BY <1>5, <1>9
  <2>2. Suspended'
    BY <1>1, <1>2, <2>1, Zenon DEF Suspended
  <2>3. OwesSlot' = OwesSlot /\ OwesItem' = OwesItem
    BY <1>2 DEF OwesSlot, OwesItem
  <2>4. NULL \notin Sems
    BY NullIsNothing
  <2>5. CASE at[p] = "bufferMutex"
    <3>1. m_value'["empty"] = m_value["empty"] /\ m_value'["full"] = m_value["full"]
      BY <1>5, <1>9, <2>5 DEF Sems
    <3>2. pc[p] = "access"
      BY <1>1, <2>4, <2>5, Zenon DEF Suspended, First, Sems
    <3>3. TakesSlot' = TakesSlot /\ TakesItem' = TakesItem
      BY <1>2, <2>1, <3>2, Zenon DEF TakesSlot, TakesItem, One, Programs
    <3>4. Accounts'
      BY <1>1, <1>2, <1>5, <2>3, <3>1, <3>3 DEF Accounts, SlotsAddUp, ItemsAddUp
    <3>5. QED
      BY <1>3, <1>6, <1>7, <2>2, <3>4 DEF RingInv, Control
  <2>6. CASE at[p] # "bufferMutex"
    <3>1. at[p] = First(p) /\ pc[p] = "wait mutex"
      BY <1>1, <1>4, <2>4, <2>6, Zenon DEF Suspended
    <3>2. CASE p = "producer"
      <4>1. m_value'["empty"] = m_value["empty"] - 1 /\ m_value'["full"] = m_value["full"]
        BY <1>5, <1>9, <3>1, <3>2, Zenon DEF Sems, First
      <4>2. TakesSlot = 0 /\ TakesSlot' = 1 /\ TakesItem' = TakesItem
        BY <1>2, <2>1, <2>4, <3>1, <3>2, Zenon DEF TakesSlot, TakesItem, One, Programs, First, Sems
      <4>3. Accounts'
        BY <1>1, <1>2, <1>5, <2>3, <4>1, <4>2 DEF Accounts, SlotsAddUp, ItemsAddUp
      <4>4. QED
        BY <1>3, <1>6, <1>7, <2>2, <4>3 DEF RingInv, Control
    <3>3. CASE p = "consumer"
      <4>1. m_value'["full"] = m_value["full"] - 1 /\ m_value'["empty"] = m_value["empty"]
        BY <1>5, <1>9, <3>1, <3>3, Zenon DEF Sems, First
      <4>2. TakesItem = 0 /\ TakesItem' = 1 /\ TakesSlot' = TakesSlot
        BY <1>2, <2>1, <2>4, <3>1, <3>3, Zenon DEF TakesSlot, TakesItem, One, Programs, First, Sems
      <4>3. Accounts'
        BY <1>1, <1>2, <1>5, <2>3, <4>1, <4>2 DEF Accounts, SlotsAddUp, ItemsAddUp
      <4>4. QED
        BY <1>3, <1>6, <1>7, <2>2, <4>3 DEF RingInv, Control
    <3>4. QED
      BY <3>2, <3>3 DEF Programs
  <2>7. QED
    BY <2>5, <2>6
<1>10. QED
  BY <1>4, <1>8, <1>9

----------------------------------------------------------------------------
\* The statements that make no call on a semaphore.

\* Where a program takes no unit and owes none.
Uses == {"wait mutex", "access", "post mutex", "post other"}

\* The accounts stay as they are.
LEMMA AccountsMoved ==
    ASSUME Accounts, RingTypes, NEW p \in Programs, NEW to, pc' = [pc EXCEPT ![p] = to],
           {pc[p], to} \cap Uses = {}, UNCHANGED <<m_value, at, pos, output>>
    PROVE  Accounts'
<1>1. pc'[p] = to /\ \A q \in Programs \ {p} : pc'[q] = pc[q]
  BY DEF RingTypes
<1>2. /\ OwesSlot' = OwesSlot /\ OwesItem' = OwesItem
      /\ TakesSlot' = TakesSlot /\ TakesItem' = TakesItem
  BY <1>1, Zenon DEF OwesSlot, OwesItem, TakesSlot, TakesItem, One, Programs, Uses
<1>3. QED
  BY <1>2 DEF Accounts, SlotsAddUp, ItemsAddUp

\* The statements that change the names at most: open, dup2, a return with an error,
\* sem_unlink, and the end of the producer's loop.
Plain(p, from, to) ==
    \/ from = "open log" /\ to = "shmget" /\ linked' = linked
    \/ from \in Setup /\ to = "failed" /\ linked' = linked
    \/ p = "producer" /\ from = "wait first" /\ to = "exit" /\ pos[p] = MAXDATA /\ linked' = linked
    \/ /\ p = "consumer"
       /\ \/ from = "unlink mutex" /\ to = "unlink empty" /\ linked' = linked \ {"bufferMutex"}
          \/ from = "unlink empty" /\ to = "unlink full" /\ linked' = linked \ {"empty"}
          \/ from = "unlink full" /\ to = "exit" /\ linked' = linked \ {"full"}

LEMMA QuietKeeps ==
    ASSUME RingInv, NEW p \in Programs, NEW from, NEW to, Goto(p, from, to), Plain(p, from, to),
           UNCHANGED <<semVars, memVars, word, pos, output>>
    PROVE  RingInv'
<1>1. /\ KP!IInv /\ RingPages /\ RingTypes /\ Phases /\ Suspended /\ Progress /\ Known
      /\ Accounts /\ Stored /\ Printed
  BY DEF RingInv, Control
<1>2. /\ pc[p] = from /\ pc' = [pc EXCEPT ![p] = to] /\ pc'[p] = to
      /\ (\A q \in Programs \ {p} : pc'[q] = pc[q]) /\ at[p] = NULL
      /\ UNCHANGED <<word, pos, output, attached, sharedPages, m_value, m_wait, state, tmp, at>>
      /\ linked' \subseteq Sems
  BY <1>1, Moved, Zenon DEF semVars, memVars, RingTypes, Plain
<1>3. KP!IInv'
  BY <1>1, QueuesSame
<1>4. RingPages'
  BY <1>1, PagesKept DEF PageStep
<1>5. Dead' = Dead
  BY <1>2 DEF Dead
<1>6. RingTypes'
  <2>1. to \in Labels /\ (p = "producer" => to \notin Unlinks)
    BY Zenon DEF Plain, Labels, Setup, Unlinks
  <2>2. QED
    BY <1>1, <1>2, <2>1, TypesMoved
<1>7. Phases'
  <2>1. {from, to} \cap {"none", "gone"} = {} /\ (from \in Attached <=> to \in Attached)
    BY Zenon DEF Plain, Setup, Attached, Loop, Unlinks
  <2>2. QED
    BY <1>1, <1>2, <1>5, <2>1, PhasesMoved
<1>8. Suspended'
  BY <1>1, <1>2, SuspendedMoved
<1>9. Progress'
  BY <1>1, <1>2, Zenon DEF Progress, Plain, Programs, Setup, Loop, Unlinks
<1>10. Known'
  <2>1. CASE linked' = linked
    <3>1. \A s \in Sems : /\ from \in Before(s) => to \in Before(s) \/ s \in linked
                          /\ p = "consumer" /\ from \in Beyond(s) => to \in Beyond(s)
      BY <2>1, Zenon DEF Plain, Before, Beyond, Sems, Setup
    <3>2. QED
      BY <1>1, <1>2, <2>1, <3>1, NamesMoved
  <2>2. CASE linked' # linked
    <3>1. /\ p = "consumer" /\ from \in Unlinks
          /\ \A s \in Sems : s \notin linked' => s \notin linked \/ to \in Beyond(s)
          /\ \A s \in Sems : from \in Beyond(s) => to \in Beyond(s)
          /\ \A s \in Sems : from \notin Before(s)
      BY <2>2, Zenon DEF Plain, Beyond, Before, Sems, Unlinks
    <3>2. QED
      BY <1>1, <1>2, <3>1 DEF Known, Programs
  <2>3. QED
    BY <2>1, <2>2
<1>11. Stored' /\ Printed'
  BY <1>1, <1>2, ContentsSame
<1>12. Accounts'
  <2>1. {from, to} \cap Uses = {}
    BY Zenon DEF Plain, Uses, Setup
  <2>2. QED
    BY <1>1, <1>2, <2>1, AccountsMoved
<1>13. QED
  BY <1>3, <1>4, <1>6, <1>7, <1>8, <1>9, <1>10, <1>11, <1>12 DEF RingInv, Control

\* The calls of sem_open.
Calls(from, s, value, to) ==
    \/ from = "open mutex" /\ s = "bufferMutex" /\ value = 1 /\ to = "open empty"
    \/ from = "open empty" /\ s = "empty" /\ value = BUFFERSIZE /\ to = "open full"
    \/ from = "open full" /\ s = "full" /\ value = 0 /\ to = "open log"

\* A semaphore is created before anybody uses one.
LEMMA CreatedFirst ==
    ASSUME RingInv, NEW p \in Programs, NEW s \in Sems \ linked, pc[p] \in Setup
    PROVE  /\ \A q \in Programs : pc[q] \in Before(s) /\ at[q] = NULL
           /\ pos["producer"] = 0 /\ Len(output) = 0
           /\ TakesSlot = 0 /\ OwesSlot = 0 /\ TakesItem = 0 /\ OwesItem = 0
<1>1. /\ KP!IInv /\ RingTypes /\ Suspended /\ Progress /\ Known /\ ItemsAddUp
  BY DEF RingInv, Control, Accounts
<1>2. /\ pos["producer"] \in Nat /\ Len(output) \in Nat /\ m_value["full"] \in Nat
      /\ {TakesSlot, OwesSlot, TakesItem, OwesItem} \subseteq {0, 1}
  BY <1>1, Numbers
<1>3. pc["consumer"] \notin Beyond(s)
  <2>1. SUFFICES ASSUME pc["consumer"] \in Beyond(s) PROVE FALSE
    OBVIOUS
  <2>2. pc["consumer"] \in Unlinks \cup {"exit", "gone"} /\ pc["consumer"] \notin Setup
    BY <2>1, Zenon DEF Beyond, Unlinks, Setup, Sems
  <2>3. Len(output) = MAXDATA /\ p = "producer"
    BY <1>1, <2>2, Zenon DEF Progress, Programs
  <2>4. MAXDATA > 0 /\ MAXDATA \in Nat
    BY RingAssumption
  <2>5. pos["producer"] > 0
    BY <1>1, <1>2, <2>3, <2>4 DEF ItemsAddUp
  <2>6. pc[p] \in Loop \cup {"exit", "gone"}
    BY <1>1, <2>3, <2>5, Zenon DEF Progress
  <2>7. QED
    BY <2>6, Zenon DEF Setup, Loop
<1>4. \A q \in Programs : pc[q] \in Before(s)
  BY <1>1, <1>3 DEF Known
<1>5. \A q \in Programs : pc[q] \notin Loop \cup Unlinks \cup {"exit", "gone"}
  BY <1>4, Zenon DEF Before, Loop, Unlinks, Sems
<1>6. \A q \in Programs : at[q] = NULL
  BY <1>1, <1>5, Zenon DEF Suspended, Loop
<1>7. pos["producer"] = 0 /\ Len(output) = 0
  <2>1. ~(pos["producer"] > 0) /\ ~(Len(output) > 0)
    BY <1>1, <1>5, Zenon DEF Progress, Programs
  <2>2. QED
    BY <1>2, <2>1
<1>8. TakesSlot = 0 /\ OwesSlot = 0 /\ TakesItem = 0 /\ OwesItem = 0
  BY <1>5, Zenon DEF TakesSlot, OwesSlot, TakesItem, OwesItem, One, Loop, Programs
<1>9. QED
  BY <1>4, <1>6, <1>7, <1>8

LEMMA SemOpenKeeps ==
    ASSUME RingInv, NEW p \in Programs, NEW from, NEW s \in Sems, NEW value, NEW to,
           Calls(from, s, value, to), SemOpen(p, from, s, value, to)
    PROVE  RingInv'
<1>1. /\ KP!IInv /\ RingPages /\ RingTypes /\ Phases /\ Suspended /\ Progress /\ Known
      /\ Accounts /\ Stored /\ Printed
  BY DEF RingInv, Control
<1>2. /\ pc[p] = from /\ pc' = [pc EXCEPT ![p] = to] /\ pc'[p] = to
      /\ (\A q \in Programs \ {p} : pc'[q] = pc[q]) /\ at[p] = NULL
      /\ UNCHANGED <<word, pos, output, attached, sharedPages, m_wait, state, tmp, at>>
      /\ linked' = linked \cup {s} /\ linked' \subseteq Sems
  BY <1>1, Moved DEF SemOpen, memVars, RingTypes
<1>3. m_value' = IF s \in linked THEN m_value ELSE [m_value EXCEPT ![s] = value]
  BY DEF SemOpen
<1>4. from \in Setup /\ to \in Setup /\ value \in 0..(MAXDATA + BUFFERSIZE)
  <2>1. 0 \in 0..(MAXDATA + BUFFERSIZE) /\ 1 \in 0..(MAXDATA + BUFFERSIZE)
        /\ BUFFERSIZE \in 0..(MAXDATA + BUFFERSIZE)
    BY RingAssumption
  <2>2. QED
    BY <2>1, Zenon DEF Calls, Setup
<1>5. NULL \notin Sems
  BY NullIsNothing
<1>6. KP!IInv'
  <2>1. CASE s \in linked
    BY <1>1, <1>2, <1>3, <2>1, QueuesSame DEF semVars
  <2>2. CASE s \notin linked
    <3>1. \A q \in Programs : at[q] # s
      BY <1>2, <1>4, <1>5, <2>2, CreatedFirst
    <3>2. QED
      BY <1>1, <1>2, <1>3, <1>4, <2>2, <3>1, QueuesOpened
  <2>3. QED
    BY <2>1, <2>2
<1>7. RingPages'
  BY <1>1, PagesKept DEF SemOpen, PageStep
<1>8. Dead' = Dead
  BY <1>2 DEF Dead
<1>9. RingTypes'
  <2>1. to \in Labels /\ to \notin Unlinks
    BY <1>4, Zenon DEF Labels, Setup, Unlinks
  <2>2. QED
    BY <1>1, <1>2, <2>1, TypesMoved
<1>10. Phases'
  <2>1. {from, to} \cap {"none", "gone"} = {} /\ from \notin Attached /\ to \notin Attached
    BY <1>4, Zenon DEF Setup, Attached, Loop, Unlinks
  <2>2. QED
    BY <1>1, <1>2, <1>8, <2>1, PhasesMoved
<1>11. Suspended'
  BY <1>1, <1>2, SuspendedMoved
<1>12. Progress'
  BY <1>1, <1>2, <1>4, Zenon DEF Progress, Programs, Setup, Loop, Unlinks
<1>13. Known'
  <2>1. \A r \in Sems : /\ from \in Before(r) => to \in Before(r) \/ r = s
                        /\ from \notin Beyond(r)
    BY Zenon DEF Calls, Before, Beyond, Sems
  <2>2. QED
    BY <1>1, <1>2, <2>1 DEF Known
<1>14. Stored' /\ Printed'
  BY <1>1, <1>2, ContentsSame
<1>15. Accounts'
  <2>1. {from, to} \cap Uses = {}
    BY <1>4, Zenon DEF Uses, Setup
  <2>2. CASE s \in linked
    BY <1>1, <1>2, <1>3, <2>1, <2>2, AccountsMoved
  <2>3. CASE s \notin linked
    <3>1. /\ pos["producer"] = 0 /\ Len(output) = 0
          /\ TakesSlot = 0 /\ OwesSlot = 0 /\ TakesItem = 0 /\ OwesItem = 0
      BY <1>2, <1>4, <2>3, CreatedFirst
    <3>2. TakesSlot' = 0 /\ OwesSlot' = 0 /\ TakesItem' = 0 /\ OwesItem' = 0
      BY <1>2, <2>1, <3>1, Zenon DEF TakesSlot, OwesSlot, TakesItem, OwesItem, One, Programs, Uses
    <3>3. m_value \in [Sems -> Nat] /\ m_value["empty"] \in Nat /\ m_value["full"] \in Nat
      BY <1>1, Numbers
    <3>4. m_value' = [m_value EXCEPT ![s] = value]
      BY <1>3, <2>3
    <3>5. m_value["empty"] <= BUFFERSIZE /\ m_value["full"] <= 0 /\ BUFFERSIZE \in Nat
      BY <1>1, <3>1, <3>3, RingAssumption DEF Accounts, SlotsAddUp, ItemsAddUp
    <3>6. m_value'["empty"] \in {m_value["empty"], BUFFERSIZE} /\ m_value'["full"] \in {m_value["full"], 0}
      BY <3>3, <3>4, Zenon DEF Calls, Sems
    <3>7. m_value'["empty"] \in Nat /\ m_value'["full"] \in Nat /\ m_value'["empty"] <= BUFFERSIZE
          /\ m_value'["full"] <= 0
      BY <3>3, <3>5, <3>6
    <3>8. QED
      BY <1>2, <3>1, <3>2, <3>5, <3>7 DEF Accounts, SlotsAddUp, ItemsAddUp
  <2>4. QED
    BY <2>2, <2>3
<1>16. QED
  BY <1>6, <1>7, <1>9, <1>10, <1>11, <1>12, <1>13, <1>14, <1>15 DEF RingInv, Control

----------------------------------------------------------------------------
\* The statements that attach and detach the page.

\* The addresses, by program.
LEMMA AddressTypes ==
    ASSUME RingPages
    PROVE  /\ attached \in [Programs \cup {"shell"} -> [{KEY} -> Nat \cup {NULL}]]
           /\ pg_table = [q \in Programs \cup {"shell"} |-> pg_table[q]]
           /\ brk \in [Programs \cup {"shell"} -> Nat]
           /\ "shell" \notin Programs
BY DEF RingPages, MP!MemInv, MP!MemTypes, MP!MemoryTypeOK, Programs

\* What is stored stays stored when nobody gets the page.
LEMMA StoredShrinks ==
    ASSUME Stored, RingPages, RingPages', UNCHANGED <<word, output, pos>>,
           \A q \in Programs :
              Has(q)' => Has(q) /\ pg_table'[q] = pg_table[q] /\ attached'[q] = attached[q]
    PROVE  Stored'
<1>1. SUFFICES ASSUME NEW q \in Programs, Has(q)',
                      NEW n \in Len(output)..(pos["producer"] - 1)
               PROVE  word[Frame'][Word(n)] = n
  BY DEF Stored, Has, Frame
<1>2. Frame' = Frame
  BY <1>1, FrameKept
<1>3. QED
  BY <1>1, <1>2 DEF Stored, Has, Frame

\* The shell has no page attached, and starts a process without one.
LEMMA StartKeeps ==
    ASSUME RingInv, NEW p \in Programs, Start(p)
    PROVE  RingInv'
<1>1. /\ KP!IInv /\ RingPages /\ RingTypes /\ Phases /\ Suspended /\ Progress /\ Known
      /\ Accounts /\ Stored /\ Printed
  BY DEF RingInv, Control
<1>2. /\ pc[p] = "none" /\ pc' = [pc EXCEPT ![p] = "execve"] /\ pc'[p] = "execve"
      /\ (\A q \in Programs \ {p} : pc'[q] = pc[q])
      /\ UNCHANGED <<word, linked, pos, output, m_value, m_wait, tmp, at>>
      /\ linked' \subseteq Sems
  BY <1>1, Zenon DEF Start, ringVars, RingTypes
<1>3. state' = [state EXCEPT ![p] = K!TASK_RUNNING] /\ M!Fork("shell", p)
  BY Zenon DEF Start
<1>4. p \in Dead /\ state[p] = "zombie"
  BY <1>1, <1>2, Zenon DEF Phases, Dead, K!TASK_ZOMBIE
<1>5. at[p] = NULL
  BY <1>1, <1>2, Zenon DEF Suspended
<1>6. KP!IInv'
  BY <1>1, <1>2, <1>3, <1>4, QueuesStarted, Zenon
<1>7. RingPages'
  BY <1>1, <1>3, PagesKept DEF PageStep
<1>8. Dead' = Dead \ {p}
  BY <1>1, <1>3, QueueTypes DEF Dead, K!TASK_RUNNING, K!TASK_ZOMBIE
<1>9. /\ ~Has(p)'
      /\ \A q \in Programs \ {p} : attached'[q] = attached[q] /\ pg_table'[q] = pg_table[q]
  <2>1. attached' = [attached EXCEPT ![p] = attached["shell"]] /\ attached["shell"][KEY] = NULL
    BY <1>3 DEF M!Fork
  <2>2. \E a, b : pg_table' = [pg_table EXCEPT !["shell"] = a, ![p] = b]
    BY <1>3 DEF M!Fork
  <2>3. QED
    BY <1>1, <2>1, <2>2, AddressTypes DEF Has
<1>10. RingTypes'
  <2>1. "execve" \in Labels /\ "execve" \notin Unlinks
    BY DEF Labels, Setup, Unlinks
  <2>2. QED
    BY <1>1, <1>2, <2>1, TypesMoved, Zenon
<1>11. Phases'
  <2>1. "execve" \notin Loop \cup Unlinks \cup {"exit"}
    BY DEF Loop, Unlinks
  <2>2. QED
    BY <1>1, <1>2, <1>8, <1>9, <2>1, Zenon DEF Phases, Has
<1>12. Suspended'
  BY <1>1, <1>2, <1>5, SuspendedMoved, Zenon
<1>13. Progress'
  BY <1>1, <1>2, Zenon DEF Progress, Programs, Loop, Unlinks
<1>14. Known'
  BY <1>1, <1>2, NamesMoved, Zenon DEF Before, Beyond, Sems
<1>15. Stored' /\ Printed'
  <2>1. \A q \in Programs :
           Has(q)' => Has(q) /\ pg_table'[q] = pg_table[q] /\ attached'[q] = attached[q]
    BY <1>9 DEF Has
  <2>2. QED
    BY <1>1, <1>2, <1>7, <2>1, StoredShrinks, Zenon DEF Printed
<1>16. Accounts'
  BY <1>1, <1>2, AccountsMoved, Zenon DEF Uses
<1>17. QED
  BY <1>6, <1>7, <1>10, <1>11, <1>12, <1>13, <1>14, <1>15, <1>16 DEF RingInv, Control

\* execve takes nothing from the process that the shell has started.
LEMMA ExecveKeeps ==
    ASSUME RingInv, NEW p \in Programs, Execve(p)
    PROVE  RingInv'
<1>1. /\ KP!IInv /\ RingPages /\ RingTypes /\ Phases /\ Suspended /\ Progress /\ Known
      /\ Accounts /\ Stored /\ Printed
  BY DEF RingInv, Control
<1>2. /\ pc[p] = "execve" /\ pc' = [pc EXCEPT ![p] = "open mutex"] /\ pc'[p] = "open mutex"
      /\ (\A q \in Programs \ {p} : pc'[q] = pc[q]) /\ at[p] = NULL
      /\ UNCHANGED <<word, linked, pos, output, m_value, m_wait, state, tmp, at>>
      /\ linked' \subseteq Sems
  BY <1>1, Moved, Zenon DEF Execve, semVars, ringVars, RingTypes
<1>3. KP!IInv'
  BY <1>1, QueuesSame, Zenon DEF Execve
<1>4. RingPages'
  BY <1>1, PagesKept, Zenon DEF Execve, PageStep
<1>5. Dead' = Dead
  BY <1>2, Zenon DEF Dead
<1>6. /\ ~Has(p)' /\ ~Has(p)
      /\ \A q \in Programs \ {p} : attached'[q] = attached[q] /\ pg_table'[q] = pg_table[q]
  <2>1. attached' = [attached EXCEPT ![p] = [k \in {KEY} |-> NULL]]
    BY DEF Execve, M!Exec, M!FreePageTables
  <2>2. \E a : pg_table' = [pg_table EXCEPT ![p] = a]
    BY DEF Execve, M!Exec, M!FreePageTables
  <2>3. ~Has(p)
    BY <1>1, <1>2, Zenon DEF Phases, Has, Loop, Unlinks
  <2>4. QED
    BY <1>1, <2>1, <2>2, <2>3, AddressTypes DEF Has
<1>7. RingTypes'
  <2>1. "open mutex" \in Labels /\ "open mutex" \notin Unlinks
    BY DEF Labels, Setup, Unlinks
  <2>2. QED
    BY <1>1, <1>2, <2>1, TypesMoved, Zenon
<1>8. Phases'
  <2>1. "open mutex" \notin Loop \cup Unlinks \cup {"exit"}
    BY DEF Loop, Unlinks
  <2>2. QED
    BY <1>1, <1>2, <1>5, <1>6, <2>1, Zenon DEF Phases, Has
<1>9. Suspended'
  BY <1>1, <1>2, SuspendedMoved, Zenon
<1>10. Progress'
  BY <1>1, <1>2, Zenon DEF Progress, Programs, Loop, Unlinks
<1>11. Known'
  BY <1>1, <1>2, NamesMoved, Zenon DEF Before, Beyond, Sems
<1>12. Stored' /\ Printed'
  <2>1. \A q \in Programs :
           Has(q)' => Has(q) /\ pg_table'[q] = pg_table[q] /\ attached'[q] = attached[q]
    BY <1>6 DEF Has
  <2>2. QED
    BY <1>1, <1>2, <1>4, <2>1, StoredShrinks, Zenon DEF Printed
<1>13. Accounts'
  BY <1>1, <1>2, AccountsMoved, Zenon DEF Uses
<1>14. QED
  BY <1>3, <1>4, <1>7, <1>8, <1>9, <1>10, <1>11, <1>12, <1>13 DEF RingInv, Control

\* shmget makes a page only when nobody has one.
LEMMA ShmgetKeeps ==
    ASSUME RingInv, NEW p \in Programs, Shmget(p)
    PROVE  RingInv'
<1>1. /\ KP!IInv /\ RingPages /\ RingTypes /\ Phases /\ Suspended /\ Progress /\ Known
      /\ Accounts /\ Stored /\ Printed
  BY DEF RingInv, Control
<1>2. /\ pc[p] = "shmget" /\ pc' = [pc EXCEPT ![p] = "shmat"] /\ pc'[p] = "shmat"
      /\ (\A q \in Programs \ {p} : pc'[q] = pc[q]) /\ at[p] = NULL
      /\ UNCHANGED <<linked, pos, output, m_value, m_wait, state, tmp, at>>
      /\ linked' \subseteq Sems
  BY <1>1, Moved DEF Shmget, semVars, RingTypes
<1>3. KP!IInv'
  BY <1>1, QueuesSame DEF Shmget
<1>4. RingPages'
  BY <1>1, PagesKept DEF Shmget, PageStep
<1>5. Dead' = Dead
  BY <1>2 DEF Dead
<1>6. UNCHANGED <<attached, pg_table>>
  BY DEF Shmget, M!ShmgetExisting, M!ShmgetNew
<1>7. RingTypes'
  <2>1. "shmat" \in Labels /\ "shmat" \notin Unlinks
    BY DEF Labels, Setup, Unlinks
  <2>2. Zeroed \in [0..(PAGE_SIZE - 1) -> Int]
    BY DEF Zeroed
  <2>3. word' \in [1..NrPages -> [0..(PAGE_SIZE - 1) -> Int]]
    BY <1>1, <2>2 DEF Shmget, RingTypes
  <2>4. pc' \in [Programs -> Labels] /\ pc'["producer"] \notin Unlinks
    BY <1>1, <1>2, <2>1 DEF RingTypes, Programs
  <2>5. QED
    BY <1>1, <1>2, <2>3, <2>4 DEF RingTypes
<1>8. Phases'
  BY <1>1, <1>2, <1>5, <1>6, PhasesMoved, Zenon DEF Attached, Loop, Unlinks
<1>9. Suspended'
  BY <1>1, <1>2, SuspendedMoved
<1>10. Progress'
  BY <1>1, <1>2, Zenon DEF Progress, Programs, Loop, Unlinks
<1>11. Known'
  BY <1>1, <1>2, NamesMoved, Zenon DEF Before, Beyond, Sems
<1>12. Stored'
  <2>1. CASE UNCHANGED word
    BY <1>1, <1>2, <1>4, <1>6, <2>1, StoredShrinks DEF Has
  <2>2. CASE M!ShmgetNew(p, KEY)
    <3>1. Frame = NULL \/ sharedPages[KEY].count = 0
      BY <2>2 DEF M!ShmgetNew, Frame
    <3>2. \A q \in Programs : ~Has(q)
      BY <1>1, <3>1, WhereThePageIs
    <3>3. QED
      BY <1>6, <3>2 DEF Stored, Has
  <2>3. QED
    BY <2>1, <2>2 DEF Shmget
<1>13. Accounts'
  BY <1>1, <1>2, AccountsMoved DEF Uses
<1>14. Printed'
  BY <1>1, <1>2 DEF Printed
<1>15. QED
  BY <1>3, <1>4, <1>7, <1>8, <1>9, <1>10, <1>11, <1>12, <1>13, <1>14 DEF RingInv, Control

\* shmat gives the page that the other program has, or one that no item is owed to: were there
\* items and nobody with the page, the producer would have ended, with more than the page holds.
LEMMA ShmatKeeps ==
    ASSUME RingInv, NEW p \in Programs, Shmat(p)
    PROVE  RingInv'
<1>1. /\ KP!IInv /\ RingPages /\ RingTypes /\ Phases /\ Suspended /\ Progress /\ Known
      /\ Accounts /\ Stored /\ Printed
  BY DEF RingInv, Control
<1>2. /\ pc[p] = "shmat" /\ pc' = [pc EXCEPT ![p] = "wait first"] /\ pc'[p] = "wait first"
      /\ (\A q \in Programs \ {p} : pc'[q] = pc[q]) /\ at[p] = NULL
      /\ UNCHANGED <<word, linked, pos, output, m_value, m_wait, state, tmp, at>>
      /\ linked' \subseteq Sems
  BY <1>1, Moved, Zenon DEF Shmat, semVars, ringVars, RingTypes
<1>3. KP!IInv'
  BY <1>1, QueuesSame, Zenon DEF Shmat
<1>4. RingPages'
  BY <1>1, PagesKept, Zenon DEF Shmat, PageStep
<1>5. Dead' = Dead
  BY <1>2, Zenon DEF Dead
<1>6. Has(p)' /\ (\A q \in Programs \ {p} : attached'[q] = attached[q]) /\ Frame' = Frame
  <2>1. attached' = [attached EXCEPT ![p][KEY] = brk[p]] /\ sharedPages' = sharedPages
    BY Zenon DEF Shmat, M!Shmat
  <2>2. brk[p] \in Nat /\ brk[p] # NULL
    BY <1>1, AddressTypes, NullIsNothing
  <2>3. QED
    BY <1>1, <2>1, <2>2, AddressTypes DEF Has, Frame
<1>7. RingTypes'
  <2>1. "wait first" \in Labels /\ "wait first" \notin Unlinks
    BY DEF Labels, Loop, Unlinks
  <2>2. QED
    BY <1>1, <1>2, <2>1, TypesMoved, Zenon
<1>8. Phases'
  BY <1>1, <1>2, <1>5, <1>6, Zenon DEF Phases, Has, Loop
<1>9. Suspended'
  BY <1>1, <1>2, SuspendedMoved, Zenon
<1>10. /\ pos["producer"] \in Nat /\ Len(output) \in Nat /\ m_value["empty"] \in Nat
       /\ {TakesSlot, OwesSlot} \subseteq {0, 1}
  BY <1>1, Numbers
<1>11. p = "producer" => pos["producer"] = 0
  <2>1. p = "producer" => ~(pos["producer"] > 0)
    BY <1>1, <1>2, Zenon DEF Progress, Loop
  <2>2. QED
    BY <1>10, <2>1
<1>12. p = "consumer" => Len(output) = 0
  <2>1. p = "consumer" => ~(Len(output) > 0)
    BY <1>1, <1>2, Zenon DEF Progress, Loop, Unlinks
  <2>2. QED
    BY <1>10, <2>1
<1>13. Progress'
  <2>1. MAXDATA > 0 /\ MAXDATA \in Nat
    BY RingAssumption
  <2>2. CASE p = "producer"
    BY <1>1, <1>2, <1>11, <2>2, Zenon DEF Progress, Programs, Loop
  <2>3. CASE p = "consumer"
    BY <1>1, <1>2, <1>12, <2>1, <2>3, Zenon DEF Progress, Programs, Loop, Unlinks
  <2>4. QED
    BY <2>2, <2>3 DEF Programs
<1>14. Known'
  BY <1>1, <1>2, NamesMoved, Zenon DEF Before, Beyond, Sems
<1>15. Stored'
  <2>1. CASE \E q \in Programs : Has(q)
    <3>1. \A n \in Len(output)..(pos["producer"] - 1) : word[Frame][Word(n)] = n
      BY <1>1, <2>1 DEF Stored, Has, Frame
    <3>2. QED
      BY <1>2, <1>6, <3>1, Zenon DEF Stored, Frame
  <2>2. CASE \A q \in Programs : ~Has(q)
    <3>1. pos["producer"] <= Len(output)
      <4>1. CASE p = "producer"
        BY <1>10, <1>11, <4>1
      <4>2. CASE p = "consumer"
        <5>1. SUFFICES ASSUME pos["producer"] > 0 PROVE FALSE
          BY <1>10
        <5>2. pc["producer"] \in Loop \cup {"exit", "gone"}
          BY <1>1, <5>1, Zenon DEF Progress
        <5>3. pc["producer"] \notin Loop \cup {"exit"}
          BY <1>1, <2>2 DEF Phases, Has, Programs
        <5>4. pos["producer"] = MAXDATA
          BY <1>1, <5>2, <5>3, Zenon DEF Progress
        <5>5. QED
          BY <1>1, <1>10, <1>12, <4>2, <5>4, RingAssumption DEF Accounts, SlotsAddUp
      <4>3. QED
        BY <4>1, <4>2 DEF Programs
    <3>2. Len(output)..(pos["producer"] - 1) = {}
      BY <1>10, <3>1
    <3>3. QED
      BY <1>2, <3>2, Zenon DEF Stored
  <2>3. QED
    BY <2>1, <2>2
<1>16. Accounts'
  BY <1>1, <1>2, AccountsMoved, Zenon DEF Uses
<1>17. Printed'
  BY <1>1, <1>2, Zenon DEF Printed
<1>18. QED
  BY <1>3, <1>4, <1>7, <1>8, <1>9, <1>13, <1>14, <1>15, <1>16, <1>17 DEF RingInv, Control

\* do_exit takes the page from the program that ends.
LEMMA LeaveKeeps ==
    ASSUME RingInv, NEW p \in Programs, Leave(p)
    PROVE  RingInv'
<1>1. /\ KP!IInv /\ RingPages /\ RingTypes /\ Phases /\ Suspended /\ Progress /\ Known
      /\ Accounts /\ Stored /\ Printed
  BY DEF RingInv, Control
<1>2. PICK to \in {"gone", "none"} :
          (to = "gone" /\ Goto(p, "exit", to)) \/ (to = "none" /\ Goto(p, "failed", to))
  BY DEF Leave
<1>3. /\ (to = "gone" /\ pc[p] = "exit") \/ (to = "none" /\ pc[p] = "failed")
      /\ pc' = [pc EXCEPT ![p] = to] /\ pc'[p] = to
      /\ (\A q \in Programs \ {p} : pc'[q] = pc[q]) /\ at[p] = NULL
      /\ UNCHANGED <<word, linked, pos, output, m_value, m_wait, tmp, at>>
      /\ linked' \subseteq Sems
  BY <1>1, <1>2, Moved DEF Leave, K!Exit, ringVars, RingTypes
<1>4. KP!IInv'
  BY <1>1, QueuesKept DEF Leave, QueueStep
<1>5. RingPages'
  BY <1>1, PagesKept DEF Leave, PageStep
<1>6. Dead' = Dead \cup {p}
  BY <1>1, QueueTypes DEF Leave, K!Exit, Dead, K!TASK_ZOMBIE
<1>7. /\ ~Has(p)'
      /\ \A q \in Programs \ {p} : attached'[q] = attached[q] /\ pg_table'[q] = pg_table[q]
  <2>1. attached' = [attached EXCEPT ![p] = [k \in {KEY} |-> NULL]]
    BY DEF Leave, M!Exit, M!FreePageTables
  <2>2. \E a : pg_table' = [pg_table EXCEPT ![p] = a]
    BY DEF Leave, M!Exit, M!FreePageTables
  <2>3. QED
    BY <1>1, <2>1, <2>2, AddressTypes DEF Has
<1>8. RingTypes'
  <2>1. to \in Labels /\ to \notin Unlinks
    BY <1>3, Zenon DEF Labels, Unlinks
  <2>2. QED
    BY <1>1, <1>3, <2>1, TypesMoved
<1>9. Phases'
  <2>1. to \notin Loop \cup Unlinks \cup {"exit"}
    BY <1>3, Zenon DEF Loop, Unlinks
  <2>2. QED
    BY <1>1, <1>3, <1>6, <1>7, <2>1 DEF Phases, Has
<1>10. Suspended'
  BY <1>1, <1>3, SuspendedMoved
<1>11. Progress'
  BY <1>1, <1>3, Zenon DEF Progress, Programs, Loop, Unlinks
<1>12. Known'
  <2>1. \A s \in Sems : /\ pc[p] \in Before(s) => to \in Before(s)
                        /\ pc[p] \in Beyond(s) => to \in Beyond(s)
    BY <1>3, Zenon DEF Before, Beyond, Sems
  <2>2. QED
    BY <1>1, <1>3, <2>1, NamesMoved
<1>13. Stored' /\ Printed'
  <2>1. \A q \in Programs :
           Has(q)' => Has(q) /\ pg_table'[q] = pg_table[q] /\ attached'[q] = attached[q]
    BY <1>7 DEF Has
  <2>2. QED
    BY <1>1, <1>3, <1>5, <2>1, StoredShrinks DEF Printed
<1>14. Accounts'
  BY <1>1, <1>3, AccountsMoved DEF Uses
<1>15. QED
  BY <1>4, <1>5, <1>8, <1>9, <1>10, <1>11, <1>12, <1>13, <1>14 DEF RingInv, Control

----------------------------------------------------------------------------
\* The statements that use the page.

\* The producer writes its next item, where no item is that has still to be read.
LEMMA WriteKeeps ==
    ASSUME RingInv, ProducerWrite
    PROVE  RingInv'
<1>1. /\ KP!IInv /\ RingPages /\ RingTypes /\ Phases /\ Suspended /\ Progress /\ Known
      /\ SlotsAddUp /\ ItemsAddUp /\ Stored /\ Printed
  BY DEF RingInv, Control, Accounts
<1>2. "producer" \in Programs /\ "consumer" \in Programs
  BY DEF Programs
<1>3. /\ pc["producer"] = "access" /\ pc' = [pc EXCEPT !["producer"] = "post mutex"]
      /\ pc'["producer"] = "post mutex" /\ pc'["consumer"] = pc["consumer"]
      /\ at["producer"] = NULL
  BY <1>1, <1>2, Moved, Zenon DEF ProducerWrite
<1>a. /\ UNCHANGED <<linked, output, attached, pg_table, sharedPages, m_value, m_wait, state, tmp, at>>
      /\ linked' \subseteq Sems
  BY <1>1, Zenon DEF ProducerWrite, semVars, memVars, RingTypes
<1>4. KP!IInv' /\ RingPages'
  BY <1>1, <1>2, QueuesSame, PagesKept, Zenon DEF ProducerWrite, PageStep
<1>5. Dead' = Dead
  BY <1>a DEF Dead
<1>6. Has("producer")
  BY <1>1, <1>2, <1>3, Zenon DEF Phases, Has, Loop
<1>7. /\ pos["producer"] \in Nat /\ Len(output) \in Nat /\ BUFFERSIZE \in Nat
      /\ m_value["empty"] \in Nat /\ m_value["full"] \in Nat
      /\ {TakesSlot, OwesSlot, TakesItem, OwesItem} \subseteq {0, 1}
  BY <1>1, Numbers
<1>8. PICK w \in 0..(PAGE_SIZE - 1) : w = Word(pos["producer"])
  BY <1>7, InThePage
<1>9. /\ Place("producer", pos["producer"]) = <<Frame, w>>
      /\ Frame \in 1..NrPages
  BY <1>1, <1>2, <1>6, <1>7, <1>8, PlaceIs, WhereThePageIs
<1>10. /\ word' = [word EXCEPT ![Frame][w] = pos["producer"]]
       /\ pos' = [pos EXCEPT !["producer"] = @ + 1]
  <2>1. PICK at1 : at1 = Place("producer", pos["producer"])
    OBVIOUS
  <2>2. at1[1] = Frame /\ at1[2] = w
    BY <1>9, <2>1
  <2>3. /\ word' = [word EXCEPT ![at1[1]][at1[2]] = pos["producer"]]
        /\ pos' = [pos EXCEPT !["producer"] = @ + 1]
    BY <2>1, Zenon DEF ProducerWrite
  <2>4. QED
    BY <2>2, <2>3, Zenon
<1>11. /\ pos' \in [Programs -> Nat] /\ pos'["producer"] = pos["producer"] + 1
       /\ pos'["consumer"] = pos["consumer"]
  BY <1>1, <1>2, <1>10 DEF RingTypes
<1>12. pos["producer"] < MAXDATA /\ MAXDATA \in Nat
  BY <1>1, <1>3, RingAssumption, Zenon DEF Progress
<1>13. RingTypes'
  <2>1. word' \in [1..NrPages -> [0..(PAGE_SIZE - 1) -> Int]]
    <3>1. PICK page : page = [word[Frame] EXCEPT ![w] = pos["producer"]]
      OBVIOUS
    <3>2. page \in [0..(PAGE_SIZE - 1) -> Int]
      <4>1. word \in [1..NrPages -> [0..(PAGE_SIZE - 1) -> Int]] /\ Frame \in 1..NrPages
        BY <1>1, <1>9 DEF RingTypes
      <4>2. word[Frame] \in [0..(PAGE_SIZE - 1) -> Int]
        BY ONLY <4>1, Zenon
      <4>3. pos["producer"] \in Int
        BY <1>7
      <4>4. QED
        BY ONLY <3>1, <4>2, <4>3
    <3>3. word' = [word EXCEPT ![Frame] = page]
      BY <1>10, <3>1
    <3>4. QED
      BY <1>1, <3>2, <3>3 DEF RingTypes
  <2>2. pc' \in [Programs -> Labels] /\ pc'["producer"] \notin Unlinks
    BY <1>1, <1>3, Zenon DEF RingTypes, Labels, Loop, Unlinks
  <2>3. pos'["producer"] <= MAXDATA
    BY <1>7, <1>11, <1>12
  <2>4. QED
    BY <1>1, <1>a, <1>11, <2>1, <2>2, <2>3 DEF RingTypes
<1>14. Phases'
  BY <1>1, <1>2, <1>3, <1>a, <1>5, PhasesMoved, Zenon DEF Attached, Loop
<1>15. Suspended'
  BY <1>1, <1>2, <1>3, <1>a, SuspendedMoved, Zenon
<1>16. Progress'
  <2>1. pos'["producer"] > 0 => pc'["producer"] \in Loop
    BY <1>3, Zenon DEF Loop
  <2>2. pc'["producer"] \notin {"wait mutex", "access", "exit", "gone"}
    BY <1>3, Zenon
  <2>3. QED
    BY ONLY <1>1, <1>3, <1>a, <2>1, <2>2, Zenon DEF Progress
<1>17. Known'
  BY <1>1, <1>2, <1>3, <1>a, NamesMoved, Zenon DEF Before, Beyond, Sems
<1>18. /\ TakesSlot = 1 /\ TakesSlot' = 0 /\ OwesItem = 0 /\ OwesItem' = 1
       /\ OwesSlot' = OwesSlot /\ TakesItem' = TakesItem
  BY <1>3, <1>a, Zenon DEF TakesSlot, OwesSlot, TakesItem, OwesItem, One
<1>19. Accounts'
  <2>1. /\ m_value' = m_value /\ Len(output)' = Len(output)
        /\ pos'["producer"] = pos["producer"] + 1
    BY <1>a, <1>11
  <2>2. SlotsAddUp /\ ItemsAddUp
    BY <1>1
  <2>3. PICK a \in Nat, b \in Nat, d \in Nat, e \in Nat, f \in Nat, g \in Nat :
               /\ a = m_value["empty"] /\ b = m_value["full"]
               /\ d = pos["producer"] /\ e = Len(output)
               /\ f = OwesSlot /\ g = TakesItem
    BY <1>7
  <2>4. a + 1 + (d - e) + f <= BUFFERSIZE /\ b + g + e + 0 <= d
    BY ONLY <1>18, <2>2, <2>3 DEF SlotsAddUp, ItemsAddUp
  <2>5. a + 0 + ((d + 1) - e) + f <= BUFFERSIZE /\ b + g + e + 1 <= d + 1
    BY <1>7, <2>4
  <2>6. QED
    BY ONLY <1>18, <2>1, <2>3, <2>5 DEF Accounts, SlotsAddUp, ItemsAddUp
<1>20. Stored'
  <2>1. SUFFICES ASSUME NEW n \in Len(output)..pos["producer"]
                 PROVE  word'[Frame][Word(n)] = n
    <3>1. Frame' = Frame /\ pos'["producer"] - 1 = pos["producer"]
      BY <1>a, <1>7, <1>11 DEF Frame
    <3>2. QED
      BY <1>a, <3>1, <2>1 DEF Stored, Frame
  <2>2. Word(n) \in 0..(PAGE_SIZE - 1) /\ n \in Nat
    BY <1>7, InThePage
  <2>3. CASE n = pos["producer"]
    BY <1>1, <1>8, <1>9, <1>10, <2>3 DEF RingTypes
  <2>4. CASE n < pos["producer"]
    <3>1. word[Frame][Word(n)] = n
      BY <1>1, <1>2, <1>6, <1>7, <2>4 DEF Stored, Has, Frame
    <3>2. pos["producer"] - n < BUFFERSIZE
      BY <1>1, <1>7, <1>18, <2>2 DEF SlotsAddUp
    <3>3. Word(n) # w
      BY <1>7, <1>8, <2>2, <2>4, <3>2, Slots
    <3>4. QED
      BY <1>1, <1>8, <1>9, <1>10, <2>2, <3>1, <3>3 DEF RingTypes
  <2>5. QED
    BY <1>7, <2>2, <2>3, <2>4
<1>21. Printed'
  BY <1>1, <1>a DEF Printed
<1>22. QED
  BY <1>4, <1>13, <1>14, <1>15, <1>16, <1>17, <1>19, <1>20, <1>21 DEF RingInv, Control

\* The consumer reads the oldest item that is stored.
LEMMA ReadKeeps ==
    ASSUME RingInv, ConsumerRead
    PROVE  RingInv'
<1>1. /\ KP!IInv /\ RingPages /\ RingTypes /\ Phases /\ Suspended /\ Progress /\ Known
      /\ SlotsAddUp /\ ItemsAddUp /\ Stored /\ Printed
  BY DEF RingInv, Control, Accounts
<1>2. "producer" \in Programs /\ "consumer" \in Programs
  BY DEF Programs
<1> DEFINE last == pos["consumer"] + 1 >= MAXDATA
<1> HIDE DEF last
<1>3. PICK to : to = IF last THEN "unlink mutex" ELSE "post mutex"
  BY Zenon
<1>4. /\ pc["consumer"] = "access" /\ pc' = [pc EXCEPT !["consumer"] = to]
      /\ pc'["consumer"] = to /\ pc'["producer"] = pc["producer"]
      /\ at["consumer"] = NULL
  BY <1>1, <1>2, <1>3, Moved, Zenon DEF ConsumerRead, last
<1>a. /\ UNCHANGED <<linked, word, attached, pg_table, sharedPages, m_value, m_wait, state, tmp, at>>
      /\ linked' \subseteq Sems
  BY <1>1, Zenon DEF ConsumerRead, semVars, memVars, RingTypes
<1>5. KP!IInv' /\ RingPages'
  BY <1>1, <1>2, QueuesSame, PagesKept, Zenon DEF ConsumerRead, PageStep
<1>6. Dead' = Dead
  BY <1>a DEF Dead
<1>7. Has("consumer")
  BY <1>1, <1>2, <1>4, Zenon DEF Phases, Has, Loop
<1>8. /\ pos["producer"] \in Nat /\ Len(output) \in Nat /\ BUFFERSIZE \in Nat
      /\ m_value["empty"] \in Nat /\ m_value["full"] \in Nat
      /\ {TakesSlot, OwesSlot, TakesItem, OwesItem} \subseteq {0, 1}
      /\ pos["consumer"] = Len(output)
  BY <1>1, Numbers DEF RingTypes
<1>9. /\ TakesItem = 1 /\ TakesItem' = 0 /\ OwesSlot = 0 /\ OwesSlot' \in {0, 1}
      /\ TakesSlot' = TakesSlot /\ OwesItem' = OwesItem
  <2>1. pc'["consumer"] \in {"unlink mutex", "post mutex"}
    BY <1>3, <1>4, Zenon
  <2>2. QED
    BY <1>4, <1>a, <2>1, Zenon DEF TakesSlot, OwesSlot, TakesItem, OwesItem, One
<1>10. Len(output) < pos["producer"]
  BY <1>1, <1>8, <1>9 DEF ItemsAddUp
<1>11. word[Frame][Word(Len(output))] = Len(output)
  BY <1>1, <1>2, <1>7, <1>8, <1>10 DEF Stored, Has, Frame
<1>12. Place("consumer", pos["consumer"]) = <<Frame, Word(Len(output))>>
  BY <1>1, <1>2, <1>7, <1>8, PlaceIs
<1>13. /\ output' = Append(output, Len(output))
       /\ pos' = [pos EXCEPT !["consumer"] = @ + 1]
  <2>1. PICK at1 : at1 = Place("consumer", pos["consumer"])
    OBVIOUS
  <2>2. at1[1] = Frame /\ at1[2] = Word(Len(output))
    BY <1>12, <2>1
  <2>3. /\ output' = Append(output, word[at1[1]][at1[2]])
        /\ pos' = [pos EXCEPT !["consumer"] = @ + 1]
    BY <2>1, Zenon DEF ConsumerRead
  <2>4. QED
    BY <1>11, <2>2, <2>3, Zenon
<1>14. /\ output' \in Seq(Int) /\ Len(output') = Len(output) + 1
       /\ output'[Len(output) + 1] = Len(output)
       /\ \A k \in 1..Len(output) : output'[k] = output[k]
  BY <1>1, <1>8, <1>13 DEF RingTypes
<1>15. /\ pos' \in [Programs -> Nat] /\ pos'["producer"] = pos["producer"]
       /\ pos'["consumer"] = Len(output) + 1
  BY <1>1, <1>2, <1>8, <1>13 DEF RingTypes
<1>16. Len(output) < MAXDATA /\ MAXDATA \in Nat
  BY <1>1, <1>4, RingAssumption, Zenon DEF Progress, Loop
<1>17. RingTypes'
  <2>1. pc' \in [Programs -> Labels] /\ pc'["producer"] \notin Unlinks
    BY <1>1, <1>3, <1>4, Zenon DEF RingTypes, Labels, Loop, Unlinks
  <2>2. QED
    BY <1>1, <1>a, <1>14, <1>15, <2>1 DEF RingTypes
<1>18. Phases'
  <2>1. {"access", to} \cap {"none", "gone"} = {} /\ ("access" \in Attached <=> to \in Attached)
    BY <1>3, Zenon DEF Attached, Loop, Unlinks
  <2>2. QED
    BY <1>1, <1>2, <1>4, <1>a, <1>6, <2>1, PhasesMoved
<1>19. Suspended'
  BY <1>1, <1>2, <1>4, <1>a, SuspendedMoved
<1>20. Progress'
  <2>1. last => Len(output') = MAXDATA
    BY <1>8, <1>14, <1>16 DEF last
  <2>2. ~last => Len(output') < MAXDATA
    BY <1>8, <1>14, <1>16 DEF last
  <2>3. /\ last => pc'["consumer"] \in Unlinks /\ pc'["consumer"] \notin Loop
        /\ ~last => pc'["consumer"] \in Loop /\ pc'["consumer"] \notin Unlinks \cup {"exit", "gone"}
    <3>1. CASE last
      <4>1. pc'["consumer"] = "unlink mutex"
        BY <1>3, <1>4, <3>1, Zenon
      <4>2. QED
        BY <3>1, <4>1, Zenon DEF Loop, Unlinks
    <3>2. CASE ~last
      <4>1. pc'["consumer"] = "post mutex"
        BY <1>3, <1>4, <3>2, Zenon
      <4>2. QED
        BY <3>2, <4>1, Zenon DEF Loop, Unlinks
    <3>3. QED
      BY <3>1, <3>2
  <2>4. QED
    BY ONLY <1>1, <1>4, <1>15, <2>1, <2>2, <2>3, Zenon DEF Progress
<1>21. Known'
  <2>1. \A s \in Sems : pc["consumer"] \notin Before(s) /\ pc["consumer"] \notin Beyond(s)
    BY <1>4 DEF Before, Beyond, Sems
  <2>2. linked' = linked
    BY <1>a
  <2>3. QED
    BY ONLY <1>1, <1>2, <1>4, <2>1, <2>2, NamesMoved
<1>22. Accounts'
  <2>1. /\ m_value' = m_value /\ Len(output)' = Len(output) + 1
        /\ pos'["producer"] = pos["producer"]
    BY <1>a, <1>14, <1>15
  <2>2. SlotsAddUp /\ ItemsAddUp
    BY <1>1
  <2>3. PICK a \in Nat, b \in Nat, d \in Nat, e \in Nat, f \in Nat, g \in Nat, h \in {0, 1} :
               /\ a = m_value["empty"] /\ b = m_value["full"]
               /\ d = pos["producer"] /\ e = Len(output)
               /\ f = TakesSlot /\ g = OwesItem /\ h = OwesSlot'
    BY <1>8, <1>9
  <2>4. a + f + (d - e) + 0 <= BUFFERSIZE /\ b + 1 + e + g <= d
    BY ONLY <1>9, <2>2, <2>3 DEF SlotsAddUp, ItemsAddUp
  <2>5. a + f + (d - (e + 1)) + h <= BUFFERSIZE /\ b + 0 + (e + 1) + g <= d
    BY <1>8, <2>4
  <2>6. QED
    BY ONLY <1>9, <2>1, <2>3, <2>5 DEF Accounts, SlotsAddUp, ItemsAddUp
<1>23. Stored'
  <2>1. SUFFICES ASSUME NEW n \in (Len(output) + 1)..(pos["producer"] - 1)
                 PROVE  word[Frame][Word(n)] = n
    BY <1>a, <1>14, <1>15 DEF Stored, Frame
  <2>2. n \in Len(output)..(pos["producer"] - 1)
    BY <1>8
  <2>3. QED
    BY <1>1, <1>2, <1>7, <2>2 DEF Stored, Has, Frame
<1>24. Printed'
  <2>1. SUFFICES ASSUME NEW k \in 1..(Len(output) + 1) PROVE output'[k] = k - 1
    BY <1>14 DEF Printed
  <2>2. CASE k = Len(output) + 1
    BY <1>8, <1>14, <2>2
  <2>3. CASE k \in 1..Len(output)
    BY <1>1, <1>14, <2>3 DEF Printed
  <2>4. QED
    BY <1>8, <2>2, <2>3
<1>25. QED
  BY <1>5, <1>17, <1>18, <1>19, <1>20, <1>21, <1>22, <1>23, <1>24 DEF RingInv, Control

----------------------------------------------------------------------------
\* The invariant, and what it says.

LEMMA RingInvInit == RingInit => RingInv
<1>1. SUFFICES ASSUME RingInit PROVE RingInv
  OBVIOUS
<1>2. /\ m_value = [s \in Sems |-> 0] /\ m_wait = [s \in Sems |-> NULL]
      /\ state = [p \in Programs |-> "zombie"]
      /\ tmp = [p \in Programs |-> NULL] /\ at = [p \in Programs |-> NULL]
      /\ word = [g \in 1..NrPages |-> Zeroed] /\ linked = {}
      /\ pc = [p \in Programs |-> "none"] /\ pos = [p \in Programs |-> 0]
      /\ output = <<>> /\ M!MemoryInit
  BY <1>1 DEF RingInit, K!TASK_ZOMBIE
<1>3. KP!IInv
  <2>1. 0 \in 0..(MAXDATA + BUFFERSIZE)
    BY RingAssumption
  <2>2. KP!TypeOK
    BY <1>2, <2>1 DEF KP!TypeOK, KP!TaskState, KP!TASK_ZOMBIE
  <2>3. KP!FramesOK /\ KP!TmpInjective /\ KP!PositiveIsEmpty
    BY <1>2 DEF KP!FramesOK, KP!TmpInjective, KP!PositiveIsEmpty, KP!Sleeping,
       KP!TASK_UNINTERRUPTIBLE
  <2>4. PICK none : none = [q \in Programs |-> {}]
    BY Zenon
  <2>5. none \in [Programs -> SUBSET Programs] /\ KP!Chains(none)
    BY <1>2, <2>4 DEF KP!Chains, KP!IsBelow, KP!ChainOK, KP!HeadOK, KP!Covered, KP!Sleeping,
       KP!TASK_UNINTERRUPTIBLE
  <2>6. QED
    BY <2>2, <2>3, <2>5 DEF KP!IInv
<1>4. RingPages
  <2>1. MP!MemoryInit
    BY <1>2 DEF M!MemoryInit, MP!MemoryInit, M!Page, MP!Page, M!Virtual, MP!Virtual
  <2>2. MP!MemInv
    BY <2>1, MP!MemInvInit, MemoryConstants
  <2>3. Offsets
    <3>1. PICK e \in Files : brk = [q \in Programs \cup {"shell"} |-> IF q = "shell" THEN e.brk ELSE 0]
      BY <1>2, Zenon DEF M!MemoryInit
    <3>2. e.brk % PAGE_SIZE = OFFSET
      <4>1. e.brk \in Brks
        BY DEF Files
      <4>2. QED
        BY <4>1, RingAssumption
    <3>3. alive = {"shell"} /\ \A q \in Programs : attached[q][KEY] = NULL
      BY <1>2 DEF M!MemoryInit
    <3>4. QED
      BY <3>1, <3>2, <3>3 DEF Offsets
  <2>4. QED
    BY <2>2, <2>3 DEF RingPages
<1>5. \A p \in Programs : attached[p][KEY] = NULL
  BY <1>2 DEF M!MemoryInit
<1>6. RingTypes
  BY <1>2, RingAssumption DEF RingTypes, Labels, Unlinks, Programs, Zeroed
<1>7. Phases
  BY <1>2, <1>5 DEF Phases, Dead, K!TASK_ZOMBIE, Loop, Unlinks
<1>8. Suspended /\ Known
  BY <1>2 DEF Suspended, Known, Before, Sems
<1>9. Progress
  BY <1>2, RingAssumption DEF Progress, Programs, Loop, Unlinks
<1>10. Accounts
  <2>1. /\ m_value["empty"] = 0 /\ m_value["full"] = 0 /\ pos["producer"] = 0 /\ Len(output) = 0
    BY <1>2 DEF Sems, Programs
  <2>2. TakesSlot = 0 /\ OwesSlot = 0 /\ TakesItem = 0 /\ OwesItem = 0
    BY <1>2 DEF TakesSlot, OwesSlot, TakesItem, OwesItem, One, Programs
  <2>3. QED
    BY <2>1, <2>2, RingAssumption DEF Accounts, SlotsAddUp, ItemsAddUp
<1>11. Stored /\ Printed
  BY <1>2, <1>5 DEF Stored, Printed
<1>12. QED
  BY <1>3, <1>4, <1>6, <1>7, <1>8, <1>9, <1>10, <1>11 DEF RingInv, Control

LEMMA RingInvStep == RingInv /\ [RingNext]_sharedRingVars => RingInv'
<1>1. SUFFICES ASSUME RingInv, [RingNext]_sharedRingVars PROVE RingInv'
  OBVIOUS
<1>2. "producer" \in Programs /\ "consumer" \in Programs
      /\ "bufferMutex" \in Sems /\ "empty" \in Sems /\ "full" \in Sems
  BY DEF Programs, Sems
<1>3. ASSUME ProducerWaitFirst \/ ConsumerWaitFirst PROVE RingInv'
  <2>1. \E p \in Programs : Waits(p, "wait first", First(p), "wait mutex")
            /\ Wait(p, "wait first", First(p), "wait mutex") /\ First(p) \in Sems
    BY <1>2, <1>3, Zenon DEF ProducerWaitFirst, ConsumerWaitFirst, Waits, First
  <2>2. QED
    BY <1>1, <2>1, WaitKeeps, Zenon
<1>4. ASSUME NEW p \in Programs, WaitMutex(p) PROVE RingInv'
  <2>1. Waits(p, "wait mutex", "bufferMutex", "access") /\ Wait(p, "wait mutex", "bufferMutex", "access")
    BY <1>4, Zenon DEF WaitMutex, Waits
  <2>2. QED
    BY <1>1, <1>2, <2>1, WaitKeeps, Zenon
<1>5. ASSUME ProducerPostOther \/ ConsumerPostOther PROVE RingInv'
  <2>1. \E p \in Programs, s \in Sems : Posts(p, "post other", s, "wait first")
            /\ Post(p, "post other", s, "wait first")
    BY <1>2, <1>5, Zenon DEF ProducerPostOther, ConsumerPostOther, Posts
  <2>2. QED
    BY <1>1, <2>1, PostKeeps, Zenon
<1>6. ASSUME NEW p \in Programs, PostMutex(p) PROVE RingInv'
  <2>1. Posts(p, "post mutex", "bufferMutex", "post other") /\ Post(p, "post mutex", "bufferMutex", "post other")
    BY <1>6, Zenon DEF PostMutex, Posts
  <2>2. QED
    BY <1>1, <1>2, <2>1, PostKeeps, Zenon
<1>7. ASSUME NEW p \in Programs, OpenMutex(p) \/ OpenEmpty(p) \/ OpenFull(p) PROVE RingInv'
  <2>1. \E s \in Sems : \E from, value, to : Calls(from, s, value, to) /\ SemOpen(p, from, s, value, to)
    BY <1>2, <1>7, Zenon DEF OpenMutex, OpenEmpty, OpenFull, Calls
  <2>2. QED
    BY <1>1, <2>1, SemOpenKeeps
<1>8. ASSUME NEW p \in Programs, OpenLog(p) \/ SetupFails(p) PROVE RingInv'
  <2>1. \E from, to : Goto(p, from, to) /\ Plain(p, from, to)
    BY <1>8, Zenon DEF OpenLog, SetupFails, Plain, Setup, ringVars
  <2>2. UNCHANGED <<semVars, memVars, word, pos, output>>
    BY <1>8, Zenon DEF OpenLog, SetupFails, ringVars
  <2>3. QED
    BY <1>1, <2>1, <2>2, QuietKeeps
<1>9. ASSUME ProducerEnd \/ UnlinkMutex \/ UnlinkEmpty \/ UnlinkFull PROVE RingInv'
  <2>1. \E p \in Programs : \E from, to : Goto(p, from, to) /\ Plain(p, from, to)
    BY <1>2, <1>9, Zenon DEF ProducerEnd, UnlinkMutex, UnlinkEmpty, UnlinkFull, Unlink, Plain, ringVars
  <2>2. UNCHANGED <<semVars, memVars, word, pos, output>>
    BY <1>9, Zenon DEF ProducerEnd, UnlinkMutex, UnlinkEmpty, UnlinkFull, Unlink, ringVars
  <2>3. QED
    BY <1>1, <2>1, <2>2, QuietKeeps
<1>10. CASE UNCHANGED sharedRingVars
  <2>1. KP!IInv'
    BY <1>1, <1>10, QueuesSame DEF sharedRingVars, RingInv
  <2>2. RingPages'
    BY <1>1, <1>2, <1>10, PagesKept DEF sharedRingVars, RingInv, PageStep
  <2>3. /\ UNCHANGED <<m_value, at, state, pc, pos, output, linked, word>>
        /\ UNCHANGED <<attached, sharedPages>>
    BY <1>10 DEF sharedRingVars, semVars, memVars, ringVars
  <2>4. Control'
    BY <1>1, <2>3, Zenon DEF RingInv, Control, RingTypes, Phases, Dead, Suspended, Progress, Known
  <2>5. Accounts' /\ Stored' /\ Printed'
    BY <1>1, <2>3, Zenon DEF RingInv, Accounts, SlotsAddUp, ItemsAddUp, TakesSlot, OwesSlot,
       TakesItem, OwesItem, Stored, Printed
  <2>6. QED
    BY <2>1, <2>2, <2>4, <2>5 DEF RingInv
<1>11. QED
  BY <1>1, <1>3, <1>4, <1>5, <1>6, <1>7, <1>8, <1>9, <1>10, StartKeeps, ExecveKeeps, ShmgetKeeps,
     ShmatKeeps, LeaveKeeps, WriteKeeps, ReadKeeps, ResumeKeeps
     DEF RingNext, ProducerStep, ConsumerStep, ProgramStep

\* RingInv holds of every reachable state.
LEMMA RingInvCorrect == RingSpec => []RingInv
BY RingInvInit, RingInvStep, PTL DEF RingSpec

\* What the consumer prints and what is stored.
LEMMA OrderLemma == RingInv => RingInOrder
<1>1. SUFFICES ASSUME RingInv PROVE RingInOrder
  OBVIOUS
<1>2. RingPages /\ RingTypes /\ Stored /\ Printed
  BY <1>1 DEF RingInv, Control
<1>3. ASSUME NEW p \in Programs, attached[p][KEY] # NULL,
             NEW n \in Len(output)..(pos["producer"] - 1)
      PROVE  /\ Place(p, n) = <<Frame, Word(n)>> /\ Place(p, n) # NULL
             /\ word[Frame][Word(n)] = n
  <2>1. n \in Nat
    BY <1>2 DEF RingTypes, Programs
  <2>2. QED
    BY <1>2, <1>3, <2>1, PlaceIs DEF Has, Stored, Frame
<1>4. QED
  BY <1>2, <1>3 DEF RingInOrder, Printed

\* A semaphore is removed when nobody will come to wait at it.
LEMMA NobodyLemma == RingInv => NobodyMissesSemaphores
<1>1. SUFFICES ASSUME RingInv, NEW s \in Sems, s \notin linked, output # <<>>
               PROVE  /\ m_wait[s] = NULL
                      /\ pos["producer"] = MAXDATA /\ pc["producer"] \in {"wait first", "exit", "gone"}
  BY Zenon DEF NobodyMissesSemaphores
<1>2. /\ KP!IInv /\ RingTypes /\ Suspended /\ Progress /\ Known /\ ItemsAddUp
  BY <1>1 DEF RingInv, Control, Accounts
<1>3. /\ pos["producer"] \in Nat /\ Len(output) \in Nat /\ m_value["full"] \in Nat
      /\ {TakesSlot, OwesSlot, TakesItem, OwesItem} \subseteq {0, 1}
  BY <1>2, Numbers
<1>4. Len(output) > 0
  BY <1>1, <1>2, <1>3 DEF RingTypes
<1>5. pc["consumer"] \in Beyond(s)
  <2>1. pc["consumer"] \notin Before(s)
    BY <1>2, <1>4, Zenon DEF Progress, Loop, Unlinks, Before, Sems
  <2>2. QED
    BY <1>1, <1>2, <2>1 DEF Known, Programs
<1>6. pc["consumer"] \in Unlinks \cup {"exit", "gone"}
  BY <1>5, Zenon DEF Beyond, Unlinks, Sems
<1>7. Len(output) = MAXDATA
  BY <1>2, <1>6, Zenon DEF Progress
<1>8. pos["producer"] = MAXDATA /\ OwesItem = 0
  <2>1. pos["producer"] <= MAXDATA /\ MAXDATA \in Nat
    BY <1>2, RingAssumption DEF RingTypes
  <2>2. QED
    BY <1>2, <1>3, <1>7, <2>1 DEF ItemsAddUp
<1>9. pc["producer"] \in {"wait first", "exit", "gone"}
  <2>1. pc["producer"] \in Loop \cup {"exit", "gone"}
    BY <1>2, <1>4, <1>7, <1>8, Zenon DEF Progress
  <2>2. pc["producer"] \notin {"wait mutex", "access"}
    <3>1. ~(pos["producer"] < MAXDATA)
      BY <1>3, <1>8
    <3>2. QED
      BY <1>2, <3>1, Zenon DEF Progress
  <2>3. pc["producer"] \notin {"post mutex", "post other"}
    <3>1. pc["producer"] \in {"post mutex", "post other"} => OwesItem = 1
      BY Zenon DEF OwesItem, One
    <3>2. OwesItem # 1
      BY <1>8
    <3>3. QED
      BY <3>1, <3>2, Zenon
  <2>4. QED
    BY <2>1, <2>2, <2>3, Zenon DEF Loop
<1>10. m_wait[s] = NULL
  <2>1. \A p \in Programs : at[p] = NULL
    BY <1>2, <1>6, <1>9, Zenon DEF Suspended, Programs, Unlinks
  <2>2. m_wait[s] # NULL => m_wait[s] \in Programs /\ at[m_wait[s]] = s
    BY <1>2, QueueTypes, PointedTo
  <2>3. QED
    BY <2>1, <2>2, NullIsNothing
<1>11. QED
  BY <1>8, <1>9, <1>10, Zenon

\* RingInOrder: whatever the order of the two programs, and however often the set-up of one
\* fails, the items are printed in order and none is overwritten before it is read.
THEOREM ItemsInOrder == RingSpec => []RingInOrder
BY RingInvCorrect, OrderLemma, PTL

\* NobodyMissesSemaphores: the consumer removes the semaphores, and keeps bufferMutex, when the
\* producer has made its last call.
THEOREM SemaphoresNotMissed == RingSpec => []NobodyMissesSemaphores
BY RingInvCorrect, NobodyLemma, PTL

================================================================================
