------------------------------ MODULE ConsoleProof ------------------------------
(****************************************************************************)
(* Proof that console.c keeps its cursor and its window in step, and that   *)
(* what it shows is the abstract display of module Screen, for displays,    *)
(* video memories and tab stops of every size and all words.                *)
(****************************************************************************)
EXTENDS Console, TLAPS, WellFoundedInduction, FiniteSetTheorems

Row == 0..(Lines - 1)
Col == 0..(Cols - 1)
Cell == Glyph \cup {Erased}

\* The statics of the display, and their state when a character has been handled:
\* CursorInStep for a display d.
Display == [mem : [0..(MemEnd - 1) -> Cell], origin : Int, scr_end : Int, pos : Int,
            x : Int, y : Int, top : Int, bottom : Int]

InStep(d) ==
    /\ d \in Display
    /\ d.pos = d.origin + d.y * Cols + d.x
    /\ d.x \in 0..Cols /\ d.y \in Row
    /\ d.top \in 0..(d.bottom - 1) /\ d.bottom \in 1..Lines
    /\ d.origin >= 0 /\ d.scr_end = d.origin + Lines * Cols
    /\ d.scr_end <= MemEnd

\* What d shows.
Shows(d) == [r \in Row |-> [c \in Col |-> d.mem[d.origin + r * Cols + c]]]

----------------------------------------------------------------------------
\* Rows and cells.

\* The sizes of the display.
LEMMA Sizes ==
    /\ Lines \in Nat /\ Lines > 0 /\ Cols \in Nat /\ Cols > 0
    /\ MemRows \in Nat /\ MemRows > Lines /\ MemEnd \in Nat
    /\ TabStop \in Nat /\ TabStop > 0 /\ TabStop <= Cols
    /\ Word \in Nat /\ Word > 0 /\ NPAR \in Nat /\ NPAR > 0
BY ConsoleAssumption DEF MemEnd

\* The first cell of row r, counted from the start of the window.
RowAt(r) == r * Cols

\* Rows follow each other, Cols cells apart.
LEMMA Rows ==
    ASSUME NEW r \in Int
    PROVE  /\ RowAt(r) \in Int /\ r * Cols = RowAt(r) /\ Cols * r = RowAt(r)
           /\ RowAt(r + 1) = RowAt(r) + Cols
           /\ RowAt(r - 1) = RowAt(r) - Cols
           /\ \A s \in Int : (r - s) * Cols = RowAt(r) - RowAt(s)
BY Sizes DEF RowAt

\* The rows at the ends of the display and of video memory.
LEMMA EndRows == RowAt(0) = 0 /\ MemEnd = RowAt(MemRows)
BY Sizes DEF RowAt, MemEnd

\* Rows lie in memory in their order.
LEMMA RowsInOrder ==
    ASSUME NEW r \in Int, NEW s \in Int, r <= s
    PROVE  RowAt(r) <= RowAt(s)
BY Sizes DEF RowAt

\* Cells lie in memory in the order in which they are read.
LEMMA CellsInOrder ==
    ASSUME NEW r \in Int, NEW c \in Col, NEW t \in Int, NEW k \in 0..Cols
    PROVE  RowAt(r) + c < RowAt(t) + k <=> r < t \/ (r = t /\ c < k)
<1>1. /\ Cols \in Nat /\ Cols > 0 /\ RowAt(r) \in Int /\ RowAt(t) \in Int /\ c \in 0..(Cols - 1)
      /\ RowAt(r + 1) = RowAt(r) + Cols /\ RowAt(t + 1) = RowAt(t) + Cols
  BY Sizes, Rows DEF Col
<1>2. CASE r < t
  <2>1. RowAt(r + 1) <= RowAt(t)
    BY <1>2, RowsInOrder
  <2>2. QED
    BY <1>1, <1>2, <2>1
<1>3. CASE r = t
  BY <1>1, <1>3
<1>4. CASE t < r
  <2>1. RowAt(t + 1) <= RowAt(r)
    BY <1>4, RowsInOrder
  <2>2. QED
    BY <1>1, <1>4, <2>1
<1>5. QED
  BY <1>2, <1>3, <1>4

\* The cells of a display in step are in video memory.
LEMMA CellInMemory ==
    ASSUME NEW d, InStep(d), NEW r \in Row, NEW c \in Col
    PROVE  /\ d.origin + RowAt(r) + c \in 0..(MemEnd - 1)
           /\ RowAt(r) + c \in 0..(RowAt(Lines) - 1)
           /\ Shows(d)[r][c] = d.mem[d.origin + RowAt(r) + c]
<1>1. /\ d.origin \in Int /\ d.origin >= 0 /\ MemEnd \in Nat /\ Lines \in Nat /\ r \in Int
      /\ d.scr_end = d.origin + RowAt(Lines) /\ d.scr_end <= MemEnd /\ c \in 0..(Cols - 1)
  BY Sizes, Rows DEF InStep, Display, Row, Col
<1>2. RowAt(r) + c < RowAt(Lines) + 0
  BY Sizes, CellsInOrder DEF Row
<1>3. RowAt(0) <= RowAt(r) /\ RowAt(0) = 0 /\ RowAt(r) \in Int /\ RowAt(Lines) \in Int
  <2>1. r \in Int /\ 0 \in Int /\ 0 <= r /\ Lines \in Int
    BY Sizes DEF Row
  <2>2. RowAt(0) <= RowAt(r)
    BY <2>1, RowsInOrder
  <2>3. QED
    BY <2>1, <2>2, Rows, EndRows
<1>4. Shows(d)[r][c] = d.mem[d.origin + r * Cols + c] /\ r * Cols = RowAt(r)
  BY <1>1, Rows DEF Shows
<1>5. QED
  BY <1>1, <1>2, <1>3, <1>4

\* Pictures: what a display can show.
Picture(s) == s = [r \in Row |-> [c \in Col |-> s[r][c]]]

\* A display shows a picture.
LEMMA ShowsPicture == ASSUME NEW d PROVE Picture(Shows(d))
BY DEF Picture, Shows

\* Two pictures are the same if their cells are.
LEMMA SamePicture ==
    ASSUME NEW s, NEW t, Picture(s), Picture(t), \A r \in Row, c \in Col : s[r][c] = t[r][c]
    PROVE  s = t
BY DEF Picture

\* The cells of a picture that is scrolled up.
LEMMA UpCells ==
    ASSUME NEW s, Picture(s), NEW t \in Nat, NEW b \in 0..Lines, NEW n \in Nat
    PROVE  /\ Picture(S!Up(s, t, b, n))
           /\ \A r \in Row, c \in Col :
                 S!Up(s, t, b, n)[r][c] = IF ~(t <= r /\ r < b) THEN s[r][c]
                                          ELSE IF r + n < b THEN s[r + n][c] ELSE Erased
<1> DEFINE u == S!Up(s, t, b, n)
<1>1. u = [r \in Row |-> u[r]]
  BY DEF S!Up, S!Row, Row
<1>2. ASSUME NEW r \in Row
      PROVE  /\ u[r] = [c \in Col |-> u[r][c]]
             /\ \A c \in Col : u[r][c] = IF ~(t <= r /\ r < b) THEN s[r][c]
                                          ELSE IF r + n < b THEN s[r + n][c] ELSE Erased
  <2>1. /\ u[r] = IF r \notin t..(b - 1) THEN s[r] ELSE IF r + n < b THEN s[r + n] ELSE S!BlankRow
        /\ r \in Int /\ (r \in t..(b - 1) <=> t <= r /\ r < b)
    BY Sizes DEF S!Up, S!Row, Row
  <2>2. CASE ~(t <= r /\ r < b)
    <3>1. u[r] = s[r]
      BY <2>1, <2>2
    <3>2. s[r] = [c \in Col |-> s[r][c]]
      BY DEF Picture
    <3>3. QED
      BY <2>2, <3>1, <3>2
  <2>3. CASE t <= r /\ r < b /\ r + n < b
    <3>1. u[r] = s[r + n]
      BY <2>1, <2>3
    <3>2. r + n \in Row
      BY Sizes, <2>3 DEF Row
    <3>3. s[r + n] = [c \in Col |-> s[r + n][c]]
      BY <3>2 DEF Picture
    <3>4. QED
      BY <2>3, <3>1, <3>3
  <2>4. CASE t <= r /\ r < b /\ ~(r + n < b)
    <3>1. u[r] = [c \in Col |-> Erased]
      BY <2>1, <2>4 DEF S!BlankRow, S!Col, Col
    <3>2. QED
      BY <2>4, <3>1
  <2>5. QED
    BY <2>2, <2>3, <2>4
<1>3. QED
  BY <1>1, <1>2 DEF Picture

\* The cells of a picture that is scrolled down.
LEMMA DownCells ==
    ASSUME NEW s, Picture(s), NEW t \in Nat, NEW b \in 0..Lines, NEW n \in Nat
    PROVE  /\ Picture(S!Down(s, t, b, n))
           /\ \A r \in Row, c \in Col :
                 S!Down(s, t, b, n)[r][c] = IF ~(t <= r /\ r < b) THEN s[r][c]
                                            ELSE IF t <= r - n THEN s[r - n][c] ELSE Erased
<1> DEFINE u == S!Down(s, t, b, n)
<1>1. u = [r \in Row |-> u[r]]
  BY DEF S!Down, S!Row, Row
<1>2. ASSUME NEW r \in Row
      PROVE  /\ u[r] = [c \in Col |-> u[r][c]]
             /\ \A c \in Col : u[r][c] = IF ~(t <= r /\ r < b) THEN s[r][c]
                                          ELSE IF t <= r - n THEN s[r - n][c] ELSE Erased
  <2>1. /\ u[r] = IF r \notin t..(b - 1) THEN s[r] ELSE IF r - n >= t THEN s[r - n] ELSE S!BlankRow
        /\ r \in Int /\ (r \in t..(b - 1) <=> t <= r /\ r < b)
    BY Sizes DEF S!Down, S!Row, Row
  <2>2. CASE ~(t <= r /\ r < b)
    <3>1. u[r] = s[r]
      BY <2>1, <2>2
    <3>2. s[r] = [c \in Col |-> s[r][c]]
      BY DEF Picture
    <3>3. QED
      BY <2>2, <3>1, <3>2
  <2>3. CASE t <= r /\ r < b /\ t <= r - n
    <3>1. u[r] = s[r - n]
      BY <2>1, <2>3
    <3>2. r - n \in Row
      BY Sizes, <2>3 DEF Row
    <3>3. s[r - n] = [c \in Col |-> s[r - n][c]]
      BY <3>2 DEF Picture
    <3>4. QED
      BY <2>3, <3>1, <3>3
  <2>4. CASE t <= r /\ r < b /\ ~(t <= r - n)
    <3>1. u[r] = [c \in Col |-> Erased]
      BY <2>1, <2>4 DEF S!BlankRow, S!Col, Col
    <3>2. QED
      BY <2>4, <3>1
  <2>5. QED
    BY <2>2, <2>3, <2>4
<1>3. QED
  BY <1>1, <1>2 DEF Picture

----------------------------------------------------------------------------
\* Blocks of memory.

\* Erasing a block.
LEMMA FilledBlock ==
    ASSUME NEW m \in [0..(MemEnd - 1) -> Cell], NEW from \in Int, NEW n \in Int
    PROVE  /\ Filled(m, from, n) \in [0..(MemEnd - 1) -> Cell]
           /\ \A i \in 0..(MemEnd - 1) :
                 Filled(m, from, n)[i] = IF from <= i /\ i < from + n THEN Erased ELSE m[i]
BY Sizes DEF Filled, Cell

\* Moving a block, within memory.
LEMMA MovedBlock ==
    ASSUME NEW m \in [0..(MemEnd - 1) -> Cell], NEW to \in Int, NEW from \in Int, NEW n \in Int,
           0 <= from, from + n <= MemEnd
    PROVE  /\ Moved(m, to, from, n) \in [0..(MemEnd - 1) -> Cell]
           /\ \A i \in 0..(MemEnd - 1) :
                 Moved(m, to, from, n)[i] = IF to <= i /\ i < to + n THEN m[from + i - to] ELSE m[i]
<1>1. MemEnd \in Nat
  BY Sizes
<1>2. ASSUME NEW i \in 0..(MemEnd - 1)
      PROVE  /\ Moved(m, to, from, n)[i] = IF to <= i /\ i < to + n THEN m[from + i - to] ELSE m[i]
             /\ Moved(m, to, from, n)[i] \in Cell
  <2>1. DOMAIN m = 0..(MemEnd - 1)
    OBVIOUS
  <2>2. Moved(m, to, from, n)[i] = IF to <= i /\ i < to + n THEN m[from + i - to] ELSE m[i]
    BY <1>1, <2>1 DEF Moved
  <2>3. CASE to <= i /\ i < to + n
    <3>1. from + i - to \in 0..(MemEnd - 1)
      BY <1>1, <2>3
    <3>2. QED
      BY <2>2, <2>3, <3>1
  <2>4. CASE ~(to <= i /\ i < to + n)
    BY <2>2, <2>4
  <2>5. QED
    BY <2>2, <2>3, <2>4
<1>3. Moved(m, to, from, n) = [i \in 0..(MemEnd - 1) |-> Moved(m, to, from, n)[i]]
  BY DEF Moved
<1>4. QED
  BY <1>2, <1>3

----------------------------------------------------------------------------
\* Blocks of the window.

\* The cells of the window from <<t, k>> up to <<u, l>>.
Within(r, c, t, k, u, l) == ~(r < t \/ (r = t /\ c < k)) /\ (r < u \/ (r = u /\ c < l))

\* The cursor and the region are the same, and so is the place of the window.
SameCursor(d, e) == e.x = d.x /\ e.y = d.y /\ e.top = d.top /\ e.bottom = d.bottom
SameWindow(d, e) == e.origin = d.origin /\ SameCursor(d, e)

\* A display in step stays in step whatever is written to its memory.
LEMMA MemoryIsFree ==
    ASSUME NEW d, InStep(d), NEW m \in [0..(MemEnd - 1) -> Cell]
    PROVE  /\ InStep([d EXCEPT !.mem = m])
           /\ [d EXCEPT !.mem = m].mem = m
           /\ SameWindow(d, [d EXCEPT !.mem = m])
BY DEF InStep, Display, SameWindow, SameCursor

\* Which cells a block of the window's memory holds.
LEMMA BlockOfWindow ==
    ASSUME NEW o \in Int, NEW t \in Int, NEW k \in 0..Cols, NEW u \in Int, NEW l \in 0..Cols,
           NEW r \in Row, NEW c \in Col
    PROVE  LET from == o + RowAt(t) + k
               n == RowAt(u) + l - (RowAt(t) + k)
               i == o + RowAt(r) + c
           IN from <= i /\ i < from + n <=> Within(r, c, t, k, u, l)
<1>1. r \in Int /\ c \in Int /\ k \in Int /\ l \in Int
      /\ RowAt(t) \in Int /\ RowAt(u) \in Int /\ RowAt(r) \in Int
  BY Sizes, Rows DEF Row, Col
<1>2. RowAt(r) + c < RowAt(t) + k <=> r < t \/ (r = t /\ c < k)
  BY <1>1, CellsInOrder
<1>3. RowAt(r) + c < RowAt(u) + l <=> r < u \/ (r = u /\ c < l)
  BY <1>1, CellsInOrder
<1>4. o + RowAt(t) + k <= o + RowAt(r) + c <=> ~(RowAt(r) + c < RowAt(t) + k)
  BY <1>1
<1>5. o + RowAt(r) + c < o + RowAt(t) + k + (RowAt(u) + l - (RowAt(t) + k))
      <=> RowAt(r) + c < RowAt(u) + l
  BY <1>1
<1>6. QED
  BY <1>2, <1>3, <1>4, <1>5 DEF Within

\* A display whose cells from <<t, k>> up to <<u, l>> are erased, or are those s cells on.
FillBlock(d, t, k, u, l) ==
    [d EXCEPT !.mem = Filled(@, d.origin + RowAt(t) + k, RowAt(u) + l - (RowAt(t) + k))]
MoveBlock(d, t, k, u, l, s) ==
    [d EXCEPT !.mem = Moved(@, d.origin + RowAt(t) + k, d.origin + RowAt(t) + k + s,
                            RowAt(u) + l - (RowAt(t) + k))]

\* Erasing a block of the window.
LEMMA FilledWindow ==
    ASSUME NEW d, InStep(d), NEW t \in Int, NEW k \in 0..Cols, NEW u \in Int, NEW l \in 0..Cols
    PROVE  /\ InStep(FillBlock(d, t, k, u, l)) /\ SameWindow(d, FillBlock(d, t, k, u, l))
           /\ \A r \in Row, c \in Col :
                 Shows(FillBlock(d, t, k, u, l))[r][c] =
                    IF Within(r, c, t, k, u, l) THEN Erased ELSE Shows(d)[r][c]
<1> DEFINE from == d.origin + RowAt(t) + k
           n == RowAt(u) + l - (RowAt(t) + k)
           m == Filled(d.mem, from, n)
           e == FillBlock(d, t, k, u, l)
<1>1. /\ d.mem \in [0..(MemEnd - 1) -> Cell] /\ d.origin \in Int /\ from \in Int /\ n \in Int
      /\ e = [d EXCEPT !.mem = m]
  <2>1. RowAt(t) \in Int /\ RowAt(u) \in Int /\ k \in Int /\ l \in Int
    BY Sizes, Rows
  <2>2. d.mem \in [0..(MemEnd - 1) -> Cell] /\ d.origin \in Int
    BY DEF InStep, Display
  <2>3. QED
    BY <2>1, <2>2 DEF FillBlock
<1> HIDE DEF from, n, e
<1>2. /\ m \in [0..(MemEnd - 1) -> Cell]
      /\ \A i \in 0..(MemEnd - 1) :
            m[i] = IF from <= i /\ i < from + n THEN Erased ELSE d.mem[i]
  BY <1>1, FilledBlock
<1>3. InStep(e) /\ e.mem = m /\ e.origin = d.origin /\ SameWindow(d, e)
  BY <1>1, <1>2, MemoryIsFree DEF SameWindow
<1> HIDE DEF m
<1>4. ASSUME NEW r \in Row, NEW c \in Col
      PROVE  Shows(e)[r][c] = IF Within(r, c, t, k, u, l) THEN Erased ELSE Shows(d)[r][c]
  <2> DEFINE i == d.origin + RowAt(r) + c
  <2>1. from <= i /\ i < from + n <=> Within(r, c, t, k, u, l)
    BY <1>1, BlockOfWindow DEF from, n
  <2>2. i \in 0..(MemEnd - 1) /\ Shows(d)[r][c] = d.mem[i]
    BY CellInMemory
  <2>3. Shows(e)[r][c] = m[i]
    BY <1>3, CellInMemory
  <2> HIDE DEF i
  <2>4. QED
    BY <1>2, <2>1, <2>2, <2>3
<1>5. QED
  BY <1>2, <1>3, <1>4 DEF e

\* Moving memory by s cells to a block of the window.
LEMMA MovedWindow ==
    ASSUME NEW d, InStep(d), NEW t \in Int, NEW k \in 0..Cols, NEW u \in Int, NEW l \in 0..Cols,
           NEW s \in Int,
           0 <= d.origin + RowAt(t) + k + s, d.origin + RowAt(u) + l + s <= MemEnd
    PROVE  /\ InStep(MoveBlock(d, t, k, u, l, s)) /\ SameWindow(d, MoveBlock(d, t, k, u, l, s))
           /\ \A r \in Row, c \in Col :
                 Shows(MoveBlock(d, t, k, u, l, s))[r][c] =
                    IF Within(r, c, t, k, u, l) THEN d.mem[d.origin + RowAt(r) + c + s]
                                                ELSE Shows(d)[r][c]
<1> DEFINE to == d.origin + RowAt(t) + k
           from == to + s
           n == RowAt(u) + l - (RowAt(t) + k)
           m == Moved(d.mem, to, from, n)
           e == MoveBlock(d, t, k, u, l, s)
<1>1. /\ d.mem \in [0..(MemEnd - 1) -> Cell] /\ d.origin \in Int
      /\ to \in Int /\ from \in Int /\ n \in Int /\ from - to = s
      /\ 0 <= from /\ from + n <= MemEnd
  <2>1. RowAt(t) \in Int /\ RowAt(u) \in Int /\ k \in Int /\ l \in Int /\ MemEnd \in Int
    BY Sizes, Rows
  <2>2. d.mem \in [0..(MemEnd - 1) -> Cell] /\ d.origin \in Int
    BY DEF InStep, Display
  <2>3. to \in Int /\ n \in Int
    BY ONLY <2>1, <2>2
  <2>4. from \in Int /\ from - to = s
    BY <2>3
  <2>5. from + n = d.origin + RowAt(u) + l + s
    BY <2>1, <2>2
  <2>6. QED
    BY <2>2, <2>3, <2>4, <2>5
<1>2. e = [d EXCEPT !.mem = m]
  BY DEF MoveBlock
<1> HIDE DEF to, from, n, e
<1>3. /\ m \in [0..(MemEnd - 1) -> Cell]
      /\ \A i \in 0..(MemEnd - 1) :
            m[i] = IF to <= i /\ i < to + n THEN d.mem[from + i - to] ELSE d.mem[i]
  BY <1>1, MovedBlock
<1>4. InStep(e) /\ e.mem = m /\ e.origin = d.origin /\ SameWindow(d, e)
  BY <1>2, <1>3, MemoryIsFree DEF SameWindow
<1> HIDE DEF m
<1>5. ASSUME NEW r \in Row, NEW c \in Col
      PROVE  Shows(e)[r][c] = IF Within(r, c, t, k, u, l)
                              THEN d.mem[d.origin + RowAt(r) + c + s] ELSE Shows(d)[r][c]
  <2> DEFINE i == d.origin + RowAt(r) + c
  <2>1. to <= i /\ i < to + n <=> Within(r, c, t, k, u, l)
    BY <1>1, BlockOfWindow DEF to, n
  <2>2. i \in 0..(MemEnd - 1) /\ Shows(d)[r][c] = d.mem[i]
    BY CellInMemory
  <2>3. Shows(e)[r][c] = m[i]
    BY <1>4, CellInMemory
  <2> HIDE DEF i
  <2>4. from + i - to = i + s
    BY <1>1, <2>2
  <2>5. Shows(e)[r][c] = IF Within(r, c, t, k, u, l) THEN d.mem[i + s] ELSE Shows(d)[r][c]
    BY <1>3, <2>1, <2>2, <2>3, <2>4
  <2>6. QED
    BY <2>5 DEF i
<1>6. QED
  BY <1>3, <1>4, <1>5 DEF e

----------------------------------------------------------------------------
\* Scrolling.

\* The statics of a display in step.
LEMMA Statics ==
    ASSUME NEW d, InStep(d)
    PROVE  /\ d.mem \in [0..(MemEnd - 1) -> Cell]
           /\ d.origin \in Int /\ d.origin >= 0 /\ d.scr_end = d.origin + RowAt(Lines)
           /\ d.origin + RowAt(Lines) <= MemEnd
           /\ d.pos = d.origin + RowAt(d.y) + d.x /\ d.pos \in Int /\ d \in Display
           /\ d.x \in Int /\ 0 <= d.x /\ d.x <= Cols /\ d.x \in 0..Cols
           /\ d.y \in Int /\ 0 <= d.y /\ d.y < Lines /\ d.y \in Row
           /\ d.top \in Int /\ 0 <= d.top /\ d.bottom \in Int /\ d.bottom <= Lines
           /\ d.top < d.bottom
<1>1. /\ d.mem \in [0..(MemEnd - 1) -> Cell]
      /\ d.origin \in Int /\ d.origin >= 0 /\ d.scr_end = d.origin + Lines * Cols
      /\ d.scr_end <= MemEnd /\ d.pos = d.origin + d.y * Cols + d.x
      /\ d.x \in 0..Cols /\ d.y \in 0..(Lines - 1)
      /\ d.top \in 0..(d.bottom - 1) /\ d.bottom \in 1..Lines
  BY DEF InStep, Display, Row
<1>2. Lines * Cols = RowAt(Lines) /\ d.y * Cols = RowAt(d.y)
  BY DEF RowAt
<1>3. d.origin \in Int /\ d.x \in Int /\ d.y \in Int /\ d.top \in Int /\ d.bottom \in Int
      /\ d.pos \in Int /\ d \in Display
  BY DEF InStep, Display
<1>4. /\ 0 <= d.x /\ d.x <= Cols /\ 0 <= d.y /\ d.y < Lines /\ d.y \in Row
      /\ 0 <= d.top /\ d.bottom <= Lines /\ d.top < d.bottom
  <2>1. /\ 0 <= d.x /\ d.x <= Cols
    BY <1>1, Sizes
  <2>2. /\ 0 <= d.y /\ d.y < Lines /\ d.y \in Row
    BY <1>1, Sizes DEF Row
  <2>3. 0 <= d.top /\ d.bottom <= Lines /\ d.top < d.bottom
    BY <1>1, <1>3, Sizes
  <2>4. QED
    BY <2>1, <2>2, <2>3
<1>5. /\ d.scr_end = d.origin + RowAt(Lines) /\ d.origin + RowAt(Lines) <= MemEnd
      /\ d.pos = d.origin + RowAt(d.y) + d.x
  BY <1>1, <1>2
<1>6. QED
  BY <1>1, <1>3, <1>4, <1>5

\* Rows moved up in memory are rows scrolled up.
LEMMA ScrupSlowShown ==
    ASSUME NEW d, InStep(d)
    PROVE  /\ InStep(ScrupSlow(d)) /\ SameCursor(d, ScrupSlow(d))
           /\ Shows(ScrupSlow(d)) = S!Up(Shows(d), d.top, d.bottom, 1)
<1>1. PICK o, t, b : o = d.origin /\ t = d.top /\ b = d.bottom
  OBVIOUS
<1> DEFINE d1 == MoveBlock(d, t, 0, b - 1, 0, Cols)
           e == FillBlock(d1, b - 1, 0, b, 0)
<1>2. /\ o \in Int /\ o >= 0 /\ o + RowAt(Lines) <= MemEnd
      /\ t \in Int /\ 0 <= t /\ b \in Int /\ b <= Lines /\ t < b
      /\ Cols \in Int /\ Cols > 0 /\ MemEnd \in Int /\ Lines \in Int
  BY <1>1, Statics, Sizes
<1>3. t \in Nat /\ b \in 0..Lines /\ b - 1 \in Int /\ 0 \in 0..Cols
  BY <1>2
<1>4. /\ RowAt(t) \in Int /\ RowAt(b - 1) \in Int /\ RowAt(b) \in Int /\ RowAt(Lines) \in Int
      /\ RowAt(b - 1) = RowAt(b) - Cols /\ Cols * t = RowAt(t)
      /\ (b - t - 1) * Cols = RowAt(b - 1) - RowAt(t)
      /\ RowAt(b) <= RowAt(Lines) /\ 0 <= RowAt(t)
  <2>1. (b - 1 - t) * Cols = RowAt(b - 1) - RowAt(t) /\ b - t - 1 = b - 1 - t
    BY <1>2, <1>3, Rows
  <2>2. RowAt(b) <= RowAt(Lines) /\ 0 <= RowAt(t)
    BY <1>2, RowsInOrder, EndRows
  <2>3. QED
    BY <1>2, <1>3, <2>1, <2>2, Rows
<1>5. /\ InStep(d1) /\ SameWindow(d, d1)
      /\ \A r \in Row, c \in Col :
            Shows(d1)[r][c] = IF Within(r, c, t, 0, b - 1, 0) THEN d.mem[o + RowAt(r) + c + Cols]
                                                             ELSE Shows(d)[r][c]
  <2>1. 0 <= d.origin + RowAt(t) + 0 + Cols /\ d.origin + RowAt(b - 1) + 0 + Cols <= MemEnd
    BY <1>1, <1>2, <1>4
  <2>2. /\ InStep(d1) /\ SameWindow(d, d1)
        /\ \A r \in Row, c \in Col :
              Shows(d1)[r][c] = IF Within(r, c, t, 0, b - 1, 0)
                                THEN d.mem[d.origin + RowAt(r) + c + Cols] ELSE Shows(d)[r][c]
    BY <1>2, <1>3, <2>1, MovedWindow
  <2>3. QED
    BY <1>1, <2>2
<1>6. ScrupSlow(d) = e
  <2>1. /\ o + Cols * t = o + RowAt(t) + 0
        /\ o + Cols * t + Cols = o + RowAt(t) + 0 + Cols
        /\ (b - t - 1) * Cols = RowAt(b - 1) + 0 - (RowAt(t) + 0)
        /\ o + Cols * t + (b - t - 1) * Cols = o + RowAt(b - 1) + 0
        /\ Cols = RowAt(b) + 0 - (RowAt(b - 1) + 0)
    <3> DEFINE n == (b - t - 1) * Cols
               to == Cols * t
    <3>1. n = RowAt(b - 1) - RowAt(t) /\ to = RowAt(t)
      BY <1>4
    <3> HIDE DEF n, to
    <3>2. /\ o + to = o + RowAt(t) + 0 /\ o + to + Cols = o + RowAt(t) + 0 + Cols
          /\ n = RowAt(b - 1) + 0 - (RowAt(t) + 0) /\ o + to + n = o + RowAt(b - 1) + 0
          /\ Cols = RowAt(b) + 0 - (RowAt(b - 1) + 0)
      BY <1>2, <1>4, <3>1
    <3>3. QED
      BY <3>2 DEF n, to
  <2> DEFINE m1 == Moved(d.mem, o + RowAt(t) + 0, o + RowAt(t) + 0 + Cols,
                         RowAt(b - 1) + 0 - (RowAt(t) + 0))
             m2 == Filled(m1, o + RowAt(b - 1) + 0, RowAt(b) + 0 - (RowAt(b - 1) + 0))
  <2>2. ScrupSlow(d) = [d EXCEPT !.mem = m2]
    BY <1>1, <2>1 DEF ScrupSlow
  <2>3. d1 = [d EXCEPT !.mem = m1]
    BY <1>1 DEF MoveBlock
  <2>4. d1.mem = m1 /\ d1.origin = o
    <3> HIDE DEF m1, d1
    <3>1. QED
      BY <1>1, <1>5, <2>3 DEF InStep, Display, SameWindow
  <2>5. e = [d1 EXCEPT !.mem = m2]
    BY <2>4 DEF FillBlock
  <2> HIDE DEF m1, m2, d1, e
  <2>6. QED
    BY <2>2, <2>3, <2>5 DEF InStep, Display
<1> HIDE DEF d1
<1>7. /\ InStep(e) /\ SameWindow(d1, e)
      /\ \A r \in Row, c \in Col :
            Shows(e)[r][c] = IF Within(r, c, b - 1, 0, b, 0) THEN Erased ELSE Shows(d1)[r][c]
  BY <1>2, <1>3, <1>5, FilledWindow
<1> HIDE DEF e
<1>8. ASSUME NEW r \in Row, NEW c \in Col
      PROVE  Shows(e)[r][c] = S!Up(Shows(d), t, b, 1)[r][c]
  <2>1. S!Up(Shows(d), t, b, 1)[r][c] = IF ~(t <= r /\ r < b) THEN Shows(d)[r][c]
                                        ELSE IF r + 1 < b THEN Shows(d)[r + 1][c] ELSE Erased
    BY <1>3, ShowsPicture, UpCells
  <2>2. r \in Int /\ c \in Int /\ 0 <= r /\ 0 <= c
    BY Sizes DEF Row, Col
  <2>3. CASE r = b - 1
    <3>1. Within(r, c, b - 1, 0, b, 0)
      BY <1>2, <2>2, <2>3 DEF Within
    <3>2. QED
      BY <1>2, <1>7, <2>1, <2>2, <2>3, <3>1
  <2>4. CASE t <= r /\ r < b - 1
    <3>1. ~Within(r, c, b - 1, 0, b, 0) /\ Within(r, c, t, 0, b - 1, 0)
      BY <1>2, <2>2, <2>4 DEF Within
    <3>2. r + 1 \in Row
      BY <1>2, <2>2, <2>4 DEF Row
    <3>3. Shows(d)[r + 1][c] = d.mem[o + RowAt(r + 1) + c] /\ RowAt(r + 1) = RowAt(r) + Cols
          /\ RowAt(r) \in Int
      BY <1>1, <2>2, <3>2, CellInMemory, Rows
    <3>4. o + RowAt(r + 1) + c = o + RowAt(r) + c + Cols
      BY <1>2, <2>2, <3>3
    <3>5. Shows(d)[r + 1][c] = d.mem[o + RowAt(r) + c + Cols]
      BY <3>3, <3>4
    <3>6. QED
      BY <1>2, <1>5, <1>7, <2>1, <2>2, <2>4, <3>1, <3>5
  <2>5. CASE r < t \/ b <= r
    <3>1. ~Within(r, c, b - 1, 0, b, 0) /\ ~Within(r, c, t, 0, b - 1, 0)
      BY <1>2, <2>2, <2>5 DEF Within
    <3>2. QED
      BY <1>2, <1>5, <1>7, <2>1, <2>2, <2>5, <3>1
  <2>6. QED
    BY <1>2, <2>2, <2>3, <2>4, <2>5
<1>9. Shows(e) = S!Up(Shows(d), t, b, 1)
  BY <1>3, <1>8, ShowsPicture, UpCells, SamePicture
<1>10. QED
  BY <1>1, <1>5, <1>6, <1>7, <1>9 DEF SameWindow, SameCursor

\* Rows moved down in memory are rows scrolled down.
LEMMA ScrdownShown ==
    ASSUME NEW d, InStep(d)
    PROVE  /\ InStep(Scrdown(d)) /\ SameCursor(d, Scrdown(d))
           /\ Shows(Scrdown(d)) = S!Down(Shows(d), d.top, d.bottom, 1)
<1>1. PICK o, t, b : o = d.origin /\ t = d.top /\ b = d.bottom
  OBVIOUS
<1> DEFINE d1 == MoveBlock(d, t + 1, 0, b, 0, 0 - Cols)
           e == FillBlock(d1, t, 0, t + 1, 0)
<1>2. /\ o \in Int /\ o >= 0 /\ o + RowAt(Lines) <= MemEnd
      /\ t \in Int /\ 0 <= t /\ b \in Int /\ b <= Lines /\ t < b
      /\ Cols \in Int /\ Cols > 0 /\ MemEnd \in Int /\ Lines \in Int
  BY <1>1, Statics, Sizes
<1>3. t \in Nat /\ b \in 0..Lines /\ t + 1 \in Int /\ 0 \in 0..Cols /\ 0 - Cols \in Int
  BY <1>2
<1>4. /\ RowAt(t) \in Int /\ RowAt(t + 1) \in Int /\ RowAt(b) \in Int /\ RowAt(Lines) \in Int
      /\ RowAt(t + 1) = RowAt(t) + Cols /\ Cols * t = RowAt(t)
      /\ (b - t - 1) * Cols = RowAt(b) - RowAt(t + 1)
      /\ RowAt(b) <= RowAt(Lines) /\ 0 <= RowAt(t)
  <2>1. (b - (t + 1)) * Cols = RowAt(b) - RowAt(t + 1) /\ b - t - 1 = b - (t + 1)
    BY <1>2, <1>3, Rows
  <2>2. RowAt(b) <= RowAt(Lines) /\ 0 <= RowAt(t)
    BY <1>2, RowsInOrder, EndRows
  <2>3. QED
    BY <1>2, <1>3, <2>1, <2>2, Rows
<1>5. /\ InStep(d1) /\ SameWindow(d, d1)
      /\ \A r \in Row, c \in Col :
            Shows(d1)[r][c] = IF Within(r, c, t + 1, 0, b, 0)
                              THEN d.mem[o + RowAt(r) + c + (0 - Cols)] ELSE Shows(d)[r][c]
  <2>1. /\ 0 <= d.origin + RowAt(t + 1) + 0 + (0 - Cols)
        /\ d.origin + RowAt(b) + 0 + (0 - Cols) <= MemEnd
    BY <1>1, <1>2, <1>4
  <2>2. /\ InStep(d1) /\ SameWindow(d, d1)
        /\ \A r \in Row, c \in Col :
              Shows(d1)[r][c] = IF Within(r, c, t + 1, 0, b, 0)
                                THEN d.mem[d.origin + RowAt(r) + c + (0 - Cols)] ELSE Shows(d)[r][c]
    BY <1>2, <1>3, <2>1, MovedWindow
  <2>3. QED
    BY <1>1, <2>2
<1>6. Scrdown(d) = e
  <2>1. /\ o + Cols * t + Cols = o + RowAt(t + 1) + 0
        /\ o + Cols * t = o + RowAt(t + 1) + 0 + (0 - Cols)
        /\ o + Cols * t = o + RowAt(t) + 0
        /\ (b - t - 1) * Cols = RowAt(b) + 0 - (RowAt(t + 1) + 0)
        /\ Cols = RowAt(t + 1) + 0 - (RowAt(t) + 0)
    <3> DEFINE n == (b - t - 1) * Cols
               to == Cols * t
    <3>1. n = RowAt(b) - RowAt(t + 1) /\ to = RowAt(t)
      BY <1>4
    <3> HIDE DEF n, to
    <3>2. /\ o + to + Cols = o + RowAt(t + 1) + 0 /\ o + to = o + RowAt(t + 1) + 0 + (0 - Cols)
          /\ o + to = o + RowAt(t) + 0
          /\ n = RowAt(b) + 0 - (RowAt(t + 1) + 0)
          /\ Cols = RowAt(t + 1) + 0 - (RowAt(t) + 0)
      BY <1>2, <1>4, <3>1
    <3>3. QED
      BY <3>2 DEF n, to
  <2> DEFINE m1 == Moved(d.mem, o + RowAt(t + 1) + 0, o + RowAt(t + 1) + 0 + (0 - Cols),
                         RowAt(b) + 0 - (RowAt(t + 1) + 0))
             m2 == Filled(m1, o + RowAt(t) + 0, RowAt(t + 1) + 0 - (RowAt(t) + 0))
  <2>2. Scrdown(d) = [d EXCEPT !.mem = m2]
    <3>1. Scrdown(d) = [d EXCEPT !.mem = Filled(Moved(d.mem, o + Cols * t + Cols, o + Cols * t,
                                                      (b - t - 1) * Cols), o + Cols * t, Cols)]
      BY <1>1 DEF Scrdown
    <3>2. Moved(d.mem, o + Cols * t + Cols, o + Cols * t, (b - t - 1) * Cols) = m1
      BY ONLY <2>1
    <3>3. Filled(m1, o + Cols * t, Cols) = m2
      <4> HIDE DEF m1
      <4>1. QED
        BY ONLY <2>1
    <3>4. QED
      BY ONLY <3>1, <3>2, <3>3
  <2>3. d1 = [d EXCEPT !.mem = m1]
    BY <1>1 DEF MoveBlock
  <2>4. d1.mem = m1 /\ d1.origin = o
    <3> HIDE DEF m1, d1
    <3>1. QED
      BY <1>1, <1>5, <2>3 DEF InStep, Display, SameWindow
  <2>5. e = [d1 EXCEPT !.mem = m2]
    BY <2>4 DEF FillBlock
  <2> HIDE DEF m1, m2, d1, e
  <2>6. QED
    BY <2>2, <2>3, <2>5 DEF InStep, Display
<1> HIDE DEF d1
<1>7. /\ InStep(e) /\ SameWindow(d1, e)
      /\ \A r \in Row, c \in Col :
            Shows(e)[r][c] = IF Within(r, c, t, 0, t + 1, 0) THEN Erased ELSE Shows(d1)[r][c]
  BY <1>2, <1>3, <1>5, FilledWindow
<1> HIDE DEF e
<1>8. ASSUME NEW r \in Row, NEW c \in Col
      PROVE  Shows(e)[r][c] = S!Down(Shows(d), t, b, 1)[r][c]
  <2>1. S!Down(Shows(d), t, b, 1)[r][c] = IF ~(t <= r /\ r < b) THEN Shows(d)[r][c]
                                          ELSE IF t <= r - 1 THEN Shows(d)[r - 1][c] ELSE Erased
    BY <1>3, ShowsPicture, DownCells
  <2>2. r \in Int /\ c \in Int /\ 0 <= r /\ 0 <= c
    BY Sizes DEF Row, Col
  <2>3. CASE r = t
    <3>1. Within(r, c, t, 0, t + 1, 0)
      BY <1>2, <2>2, <2>3 DEF Within
    <3>2. QED
      BY <1>2, <1>7, <2>1, <2>2, <2>3, <3>1
  <2>4. CASE t + 1 <= r /\ r < b
    <3>1. ~Within(r, c, t, 0, t + 1, 0) /\ Within(r, c, t + 1, 0, b, 0)
      BY <1>2, <2>2, <2>4 DEF Within
    <3>2. r - 1 \in Row
      BY <1>2, <2>2, <2>4 DEF Row
    <3>3. Shows(d)[r - 1][c] = d.mem[o + RowAt(r - 1) + c] /\ RowAt(r - 1) = RowAt(r) - Cols
          /\ RowAt(r) \in Int
      BY <1>1, <2>2, <3>2, CellInMemory, Rows
    <3>4. o + RowAt(r - 1) + c = o + RowAt(r) + c + (0 - Cols)
      BY <1>2, <2>2, <3>3
    <3>5. Shows(d)[r - 1][c] = d.mem[o + RowAt(r) + c + (0 - Cols)]
      BY <3>3, <3>4
    <3>6. QED
      BY <1>2, <1>5, <1>7, <2>1, <2>2, <2>4, <3>1, <3>5
  <2>5. CASE r < t \/ b <= r
    <3>1. ~Within(r, c, t, 0, t + 1, 0) /\ ~Within(r, c, t + 1, 0, b, 0)
      BY <1>2, <2>2, <2>5 DEF Within
    <3>2. QED
      BY <1>2, <1>5, <1>7, <2>1, <2>2, <2>5, <3>1
  <2>6. QED
    BY <1>2, <2>2, <2>3, <2>4, <2>5
<1>9. Shows(e) = S!Down(Shows(d), t, b, 1)
  BY <1>3, <1>8, ShowsPicture, DownCells, SamePicture
<1>10. QED
  BY <1>1, <1>5, <1>6, <1>7, <1>9 DEF SameWindow, SameCursor

\* The window moved one row down in memory, and the row it uncovers erased.
LEMMA NextRowShown ==
    ASSUME NEW d, InStep(d), NEW d1, InStep(d1), d1.top = 0, d1.bottom = Lines,
           \A r \in Row, c \in Col : r + 1 < Lines => Shows(d1)[r][c] = Shows(d)[r + 1][c]
    PROVE  /\ InStep(FillBlock(d1, Lines - 1, 0, Lines, 0))
           /\ SameCursor(d1, FillBlock(d1, Lines - 1, 0, Lines, 0))
           /\ Shows(FillBlock(d1, Lines - 1, 0, Lines, 0)) = S!Up(Shows(d), 0, Lines, 1)
<1> DEFINE e == FillBlock(d1, Lines - 1, 0, Lines, 0)
<1>1. Lines \in Int /\ Lines - 1 \in Int /\ 0 \in 0..Cols /\ 0 \in Nat /\ Lines \in 0..Lines
          /\ 1 \in Nat
  BY Sizes
<1>2. /\ InStep(e) /\ SameWindow(d1, e)
      /\ \A r \in Row, c \in Col :
            Shows(e)[r][c] = IF Within(r, c, Lines - 1, 0, Lines, 0)
                THEN Erased ELSE Shows(d1)[r][c]
  BY <1>1, FilledWindow
<1> HIDE DEF e
<1>3. ASSUME NEW r \in Row, NEW c \in Col
      PROVE  Shows(e)[r][c] = S!Up(Shows(d), 0, Lines, 1)[r][c]
  <2>1. S!Up(Shows(d), 0, Lines, 1)[r][c] = IF ~(0 <= r /\ r < Lines) THEN Shows(d)[r][c]
                                            ELSE IF r + 1 < Lines
                                                THEN Shows(d)[r + 1][c] ELSE Erased
    BY <1>1, ShowsPicture, UpCells
  <2>2. r \in Int /\ c \in Int /\ 0 <= r /\ 0 <= c /\ r < Lines
    BY Sizes DEF Row, Col
  <2>3. CASE r + 1 < Lines
    <3>1. ~Within(r, c, Lines - 1, 0, Lines, 0)
      BY <1>1, <2>2, <2>3 DEF Within
    <3>2. QED
      BY <1>2, <2>1, <2>2, <2>3, <3>1
  <2>4. CASE ~(r + 1 < Lines)
    <3>1. Within(r, c, Lines - 1, 0, Lines, 0)
      BY <1>1, <2>2, <2>4 DEF Within
    <3>2. QED
      BY <1>2, <2>1, <2>2, <2>4, <3>1
  <2>5. QED
    BY <2>3, <2>4
<1>4. Shows(e) = S!Up(Shows(d), 0, Lines, 1)
  BY <1>1, <1>3, ShowsPicture, UpCells, SamePicture
<1>5. QED
  BY <1>2, <1>4 DEF e, SameWindow

\* Moving the origin, and going back to the start of memory, scroll up the whole display.
LEMMA ScrupFastShown ==
    ASSUME NEW d, InStep(d), d.top = 0, d.bottom = Lines
    PROVE  /\ InStep(ScrupFast(d)) /\ SameCursor(d, ScrupFast(d))
           /\ Shows(ScrupFast(d)) = S!Up(Shows(d), 0, Lines, 1)
<1>1. PICK o, e, k : o = d.origin + Cols /\ e = d.scr_end + Cols /\ k = (Lines - 1) * Cols
  OBVIOUS
<1>2. /\ d.origin \in Int /\ d.origin >= 0 /\ d.scr_end = d.origin + RowAt(Lines)
      /\ d.scr_end <= MemEnd /\ d.pos = d.origin + RowAt(d.y) + d.x
      /\ d.x \in Int /\ d.y \in Int /\ d.y \in Row /\ d.x \in 0..Cols
      /\ Lines \in Int /\ Lines > 0 /\ Cols \in Int /\ Cols > 0 /\ MemEnd \in Int /\ MemEnd >= 0
  BY Statics, Sizes
<1>3. /\ RowAt(Lines - 1) \in Int /\ RowAt(Lines) \in Int /\ RowAt(Lines - 1) = RowAt(Lines) - Cols
      /\ k = RowAt(Lines - 1) /\ RowAt(d.y) \in Int /\ RowAt(0) = 0 /\ RowAt(Lines) <= MemEnd
      /\ Lines * Cols = RowAt(Lines) /\ d.y * Cols = RowAt(d.y) /\ Lines - 1 \in Int
  <2>1. RowAt(Lines) <= RowAt(MemRows)
    BY Sizes, RowsInOrder
  <2>2. Lines - 1 \in Int
    BY <1>2
  <2>3. k = RowAt(Lines - 1)
    BY <1>1, <2>2, Rows
  <2>4. QED
    BY <1>2, <2>1, <2>2, <2>3, Rows, EndRows
<1>4. /\ o \in Int /\ e \in Int /\ o >= Cols /\ e = o + RowAt(Lines) /\ e - Cols = d.scr_end
      /\ e - o = RowAt(Lines) /\ d.pos \in Int
  BY <1>1, <1>2, <1>3
<1>5. ASSUME NEW r \in Row, NEW c \in Col, r + 1 < Lines
      PROVE  /\ Shows(d)[r + 1][c] = d.mem[o + RowAt(r) + c]
             /\ r \in Int /\ c \in Int /\ 0 <= r /\ 0 <= c /\ c < Cols /\ RowAt(r) \in Int
  <2>1. r \in Int /\ c \in Int /\ 0 <= r /\ 0 <= c /\ c < Cols
    BY Sizes DEF Row, Col
  <2>2. r + 1 \in Row
    BY <1>5, <2>1, Sizes DEF Row
  <2>3. RowAt(r + 1) = RowAt(r) + Cols /\ RowAt(r) \in Int
    BY <2>1, Rows
  <2>4. Shows(d)[r + 1][c] = d.mem[d.origin + RowAt(r + 1) + c]
    BY <2>2, CellInMemory
  <2>5. d.origin + RowAt(r + 1) + c = o + RowAt(r) + c
    BY <1>1, <1>2, <2>1, <2>3
  <2>6. QED
    BY <2>1, <2>3, <2>4, <2>5
<1>6. CASE ~(e > MemEnd)
  <2> DEFINE d1 == [d EXCEPT !.origin = o, !.scr_end = e, !.pos = @ + Cols]
  <2>1. /\ d1.origin = o /\ d1.mem = d.mem /\ d1.scr_end = e /\ d1.pos = d.pos + Cols
        /\ SameCursor(d, d1) /\ d1 \in Display
    <3>1. d \in Display /\ o \in Int /\ e \in Int /\ d.pos + Cols \in Int
      BY <1>2, <1>4 DEF InStep
    <3>2. PICK pos \in Int : pos = d.pos + Cols
      BY <3>1
    <3>3. d1 = [d EXCEPT !.origin = o, !.scr_end = e, !.pos = pos]
      BY <3>2
    <3> HIDE DEF d1
    <3>4. QED
      BY ONLY <3>1, <3>2, <3>3 DEF Display, SameCursor
  <2>2. ScrupFast(d) = FillBlock(d1, Lines - 1, 0, Lines, 0)
    <3>1. /\ o + RowAt(Lines - 1) + 0 = e - Cols
          /\ RowAt(Lines) + 0 - (RowAt(Lines - 1) + 0) = Cols
      BY <1>2, <1>3, <1>4
    <3>2. ScrupFast(d) = [d EXCEPT !.mem = Filled(@, e - Cols, Cols),
                                   !.origin = o, !.scr_end = e, !.pos = @ + Cols]
      BY <1>1, <1>6 DEF ScrupFast
    <3>3. FillBlock(d1, Lines - 1, 0, Lines, 0) = [d1 EXCEPT !.mem = Filled(d.mem, e - Cols, Cols)]
      BY <2>1, <3>1 DEF FillBlock
    <3>4. QED
      BY <3>2, <3>3 DEF InStep, Display
  <2>3. InStep(d1)
    <3>1. d1.pos = d1.origin + d1.y * Cols + d1.x /\ d1.scr_end = d1.origin + Lines * Cols
      <4>1. d.pos + Cols = o + RowAt(d.y) + d.x
        BY <1>1, <1>2, <1>3
      <4>2. QED
        BY <1>3, <1>4, <2>1, <4>1 DEF SameCursor
    <3>2. d1.x \in 0..Cols /\ d1.y \in Row /\ d1.top \in 0..(d1.bottom - 1)
              /\ d1.bottom \in 1..Lines
      BY <2>1 DEF SameCursor, InStep
    <3>3. d1.origin >= 0 /\ d1.scr_end <= MemEnd
      BY <1>2, <1>4, <1>6, <2>1
    <3> HIDE DEF d1
    <3>4. QED
      BY <2>1, <3>1, <3>2, <3>3 DEF InStep
  <2> HIDE DEF d1
  <2>4. ASSUME NEW r \in Row, NEW c \in Col, r + 1 < Lines
        PROVE  Shows(d1)[r][c] = Shows(d)[r + 1][c]
    BY <1>5, <2>1, <2>3, <2>4, CellInMemory
  <2>5. d1.top = 0 /\ d1.bottom = Lines
    BY <2>1 DEF SameCursor
  <2>6. QED
    BY <2>1, <2>2, <2>3, <2>4, <2>5, NextRowShown DEF SameCursor
<1>7. CASE e > MemEnd
  <2> DEFINE d0 == [d EXCEPT !.origin = 0, !.scr_end = e - o, !.pos = @ + Cols - o]
             d1 == MoveBlock(d0, 0, 0, Lines - 1, 0, o)
  <2>1. /\ d0.origin = 0 /\ d0.mem = d.mem /\ d0.scr_end = e - o /\ d0.pos = d.pos + Cols - o
        /\ SameCursor(d, d0) /\ d0 \in Display
    <3>1. d \in Display /\ 0 \in Int /\ e - o \in Int /\ d.pos + Cols - o \in Int
      BY <1>2, <1>4 DEF InStep
    <3>2. PICK pos \in Int, end \in Int : pos = d.pos + Cols - o /\ end = e - o
      BY <3>1
    <3>3. d0 = [d EXCEPT !.origin = 0, !.scr_end = end, !.pos = pos]
      BY <3>2
    <3> HIDE DEF d0
    <3>4. QED
      BY ONLY <3>1, <3>2, <3>3 DEF Display, SameCursor
  <2>2. InStep(d0)
    <3>1. d0.pos = d0.origin + d0.y * Cols + d0.x /\ d0.scr_end = d0.origin + Lines * Cols
      <4>1. d.pos + Cols - o = 0 + RowAt(d.y) + d.x /\ e - o = 0 + RowAt(Lines)
        BY <1>1, <1>2, <1>3, <1>4
      <4>2. QED
        BY <1>3, <2>1, <4>1 DEF SameCursor
    <3>2. d0.x \in 0..Cols /\ d0.y \in Row /\ d0.top \in 0..(d0.bottom - 1)
              /\ d0.bottom \in 1..Lines
      BY <2>1 DEF SameCursor, InStep
    <3>3. d0.origin >= 0 /\ d0.scr_end <= MemEnd
      BY <1>2, <1>3, <1>4, <2>1
    <3> HIDE DEF d0
    <3>4. QED
      BY <2>1, <3>1, <3>2, <3>3 DEF InStep
  <2> HIDE DEF d0
  <2>3. /\ InStep(d1) /\ SameWindow(d0, d1)
        /\ \A r \in Row, c \in Col :
              Shows(d1)[r][c] = IF Within(r, c, 0, 0, Lines - 1, 0)
                                THEN d0.mem[d0.origin + RowAt(r) + c + o] ELSE Shows(d0)[r][c]
    <3>1. 0 <= d0.origin + RowAt(0) + 0 + o /\ d0.origin + RowAt(Lines - 1) + 0 + o <= MemEnd
      BY <1>2, <1>3, <1>4, <2>1
    <3>2. 0 \in Int /\ 0 \in 0..Cols
      BY Sizes
    <3>3. QED
      BY <1>3, <1>4, <2>2, <3>1, <3>2, MovedWindow
  <2>4. ScrupFast(d) = FillBlock(d1, Lines - 1, 0, Lines, 0)
    <3> DEFINE m1 == Moved(d.mem, 0, o, k)
    <3>1. /\ 0 + RowAt(Lines - 1) + 0 = k /\ RowAt(Lines) + 0 - (RowAt(Lines - 1) + 0) = Cols
          /\ 0 + RowAt(0) + 0 = 0 /\ 0 + RowAt(0) + 0 + o = o
          /\ RowAt(Lines - 1) + 0 - (RowAt(0) + 0) = k
      BY <1>2, <1>3, <1>4
    <3>2. ScrupFast(d) = [d EXCEPT !.mem = Filled(m1, k, Cols),
                                   !.scr_end = e - o, !.pos = @ + Cols - o, !.origin = 0]
      BY <1>1, <1>7 DEF ScrupFast
    <3>3. d1 = [d0 EXCEPT !.mem = m1]
      BY <2>1, <3>1 DEF MoveBlock
    <3>4. d1.mem = m1 /\ d1.origin = 0
      <4> HIDE DEF m1, d1
      <4>1. QED
        BY <2>1, <3>3 DEF Display
    <3>5. FillBlock(d1, Lines - 1, 0, Lines, 0) = [d1 EXCEPT !.mem = Filled(m1, k, Cols)]
      <4> HIDE DEF m1, d1
      <4>1. QED
        BY <3>1, <3>4 DEF FillBlock
    <3>6. FillBlock(d1, Lines - 1, 0, Lines, 0) = [d0 EXCEPT !.mem = Filled(m1, k, Cols)]
      <4> HIDE DEF m1, d1
      <4>1. QED
        BY <2>1, <3>3, <3>5 DEF Display
    <3> HIDE DEF m1, d1
    <3>7. QED
      BY <3>2, <3>6 DEF InStep, Display, d0
  <2> HIDE DEF d1
  <2>5. ASSUME NEW r \in Row, NEW c \in Col, r + 1 < Lines
        PROVE  Shows(d1)[r][c] = Shows(d)[r + 1][c]
    <3>1. r \in Int /\ c \in Int /\ 0 <= r /\ 0 <= c /\ c < Cols /\ RowAt(r) \in Int
          /\ Shows(d)[r + 1][c] = d.mem[o + RowAt(r) + c]
      BY <1>5, <2>5
    <3>2. Within(r, c, 0, 0, Lines - 1, 0)
      BY <1>2, <2>5, <3>1 DEF Within
    <3>3. 0 + RowAt(r) + c + o = o + RowAt(r) + c
      BY <1>4, <3>1
    <3>4. QED
      BY <2>1, <2>3, <3>1, <3>2, <3>3
  <2>6. d1.top = 0 /\ d1.bottom = Lines /\ SameCursor(d, d1)
    BY <2>1, <2>3 DEF SameCursor, SameWindow
  <2>7. QED
    BY <2>3, <2>4, <2>5, <2>6, NextRowShown DEF SameCursor
<1>8. QED
  BY <1>6, <1>7

\* scrup scrolls the region up, on every adapter.
LEMMA ScrupShown ==
    ASSUME NEW d, InStep(d)
    PROVE  /\ InStep(Scrup(d)) /\ SameCursor(d, Scrup(d))
           /\ Shows(Scrup(d)) = S!Up(Shows(d), d.top, d.bottom, 1)
BY ScrupSlowShown, ScrupFastShown DEF Scrup

----------------------------------------------------------------------------
\* The cursor.

\* A display that differs in its cursor only, and whose cursor is in step, is in step and
\* shows the same.
LEMMA CursorMoves ==
    ASSUME NEW d, InStep(d), NEW e, e \in Display,
           e.mem = d.mem, e.origin = d.origin, e.scr_end = d.scr_end,
           e.top = d.top, e.bottom = d.bottom, e.x \in 0..Cols, e.y \in Row,
           e.pos = d.origin + RowAt(e.y) + e.x
    PROVE  InStep(e) /\ Shows(e) = Shows(d)
<1>1. e.pos = e.origin + e.y * Cols + e.x
  BY DEF RowAt
<1>2. QED
  BY <1>1 DEF InStep, Shows

\* What line feed makes of the display and of the row.
Fed(d) == IF d.y + 1 < d.bottom THEN Shows(d) ELSE S!Up(Shows(d), d.top, d.bottom, 1)
FedY(d) == IF d.y + 1 < d.bottom THEN d.y + 1 ELSE d.y

\* lf goes down a row or scrolls the region up.
LEMMA LfShown ==
    ASSUME NEW d, InStep(d)
    PROVE  /\ InStep(Lf(d)) /\ Shows(Lf(d)) = Fed(d)
           /\ Lf(d).x = d.x /\ Lf(d).y = FedY(d) /\ Lf(d).top = d.top /\ Lf(d).bottom = d.bottom
<1>1. CASE d.y + 1 < d.bottom
  <2> DEFINE e == [d EXCEPT !.y = @ + 1, !.pos = @ + Cols]
  <2>1. /\ d \in Display /\ d.y \in Int /\ d.pos \in Int /\ Cols \in Int /\ d.bottom <= Lines
        /\ d.bottom \in Int /\ Lines \in Int /\ 0 <= d.y /\ d.x \in 0..Cols
        /\ d.pos = d.origin + RowAt(d.y) + d.x /\ d.origin \in Int /\ d.x \in Int
    BY Statics, Sizes
  <2>2. d.y + 1 \in Int /\ d.pos + Cols \in Int /\ d.y + 1 \in Row
    BY <1>1, <2>1 DEF Row
  <2>3. d.pos + Cols = d.origin + RowAt(d.y + 1) + d.x
    <3>1. RowAt(d.y + 1) = RowAt(d.y) + Cols /\ RowAt(d.y) \in Int
      BY <2>1, Rows
    <3>2. QED
      BY <2>1, <3>1
  <2>4. PICK ny, pos : ny = d.y + 1 /\ pos = d.pos + Cols
    OBVIOUS
  <2>5. e = [d EXCEPT !.y = ny, !.pos = pos]
    BY <2>4
  <2> HIDE DEF e
  <2>6. /\ e \in Display /\ e.mem = d.mem /\ e.origin = d.origin /\ e.scr_end = d.scr_end
        /\ e.top = d.top /\ e.bottom = d.bottom /\ e.x = d.x /\ e.y = ny /\ e.pos = pos
    BY <2>1, <2>2, <2>4, <2>5 DEF Display
  <2>7. InStep(e) /\ Shows(e) = Shows(d)
    BY <2>1, <2>2, <2>3, <2>4, <2>6, CursorMoves
  <2>8. Lf(d) = e
    BY <1>1 DEF Lf, e
  <2>9. QED
    BY <1>1, <2>4, <2>6, <2>7, <2>8 DEF Fed, FedY
<1>2. CASE ~(d.y + 1 < d.bottom)
  BY <1>2, ScrupShown DEF Lf, Fed, FedY, SameCursor
<1>3. QED
  BY <1>1, <1>2

\* ri goes up a row or scrolls the region down.
LEMMA RiShown ==
    ASSUME NEW d, InStep(d)
    PROVE  /\ InStep(Ri(d))
           /\ Ri(d).x = d.x /\ Ri(d).top = d.top /\ Ri(d).bottom = d.bottom
           /\ IF d.y > d.top THEN Ri(d).y = d.y - 1 /\ Shows(Ri(d)) = Shows(d)
              ELSE Ri(d).y = d.y /\ Shows(Ri(d)) = S!Down(Shows(d), d.top, d.bottom, 1)
<1>1. CASE d.y > d.top
  <2> DEFINE e == [d EXCEPT !.y = @ - 1, !.pos = @ - Cols]
  <2>1. /\ d \in Display /\ d.y \in Int /\ d.pos \in Int /\ Cols \in Int /\ 0 <= d.top
        /\ d.top \in Int /\ Lines \in Int /\ d.y < Lines /\ d.x \in 0..Cols
        /\ d.pos = d.origin + RowAt(d.y) + d.x /\ d.origin \in Int /\ d.x \in Int
    BY Statics, Sizes
  <2>2. d.y - 1 \in Int /\ d.pos - Cols \in Int /\ d.y - 1 \in Row
    BY <1>1, <2>1 DEF Row
  <2>3. d.pos - Cols = d.origin + RowAt(d.y - 1) + d.x
    <3>1. RowAt(d.y - 1) = RowAt(d.y) - Cols /\ RowAt(d.y) \in Int
      BY <2>1, Rows
    <3>2. QED
      BY <2>1, <3>1
  <2>4. PICK ny, pos : ny = d.y - 1 /\ pos = d.pos - Cols
    OBVIOUS
  <2>5. e = [d EXCEPT !.y = ny, !.pos = pos]
    BY <2>4
  <2> HIDE DEF e
  <2>6. /\ e \in Display /\ e.mem = d.mem /\ e.origin = d.origin /\ e.scr_end = d.scr_end
        /\ e.top = d.top /\ e.bottom = d.bottom /\ e.x = d.x /\ e.y = ny /\ e.pos = pos
    BY <2>1, <2>2, <2>4, <2>5 DEF Display
  <2>7. InStep(e) /\ Shows(e) = Shows(d)
    BY <2>1, <2>2, <2>3, <2>4, <2>6, CursorMoves
  <2>8. Ri(d) = e
    BY <1>1 DEF Ri, e
  <2>9. QED
    BY <1>1, <2>4, <2>6, <2>7, <2>8
<1>2. CASE ~(d.y > d.top)
  BY <1>2, ScrdownShown DEF Ri, SameCursor
<1>3. QED
  BY <1>1, <1>2

\* The cursor moved to column nx of its row, whatever expression gives it.
InColumn(d, nx) == [d EXCEPT !.x = nx, !.pos = d.pos + nx - d.x]

\* A move in the row.
LEMMA InColumnShown ==
    ASSUME NEW d, InStep(d), NEW nx \in 0..Cols
    PROVE  /\ InStep(InColumn(d, nx)) /\ Shows(InColumn(d, nx)) = Shows(d)
           /\ InColumn(d, nx).x = nx /\ InColumn(d, nx).y = d.y
           /\ InColumn(d, nx).top = d.top /\ InColumn(d, nx).bottom = d.bottom
<1> DEFINE e == InColumn(d, nx)
<1>1. /\ d \in Display /\ d.x \in Int /\ d.pos \in Int /\ nx \in Int /\ d.y \in Row
      /\ d.pos = d.origin + RowAt(d.y) + d.x /\ d.origin \in Int /\ RowAt(d.y) \in Int
  <2>1. d.y \in Int
    BY Statics
  <2>2. RowAt(d.y) \in Int
    BY <2>1, Rows
  <2>3. nx \in Int
    BY Sizes
  <2>4. QED
    BY <2>2, <2>3, Statics
<1>2. PICK pos \in Int : pos = d.pos + nx - d.x
  BY <1>1
<1>3. pos = d.origin + RowAt(d.y) + nx
  BY <1>1, <1>2
<1>4. e = [d EXCEPT !.x = nx, !.pos = pos]
  BY <1>2 DEF InColumn
<1> HIDE DEF e
<1>5. /\ e \in Display /\ e.mem = d.mem /\ e.origin = d.origin /\ e.scr_end = d.scr_end
      /\ e.top = d.top /\ e.bottom = d.bottom /\ e.x = nx /\ e.y = d.y /\ e.pos = pos
  BY <1>1, <1>4 DEF Display
<1>6. InStep(e) /\ Shows(e) = Shows(d)
  BY <1>1, <1>3, <1>5, CursorMoves
<1>7. QED
  BY <1>5, <1>6 DEF e

\* gotoxy leaves the display alone, and the cursor on it.
LEMMA GotoXYShown ==
    ASSUME NEW d, InStep(d), NEW nx \in Nat, NEW ny \in Nat
    PROVE  /\ InStep(GotoXY(d, nx, ny)) /\ Shows(GotoXY(d, nx, ny)) = Shows(d)
           /\ GotoXY(d, nx, ny).top = d.top /\ GotoXY(d, nx, ny).bottom = d.bottom
           /\ GotoXY(d, nx, ny).x \in 0..Cols /\ GotoXY(d, nx, ny).y \in Row
<1>1. CASE nx > Cols \/ ny >= Lines
  BY <1>1, Statics DEF GotoXY
<1>2. CASE ~(nx > Cols \/ ny >= Lines)
  <2> DEFINE e == [d EXCEPT !.x = nx, !.y = ny, !.pos = d.origin + ny * Cols + nx]
  <2>1. d \in Display /\ d.origin \in Int /\ nx \in 0..Cols /\ ny \in Row /\ ny \in Int
            /\ nx \in Int
    BY <1>2, Statics, Sizes DEF InStep, Row
  <2>2. RowAt(ny) \in Int /\ ny * Cols = RowAt(ny)
    BY <2>1, Rows
  <2>3. PICK pos \in Int : pos = d.origin + RowAt(ny) + nx
    BY <2>1, <2>2
  <2>4. e = [d EXCEPT !.x = nx, !.y = ny, !.pos = pos]
    BY <2>2, <2>3
  <2> HIDE DEF e
  <2>5. /\ e \in Display /\ e.mem = d.mem /\ e.origin = d.origin /\ e.scr_end = d.scr_end
        /\ e.top = d.top /\ e.bottom = d.bottom /\ e.x = nx /\ e.y = ny /\ e.pos = pos
    BY <2>1, <2>4 DEF Display
  <2>6. InStep(e) /\ Shows(e) = Shows(d)
    BY <2>1, <2>3, <2>5, CursorMoves
  <2>7. GotoXY(d, nx, ny) = e
    BY <1>2 DEF GotoXY, e
  <2>8. QED
    BY <2>1, <2>5, <2>6, <2>7
<1>3. QED
  BY <1>1, <1>2

\* Carriage return.
LEMMA CrShown ==
    ASSUME NEW d, InStep(d)
    PROVE  /\ InStep(Cr(d)) /\ Shows(Cr(d)) = Shows(d) /\ Cr(d).x \in 0..Cols /\ Cr(d).y \in Row
           /\ Cr(d).top = d.top /\ Cr(d).bottom = d.bottom
<1>1. d.pos \in Int /\ d.x \in Int /\ d.x \in 0..Cols /\ d.y \in Row /\ 0 \in 0..Cols
          /\ d \in Display
  BY Statics, Sizes DEF InStep, Display
<1>2. d.pos - d.x = d.pos + 0 - d.x
  BY <1>1
<1>3. Cr(d) = InColumn(d, 0)
  <2>1. PICK pos : pos = d.pos - d.x
    OBVIOUS
  <2>2. Cr(d) = [[d EXCEPT !.pos = pos] EXCEPT !.x = 0] /\ InColumn(d, 0) = [[d EXCEPT !.x = 0] EXCEPT !.pos = pos]
    BY <1>1, <1>2, <2>1 DEF Cr, InColumn, Display
  <2>3. QED
    BY <1>1, <2>2 DEF Display
<1>4. QED
  BY <1>1, <1>3, InColumnShown

\* A column behind the last goes to the next line.
LEMMA WrapShown ==
    ASSUME NEW d, InStep(d), NEW nx \in 0..Cols, NEW e,
           Wrap(e) = Lf(InColumn(d, nx))
    PROVE  /\ InStep(Wrap(e)) /\ Shows(Wrap(e)) = Fed(d)
           /\ Wrap(e).x = nx /\ Wrap(e).y = FedY(d)
           /\ Wrap(e).top = d.top /\ Wrap(e).bottom = d.bottom
<1>1. Fed(InColumn(d, nx)) = Fed(d) /\ FedY(InColumn(d, nx)) = FedY(d)
  BY InColumnShown DEF Fed, FedY
<1>2. QED
  BY <1>1, InColumnShown, LfShown

\* Backspace.
LEMMA BackspaceShown ==
    ASSUME InStep(con)
    PROVE  /\ InStep(Backspace) /\ Shows(Backspace) = Shows(con)
           /\ Backspace.x \in 0..Cols /\ Backspace.y \in Row
           /\ Backspace.top = con.top /\ Backspace.bottom = con.bottom
<1>1. CASE con.x = 0
  BY <1>1, Statics DEF Backspace
<1>2. CASE con.x # 0
  <2>1. con.pos \in Int /\ con.x \in Int /\ con.y \in Row /\ con.x - 1 \in 0..Cols
    BY <1>2, Statics, Sizes
  <2>2. con.pos - 1 = con.pos + (con.x - 1) - con.x
    BY <2>1
  <2>3. Backspace = InColumn(con, con.x - 1)
    BY <1>2, <2>2 DEF Backspace, InColumn
  <2>4. QED
    BY <2>1, <2>3, InColumnShown
<1>3. QED
  BY <1>1, <1>2

\* The column of the next tab stop.
TabTo == con.x + TabStop - (con.x % TabStop)

\* A tab goes to the next stop; behind the last column it goes on in the next line.
LEMMA TabShown ==
    ASSUME InStep(con)
    PROVE  /\ InStep(TabChar) /\ TabChar.top = con.top /\ TabChar.bottom = con.bottom
           /\ TabTo <= Cols => /\ TabChar.x = TabTo /\ TabChar.y = con.y
                               /\ Shows(TabChar) = Shows(con)
           /\ ~(TabTo <= Cols) => /\ TabChar.x = TabTo - Cols /\ TabChar.y = FedY(con)
                                  /\ Shows(TabChar) = Fed(con)
<1> DEFINE to == TabTo
           c == TabStop - (con.x % TabStop)
           d == [con EXCEPT !.x = @ + c, !.pos = @ + c]
<1>1. con.x \in Int /\ con.x \in 0..Cols /\ con.pos \in Int /\ con \in Display /\ con.y \in Row
  BY Statics
<1>2. con.x % TabStop \in 0..(TabStop - 1)
  BY <1>1, Sizes
<1>3. c \in 1..Cols /\ to = con.x + c /\ to \in Int
  BY <1>1, <1>2, Sizes DEF TabTo
<1>4. TabChar = IF d.x > Cols THEN Wrap(d) ELSE d
  BY DEF TabChar
<1> HIDE DEF to, c
<1>5. con.pos + c = con.pos + to - con.x
  BY <1>1, <1>3
<1>6. d = InColumn(con, to) /\ d.x = to /\ d.pos = con.pos + c
  <2>1. d = InColumn(con, to)
    BY <1>1, <1>3, <1>5 DEF InColumn, Display
  <2>2. PICK nx \in Int, np \in Int : nx = con.x + c /\ np = con.pos + c
    BY <1>1, <1>3
  <2>3. d = [con EXCEPT !.x = nx, !.pos = np]
    BY <2>2
  <2>4. d.x = nx /\ d.pos = np
    BY ONLY <1>1, <2>2, <2>3 DEF Display
  <2>5. QED
    BY <1>3, <2>1, <2>2, <2>4
<1>7. \A nx, np : [d EXCEPT !.x = nx, !.pos = np] = [con EXCEPT !.x = nx, !.pos = np]
  BY <1>1 DEF Display
<1> HIDE DEF d
<1>8. ASSUME to <= Cols
      PROVE  /\ InStep(TabChar) /\ TabChar.top = con.top /\ TabChar.bottom = con.bottom
             /\ TabChar.x = to /\ TabChar.y = con.y /\ Shows(TabChar) = Shows(con)
  <2>1. to \in 0..Cols /\ ~(to > Cols)
    BY <1>1, <1>3, <1>8, Sizes
  <2>2. TabChar = InColumn(con, to)
    BY <1>4, <1>6, <2>1
  <2>3. QED
    BY <2>1, <2>2, InColumnShown
<1>9. ASSUME ~(to <= Cols)
      PROVE  /\ InStep(TabChar) /\ TabChar.top = con.top /\ TabChar.bottom = con.bottom
             /\ TabChar.x = to - Cols /\ TabChar.y = FedY(con) /\ Shows(TabChar) = Fed(con)
  <2>1. to - Cols \in 0..Cols /\ to > Cols
    BY <1>1, <1>3, <1>9, Sizes
  <2>2. TabChar = Wrap(d)
    BY <1>4, <1>6, <2>1
  <2>3. PICK nx \in 0..Cols : nx = to - Cols
    BY <2>1
  <2>4. PICK np : np = con.pos + nx - con.x
    OBVIOUS
  <2>5. d.x - Cols = nx /\ d.pos - Cols = np
    <3>1. con.pos + c - Cols = con.pos + nx - con.x
      BY <1>1, <1>3, <2>3, Sizes
    <3>2. d.pos - Cols = con.pos + c - Cols
      <4>1. Cols \in Int /\ con.pos \in Int /\ c \in Int /\ d.pos \in Int
        BY <1>1, <1>3, <1>6, Sizes
      <4>2. QED
        BY <1>6, <4>1
    <3>3. d.x - Cols = nx
      BY ONLY <1>6, <2>3
    <3>4. QED
      BY ONLY <2>4, <3>1, <3>2, <3>3
  <2>6. Wrap(d) = Lf([d EXCEPT !.x = nx, !.pos = np])
    BY <2>5 DEF Wrap
  <2>7. Wrap(d) = Lf(InColumn(con, nx))
    BY <1>7, <2>4, <2>6 DEF InColumn
  <2>8. QED
    BY <2>2, <2>3, <2>7, WrapShown
<1>10. QED
  BY <1>8, <1>9 DEF to

----------------------------------------------------------------------------
\* Cells.

\* One cell is written.
Put(d, r, c, v) == [d EXCEPT !.mem = [d.mem EXCEPT ![d.origin + RowAt(r) + c] = v]]

\* The display with one cell written.
LEMMA OneCell ==
    ASSUME NEW d, InStep(d), NEW r \in Row, NEW c \in Col, NEW v \in Cell
    PROVE  /\ InStep(Put(d, r, c, v)) /\ SameWindow(d, Put(d, r, c, v))
           /\ \A q \in Row, k \in Col :
                 Shows(Put(d, r, c, v))[q][k] = IF q = r /\ k = c THEN v ELSE Shows(d)[q][k]
<1> DEFINE e == Put(d, r, c, v)
           m == [d.mem EXCEPT ![d.origin + RowAt(r) + c] = v]
<1>1. d.mem \in [0..(MemEnd - 1) -> Cell] /\ d.origin \in Int
  BY Statics
<1>2. m \in [0..(MemEnd - 1) -> Cell]
  BY <1>1
<1>3. InStep(e) /\ SameWindow(d, e) /\ e.mem = m /\ e.origin = d.origin
  <2>1. e = [d EXCEPT !.mem = m]
    BY DEF Put
  <2> HIDE DEF e, m
  <2>2. QED
    BY <1>2, <2>1, MemoryIsFree DEF SameWindow
<1> HIDE DEF e, m
<1>4. ASSUME NEW q \in Row, NEW k \in Col
      PROVE  Shows(e)[q][k] = IF q = r /\ k = c THEN v ELSE Shows(d)[q][k]
  <2>1. /\ r \in Int /\ c \in Int /\ q \in Int /\ k \in Int /\ c \in Col
        /\ c \in 0..Cols /\ c + 1 \in 0..Cols /\ RowAt(r) \in Int /\ RowAt(q) \in Int
    <3>1. r \in Int /\ q \in Int /\ c \in Int /\ k \in Int /\ c \in 0..Cols /\ c + 1 \in 0..Cols
      BY Sizes DEF Row, Col
    <3>2. QED
      BY <3>1, Rows
  <2>2. RowAt(q) + k < RowAt(r) + c <=> q < r \/ (q = r /\ k < c)
    BY <2>1, CellsInOrder
  <2>3. RowAt(q) + k < RowAt(r) + (c + 1) <=> q < r \/ (q = r /\ k < c + 1)
    BY <2>1, CellsInOrder
  <2>4. d.origin + RowAt(q) + k = d.origin + RowAt(r) + c <=> q = r /\ k = c
    <3>1. PICK a \in Int, b \in Int : a = RowAt(q) + k /\ b = RowAt(r) + c
      BY <2>1
    <3>2. RowAt(r) + (c + 1) = b + 1
      BY <2>1, <3>1
    <3>3. a < b <=> q < r \/ (q = r /\ k < c)
      BY <2>2, <3>1
    <3>4. a < b + 1 <=> q < r \/ (q = r /\ k < c + 1)
      BY <2>3, <3>1, <3>2
    <3>5. d.origin + RowAt(q) + k = d.origin + a /\ d.origin + RowAt(r) + c = d.origin + b
      BY <1>1, <2>1, <3>1
    <3>6. a = b <=> q = r /\ k = c
      BY <2>1, <3>1, <3>3, <3>4
    <3>7. QED
      BY <1>1, <3>5, <3>6
  <2>5. Shows(e)[q][k] = m[d.origin + RowAt(q) + k] /\ d.origin + RowAt(q) + k \in 0..(MemEnd - 1)
        /\ Shows(d)[q][k] = d.mem[d.origin + RowAt(q) + k]
    BY <1>3, CellInMemory
  <2>6. QED
    BY <1>1, <2>4, <2>5 DEF m
<1>5. QED
  BY <1>3, <1>4 DEF e

\* Erase.
LEMMA DelShown ==
    ASSUME NEW d, InStep(d), d.x # 0
    PROVE  /\ InStep(Del(d)) /\ Del(d).x = d.x - 1 /\ Del(d).y = d.y
           /\ Del(d).top = d.top /\ Del(d).bottom = d.bottom
           /\ \A r \in Row, c \in Col :
                 Shows(Del(d))[r][c] = IF r = d.y /\ c = d.x - 1 THEN Erased ELSE Shows(d)[r][c]
<1> DEFINE e == Put(d, d.y, d.x - 1, Erased)
<1>1. /\ d.x \in Int /\ d.x - 1 \in Col /\ d.x - 1 \in 0..Cols /\ d.pos \in Int /\ d.y \in Row
      /\ d.y \in Int /\ d.origin \in Int /\ d.pos = d.origin + RowAt(d.y) + d.x /\ d \in Display
  BY Statics, Sizes DEF Col
<1>2. d.pos - 1 = d.origin + RowAt(d.y) + (d.x - 1) /\ d.pos - 1 = d.pos + (d.x - 1) - d.x
  <2>1. RowAt(d.y) \in Int
    BY <1>1, Rows
  <2>2. QED
    BY <1>1, <2>1
<1>3. /\ InStep(e) /\ SameWindow(d, e)
      /\ \A r \in Row, c \in Col :
            Shows(e)[r][c] = IF r = d.y /\ c = d.x - 1 THEN Erased ELSE Shows(d)[r][c]
  BY <1>1, OneCell DEF Cell
<1>4. Del(d) = InColumn(e, d.x - 1)
  <2>1. PICK pos, nx, m : /\ pos = d.pos - 1 /\ nx = d.x - 1
                          /\ m = [d.mem EXCEPT ![pos] = Erased]
    OBVIOUS
  <2>2. Del(d) = [d EXCEPT !.pos = pos, !.x = nx, !.mem = m]
    BY <2>1 DEF Del
  <2>3. e = [d EXCEPT !.mem = m] /\ e.pos = d.pos /\ e.x = d.x
    BY <1>1, <1>2, <2>1 DEF Display, Put
  <2> HIDE DEF e
  <2>4. InColumn(e, d.x - 1) = [e EXCEPT !.x = nx, !.pos = pos]
    BY <1>2, <2>1, <2>3 DEF InColumn
  <2>5. QED
    BY <1>1, <2>2, <2>3, <2>4 DEF Display
<1> HIDE DEF e
<1>5. QED
  BY <1>1, <1>3, <1>4, InColumnShown DEF SameWindow, SameCursor

----------------------------------------------------------------------------
\* Erasing.

\* csi_J: the cells from the cursor on, before it, or all.
LEMMA CsiJShown ==
    ASSUME NEW d, InStep(d), NEW p \in {0, 1, 2}
    PROVE  /\ InStep(CsiJ(d, p)) /\ SameCursor(d, CsiJ(d, p))
           /\ \A r \in Row, c \in Col :
                 Shows(CsiJ(d, p))[r][c] =
                    IF \/ p = 0 /\ Within(r, c, d.y, d.x, Lines, 0)
                       \/ p = 1 /\ Within(r, c, 0, 0, d.y, d.x)
                       \/ p = 2 /\ Within(r, c, 0, 0, Lines, 0)
                    THEN Erased ELSE Shows(d)[r][c]
<1>1. /\ d.origin \in Int /\ d.scr_end = d.origin + RowAt(Lines) /\ d.x \in 0..Cols /\ d.x \in Int
      /\ d.pos = d.origin + RowAt(d.y) + d.x /\ d.y \in Int /\ Lines \in Int /\ 0 \in 0..Cols
      /\ 0 \in Int /\ Cols \in Int
  BY Statics, Sizes
<1>2. /\ RowAt(Lines) \in Int /\ RowAt(d.y) \in Int /\ RowAt(0) = 0
      /\ Cols * Lines = RowAt(Lines)
  BY <1>1, Rows, EndRows
<1>3. CASE p = 0
  <2>1. d.scr_end - d.pos = RowAt(Lines) + 0 - (RowAt(d.y) + d.x)
    BY <1>1, <1>2
  <2>2. CsiJ(d, p) = FillBlock(d, d.y, d.x, Lines, 0)
    BY <1>1, <1>3, <2>1 DEF CsiJ, FillBlock
  <2>3. QED
    BY <1>1, <1>3, <2>2, FilledWindow DEF SameWindow
<1>4. CASE p = 1
  <2>1. d.pos - d.origin = RowAt(d.y) + d.x - (RowAt(0) + 0) /\ d.origin = d.origin + RowAt(0) + 0
    BY <1>1, <1>2
  <2>2. CsiJ(d, p) = FillBlock(d, 0, 0, d.y, d.x)
    BY <1>1, <1>4, <2>1 DEF CsiJ, FillBlock
  <2>3. QED
    BY <1>1, <1>4, <2>2, FilledWindow DEF SameWindow
<1>5. CASE p = 2
  <2>1. Cols * Lines = RowAt(Lines) + 0 - (RowAt(0) + 0) /\ d.origin = d.origin + RowAt(0) + 0
    BY <1>1, <1>2
  <2>2. CsiJ(d, p) = FillBlock(d, 0, 0, Lines, 0)
    BY <1>1, <1>5, <2>1 DEF CsiJ, FillBlock
  <2>3. QED
    BY <1>1, <1>5, <2>2, FilledWindow DEF SameWindow
<1>6. QED
  BY <1>3, <1>4, <1>5

\* csi_K: the same cells of the cursor's line.
LEMMA CsiKShown ==
    ASSUME NEW d, InStep(d), NEW p \in {0, 1, 2}, p = 0 => d.x < Cols
    PROVE  /\ InStep(CsiK(d, p)) /\ SameCursor(d, CsiK(d, p))
           /\ \A r \in Row, c \in Col :
                 Shows(CsiK(d, p))[r][c] =
                    IF \/ p = 0 /\ Within(r, c, d.y, d.x, d.y, Cols)
                       \/ p = 1 /\ Within(r, c, d.y, 0, d.y, d.x)
                       \/ p = 2 /\ Within(r, c, d.y, 0, d.y, Cols)
                    THEN Erased ELSE Shows(d)[r][c]
<1>1. /\ d.origin \in Int /\ d.x \in 0..Cols /\ d.x \in Int /\ d.x <= Cols
      /\ d.pos = d.origin + RowAt(d.y) + d.x /\ d.y \in Int /\ 0 \in 0..Cols /\ Cols \in 0..Cols
      /\ 0 \in Int /\ Cols \in Int
  BY Statics, Sizes
<1>2. RowAt(d.y) \in Int
  BY <1>1, Rows
<1>3. CASE p = 0
  <2>1. Cols - d.x = RowAt(d.y) + Cols - (RowAt(d.y) + d.x)
    BY <1>1, <1>2
  <2>2. CsiK(d, p) = FillBlock(d, d.y, d.x, d.y, Cols)
    BY <1>1, <1>3, <2>1 DEF CsiK, FillBlock
  <2>3. QED
    BY <1>1, <1>3, <2>2, FilledWindow DEF SameWindow
<1>4. CASE p = 1
  <2>1. /\ d.pos - d.x = d.origin + RowAt(d.y) + 0
        /\ (IF d.x < Cols THEN d.x ELSE Cols) = RowAt(d.y) + d.x - (RowAt(d.y) + 0)
    BY <1>1, <1>2
  <2>2. CsiK(d, p) = FillBlock(d, d.y, 0, d.y, d.x)
    BY <1>1, <1>4, <2>1 DEF CsiK, FillBlock
  <2>3. QED
    BY <1>1, <1>4, <2>2, FilledWindow DEF SameWindow
<1>5. CASE p = 2
  <2>1. /\ d.pos - d.x = d.origin + RowAt(d.y) + 0
        /\ Cols = RowAt(d.y) + Cols - (RowAt(d.y) + 0)
    BY <1>1, <1>2
  <2>2. CsiK(d, p) = FillBlock(d, d.y, 0, d.y, Cols)
    BY <1>1, <1>5, <2>1 DEF CsiK, FillBlock
  <2>3. QED
    BY <1>1, <1>5, <2>2, FilledWindow DEF SameWindow
<1>6. QED
  BY <1>3, <1>4, <1>5

----------------------------------------------------------------------------
\* Inserting and deleting.

\* insert_char: a blank at the cursor, the rest of the line one column on.
LEMMA InsertCharShown ==
    ASSUME NEW d, InStep(d), d.x < Cols
    PROVE  /\ InStep(InsertChar(d)) /\ SameCursor(d, InsertChar(d))
           /\ \A r \in Row, c \in Col :
                 Shows(InsertChar(d))[r][c] = IF r = d.y /\ c = d.x THEN Erased
                                          ELSE IF r = d.y /\ c > d.x
                                              THEN Shows(d)[r][c - 1] ELSE Shows(d)[r][c]
<1>1. PICK o, x, y : o = d.origin /\ x = d.x /\ y = d.y
  OBVIOUS
<1> DEFINE d1 == MoveBlock(d, y, x + 1, y, Cols, 0 - 1)
           e == FillBlock(d1, y, x, y, x + 1)
<1>2. /\ o \in Int /\ o >= 0 /\ o + RowAt(Lines) <= MemEnd /\ MemEnd \in Int
      /\ x \in Int /\ 0 <= x /\ x < Cols /\ y \in Int /\ 0 <= y /\ y < Lines /\ y \in Row
      /\ Cols \in Int /\ Lines \in Int /\ d.pos = o + RowAt(y) + x
  BY <1>1, Statics, Sizes
<1>3. /\ RowAt(y) \in Int /\ RowAt(Lines) \in Int /\ 0 <= RowAt(y)
      /\ RowAt(y) + Cols <= RowAt(Lines)
  <2>1. RowAt(y + 1) <= RowAt(Lines) /\ RowAt(y + 1) = RowAt(y) + Cols
    <3>1. y + 1 \in Int /\ y + 1 <= Lines
      BY <1>2
    <3>2. QED
      BY <1>2, <3>1, RowsInOrder, Rows
  <2>2. 0 <= RowAt(y)
    BY <1>2, RowsInOrder, EndRows
  <2>3. QED
    BY <1>2, <2>1, <2>2, Rows
<1>4. x + 1 \in 0..Cols /\ Cols \in 0..Cols /\ x \in 0..Cols /\ x + 1 \in 0..Cols /\ 0 - 1 \in Int
  BY <1>2
<1>5. /\ InStep(d1) /\ SameWindow(d, d1)
      /\ \A r \in Row, c \in Col :
            Shows(d1)[r][c] = IF Within(r, c, y, x + 1, y, Cols)
                              THEN d.mem[d.origin + RowAt(r) + c + (0 - 1)] ELSE Shows(d)[r][c]
  <2>1. 0 <= d.origin + RowAt(y) + (x + 1) + (0 - 1)
            /\ d.origin + RowAt(y) + (Cols) + (0 - 1) <= MemEnd
    BY <1>1, <1>2, <1>3
  <2>2. QED
    BY <1>2, <1>4, <2>1, MovedWindow
<1>6. InsertChar(d) = e
  <2>1. /\ d.pos + 1 = o + RowAt(y) + (x + 1)
        /\ d.pos = o + RowAt(y) + (x + 1) + (0 - 1)
        /\ Cols - x - 1 = RowAt(y) + (Cols) - (RowAt(y) + (x + 1))
        /\ d.pos = o + RowAt(y) + (x)
        /\ 1 = RowAt(y) + (x + 1) - (RowAt(y) + (x))
    BY <1>2, <1>3
  <2> DEFINE m1 == Moved(d.mem, o + RowAt(y) + (x + 1), o + RowAt(y) + (x + 1) + (0 - 1),
                         RowAt(y) + (Cols) - (RowAt(y) + (x + 1)))
             m2 == Filled(m1, o + RowAt(y) + (x), RowAt(y) + (x + 1) - (RowAt(y) + (x)))
  <2>2. InsertChar(d) = [d EXCEPT !.mem = m2]
    <3>1. InsertChar(d) = [d EXCEPT !.mem = Filled(Moved(d.mem, d.pos + 1, d.pos, Cols - x - 1),
                                             d.pos, 1)]
      BY <1>1, <1>2 DEF InsertChar
    <3>2. Moved(d.mem, d.pos + 1, d.pos, Cols - x - 1) = m1
      BY ONLY <2>1
    <3>3. Filled(m1, d.pos, 1) = m2
      <4> HIDE DEF m1
      <4>1. QED
        BY ONLY <2>1
    <3>4. QED
      BY ONLY <3>1, <3>2, <3>3
  <2>3. d1 = [d EXCEPT !.mem = m1]
    BY <1>1 DEF MoveBlock
  <2>4. d1.mem = m1 /\ d1.origin = o
    <3> HIDE DEF m1, d1
    <3>1. QED
      BY <1>1, <1>5, <2>3 DEF InStep, Display, SameWindow
  <2>5. e = [d1 EXCEPT !.mem = m2]
    BY <2>4 DEF FillBlock
  <2> HIDE DEF m1, m2, d1, e
  <2>6. QED
    BY <2>2, <2>3, <2>5 DEF InStep, Display
<1> HIDE DEF d1
<1>7. /\ InStep(e) /\ SameWindow(d1, e)
      /\ \A r \in Row, c \in Col :
            Shows(e)[r][c] = IF Within(r, c, y, x, y, x + 1) THEN Erased ELSE Shows(d1)[r][c]
  BY <1>2, <1>4, <1>5, FilledWindow
<1> HIDE DEF e
<1>8. ASSUME NEW r \in Row, NEW c \in Col
      PROVE  Shows(e)[r][c] = IF r = y /\ c = x THEN Erased
                               ELSE IF r = y /\ c > x THEN Shows(d)[r][c - 1] ELSE Shows(d)[r][c]
  <2>1. r \in Int /\ c \in Int /\ 0 <= r /\ 0 <= c /\ c < Cols
    BY Sizes DEF Row, Col
  <2>2. Within(r, c, y, x, y, x + 1) <=> r = y /\ c = x
    BY <1>2, <2>1 DEF Within
  <2>3. Within(r, c, y, x + 1, y, Cols) <=> r = y /\ x + 1 <= c /\ c < Cols
    BY <1>2, <2>1 DEF Within
  <2>4. CASE r = y /\ x + 1 <= c /\ c < Cols
    <3>1. c - 1 \in Col /\ c # x
      BY <1>2, <2>1, <2>4 DEF Col
    <3>2. Shows(d)[r][c - 1] = d.mem[d.origin + RowAt(r) + (c - 1)]
      BY <3>1, CellInMemory
    <3>3. d.origin + RowAt(r) + (c - 1) = d.origin + RowAt(r) + c + (0 - 1)
      BY <1>1, <1>2, <1>3, <2>1, <2>4
    <3>4. Shows(e)[r][c] = Shows(d)[r][c - 1]
      BY <1>5, <1>7, <2>2, <2>3, <2>4, <3>1, <3>2, <3>3
    <3>5. QED
      BY <1>2, <2>1, <2>4, <3>1, <3>4
  <2>5. CASE ~(r = y /\ x + 1 <= c /\ c < Cols)
    <3>1. Shows(e)[r][c] = IF r = y /\ c = x THEN Erased ELSE Shows(d)[r][c]
      BY <1>5, <1>7, <2>2, <2>3, <2>5
    <3>2. QED
      BY <1>2, <2>1, <2>5, <3>1
  <2>6. QED
    BY <2>4, <2>5
<1>9. QED
  BY <1>1, <1>5, <1>6, <1>7, <1>8 DEF SameWindow, SameCursor

\* delete_char: the rest of the line one column back, a blank at its end.
LEMMA DeleteCharShown ==
    ASSUME NEW d, InStep(d), d.x < Cols
    PROVE  /\ InStep(DeleteChar(d)) /\ SameCursor(d, DeleteChar(d))
           /\ \A r \in Row, c \in Col :
                 Shows(DeleteChar(d))[r][c] = IF ~(r = d.y /\ c >= d.x) THEN Shows(d)[r][c]
                                          ELSE IF c < Cols - 1 THEN Shows(d)[r][c + 1] ELSE Erased
<1>1. PICK o, x, y : o = d.origin /\ x = d.x /\ y = d.y
  OBVIOUS
<1> DEFINE d1 == MoveBlock(d, y, x, y, Cols - 1, 1)
           e == FillBlock(d1, y, Cols - 1, y, Cols)
<1>2. /\ o \in Int /\ o >= 0 /\ o + RowAt(Lines) <= MemEnd /\ MemEnd \in Int
      /\ x \in Int /\ 0 <= x /\ x < Cols /\ y \in Int /\ 0 <= y /\ y < Lines /\ y \in Row
      /\ Cols \in Int /\ Lines \in Int /\ d.pos = o + RowAt(y) + x
  BY <1>1, Statics, Sizes
<1>3. /\ RowAt(y) \in Int /\ RowAt(Lines) \in Int /\ 0 <= RowAt(y)
      /\ RowAt(y) + Cols <= RowAt(Lines)
  <2>1. RowAt(y + 1) <= RowAt(Lines) /\ RowAt(y + 1) = RowAt(y) + Cols
    <3>1. y + 1 \in Int /\ y + 1 <= Lines
      BY <1>2
    <3>2. QED
      BY <1>2, <3>1, RowsInOrder, Rows
  <2>2. 0 <= RowAt(y)
    BY <1>2, RowsInOrder, EndRows
  <2>3. QED
    BY <1>2, <2>1, <2>2, Rows
<1>4. x \in 0..Cols /\ Cols - 1 \in 0..Cols /\ Cols - 1 \in 0..Cols /\ Cols \in 0..Cols /\ 1 \in Int
  BY <1>2
<1>5. /\ InStep(d1) /\ SameWindow(d, d1)
      /\ \A r \in Row, c \in Col :
            Shows(d1)[r][c] = IF Within(r, c, y, x, y, Cols - 1)
                              THEN d.mem[d.origin + RowAt(r) + c + (1)] ELSE Shows(d)[r][c]
  <2>1. 0 <= d.origin + RowAt(y) + (x) + (1) /\ d.origin + RowAt(y) + (Cols - 1) + (1) <= MemEnd
    BY <1>1, <1>2, <1>3
  <2>2. QED
    BY <1>2, <1>4, <2>1, MovedWindow
<1>6. DeleteChar(d) = e
  <2>1. /\ d.pos = o + RowAt(y) + (x)
        /\ d.pos + 1 = o + RowAt(y) + (x) + (1)
        /\ Cols - x - 1 = RowAt(y) + (Cols - 1) - (RowAt(y) + (x))
        /\ d.pos + Cols - x - 1 = o + RowAt(y) + (Cols - 1)
        /\ 1 = RowAt(y) + (Cols) - (RowAt(y) + (Cols - 1))
    BY <1>2, <1>3
  <2> DEFINE m1 == Moved(d.mem, o + RowAt(y) + (x), o + RowAt(y) + (x) + (1),
                         RowAt(y) + (Cols - 1) - (RowAt(y) + (x)))
             m2 == Filled(m1, o + RowAt(y) + (Cols - 1), RowAt(y) + (Cols) - (RowAt(y) + (Cols - 1)))
  <2>2. DeleteChar(d) = [d EXCEPT !.mem = m2]
    <3>1. DeleteChar(d) = [d EXCEPT !.mem = Filled(Moved(d.mem, d.pos, d.pos + 1, Cols - x - 1),
                                             d.pos + Cols - x - 1, 1)]
      BY <1>1, <1>2 DEF DeleteChar
    <3>2. Moved(d.mem, d.pos, d.pos + 1, Cols - x - 1) = m1
      BY ONLY <2>1
    <3>3. Filled(m1, d.pos + Cols - x - 1, 1) = m2
      <4> HIDE DEF m1
      <4>1. QED
        BY ONLY <2>1
    <3>4. QED
      BY ONLY <3>1, <3>2, <3>3
  <2>3. d1 = [d EXCEPT !.mem = m1]
    BY <1>1 DEF MoveBlock
  <2>4. d1.mem = m1 /\ d1.origin = o
    <3> HIDE DEF m1, d1
    <3>1. QED
      BY <1>1, <1>5, <2>3 DEF InStep, Display, SameWindow
  <2>5. e = [d1 EXCEPT !.mem = m2]
    BY <2>4 DEF FillBlock
  <2> HIDE DEF m1, m2, d1, e
  <2>6. QED
    BY <2>2, <2>3, <2>5 DEF InStep, Display
<1> HIDE DEF d1
<1>7. /\ InStep(e) /\ SameWindow(d1, e)
      /\ \A r \in Row, c \in Col :
            Shows(e)[r][c] = IF Within(r, c, y, Cols - 1, y, Cols) THEN Erased ELSE Shows(d1)[r][c]
  <2>1. PICK last \in 0..Cols : last = Cols - 1
    BY <1>4
  <2>2. Cols \in 0..Cols /\ y \in Int /\ InStep(d1)
    BY <1>2, <1>4, <1>5
  <2>3. /\ InStep(FillBlock(d1, y, last, y, Cols))
               /\ SameWindow(d1, FillBlock(d1, y, last, y, Cols))
        /\ \A r \in Row, c \in Col :
              Shows(FillBlock(d1, y, last, y, Cols))[r][c] =
                 IF Within(r, c, y, last, y, Cols) THEN Erased ELSE Shows(d1)[r][c]
    BY <2>2, FilledWindow
  <2>4. QED
    BY <2>1, <2>3
<1> HIDE DEF e
<1>8. ASSUME NEW r \in Row, NEW c \in Col
      PROVE  Shows(e)[r][c] = IF ~(r = y /\ c >= x) THEN Shows(d)[r][c]
                               ELSE IF c < Cols - 1 THEN Shows(d)[r][c + 1] ELSE Erased
  <2>1. r \in Int /\ c \in Int /\ 0 <= r /\ 0 <= c /\ c < Cols
    BY Sizes DEF Row, Col
  <2>2. Within(r, c, y, Cols - 1, y, Cols) <=> r = y /\ c = Cols - 1
    BY <1>2, <2>1 DEF Within
  <2>3. Within(r, c, y, x, y, Cols - 1) <=> r = y /\ x <= c /\ c < Cols - 1
    BY <1>2, <2>1 DEF Within
  <2>4. CASE r = y /\ x <= c /\ c < Cols - 1
    <3>1. c + 1 \in Col /\ c # Cols - 1
      BY <1>2, <2>1, <2>4 DEF Col
    <3>2. Shows(d)[r][c + 1] = d.mem[d.origin + RowAt(r) + (c + 1)]
      BY <3>1, CellInMemory
    <3>3. d.origin + RowAt(r) + (c + 1) = d.origin + RowAt(r) + c + (1)
      BY <1>1, <1>2, <1>3, <2>1, <2>4
    <3>4. Shows(e)[r][c] = Shows(d)[r][c + 1]
      BY <1>5, <1>7, <2>2, <2>3, <2>4, <3>1, <3>2, <3>3
    <3>5. QED
      BY <1>2, <2>1, <2>4, <3>1, <3>4
  <2>5. CASE ~(r = y /\ x <= c /\ c < Cols - 1)
    <3>1. Shows(e)[r][c] = IF r = y /\ c = Cols - 1 THEN Erased ELSE Shows(d)[r][c]
      BY <1>5, <1>7, <2>2, <2>3, <2>5
    <3>2. QED
      BY <1>2, <2>1, <2>5, <3>1
  <2>6. QED
    BY <2>4, <2>5
<1>9. QED
  BY <1>1, <1>5, <1>6, <1>7, <1>8 DEF SameWindow, SameCursor


\* insert_line and delete_line scroll the rows from the cursor's line on.
LEMMA LinesShown ==
    ASSUME NEW d, InStep(d)
    PROVE  /\ InStep(InsertLine(d)) /\ SameCursor(d, InsertLine(d))
           /\ Shows(InsertLine(d)) = S!Down(Shows(d), d.y, Lines, 1)
           /\ InStep(DeleteLine(d)) /\ SameCursor(d, DeleteLine(d))
           /\ Shows(DeleteLine(d)) = S!Up(Shows(d), d.y, Lines, 1)
<1> DEFINE d1 == [d EXCEPT !.top = d.y, !.bottom = Lines]
<1>1. /\ d \in Display /\ d.y \in Int /\ 0 <= d.y /\ d.y < Lines /\ Lines \in Int /\ Lines > 0
      /\ d.top \in 0..(d.bottom - 1) /\ d.bottom \in 1..Lines /\ d.top \in Int /\ d.bottom \in Int
  BY Statics, Sizes DEF InStep
<1>2. /\ d1 \in Display /\ d1.mem = d.mem /\ d1.origin = d.origin /\ d1.scr_end = d.scr_end
      /\ d1.pos = d.pos /\ d1.x = d.x /\ d1.y = d.y /\ d1.top = d.y /\ d1.bottom = Lines
  BY <1>1 DEF Display
<1> HIDE DEF d1
<1>3. InStep(d1) /\ Shows(d1) = Shows(d)
  <2>1. d1.top \in 0..(d1.bottom - 1) /\ d1.bottom \in 1..Lines
    BY <1>1, <1>2
  <2>2. QED
    BY <1>2, <2>1 DEF InStep, Shows
<1>4. ASSUME NEW e, InStep(e), e.x = d.x, e.y = d.y,
             NEW f, f = [e EXCEPT !.top = d.top, !.bottom = d.bottom]
      PROVE  InStep(f) /\ SameCursor(d, f) /\ Shows(f) = Shows(e)
  <2>1. /\ f \in Display /\ f.mem = e.mem /\ f.origin = e.origin /\ f.scr_end = e.scr_end
        /\ f.pos = e.pos /\ f.x = d.x /\ f.y = d.y /\ f.top = d.top /\ f.bottom = d.bottom
    BY <1>1, <1>4 DEF InStep, Display
  <2>2. QED
    BY <1>1, <1>4, <2>1 DEF InStep, Shows, SameCursor
<1>5. /\ InStep(Scrdown(d1)) /\ Scrdown(d1).x = d.x /\ Scrdown(d1).y = d.y
      /\ Shows(Scrdown(d1)) = S!Down(Shows(d), d.y, Lines, 1)
  BY <1>2, <1>3, ScrdownShown DEF SameCursor
<1>6. /\ InStep(Scrup(d1)) /\ Scrup(d1).x = d.x /\ Scrup(d1).y = d.y
      /\ Shows(Scrup(d1)) = S!Up(Shows(d), d.y, Lines, 1)
  BY <1>2, <1>3, ScrupShown DEF SameCursor
<1>7. InsertLine(d) = [Scrdown(d1) EXCEPT !.top = d.top, !.bottom = d.bottom]
  BY DEF InsertLine, BelowCursor, d1
<1>8. DeleteLine(d) = [Scrup(d1) EXCEPT !.top = d.top, !.bottom = d.bottom]
  BY DEF DeleteLine, BelowCursor, d1
<1>9. QED
  BY <1>4, <1>5, <1>6, <1>7, <1>8

----------------------------------------------------------------------------
\* Repetition.

\* Induction on a set of numbers.
LEMMA Induct ==
    ASSUME NEW T, 0 \in T, \A i \in Nat : i \in T => i + 1 \in T
    PROVE  Nat \subseteq T
<1> SUFFICES ASSUME NEW z \in Nat, z \notin T PROVE FALSE
  OBVIOUS
<1>1. PICK x \in Nat \ T : \A y \in Nat \ T : ~(<<y, x>> \in OpToRel(<, Nat))
  BY NatLessThanWellFounded, WFMin
<1>2. x \in Nat /\ x # 0 /\ x - 1 \in Nat /\ (x - 1) + 1 = x
  <2>1. x \in Nat /\ x # 0
    BY ONLY <1>1, 0 \in T
  <2>2. QED
    BY ONLY <2>1
<1>3. x - 1 \in Nat \ T
  <2>1. x - 1 \in T => (x - 1) + 1 \in T
    BY <1>2
  <2>2. QED
    BY <1>1, <1>2, <2>1
<1>4. <<x - 1, x>> \in OpToRel(<, Nat)
  BY <1>1, <1>2 DEF OpToRel
<1>5. QED
  BY <1>1, <1>3, <1>4

\* f tabulates what the steps F make of d.
Table(f, D, F, d, n) == f \in [0..n -> D] /\ f[0] = d /\ \A i \in 1..n : f[i] = F[i][f[i - 1]]

\* What is repeated n times can be tabulated.
LEMMA Iterates ==
    ASSUME NEW D, NEW F, F \in [Nat -> [D -> D]], NEW d, d \in D, NEW n, n \in Nat
    PROVE  \E f : Table(f, D, F, d, n)
<1> DEFINE T == {k \in Nat : \E f : Table(f, D, F, d, k)}
<1>1. 0 \in T
  <2>1. Table([i \in 0..0 |-> d], D, F, d, 0)
    BY DEF Table
  <2>2. QED
    BY <2>1
<1>2. ASSUME NEW k \in Nat, k \in T PROVE k + 1 \in T
  <2>1. PICK f : Table(f, D, F, d, k)
    BY <1>2
  <2> DEFINE g == [i \in 0..(k + 1) |-> IF i <= k THEN f[i] ELSE F[k + 1][f[k]]]
  <2>2. F[k + 1][f[k]] \in D
    BY <2>1 DEF Table
  <2>3. g \in [0..(k + 1) -> D] /\ g[0] = d
    BY <2>1, <2>2 DEF Table
  <2>4. ASSUME NEW i \in 1..(k + 1) PROVE g[i] = F[i][g[i - 1]]
    <3>1. CASE i <= k
      BY <2>1, <3>1 DEF Table
    <3>2. CASE i = k + 1
      BY <2>1, <3>2 DEF Table
    <3>3. QED
      BY <3>1, <3>2
  <2>5. Table(g, D, F, d, k + 1)
    BY <2>3, <2>4 DEF Table
  <2> HIDE DEF g
  <2>6. QED
    BY <2>5
<1>3. n \in T
  <2> HIDE DEF T
  <2>1. QED
    BY <1>1, <1>2, Induct
<1>4. QED
  BY <1>3

\* e is d with n blanks inserted at the cursor, n cells deleted from the cursor on, n blank
\* rows inserted above the cursor's, n rows deleted from the cursor's on.
CharsIn(d, e, n) ==
    /\ InStep(e) /\ SameCursor(d, e)
    /\ \A r \in Row, c \in Col :
          Shows(e)[r][c] = IF r # d.y \/ c < d.x THEN Shows(d)[r][c]
                           ELSE IF c < d.x + n THEN Erased ELSE Shows(d)[r][c - n]
CharsOut(d, e, n) ==
    /\ InStep(e) /\ SameCursor(d, e)
    /\ \A r \in Row, c \in Col :
          Shows(e)[r][c] = IF r # d.y \/ c < d.x THEN Shows(d)[r][c]
                           ELSE IF c + n < Cols THEN Shows(d)[r][c + n] ELSE Erased
RowsIn(d, e, n) ==
    InStep(e) /\ SameCursor(d, e) /\ Shows(e) = S!Down(Shows(d), d.y, Lines, n)
RowsOut(d, e, n) ==
    InStep(e) /\ SameCursor(d, e) /\ Shows(e) = S!Up(Shows(d), d.y, Lines, n)

\* One more blank.
LEMMA OneCharIn ==
    ASSUME NEW d, InStep(d), NEW e, NEW n \in Nat, CharsIn(d, e, n)
    PROVE  CharsIn(d, InsertChar(e), n + 1)
<1>1. InStep(e) /\ e.x = d.x /\ e.y = d.y /\ SameCursor(d, e) /\ d.x \in Int /\ Cols \in Int
          /\ 0 <= d.x
  BY Statics, Sizes DEF CharsIn, SameCursor
<1>2. CASE d.x >= Cols
  <2>1. InsertChar(e) = e
    BY <1>1, <1>2 DEF InsertChar
  <2>2. \A c \in Col : c < d.x
    BY <1>1, <1>2 DEF Col
  <2>3. QED
    BY <1>1, <2>1, <2>2 DEF CharsIn
<1>3. CASE d.x < Cols
  <2>1. /\ InStep(InsertChar(e)) /\ SameCursor(e, InsertChar(e))
        /\ \A r \in Row, c \in Col :
              Shows(InsertChar(e))[r][c] = IF r = d.y /\ c = d.x THEN Erased
                                           ELSE IF r = d.y /\ c > d.x THEN Shows(e)[r][c - 1]
                                           ELSE Shows(e)[r][c]
    BY <1>1, <1>3, InsertCharShown
  <2>2. ASSUME NEW r \in Row, NEW c \in Col
        PROVE  Shows(InsertChar(e))[r][c] = IF r # d.y \/ c < d.x THEN Shows(d)[r][c]
                           ELSE IF c < d.x + (n + 1) THEN Erased ELSE Shows(d)[r][c - (n + 1)]
    <3>1. c \in Int /\ 0 <= c /\ c < Cols
      BY Sizes DEF Col
    <3>2. CASE r # d.y \/ c < d.x
      BY <1>1, <2>1, <3>1, <3>2 DEF CharsIn
    <3>3. CASE r = d.y /\ c = d.x
      BY <1>1, <2>1, <3>1, <3>3
    <3>4. CASE r = d.y /\ c > d.x
      <4>1. c - 1 \in Col /\ ~(c - 1 < d.x) /\ (c - 1) - n = c - (n + 1)
            /\ (c - 1 < d.x + n <=> c < d.x + (n + 1))
        BY <1>1, <3>1, <3>4 DEF Col
      <4>2. Shows(InsertChar(e))[r][c] = Shows(e)[r][c - 1]
        BY <1>1, <2>1, <3>1, <3>4
      <4>3. Shows(e)[r][c - 1] = IF c - 1 < d.x + n THEN Erased ELSE Shows(d)[r][(c - 1) - n]
        BY <3>4, <4>1 DEF CharsIn
      <4>4. QED
        BY <1>1, <3>1, <3>4, <4>1, <4>2, <4>3
    <3>5. QED
      BY <1>1, <3>1, <3>2, <3>3, <3>4
  <2>3. QED
    BY <1>1, <2>1, <2>2 DEF CharsIn, SameCursor
<1>4. QED
  BY <1>1, <1>2, <1>3

\* One more cell.
LEMMA OneCharOut ==
    ASSUME NEW d, InStep(d), NEW e, NEW n \in Nat, CharsOut(d, e, n)
    PROVE  CharsOut(d, DeleteChar(e), n + 1)
<1>1. InStep(e) /\ e.x = d.x /\ e.y = d.y /\ SameCursor(d, e) /\ d.x \in Int /\ Cols \in Int
          /\ 0 <= d.x
  BY Statics, Sizes DEF CharsOut, SameCursor
<1>2. CASE d.x >= Cols
  <2>1. DeleteChar(e) = e
    BY <1>1, <1>2 DEF DeleteChar
  <2>2. \A c \in Col : c < d.x
    BY <1>1, <1>2 DEF Col
  <2>3. QED
    BY <1>1, <2>1, <2>2 DEF CharsOut
<1>3. CASE d.x < Cols
  <2>1. /\ InStep(DeleteChar(e)) /\ SameCursor(e, DeleteChar(e))
        /\ \A r \in Row, c \in Col :
              Shows(DeleteChar(e))[r][c] = IF ~(r = d.y /\ c >= d.x) THEN Shows(e)[r][c]
                                           ELSE IF c < Cols - 1 THEN Shows(e)[r][c + 1] ELSE Erased
    BY <1>1, <1>3, DeleteCharShown
  <2>2. ASSUME NEW r \in Row, NEW c \in Col
        PROVE  Shows(DeleteChar(e))[r][c] = IF r # d.y \/ c < d.x THEN Shows(d)[r][c]
                           ELSE IF c + (n + 1) < Cols THEN Shows(d)[r][c + (n + 1)] ELSE Erased
    <3>1. c \in Int /\ 0 <= c /\ c < Cols
      BY Sizes DEF Col
    <3>2. CASE r # d.y \/ c < d.x
      BY <1>1, <2>1, <3>1, <3>2 DEF CharsOut
    <3>3. CASE r = d.y /\ ~(c < d.x) /\ ~(c < Cols - 1)
      BY <1>1, <2>1, <3>1, <3>3
    <3>4. CASE r = d.y /\ ~(c < d.x) /\ c < Cols - 1
      <4>1. c + 1 \in Col /\ ~(c + 1 < d.x) /\ (c + 1) + n = c + (n + 1)
        BY <1>1, <3>1, <3>4 DEF Col
      <4>2. Shows(DeleteChar(e))[r][c] = Shows(e)[r][c + 1]
        BY <1>1, <2>1, <3>1, <3>4
      <4>3. Shows(e)[r][c + 1] = IF (c + 1) + n < Cols THEN Shows(d)[r][(c + 1) + n] ELSE Erased
        BY <3>4, <4>1 DEF CharsOut
      <4>4. QED
        BY <1>1, <3>1, <3>4, <4>1, <4>2, <4>3
    <3>5. QED
      BY <1>1, <3>1, <3>2, <3>3, <3>4
  <2>3. QED
    BY <1>1, <2>1, <2>2 DEF CharsOut, SameCursor
<1>4. QED
  BY <1>1, <1>2, <1>3

\* One more row.
LEMMA OneRowIn ==
    ASSUME NEW d, InStep(d), NEW e, NEW n \in Nat, RowsIn(d, e, n)
    PROVE  RowsIn(d, InsertLine(e), n + 1)
<1>1. PICK s, t : s = Shows(d) /\ t = d.y
  OBVIOUS
<1>2. t \in Nat /\ Lines \in 0..Lines /\ Lines \in Int /\ 1 \in Nat /\ n + 1 \in Nat /\ Picture(s)
  BY <1>1, Statics, Sizes, ShowsPicture
<1>3. /\ InStep(InsertLine(e)) /\ SameCursor(d, InsertLine(e))
      /\ Shows(InsertLine(e)) = S!Down(S!Down(s, t, Lines, n), t, Lines, 1)
  BY <1>1, LinesShown DEF RowsIn, SameCursor
<1>4. PICK u : u = S!Down(s, t, Lines, n)
  OBVIOUS
<1>5. /\ Picture(u)
      /\ \A r \in Row, c \in Col : u[r][c] = IF ~(t <= r /\ r < Lines) THEN s[r][c]
                                             ELSE IF t <= r - n THEN s[r - n][c] ELSE Erased
  BY <1>2, <1>4, DownCells
<1>6. /\ Picture(S!Down(u, t, Lines, 1))
      /\ \A r \in Row, c \in Col :
            S!Down(u, t, Lines, 1)[r][c] = IF ~(t <= r /\ r < Lines) THEN u[r][c]
                                           ELSE IF t <= r - 1 THEN u[r - 1][c] ELSE Erased
  BY <1>2, <1>5, DownCells
<1>7. /\ Picture(S!Down(s, t, Lines, n + 1))
      /\ \A r \in Row, c \in Col :
            S!Down(s, t, Lines, n + 1)[r][c] =
               IF ~(t <= r /\ r < Lines) THEN s[r][c]
               ELSE IF t <= r - (n + 1) THEN s[r - (n + 1)][c] ELSE Erased
  BY <1>2, DownCells
<1>8. ASSUME NEW r \in Row, NEW c \in Col
      PROVE  S!Down(u, t, Lines, 1)[r][c] = S!Down(s, t, Lines, n + 1)[r][c]
  <2>1. r \in Int /\ 0 <= r /\ r < Lines
    BY <1>2 DEF Row
  <2>2. CASE t <= r - 1
    <3>1. r - 1 \in Row /\ r - 1 - n = r - (n + 1)
      BY <1>2, <2>1, <2>2 DEF Row
    <3>2. u[r - 1][c] = IF t <= r - (n + 1) THEN s[r - (n + 1)][c] ELSE Erased
      BY <1>2, <1>5, <2>1, <2>2, <3>1
    <3>3. QED
      BY <1>2, <1>6, <1>7, <2>1, <2>2, <3>2
  <2>3. CASE ~(t <= r - 1)
    BY <1>2, <1>5, <1>6, <1>7, <2>1, <2>3
  <2>4. QED
    BY <2>2, <2>3
<1>9. S!Down(u, t, Lines, 1) = S!Down(s, t, Lines, n + 1)
  BY <1>6, <1>7, <1>8, SamePicture
<1>10. QED
  BY <1>1, <1>3, <1>4, <1>9 DEF RowsIn

\* One row less.
LEMMA OneRowOut ==
    ASSUME NEW d, InStep(d), NEW e, NEW n \in Nat, RowsOut(d, e, n)
    PROVE  RowsOut(d, DeleteLine(e), n + 1)
<1>1. PICK s, t : s = Shows(d) /\ t = d.y
  OBVIOUS
<1>2. t \in Nat /\ Lines \in 0..Lines /\ Lines \in Int /\ 1 \in Nat /\ n + 1 \in Nat /\ Picture(s)
  BY <1>1, Statics, Sizes, ShowsPicture
<1>3. /\ InStep(DeleteLine(e)) /\ SameCursor(d, DeleteLine(e))
      /\ Shows(DeleteLine(e)) = S!Up(S!Up(s, t, Lines, n), t, Lines, 1)
  BY <1>1, LinesShown DEF RowsOut, SameCursor
<1>4. PICK u : u = S!Up(s, t, Lines, n)
  OBVIOUS
<1>5. /\ Picture(u)
      /\ \A r \in Row, c \in Col : u[r][c] = IF ~(t <= r /\ r < Lines) THEN s[r][c]
                                             ELSE IF r + n < Lines THEN s[r + n][c] ELSE Erased
  BY <1>2, <1>4, UpCells
<1>6. /\ Picture(S!Up(u, t, Lines, 1))
      /\ \A r \in Row, c \in Col :
            S!Up(u, t, Lines, 1)[r][c] = IF ~(t <= r /\ r < Lines) THEN u[r][c]
                                         ELSE IF r + 1 < Lines THEN u[r + 1][c] ELSE Erased
  BY <1>2, <1>5, UpCells
<1>7. /\ Picture(S!Up(s, t, Lines, n + 1))
      /\ \A r \in Row, c \in Col :
            S!Up(s, t, Lines, n + 1)[r][c] =
               IF ~(t <= r /\ r < Lines) THEN s[r][c]
               ELSE IF r + (n + 1) < Lines THEN s[r + (n + 1)][c] ELSE Erased
  BY <1>2, UpCells
<1>8. ASSUME NEW r \in Row, NEW c \in Col
      PROVE  S!Up(u, t, Lines, 1)[r][c] = S!Up(s, t, Lines, n + 1)[r][c]
  <2>1. r \in Int /\ 0 <= r /\ r < Lines
    BY <1>2 DEF Row
  <2>2. CASE t <= r /\ r + 1 < Lines
    <3>1. r + 1 \in Row /\ r + 1 + n = r + (n + 1)
      BY <1>2, <2>1, <2>2 DEF Row
    <3>2. u[r + 1][c] = IF r + (n + 1) < Lines THEN s[r + (n + 1)][c] ELSE Erased
      BY <1>2, <1>5, <2>1, <2>2, <3>1
    <3>3. QED
      BY <1>2, <1>6, <1>7, <2>1, <2>2, <3>2
  <2>3. CASE ~(t <= r /\ r + 1 < Lines)
    BY <1>2, <1>5, <1>6, <1>7, <2>1, <2>3
  <2>4. QED
    BY <2>2, <2>3
<1>9. S!Up(u, t, Lines, 1) = S!Up(s, t, Lines, n + 1)
  BY <1>6, <1>7, <1>8, SamePicture
<1>10. QED
  BY <1>1, <1>3, <1>4, <1>9 DEF RowsOut

\* The display stays in step.
LEMMA InsertCharStep ==
    ASSUME NEW d, InStep(d) PROVE InStep(InsertChar(d))
<1>1. CASE d.x >= Cols
  BY <1>1 DEF InsertChar
<1>2. CASE d.x < Cols
  BY <1>2, InsertCharShown
<1>3. QED
  BY <1>1, <1>2, Statics, Sizes

\* csi_at inserts between one and Cols blanks.
LEMMA csi_at_Shown ==
    ASSUME NEW d, InStep(d), NEW nr \in Nat
    PROVE  \E n \in 1..Cols : CharsIn(d, csi_at(d, nr), n)
<1>1. PICK n \in 1..Cols : n = IF nr > Cols THEN Cols ELSE IF nr = 0 THEN 1 ELSE nr
  BY Sizes
<1> DEFINE D == {e \in Display : InStep(e)}
           F == [i \in Nat |-> [e \in D |-> InsertChar(e)]]
           Runs(f) == f = [i \in 0..n |-> IF i = 0 THEN d ELSE InsertChar(f[i - 1])]
           after == CHOOSE f : Runs(f)
<1>2. \A e : e \in D <=> InStep(e)
  BY DEF InStep
<1> HIDE DEF D
<1>3. \E f : Runs(f)
  <2>1. ASSUME NEW e \in D PROVE InsertChar(e) \in D
    BY <1>2, InsertCharStep
  <2>2. F \in [Nat -> [D -> D]] /\ d \in D /\ n \in Nat
    BY <1>2, <2>1
  <2>3. \A i \in Nat, e \in D : F[i][e] = InsertChar(e)
    OBVIOUS
  <2> HIDE DEF F
  <2>4. PICK f : Table(f, D, F, d, n)
    BY <2>2, Iterates
  <2>5. /\ f[0] = d /\ f = [i \in 0..n |-> f[i]]
        /\ \A i \in 1..n : i \in Nat /\ f[i - 1] \in D /\ f[i] = F[i][f[i - 1]]
    BY <2>4 DEF Table
  <2>6. \A i \in 1..n : f[i] = InsertChar(f[i - 1])
    BY <2>3, <2>5
  <2>7. ASSUME NEW i \in 0..n PROVE f[i] = IF i = 0 THEN d ELSE InsertChar(f[i - 1])
    <3>1. CASE i = 0
      BY <2>5, <3>1
    <3>2. CASE i # 0
      <4>1. i \in 1..n
        BY <2>2, <3>2
      <4>2. QED
        BY <2>6, <3>2, <4>1
    <3>3. QED
      BY <3>1, <3>2
  <2>8. f = [i \in 0..n |-> f[i]]
    BY <2>5
  <2>9. [i \in 0..n |-> f[i]] = [i \in 0..n |-> IF i = 0 THEN d ELSE InsertChar(f[i - 1])]
    BY ONLY <2>7
  <2>10. QED
    BY <2>8, <2>9
<1>4. Runs(after)
  BY <1>3
<1>5. csi_at(d, nr) = after[n]
  BY <1>1 DEF csi_at, Times
<1> HIDE DEF after
<1> DEFINE T == {i \in Nat : i <= n => CharsIn(d, after[i], i)}
<1>6. 0 \in T
  <2>1. after[0] = d
    BY <1>4
  <2>2. CharsIn(d, d, 0)
    <3>1. \A c \in Col : c \in Int /\ c < Cols /\ c + 0 = c /\ c - 0 = c
      BY Sizes DEF Col
    <3>2. d.x \in Int /\ d.x + 0 = d.x
      BY Statics
    <3>3. QED
      BY <3>1, <3>2 DEF CharsIn, SameCursor
  <2>3. QED
    BY <2>1, <2>2
<1>7. ASSUME NEW i \in Nat, i \in T PROVE i + 1 \in T
  <2>1. CASE i + 1 <= n
    <3>1. after[i + 1] = InsertChar(after[i])
      BY <1>4, <2>1
    <3>2. CharsIn(d, after[i], i)
      BY <1>7, <2>1
    <3>3. CharsIn(d, InsertChar(after[i]), i + 1)
      BY <3>2, OneCharIn
    <3>4. QED
      BY <3>1, <3>3
  <2>2. CASE ~(i + 1 <= n)
    BY <2>2
  <2>3. QED
    BY <2>1, <2>2
<1>8. n \in T
  <2> HIDE DEF T
  <2>1. QED
    BY <1>6, <1>7, Induct
<1>9. QED
  BY <1>5, <1>8

\* The display stays in step.
LEMMA DeleteCharStep ==
    ASSUME NEW d, InStep(d) PROVE InStep(DeleteChar(d))
<1>1. CASE d.x >= Cols
  BY <1>1 DEF DeleteChar
<1>2. CASE d.x < Cols
  BY <1>2, DeleteCharShown
<1>3. QED
  BY <1>1, <1>2, Statics, Sizes

\* csi_P deletes between one and Cols cells.
LEMMA csi_P_Shown ==
    ASSUME NEW d, InStep(d), NEW nr \in Nat
    PROVE  \E n \in 1..Cols : CharsOut(d, csi_P(d, nr), n)
<1>1. PICK n \in 1..Cols : n = IF nr > Cols THEN Cols ELSE IF nr = 0 THEN 1 ELSE nr
  BY Sizes
<1> DEFINE D == {e \in Display : InStep(e)}
           F == [i \in Nat |-> [e \in D |-> DeleteChar(e)]]
           Runs(f) == f = [i \in 0..n |-> IF i = 0 THEN d ELSE DeleteChar(f[i - 1])]
           after == CHOOSE f : Runs(f)
<1>2. \A e : e \in D <=> InStep(e)
  BY DEF InStep
<1> HIDE DEF D
<1>3. \E f : Runs(f)
  <2>1. ASSUME NEW e \in D PROVE DeleteChar(e) \in D
    BY <1>2, DeleteCharStep
  <2>2. F \in [Nat -> [D -> D]] /\ d \in D /\ n \in Nat
    BY <1>2, <2>1
  <2>3. \A i \in Nat, e \in D : F[i][e] = DeleteChar(e)
    OBVIOUS
  <2> HIDE DEF F
  <2>4. PICK f : Table(f, D, F, d, n)
    BY <2>2, Iterates
  <2>5. /\ f[0] = d /\ f = [i \in 0..n |-> f[i]]
        /\ \A i \in 1..n : i \in Nat /\ f[i - 1] \in D /\ f[i] = F[i][f[i - 1]]
    BY <2>4 DEF Table
  <2>6. \A i \in 1..n : f[i] = DeleteChar(f[i - 1])
    BY <2>3, <2>5
  <2>7. ASSUME NEW i \in 0..n PROVE f[i] = IF i = 0 THEN d ELSE DeleteChar(f[i - 1])
    <3>1. CASE i = 0
      BY <2>5, <3>1
    <3>2. CASE i # 0
      <4>1. i \in 1..n
        BY <2>2, <3>2
      <4>2. QED
        BY <2>6, <3>2, <4>1
    <3>3. QED
      BY <3>1, <3>2
  <2>8. f = [i \in 0..n |-> f[i]]
    BY <2>5
  <2>9. [i \in 0..n |-> f[i]] = [i \in 0..n |-> IF i = 0 THEN d ELSE DeleteChar(f[i - 1])]
    BY ONLY <2>7
  <2>10. QED
    BY <2>8, <2>9
<1>4. Runs(after)
  BY <1>3
<1>5. csi_P(d, nr) = after[n]
  BY <1>1 DEF csi_P, Times
<1> HIDE DEF after
<1> DEFINE T == {i \in Nat : i <= n => CharsOut(d, after[i], i)}
<1>6. 0 \in T
  <2>1. after[0] = d
    BY <1>4
  <2>2. CharsOut(d, d, 0)
    <3>1. \A c \in Col : c \in Int /\ c < Cols /\ c + 0 = c /\ c - 0 = c
      BY Sizes DEF Col
    <3>2. d.x \in Int /\ d.x + 0 = d.x
      BY Statics
    <3>3. QED
      BY <3>1, <3>2 DEF CharsOut, SameCursor
  <2>3. QED
    BY <2>1, <2>2
<1>7. ASSUME NEW i \in Nat, i \in T PROVE i + 1 \in T
  <2>1. CASE i + 1 <= n
    <3>1. after[i + 1] = DeleteChar(after[i])
      BY <1>4, <2>1
    <3>2. CharsOut(d, after[i], i)
      BY <1>7, <2>1
    <3>3. CharsOut(d, DeleteChar(after[i]), i + 1)
      BY <3>2, OneCharOut
    <3>4. QED
      BY <3>1, <3>3
  <2>2. CASE ~(i + 1 <= n)
    BY <2>2
  <2>3. QED
    BY <2>1, <2>2
<1>8. n \in T
  <2> HIDE DEF T
  <2>1. QED
    BY <1>6, <1>7, Induct
<1>9. QED
  BY <1>5, <1>8

\* csi_L inserts between one and Lines rows.
LEMMA csi_L_Shown ==
    ASSUME NEW d, InStep(d), NEW nr \in Nat
    PROVE  \E n \in 1..Lines : RowsIn(d, csi_L(d, nr), n)
<1>1. PICK n \in 1..Lines : n = IF nr > Lines THEN Lines ELSE IF nr = 0 THEN 1 ELSE nr
  BY Sizes
<1> DEFINE D == {e \in Display : InStep(e)}
           F == [i \in Nat |-> [e \in D |-> InsertLine(e)]]
           Runs(f) == f = [i \in 0..n |-> IF i = 0 THEN d ELSE InsertLine(f[i - 1])]
           after == CHOOSE f : Runs(f)
<1>2. \A e : e \in D <=> InStep(e)
  BY DEF InStep
<1> HIDE DEF D
<1>3. \E f : Runs(f)
  <2>1. ASSUME NEW e \in D PROVE InsertLine(e) \in D
    BY <1>2, LinesShown
  <2>2. F \in [Nat -> [D -> D]] /\ d \in D /\ n \in Nat
    BY <1>2, <2>1
  <2>3. \A i \in Nat, e \in D : F[i][e] = InsertLine(e)
    OBVIOUS
  <2> HIDE DEF F
  <2>4. PICK f : Table(f, D, F, d, n)
    BY <2>2, Iterates
  <2>5. /\ f[0] = d /\ f = [i \in 0..n |-> f[i]]
        /\ \A i \in 1..n : i \in Nat /\ f[i - 1] \in D /\ f[i] = F[i][f[i - 1]]
    BY <2>4 DEF Table
  <2>6. \A i \in 1..n : f[i] = InsertLine(f[i - 1])
    BY <2>3, <2>5
  <2>7. ASSUME NEW i \in 0..n PROVE f[i] = IF i = 0 THEN d ELSE InsertLine(f[i - 1])
    <3>1. CASE i = 0
      BY <2>5, <3>1
    <3>2. CASE i # 0
      <4>1. i \in 1..n
        BY <2>2, <3>2
      <4>2. QED
        BY <2>6, <3>2, <4>1
    <3>3. QED
      BY <3>1, <3>2
  <2>8. f = [i \in 0..n |-> f[i]]
    BY <2>5
  <2>9. [i \in 0..n |-> f[i]] = [i \in 0..n |-> IF i = 0 THEN d ELSE InsertLine(f[i - 1])]
    BY ONLY <2>7
  <2>10. QED
    BY <2>8, <2>9
<1>4. Runs(after)
  BY <1>3
<1>5. csi_L(d, nr) = after[n]
  BY <1>1 DEF csi_L, Times
<1> HIDE DEF after
<1> DEFINE T == {i \in Nat : i <= n => RowsIn(d, after[i], i)}
<1>6. 0 \in T
  <2>1. after[0] = d
    BY <1>4
  <2>2. RowsIn(d, d, 0)
    <3>1. d.y \in Nat /\ Lines \in 0..Lines /\ 0 \in Nat /\ Picture(Shows(d))
      BY Statics, Sizes, ShowsPicture
    <3>2. \A r \in Row : r \in Int /\ r + 0 = r /\ r - 0 = r /\ r < Lines
      BY Sizes DEF Row
    <3>3. S!Down(Shows(d), d.y, Lines, 0) = Shows(d)
      <4>1. PICK z, t, u : z \in Nat /\ t \in Nat /\ z = 0 /\ t = d.y /\ u = Shows(d)
        BY <3>1
      <4>2. /\ Picture(S!Down(u, t, Lines, z))
            /\ \A r \in Row, c \in Col : S!Down(u, t, Lines, z)[r][c] =
                  IF ~(t <= r /\ r < Lines) THEN u[r][c]
                  ELSE IF t <= r - z THEN u[r - z][c] ELSE Erased
        <5>1. z \in Nat /\ t \in Nat /\ Picture(u) /\ Lines \in 0..Lines /\ Lines \in Int
          BY <3>1, <4>1, Sizes
        <5>2. QED
          BY ONLY <5>1, DownCells
      <4>3. \A r \in Row, c \in Col : S!Down(u, t, Lines, z)[r][c] = u[r][c]
        BY <3>2, <4>1, <4>2
      <4>4. QED
        BY <3>1, <4>1, <4>2, <4>3, SamePicture
    <3>4. QED
      BY <3>3 DEF RowsIn, SameCursor
  <2>3. QED
    BY <2>1, <2>2
<1>7. ASSUME NEW i \in Nat, i \in T PROVE i + 1 \in T
  <2>1. CASE i + 1 <= n
    <3>1. after[i + 1] = InsertLine(after[i])
      BY <1>4, <2>1
    <3>2. RowsIn(d, after[i], i)
      BY <1>7, <2>1
    <3>3. RowsIn(d, InsertLine(after[i]), i + 1)
      BY <3>2, OneRowIn
    <3>4. QED
      BY <3>1, <3>3
  <2>2. CASE ~(i + 1 <= n)
    BY <2>2
  <2>3. QED
    BY <2>1, <2>2
<1>8. n \in T
  <2> HIDE DEF T
  <2>1. QED
    BY <1>6, <1>7, Induct
<1>9. QED
  BY <1>5, <1>8

\* csi_M deletes between one and Lines rows.
LEMMA csi_M_Shown ==
    ASSUME NEW d, InStep(d), NEW nr \in Nat
    PROVE  \E n \in 1..Lines : RowsOut(d, csi_M(d, nr), n)
<1>1. PICK n \in 1..Lines : n = IF nr > Lines THEN Lines ELSE IF nr = 0 THEN 1 ELSE nr
  BY Sizes
<1> DEFINE D == {e \in Display : InStep(e)}
           F == [i \in Nat |-> [e \in D |-> DeleteLine(e)]]
           Runs(f) == f = [i \in 0..n |-> IF i = 0 THEN d ELSE DeleteLine(f[i - 1])]
           after == CHOOSE f : Runs(f)
<1>2. \A e : e \in D <=> InStep(e)
  BY DEF InStep
<1> HIDE DEF D
<1>3. \E f : Runs(f)
  <2>1. ASSUME NEW e \in D PROVE DeleteLine(e) \in D
    BY <1>2, LinesShown
  <2>2. F \in [Nat -> [D -> D]] /\ d \in D /\ n \in Nat
    BY <1>2, <2>1
  <2>3. \A i \in Nat, e \in D : F[i][e] = DeleteLine(e)
    OBVIOUS
  <2> HIDE DEF F
  <2>4. PICK f : Table(f, D, F, d, n)
    BY <2>2, Iterates
  <2>5. /\ f[0] = d /\ f = [i \in 0..n |-> f[i]]
        /\ \A i \in 1..n : i \in Nat /\ f[i - 1] \in D /\ f[i] = F[i][f[i - 1]]
    BY <2>4 DEF Table
  <2>6. \A i \in 1..n : f[i] = DeleteLine(f[i - 1])
    BY <2>3, <2>5
  <2>7. ASSUME NEW i \in 0..n PROVE f[i] = IF i = 0 THEN d ELSE DeleteLine(f[i - 1])
    <3>1. CASE i = 0
      BY <2>5, <3>1
    <3>2. CASE i # 0
      <4>1. i \in 1..n
        BY <2>2, <3>2
      <4>2. QED
        BY <2>6, <3>2, <4>1
    <3>3. QED
      BY <3>1, <3>2
  <2>8. f = [i \in 0..n |-> f[i]]
    BY <2>5
  <2>9. [i \in 0..n |-> f[i]] = [i \in 0..n |-> IF i = 0 THEN d ELSE DeleteLine(f[i - 1])]
    BY ONLY <2>7
  <2>10. QED
    BY <2>8, <2>9
<1>4. Runs(after)
  BY <1>3
<1>5. csi_M(d, nr) = after[n]
  BY <1>1 DEF csi_M, Times
<1> HIDE DEF after
<1> DEFINE T == {i \in Nat : i <= n => RowsOut(d, after[i], i)}
<1>6. 0 \in T
  <2>1. after[0] = d
    BY <1>4
  <2>2. RowsOut(d, d, 0)
    <3>1. d.y \in Nat /\ Lines \in 0..Lines /\ 0 \in Nat /\ Picture(Shows(d))
      BY Statics, Sizes, ShowsPicture
    <3>2. \A r \in Row : r \in Int /\ r + 0 = r /\ r - 0 = r /\ r < Lines
      BY Sizes DEF Row
    <3>3. S!Up(Shows(d), d.y, Lines, 0) = Shows(d)
      <4>1. PICK z, t, u : z \in Nat /\ t \in Nat /\ z = 0 /\ t = d.y /\ u = Shows(d)
        BY <3>1
      <4>2. /\ Picture(S!Up(u, t, Lines, z))
            /\ \A r \in Row, c \in Col : S!Up(u, t, Lines, z)[r][c] =
                  IF ~(t <= r /\ r < Lines) THEN u[r][c]
                  ELSE IF r + z < Lines THEN u[r + z][c] ELSE Erased
        <5>1. z \in Nat /\ t \in Nat /\ Picture(u) /\ Lines \in 0..Lines /\ Lines \in Int
          BY <3>1, <4>1, Sizes
        <5>2. QED
          BY ONLY <5>1, UpCells
      <4>3. \A r \in Row, c \in Col : S!Up(u, t, Lines, z)[r][c] = u[r][c]
        BY <3>2, <4>1, <4>2
      <4>4. QED
        BY <3>1, <4>1, <4>2, <4>3, SamePicture
    <3>4. QED
      BY <3>3 DEF RowsOut, SameCursor
  <2>3. QED
    BY <2>1, <2>2
<1>7. ASSUME NEW i \in Nat, i \in T PROVE i + 1 \in T
  <2>1. CASE i + 1 <= n
    <3>1. after[i + 1] = DeleteLine(after[i])
      BY <1>4, <2>1
    <3>2. RowsOut(d, after[i], i)
      BY <1>7, <2>1
    <3>3. RowsOut(d, DeleteLine(after[i]), i + 1)
      BY <3>2, OneRowOut
    <3>4. QED
      BY <3>1, <3>3
  <2>2. CASE ~(i + 1 <= n)
    BY <2>2
  <2>3. QED
    BY <2>1, <2>2
<1>8. n \in T
  <2> HIDE DEF T
  <2>1. QED
    BY <1>6, <1>7, Induct
<1>9. QED
  BY <1>5, <1>8


----------------------------------------------------------------------------
\* The console in step: the invariant.

ConsoleInv ==
    /\ InStep(con)
    /\ npar \in 0..(NPAR - 1) /\ par \in [0..(NPAR - 1) -> Nat]
    /\ attr \in Attr
    /\ saved \in Nat \X Nat

\* A step that types nothing shows what one step of the plain screen shows, or nothing.
Shift == \/ S!LineFeed \/ S!ReverseLineFeed \/ S!Tab \/ S!Goto \/ S!Rubout \/ S!Erase
         \/ \E n \in 1..Cols : S!InsertCells(n) \/ S!DeleteCells(n)
         \/ \E n \in 1..Lines : S!InsertRows(n) \/ S!DeleteRows(n)
         \/ S!SetRegion
ScreenStep == Shift \/ UNCHANGED S!screenVars

\* A character is typed: not a letter while F12Flag is set.
TypeStep == \E g \in Glyph : S!Type(g) /\ (F12Flag = 1 => g[1] # "letter")

\* The display before and after a step.
LEMMA Screens == Text = Shows(con) /\ Text' = Shows(con')
BY DEF Text, Shows, Row, Col

\* A step that leaves the display alone shows nothing.
LEMMA DisplayUnchanged == ASSUME UNCHANGED con PROVE ScreenStep
<1>1. Text' = Text
  BY Screens
<1>2. QED
  BY <1>1 DEF ScreenStep, S!screenVars

\* A move of the cursor is one of the plain screen's.
LEMMA CursorStep ==
    ASSUME con'.x \in 0..Cols, con'.y \in Row, Shows(con') = Shows(con),
           con'.top = con.top, con'.bottom = con.bottom
    PROVE  ScreenStep
<1>1. S!Goto
  BY Screens DEF S!Goto, S!Row, Row
<1>2. QED
  BY <1>1 DEF ScreenStep, Shift

\* lf, ri, gotoxy and the control characters that are one of them.
LEMMA LfStep == ASSUME InStep(con), con' = Lf(con) PROVE InStep(con') /\ ScreenStep
<1>1. S!LineFeed
  BY LfShown, Screens DEF Fed, FedY, S!LineFeed, S!FedText, S!FedRow
<1>2. QED
  BY <1>1, LfShown DEF ScreenStep, Shift

\* ri is a reverse line feed.
LEMMA RiStep == ASSUME InStep(con), con' = Ri(con) PROVE InStep(con') /\ ScreenStep
<1>1. S!ReverseLineFeed
  BY RiShown, Screens DEF S!ReverseLineFeed
<1>2. QED
  BY <1>1, RiShown DEF ScreenStep, Shift

\* gotoxy moves the cursor.
LEMMA GotoStep ==
    ASSUME InStep(con), NEW nx \in Nat, NEW ny \in Nat, con' = GotoXY(con, nx, ny)
    PROVE  InStep(con') /\ ScreenStep
BY GotoXYShown, CursorStep

\* The cells that a step erases.
LEMMA WipedStep ==
    ASSUME NEW P, \A r \in Row, c \in Col :
                     Shows(con')[r][c] = IF <<r, c>> \in P THEN Erased ELSE Shows(con)[r][c]
    PROVE  Text' = S!Wiped(P)
<1>1. S!Wiped(P) = [r \in Row |-> [c \in Col |-> IF <<r, c>> \in P
          THEN Erased ELSE Shows(con)[r][c]]]
  BY Screens DEF S!Wiped, S!Row, S!Col, Row, Col
<1>2. Picture(S!Wiped(P)) /\ Picture(Shows(con'))
  BY <1>1, ShowsPicture DEF Picture
<1>3. ASSUME NEW r \in Row, NEW c \in Col PROVE S!Wiped(P)[r][c] = Shows(con')[r][c]
  <2>1. S!Wiped(P)[r][c] = IF <<r, c>> \in P THEN Erased ELSE Shows(con)[r][c]
    BY <1>1
  <2>2. QED
    BY <2>1
<1>4. QED
  BY <1>2, <1>3, SamePicture, Screens

\* del erases the cell before the cursor.
LEMMA DelStep == ASSUME InStep(con), con' = Del(con) PROVE InStep(con') /\ ScreenStep
<1>1. CASE con.x = 0
  BY <1>1, DisplayUnchanged DEF Del
<1>2. CASE con.x # 0
  <2>1. Text' = S!Wiped({<<con.y, con.x - 1>>})
    BY <1>2, DelShown, WipedStep
  <2>2. con.x > 0
    BY <1>2, Statics
  <2>3. S!Rubout
    BY <1>2, <2>1, <2>2, DelShown DEF S!Rubout
  <2>4. QED
    BY <1>2, <2>3, DelShown DEF ScreenStep, Shift
<1>3. QED
  BY <1>1, <1>2

\* A tab.
LEMMA TabStep == ASSUME InStep(con), con' = TabChar PROVE InStep(con') /\ ScreenStep
<1>1. S!Tab
  BY TabShown, Screens DEF Fed, FedY, S!Tab, S!FedText, S!FedRow, TabTo
<1>2. QED
  BY <1>1, TabShown DEF ScreenStep, Shift

\* Line feed, carriage return, erase, backspace and tab.
LEMMA ControlStep == ASSUME ConsoleInv, Control PROVE ConsoleInv' /\ ScreenStep
<1>1. InStep(con') /\ ScreenStep
  <2>1. InStep(con)
    BY DEF ConsoleInv
  <2>2. CASE con' = Lf(con)
    BY <2>1, <2>2, LfStep
  <2>3. CASE con' = Cr(con)
    BY <2>1, <2>3, CrShown, CursorStep
  <2>4. CASE con' = Del(con)
    BY <2>1, <2>4, DelStep
  <2>5. CASE con' = Backspace
    BY <2>1, <2>5, BackspaceShown, CursorStep
  <2>6. CASE con' = TabChar
    BY <2>1, <2>6, TabStep
  <2>7. QED
    BY <2>2, <2>3, <2>4, <2>5, <2>6 DEF Control
<1>2. QED
  BY <1>1 DEF ConsoleInv, Control, parser

\* A picture with one cell replaced.
WithCell(s, y, x, g) == [s EXCEPT ![y][x] = g]

\* Its cells.
LEMMA OneCellPicture ==
    ASSUME NEW s, Picture(s), NEW y \in Row, NEW x \in Col, NEW g
    PROVE  /\ Picture(WithCell(s, y, x, g))
           /\ \A r \in Row, k \in Col :
                 WithCell(s, y, x, g)[r][k] = IF r = y /\ k = x THEN g ELSE s[r][k]
<1> DEFINE t == WithCell(s, y, x, g)
<1>1. s = [r \in Row |-> s[r]] /\ \A r \in Row : s[r] = [k \in Col |-> s[r][k]]
  BY DEF Picture
<1>2. t = [r \in Row |-> IF r = y THEN [s[y] EXCEPT ![x] = g] ELSE s[r]]
  BY <1>1 DEF WithCell
<1>3. [s[y] EXCEPT ![x] = g] = [k \in Col |-> IF k = x THEN g ELSE s[y][k]]
  BY <1>1
<1> HIDE DEF t
<1>4. \A r \in Row : t[r] = [k \in Col |-> IF r = y /\ k = x THEN g ELSE s[r][k]]
  BY <1>1, <1>2, <1>3
<1>5. \A r \in Row, k \in Col : t[r][k] = IF r = y /\ k = x THEN g ELSE s[r][k]
  BY <1>4
<1>6. \A r \in Row : t[r] = [k \in Col |-> t[r][k]]
  BY <1>4
<1>7. Picture(t)
  BY <1>2, <1>6 DEF Picture
<1>8. QED
  BY <1>5, <1>7 DEF t

\* A character is printed.
LEMMA PrintStep ==
    ASSUME ConsoleInv, NEW c \in Class, PrintChar(c)
    PROVE  ConsoleInv' /\ TypeStep
<1> DEFINE d == IF con.x >= Cols THEN Wrap(con) ELSE con
           g == <<Shown(c), attr>>
<1>1. con' = [d EXCEPT !.mem[d.pos] = g, !.pos = @ + 1, !.x = @ + 1]
  BY DEF PrintChar
<1>2. InStep(con) /\ con.x \in Int /\ con.x <= Cols /\ Cols \in Int /\ 0 <= con.x /\ con.pos \in Int
      /\ 0 \in Col /\ 0 \in 0..Cols /\ con \in Display
  BY Statics, Sizes DEF ConsoleInv, Col
<1>3. /\ InStep(d) /\ d.top = con.top /\ d.bottom = con.bottom
      /\ d.x = (IF con.x < Cols THEN con.x ELSE 0)
      /\ d.y = (IF con.x < Cols THEN con.y ELSE FedY(con))
      /\ Shows(d) = (IF con.x < Cols THEN Shows(con) ELSE Fed(con))
  <2>1. CASE con.x >= Cols
    <3>1. con.x = Cols /\ con.x - Cols = 0 /\ con.pos - Cols = con.pos + 0 - con.x
      BY <1>2, <2>1
    <3>2. [con EXCEPT !.x = @ - Cols, !.pos = @ - Cols] = InColumn(con, 0)
      BY <1>2, <3>1 DEF InColumn, Display
    <3>3. Wrap(con) = Lf(InColumn(con, 0))
      BY <3>2 DEF Wrap
    <3>4. QED
      BY <1>2, <2>1, <3>1, <3>3, WrapShown
  <2>2. CASE ~(con.x >= Cols)
    BY <1>2, <2>2
  <2>3. QED
    BY <2>1, <2>2
<1>4. g \in Glyph /\ g \in Cell
  <2>1. Shown(c) \in Class
    BY DEF Shown, Class
  <2>2. attr \in Attr
    BY DEF ConsoleInv
  <2>3. QED
    BY <2>1, <2>2 DEF Glyph, Cell
<1> HIDE DEF d, g
<1>5. d.x \in Col /\ d.y \in Row /\ d.x + 1 \in 0..Cols /\ d.x \in Int /\ d.pos \in Int
          /\ d \in Display
      /\ d.y \in Int /\ d.pos = d.origin + RowAt(d.y) + d.x
  <2>1. d.x \in Int /\ 0 <= d.x /\ d.x < Cols
    BY <1>2, <1>3, Sizes
  <2>2. QED
    BY <1>2, <1>3, <2>1, Statics DEF Col
<1> DEFINE e == Put(d, d.y, d.x, g)
<1>6. /\ InStep(e) /\ SameWindow(d, e)
      /\ \A r \in Row, k \in Col :
            Shows(e)[r][k] = IF r = d.y /\ k = d.x THEN g ELSE Shows(d)[r][k]
  BY <1>3, <1>4, <1>5, OneCell
<1>7. con' = InColumn(e, d.x + 1)
  <2>1. PICK pos, nx, m : pos = d.pos + 1 /\ nx = d.x + 1 /\ m = [d.mem EXCEPT ![d.pos] = g]
    OBVIOUS
  <2>2. con' = [d EXCEPT !.mem = m, !.pos = pos, !.x = nx]
    BY <1>1, <2>1
  <2>3. e = [d EXCEPT !.mem = m] /\ e.pos = d.pos /\ e.x = d.x
    BY <1>5, <2>1 DEF Display, Put
  <2>4. d.pos + (d.x + 1) - d.x = pos
    BY <1>5, <2>1
  <2> HIDE DEF e
  <2>5. InColumn(e, d.x + 1) = [e EXCEPT !.x = nx, !.pos = pos]
    BY <2>1, <2>3, <2>4 DEF InColumn
  <2>6. QED
    BY <1>5, <2>2, <2>3, <2>5 DEF Display
<1> HIDE DEF e
<1>8. /\ InStep(con') /\ Shows(con') = Shows(e) /\ con'.x = d.x + 1 /\ con'.y = d.y
      /\ con'.top = con.top /\ con'.bottom = con.bottom
  BY <1>3, <1>5, <1>6, <1>7, InColumnShown DEF SameWindow, SameCursor
<1>9. Shows(con') = WithCell(Shows(d), d.y, d.x, g)
  <2>1. PICK s, t, u, v : /\ s = Shows(d) /\ t = Shows(con')
                          /\ u = WithCell(s, d.y, d.x, g) /\ v = Shows(e)
    OBVIOUS
  <2>2. Picture(s) /\ Picture(t)
    BY <2>1, ShowsPicture
  <2>3. Picture(u) /\ \A r \in Row, k \in Col :
                         u[r][k] = IF r = d.y /\ k = d.x THEN g ELSE s[r][k]
    BY <1>5, <2>1, <2>2, OneCellPicture
  <2>4. \A r \in Row, k \in Col : t[r][k] = u[r][k]
    BY <1>6, <1>8, <2>1, <2>3
  <2>5. t = u
    BY ONLY <2>2, <2>3, <2>4, SamePicture
  <2>6. QED
    BY <2>1, <2>5
<1>10. S!Type(g)
  <2>1. CASE con.x < Cols
    BY <1>2, <1>3, <1>8, <1>9, <2>1, Screens DEF S!Type, WithCell
  <2>2. CASE ~(con.x < Cols)
    <3>1. d.x = 0 /\ d.y = S!FedRow /\ Shows(d) = S!FedText
      BY <1>3, <2>2, Screens DEF Fed, FedY, S!FedRow, S!FedText
    <3>2. con'.x = 1
      BY <1>8, <3>1
    <3>3. QED
      BY <1>8, <1>9, <2>2, <3>1, <3>2, Screens DEF S!Type, WithCell
  <2>3. QED
    BY <2>1, <2>2
<1>11. TypeStep
  <2>1. F12Flag = 1 => g[1] # "letter"
    BY DEF Shown, Class, g
  <2>2. QED
    BY <1>4, <1>10, <2>1 DEF TypeStep
<1>12. ConsoleInv'
  BY <1>8 DEF ConsoleInv, PrintChar, parser
<1>13. QED
  BY <1>11, <1>12


----------------------------------------------------------------------------
\* The commands.

\* A picture with one row replaced.
WithRow(s, y, f) == [s EXCEPT ![y] = f]

\* Its cells.
LEMMA OneRowPicture ==
    ASSUME NEW s, Picture(s), NEW y \in Row, NEW f, f = [c \in Col |-> f[c]]
    PROVE  /\ Picture(WithRow(s, y, f))
           /\ \A r \in Row, c \in Col : WithRow(s, y, f)[r][c] = IF r = y THEN f[c] ELSE s[r][c]
<1> DEFINE t == WithRow(s, y, f)
<1>1. s = [r \in Row |-> s[r]] /\ \A r \in Row : s[r] = [k \in Col |-> s[r][k]]
  BY DEF Picture
<1>2. t = [r \in Row |-> IF r = y THEN f ELSE s[r]]
  BY <1>1 DEF WithRow
<1> HIDE DEF t
<1>3. \A r \in Row, c \in Col : t[r][c] = IF r = y THEN f[c] ELSE s[r][c]
  BY <1>2
<1>4. \A r \in Row : t[r] = [c \in Col |-> t[r][c]]
  BY <1>1, <1>2
<1>5. Picture(t)
  BY <1>2, <1>4 DEF Picture
<1>6. QED
  BY <1>3, <1>5 DEF t

\* Blanks are inserted.
LEMMA csi_at_Step ==
    ASSUME InStep(con), NEW nr \in Nat, con' = csi_at(con, nr)
    PROVE  InStep(con') /\ ScreenStep
<1>1. PICK n \in 1..Cols : CharsIn(con, con', n)
  BY csi_at_Shown
<1>2. PICK s, t, y, x : s = Shows(con) /\ t = Shows(con') /\ y = con.y /\ x = con.x
  OBVIOUS
<1> DEFINE f == [c \in Col |-> IF c < x THEN s[y][c] ELSE IF c < x + n THEN Erased ELSE s[y][c - n]]
<1>3. y \in Row /\ Picture(s) /\ Picture(t) /\ f = [c \in Col |-> f[c]]
  BY <1>2, Statics, ShowsPicture
<1>4. \A c \in Col : f[c] = IF c < x THEN s[y][c] ELSE IF c < x + n THEN Erased ELSE s[y][c - n]
  OBVIOUS
<1> HIDE DEF f
<1>5. /\ Picture(WithRow(s, y, f))
      /\ \A r \in Row, c \in Col : WithRow(s, y, f)[r][c] = IF r = y THEN f[c] ELSE s[r][c]
  BY <1>3, OneRowPicture
<1>6. \A r \in Row, c \in Col : t[r][c] = WithRow(s, y, f)[r][c]
  BY <1>1, <1>2, <1>4, <1>5 DEF CharsIn
<1>7. t = WithRow(s, y, f)
  BY <1>3, <1>5, <1>6, SamePicture
<1>8. S!InsertCells(n)
  <2>1. Text = s /\ Text' = t /\ UNCHANGED <<con.x, con.y, con.top, con.bottom>>
    BY <1>1, <1>2, Screens DEF CharsIn, SameCursor
  <2>2. f = [c \in S!Col |-> IF c < con.x THEN Text[con.y][c] ELSE IF c < con.x + n
            THEN Erased ELSE Text[con.y][c - n]]
    BY <1>2, <2>1 DEF f, S!Col, Col
  <2>3. Text' = [Text EXCEPT ![con.y] = f]
    BY <1>2, <1>7, <2>1 DEF WithRow
  <2>4. QED
    BY <2>1, <2>2, <2>3 DEF S!InsertCells
<1>9. QED
  BY <1>1, <1>8 DEF CharsIn, ScreenStep, Shift

\* Cells are deleted.
LEMMA csi_P_Step ==
    ASSUME InStep(con), NEW nr \in Nat, con' = csi_P(con, nr)
    PROVE  InStep(con') /\ ScreenStep
<1>1. PICK n \in 1..Cols : CharsOut(con, con', n)
  BY csi_P_Shown
<1>2. PICK s, t, y, x : s = Shows(con) /\ t = Shows(con') /\ y = con.y /\ x = con.x
  OBVIOUS
<1> DEFINE f == [c \in Col |-> IF c < x THEN s[y][c] ELSE IF c + n < Cols
    THEN s[y][c + n] ELSE Erased]
<1>3. y \in Row /\ Picture(s) /\ Picture(t) /\ f = [c \in Col |-> f[c]]
  BY <1>2, Statics, ShowsPicture
<1>4. \A c \in Col : f[c] = IF c < x THEN s[y][c] ELSE IF c + n < Cols THEN s[y][c + n] ELSE Erased
  OBVIOUS
<1> HIDE DEF f
<1>5. /\ Picture(WithRow(s, y, f))
      /\ \A r \in Row, c \in Col : WithRow(s, y, f)[r][c] = IF r = y THEN f[c] ELSE s[r][c]
  BY <1>3, OneRowPicture
<1>6. \A r \in Row, c \in Col : t[r][c] = WithRow(s, y, f)[r][c]
  BY <1>1, <1>2, <1>4, <1>5 DEF CharsOut
<1>7. t = WithRow(s, y, f)
  BY <1>3, <1>5, <1>6, SamePicture
<1>8. S!DeleteCells(n)
  <2>1. Text = s /\ Text' = t /\ UNCHANGED <<con.x, con.y, con.top, con.bottom>>
    BY <1>1, <1>2, Screens DEF CharsOut, SameCursor
  <2>2. f = [c \in S!Col |-> IF c < con.x THEN Text[con.y][c] ELSE IF c + n < Cols
            THEN Text[con.y][c + n] ELSE Erased]
    BY <1>2, <2>1 DEF f, S!Col, Col
  <2>3. Text' = [Text EXCEPT ![con.y] = f]
    BY <1>2, <1>7, <2>1 DEF WithRow
  <2>4. QED
    BY <2>1, <2>2, <2>3 DEF S!DeleteCells
<1>9. QED
  BY <1>1, <1>8 DEF CharsOut, ScreenStep, Shift

\* Rows are inserted.
LEMMA csi_L_Step ==
    ASSUME InStep(con), NEW nr \in Nat, con' = csi_L(con, nr)
    PROVE  InStep(con') /\ ScreenStep
<1>1. PICK n \in 1..Lines : RowsIn(con, con', n)
  BY csi_L_Shown
<1>2. S!InsertRows(n)
  BY <1>1, Screens DEF RowsIn, SameCursor, S!InsertRows
<1>3. QED
  BY <1>1, <1>2 DEF RowsIn, ScreenStep, Shift

\* Rows are deleted.
LEMMA csi_M_Step ==
    ASSUME InStep(con), NEW nr \in Nat, con' = csi_M(con, nr)
    PROVE  InStep(con') /\ ScreenStep
<1>1. PICK n \in 1..Lines : RowsOut(con, con', n)
  BY csi_M_Shown
<1>2. S!DeleteRows(n)
  BY <1>1, Screens DEF RowsOut, SameCursor, S!DeleteRows
<1>3. QED
  BY <1>1, <1>2 DEF RowsOut, ScreenStep, Shift

\* The cells before the cursor, and those of its row.
LEMMA CursorCells ==
    ASSUME InStep(con), NEW r \in Row, NEW c \in Col
    PROVE  /\ <<r, c>> \in S!Row \X S!Col
           /\ <<r, c>> \in S!Before <=> r < con.y \/ (r = con.y /\ c < con.x)
           /\ <<r, c>> \in S!InRow <=> r = con.y
           /\ Within(r, c, 0, 0, Lines, 0)
           /\ Within(r, c, con.y, con.x, Lines, 0) <=> ~(r < con.y \/ (r = con.y /\ c < con.x))
           /\ Within(r, c, 0, 0, con.y, con.x) <=> r < con.y \/ (r = con.y /\ c < con.x)
           /\ Within(r, c, con.y, con.x, con.y, Cols) <=> r = con.y /\ ~(c < con.x)
           /\ Within(r, c, con.y, 0, con.y, con.x) <=> r = con.y /\ c < con.x
           /\ Within(r, c, con.y, 0, con.y, Cols) <=> r = con.y
<1>1. PICK y, x : y = con.y /\ x = con.x
  OBVIOUS
<1>2. /\ x \in Int /\ y \in Int /\ Lines \in Int /\ Cols \in Int /\ r \in Int /\ c \in Int
      /\ 0 <= x /\ 0 <= y /\ y < Lines /\ x <= Cols /\ 0 <= r /\ 0 <= c /\ r < Lines /\ c < Cols
  BY <1>1, Statics, Sizes DEF Row, Col
<1>3. /\ <<r, c>> \in S!Row \X S!Col
      /\ <<r, c>> \in S!Before <=> r < y \/ (r = y /\ c < x)
      /\ <<r, c>> \in S!InRow <=> r = y
  BY <1>1 DEF S!Before, S!InRow, S!Row, S!Col, Row, Col
<1>4. Within(r, c, 0, 0, Lines, 0)
  BY ONLY <1>2 DEF Within
<1>5. Within(r, c, y, x, Lines, 0) <=> ~(r < y \/ (r = y /\ c < x))
  BY ONLY <1>2 DEF Within
<1>6. Within(r, c, 0, 0, y, x) <=> r < y \/ (r = y /\ c < x)
  BY ONLY <1>2 DEF Within
<1>7. Within(r, c, y, x, y, Cols) <=> r = y /\ ~(c < x)
  BY ONLY <1>2 DEF Within
<1>8. Within(r, c, y, 0, y, x) <=> r = y /\ c < x
  BY ONLY <1>2 DEF Within
<1>9. Within(r, c, y, 0, y, Cols) <=> r = y
  BY ONLY <1>2 DEF Within
<1>10. QED
  BY <1>1, <1>3, <1>4, <1>5, <1>6, <1>7, <1>8, <1>9

\* Cells of the display, or of the cursor's row, are erased.
LEMMA EraseStep ==
    ASSUME InStep(con), NEW p \in Nat, con' = CsiJ(con, p) \/ con' = CsiK(con, p)
    PROVE  InStep(con') /\ ScreenStep
<1>1. ASSUME NEW P, SameCursor(con, con'),
             P \in {S!Before, (S!Row \X S!Col) \ S!Before, S!Row \X S!Col,
                    S!InRow \cap S!Before, S!InRow \ S!Before, S!InRow},
             Text' = S!Wiped(P)
      PROVE  ScreenStep
  <2>1. S!Erase
    BY <1>1 DEF S!Erase, SameCursor
  <2>2. QED
    BY <2>1 DEF ScreenStep, Shift
<1>2. CASE con' = CsiJ(con, p) /\ p \in {0, 1, 2}
  <2>1. /\ InStep(con') /\ SameCursor(con, con')
        /\ \A r \in Row, c \in Col :
              Shows(con')[r][c] =
                 IF \/ p = 0 /\ Within(r, c, con.y, con.x, Lines, 0)
                    \/ p = 1 /\ Within(r, c, 0, 0, con.y, con.x)
                    \/ p = 2 /\ Within(r, c, 0, 0, Lines, 0)
                 THEN Erased ELSE Shows(con)[r][c]
    BY <1>2, CsiJShown
  <2>2. CASE p = 0
    <3>1. \A r \in Row, c \in Col :
             Shows(con')[r][c] = IF <<r, c>> \in (S!Row \X S!Col) \ S!Before
                 THEN Erased ELSE Shows(con)[r][c]
      <4>1. SUFFICES ASSUME NEW r \in Row, NEW c \in Col
                     PROVE  Shows(con')[r][c] = IF <<r, c>> \in (S!Row \X S!Col) \ S!Before
                         THEN Erased ELSE Shows(con)[r][c]
        OBVIOUS
      <4>2. Shows(con')[r][c] = IF Within(r, c, con.y, con.x, Lines, 0)
                THEN Erased ELSE Shows(con)[r][c]
        BY <2>1, <2>2
      <4>3. <<r, c>> \in (S!Row \X S!Col) \ S!Before <=> Within(r, c, con.y, con.x, Lines, 0)
        BY CursorCells, Statics DEF Row
      <4>4. QED
        BY <4>2, <4>3
    <3>2. Text' = S!Wiped((S!Row \X S!Col) \ S!Before)
      BY <3>1, WipedStep
    <3>3. QED
      BY <1>1, <2>1, <3>2
  <2>3. CASE p = 1
    <3>1. \A r \in Row, c \in Col :
             Shows(con')[r][c] = IF <<r, c>> \in S!Before THEN Erased ELSE Shows(con)[r][c]
      <4>1. SUFFICES ASSUME NEW r \in Row, NEW c \in Col
                     PROVE  Shows(con')[r][c] = IF <<r, c>> \in S!Before
                         THEN Erased ELSE Shows(con)[r][c]
        OBVIOUS
      <4>2. Shows(con')[r][c] = IF Within(r, c, 0, 0, con.y, con.x)
                THEN Erased ELSE Shows(con)[r][c]
        BY <2>1, <2>3
      <4>3. <<r, c>> \in S!Before <=> Within(r, c, 0, 0, con.y, con.x)
        BY CursorCells, Statics DEF Row
      <4>4. QED
        BY <4>2, <4>3
    <3>2. Text' = S!Wiped(S!Before)
      BY <3>1, WipedStep
    <3>3. QED
      BY <1>1, <2>1, <3>2
  <2>4. CASE p = 2
    <3>1. \A r \in Row, c \in Col :
             Shows(con')[r][c] = IF <<r, c>> \in S!Row \X S!Col THEN Erased ELSE Shows(con)[r][c]
      <4>1. SUFFICES ASSUME NEW r \in Row, NEW c \in Col
                     PROVE  Shows(con')[r][c] = IF <<r, c>> \in S!Row \X S!Col
                         THEN Erased ELSE Shows(con)[r][c]
        OBVIOUS
      <4>2. Shows(con')[r][c] = IF Within(r, c, 0, 0, Lines, 0) THEN Erased ELSE Shows(con)[r][c]
        BY <2>1, <2>4
      <4>3. <<r, c>> \in S!Row \X S!Col <=> Within(r, c, 0, 0, Lines, 0)
        BY CursorCells, Statics DEF Row
      <4>4. QED
        BY <4>2, <4>3
    <3>2. Text' = S!Wiped(S!Row \X S!Col)
      BY <3>1, WipedStep
    <3>3. QED
      BY <1>1, <2>1, <3>2
  <2>5. QED
    BY <1>2, <2>1, <2>2, <2>3, <2>4
<1>3. CASE con' = CsiK(con, p) /\ p \in {0, 1, 2} /\ (p = 0 => con.x < Cols)
  <2>1. /\ InStep(con') /\ SameCursor(con, con')
        /\ \A r \in Row, c \in Col :
              Shows(con')[r][c] =
                 IF \/ p = 0 /\ Within(r, c, con.y, con.x, con.y, Cols)
                    \/ p = 1 /\ Within(r, c, con.y, 0, con.y, con.x)
                    \/ p = 2 /\ Within(r, c, con.y, 0, con.y, Cols)
                 THEN Erased ELSE Shows(con)[r][c]
    BY <1>3, CsiKShown
  <2>2. CASE p = 0
    <3>1. \A r \in Row, c \in Col :
             Shows(con')[r][c] = IF <<r, c>> \in S!InRow \ S!Before
                 THEN Erased ELSE Shows(con)[r][c]
      <4>1. SUFFICES ASSUME NEW r \in Row, NEW c \in Col
                     PROVE  Shows(con')[r][c] = IF <<r, c>> \in S!InRow \ S!Before
                         THEN Erased ELSE Shows(con)[r][c]
        OBVIOUS
      <4>2. Shows(con')[r][c] = IF Within(r, c, con.y, con.x, con.y, Cols)
                THEN Erased ELSE Shows(con)[r][c]
        BY <2>1, <2>2
      <4>3. <<r, c>> \in S!InRow \ S!Before <=> Within(r, c, con.y, con.x, con.y, Cols)
        BY CursorCells, Statics DEF Row
      <4>4. QED
        BY <4>2, <4>3
    <3>2. Text' = S!Wiped(S!InRow \ S!Before)
      BY <3>1, WipedStep
    <3>3. QED
      BY <1>1, <2>1, <3>2
  <2>3. CASE p = 1
    <3>1. \A r \in Row, c \in Col :
             Shows(con')[r][c] = IF <<r, c>> \in S!InRow \cap S!Before
                 THEN Erased ELSE Shows(con)[r][c]
      <4>1. SUFFICES ASSUME NEW r \in Row, NEW c \in Col
                     PROVE  Shows(con')[r][c] = IF <<r, c>> \in S!InRow \cap S!Before
                         THEN Erased ELSE Shows(con)[r][c]
        OBVIOUS
      <4>2. Shows(con')[r][c] = IF Within(r, c, con.y, 0, con.y, con.x)
                THEN Erased ELSE Shows(con)[r][c]
        BY <2>1, <2>3
      <4>3. <<r, c>> \in S!InRow \cap S!Before <=> Within(r, c, con.y, 0, con.y, con.x)
        BY CursorCells, Statics DEF Row
      <4>4. QED
        BY <4>2, <4>3
    <3>2. Text' = S!Wiped(S!InRow \cap S!Before)
      BY <3>1, WipedStep
    <3>3. QED
      BY <1>1, <2>1, <3>2
  <2>4. CASE p = 2
    <3>1. \A r \in Row, c \in Col :
             Shows(con')[r][c] = IF <<r, c>> \in S!InRow THEN Erased ELSE Shows(con)[r][c]
      <4>1. SUFFICES ASSUME NEW r \in Row, NEW c \in Col
                     PROVE  Shows(con')[r][c] = IF <<r, c>> \in S!InRow
                         THEN Erased ELSE Shows(con)[r][c]
        OBVIOUS
      <4>2. Shows(con')[r][c] = IF Within(r, c, con.y, 0, con.y, Cols)
                THEN Erased ELSE Shows(con)[r][c]
        BY <2>1, <2>4
      <4>3. <<r, c>> \in S!InRow <=> Within(r, c, con.y, 0, con.y, Cols)
        BY CursorCells, Statics DEF Row
      <4>4. QED
        BY <4>2, <4>3
    <3>2. Text' = S!Wiped(S!InRow)
      BY <3>1, WipedStep
    <3>3. QED
      BY <1>1, <2>1, <3>2
  <2>5. QED
    BY <1>3, <2>1, <2>2, <2>3, <2>4
<1>4. CASE con' = con
  BY <1>4, DisplayUnchanged
<1>5. CASE con' = CsiJ(con, p) /\ p \notin {0, 1, 2}
  BY <1>4, <1>5 DEF CsiJ
<1>6. CASE con' = CsiK(con, p) /\ ~(p \in {0, 1, 2} /\ (p = 0 => con.x < Cols))
  BY <1>4, <1>6 DEF CsiK
<1>7. QED
  BY <1>2, <1>3, <1>5, <1>6

\* A display with another region.
WithRegion(d, t, b) == [d EXCEPT !.top = t, !.bottom = b]

\* It shows the same.
LEMMA RegionShown ==
    ASSUME NEW d, InStep(d), NEW t \in Nat, NEW b \in Nat, t < b, b <= Lines
    PROVE  LET e == WithRegion(d, t, b)
           IN  /\ InStep(e) /\ Shows(e) = Shows(d)
               /\ e.x = d.x /\ e.y = d.y /\ e.top = t /\ e.bottom = b
<1> DEFINE e == WithRegion(d, t, b)
<1>1. d \in Display /\ t \in Int /\ b \in Int
  BY DEF InStep
<1>2. /\ e \in Display /\ e.mem = d.mem /\ e.origin = d.origin /\ e.scr_end = d.scr_end
      /\ e.pos = d.pos /\ e.x = d.x /\ e.y = d.y /\ e.top = t /\ e.bottom = b
  BY ONLY <1>1 DEF Display, WithRegion
<1>3. t \in 0..(b - 1) /\ b \in 1..Lines
  BY Sizes
<1> HIDE DEF e
<1>4. InStep(e) /\ Shows(e) = Shows(d)
  BY <1>2, <1>3 DEF InStep, Shows
<1>5. QED
  BY <1>2, <1>4 DEF e

\* The region is set.
LEMMA RegionStep ==
    ASSUME InStep(con), NEW p \in Nat, NEW q \in Nat, CsiRegion(p, q)
    PROVE  InStep(con') /\ ScreenStep
<1>1. PICK t, b : t = Less1(p) /\ b = IF q = 0 THEN Lines ELSE q
  OBVIOUS
<1>2. t \in Nat /\ b \in Nat
  BY <1>1, Sizes DEF Less1
<1>3. con' = IF t < b /\ b <= Lines THEN [con EXCEPT !.top = t, !.bottom = b] ELSE con
  BY <1>1 DEF CsiRegion
<1>4. CASE t < b /\ b <= Lines
  <2>0. con' = WithRegion(con, t, b)
    BY <1>3, <1>4 DEF WithRegion
  <2>1. /\ InStep(con') /\ Shows(con') = Shows(con)
        /\ con'.x = con.x /\ con'.y = con.y /\ con'.top = t /\ con'.bottom = b
    BY <1>2, <1>4, <2>0, RegionShown
  <2>2. t \in 0..(b - 1) /\ b \in 1..Lines
    BY <1>2, <1>4, Sizes
  <2>3. S!SetRegion
    BY <2>1, <2>2, Screens DEF S!SetRegion
  <2>4. QED
    BY <2>1, <2>3 DEF ScreenStep, Shift
<1>5. CASE ~(t < b /\ b <= Lines)
  BY <1>3, <1>5, DisplayUnchanged
<1>6. QED
  BY <1>4, <1>5

\* The cursor commands.
LEMMA MoveStep ==
    ASSUME InStep(con), NEW p \in Nat, NEW q \in Nat, CsiMove(p, q)
    PROVE  InStep(con') /\ ScreenStep
<1>1. con.x \in Nat /\ con.y \in Nat
  BY Statics
<1>2. \A a \in Nat : Less1(a) \in Nat /\ AtLeast1(a) \in Nat
  BY DEF Less1, AtLeast1
<1>3. ASSUME NEW a \in Nat, NEW b \in Nat PROVE Plus(a, b) \in Nat /\ Minus(a, b) \in Nat
  BY Sizes DEF Plus, Minus
<1>4. PICK nx \in Nat, ny \in Nat : con' = GotoXY(con, nx, ny)
  BY <1>1, <1>2, <1>3 DEF CsiMove
<1>5. QED
  BY <1>4, GotoStep

\* The attributes that csi_m leaves are attributes.
LEMMA CsiMAttr ==
    ASSUME ConsoleInv
    PROVE  CsiM \in Attr
<1> DEFINE of(a, p) == CASE p \in {0, 27} -> 7 [] p \in {1, 4} -> 15 [] p = 7 -> 112 [] OTHER -> a
           n == npar + 1
           F == [i \in Nat |-> [a \in Attr |-> of(a, par[i - 1])]]
           Runs(f) == f = [i \in 0..n |-> IF i = 0 THEN attr ELSE of(f[i - 1], par[i - 1])]
           after == CHOOSE f : Runs(f)
<1>1. n \in Nat /\ attr \in Attr
  BY Sizes DEF ConsoleInv
<1>2. CsiM = after[n]
  BY DEF CsiM
<1>3. ASSUME NEW a \in Attr, NEW p PROVE of(a, p) \in Attr
  BY DEF Attr
<1> HIDE DEF of, n
<1>4. \E f : Runs(f)
  <2>1. F \in [Nat -> [Attr -> Attr]]
    BY <1>3
  <2>2. \A i \in Nat, a \in Attr : F[i][a] = of(a, par[i - 1])
    OBVIOUS
  <2> HIDE DEF F
  <2>3. PICK f : Table(f, Attr, F, attr, n)
    BY <1>1, <2>1, Iterates
  <2>4. /\ f[0] = attr /\ f = [i \in 0..n |-> f[i]]
        /\ \A i \in 1..n : i \in Nat /\ f[i - 1] \in Attr /\ f[i] = F[i][f[i - 1]]
    BY <1>1, <2>3 DEF Table
  <2>5. \A i \in 1..n : f[i] = of(f[i - 1], par[i - 1])
    BY <2>2, <2>4
  <2>6. ASSUME NEW i \in 0..n PROVE f[i] = IF i = 0 THEN attr ELSE of(f[i - 1], par[i - 1])
    <3>1. CASE i = 0
      BY <2>4, <3>1
    <3>2. CASE i # 0
      <4>1. i \in 1..n
        BY <1>1, <3>2
      <4>2. QED
        BY <2>5, <3>2, <4>1
    <3>3. QED
      BY <3>1, <3>2
  <2>7. [i \in 0..n |-> f[i]] = [i \in 0..n |-> IF i = 0 THEN attr ELSE of(f[i - 1], par[i - 1])]
    BY ONLY <2>6
  <2>8. QED
    BY <2>4, <2>7
<1>5. Runs(after)
  BY <1>4
<1> HIDE DEF after
<1> DEFINE T == {i \in Nat : i <= n => after[i] \in Attr}
<1>6. 0 \in T
  BY <1>1, <1>5
<1>7. ASSUME NEW i \in Nat, i \in T PROVE i + 1 \in T
  <2>1. CASE i + 1 <= n
    <3>1. i + 1 \in 0..n /\ i + 1 # 0 /\ (i + 1) - 1 = i /\ i <= n
      BY <1>1, <2>1
    <3>2. after[i + 1] = of(after[i], par[i])
      BY <1>5, <3>1
    <3>3. after[i] \in Attr
      BY <1>7, <3>1
    <3>4. QED
      BY <1>3, <3>2, <3>3
  <2>2. CASE ~(i + 1 <= n)
    BY <2>2
  <2>3. QED
    BY <2>1, <2>2
<1>8. n \in T
  <2> HIDE DEF T
  <2>1. QED
    BY <1>1, <1>6, <1>7, Induct
<1>9. QED
  BY <1>2, <1>8

----------------------------------------------------------------------------
\* Commands and sequences.

\* The saved cursor is restored.
LEMMA RestoreStep == ASSUME ConsoleInv, RestoreCur PROVE InStep(con') /\ ScreenStep
<1>1. InStep(con) /\ saved[1] \in Nat /\ saved[2] \in Nat
  BY DEF ConsoleInv
<1>2. con' = GotoXY(con, saved[1], saved[2])
  BY DEF RestoreCur
<1>3. QED
  BY <1>1, <1>2, GotoStep

\* The cursor is saved.
LEMMA SaveStep == ASSUME ConsoleInv, SaveCur
    PROVE InStep(con') /\ saved' \in Nat \X Nat /\ ScreenStep
<1>1. InStep(con) /\ con.x \in Nat /\ con.y \in Nat
  BY Statics DEF ConsoleInv
<1>2. QED
  BY <1>1, DisplayUnchanged DEF SaveCur

\* The command of a sequence.
LEMMA CommandStep == ASSUME ConsoleInv, Command PROVE ConsoleInv' /\ ScreenStep
<1>1. PICK p, q : p = par[0] /\ q = IF NPAR > 1 THEN par[1] ELSE 0
  OBVIOUS
<1>2. /\ InStep(con) /\ par \in [0..(NPAR - 1) -> Nat] /\ 0 \in 0..(NPAR - 1) /\ NPAR \in Nat
      /\ (NPAR > 1 => 1 \in 0..(NPAR - 1)) /\ attr \in Attr /\ saved \in Nat \X Nat
  BY Sizes DEF ConsoleInv
<1>3. p \in Nat /\ q \in Nat
  BY <1>1, <1>2
<1>4. npar' \in 0..(NPAR - 1) /\ par' \in [0..(NPAR - 1) -> Nat]
  <2>1. npar' = 0 /\ par' = [i \in DOMAIN par |-> 0] /\ DOMAIN par = 0..(NPAR - 1)
    BY <1>2 DEF Command
  <2>2. QED
    BY <1>2, <2>1
<1>5. InStep(con') /\ attr' \in Attr /\ saved' \in Nat \X Nat /\ ScreenStep
  <2>1. CASE CsiMove(p, q) /\ UNCHANGED <<attr, saved>>
    BY <1>2, <1>3, <2>1, MoveStep
  <2>2. CASE CsiEdit(p) /\ UNCHANGED <<attr, saved>>
    <3>1. CASE con' = CsiJ(con, p) \/ con' = CsiK(con, p)
      BY <1>2, <1>3, <2>2, <3>1, EraseStep
    <3>2. CASE con' = csi_L(con, p)
      BY <1>2, <1>3, <2>2, <3>2, csi_L_Step
    <3>3. CASE con' = csi_M(con, p)
      BY <1>2, <1>3, <2>2, <3>3, csi_M_Step
    <3>4. CASE con' = csi_P(con, p)
      BY <1>2, <1>3, <2>2, <3>4, csi_P_Step
    <3>5. CASE con' = csi_at(con, p)
      BY <1>2, <1>3, <2>2, <3>5, csi_at_Step
    <3>6. QED
      BY <2>2, <3>1, <3>2, <3>3, <3>4, <3>5 DEF CsiEdit
  <2>3. CASE CsiRegion(p, q) /\ UNCHANGED <<attr, saved>>
    BY <1>2, <1>3, <2>3, RegionStep
  <2>4. CASE attr' = CsiM /\ UNCHANGED <<con, saved>>
    BY <1>2, <2>4, CsiMAttr, DisplayUnchanged
  <2>5. CASE SaveCur /\ UNCHANGED attr
    BY <1>2, <2>5, SaveStep
  <2>6. CASE RestoreCur /\ UNCHANGED attr
    <3>1. UNCHANGED saved
      BY <2>6 DEF RestoreCur
    <3>2. QED
      BY <1>2, <2>6, <3>1, RestoreStep
  <2>7. CASE UNCHANGED <<con, attr, saved>>
    BY <1>2, <2>7, DisplayUnchanged
  <2>8. \/ CsiMove(p, q) /\ UNCHANGED <<attr, saved>>
        \/ CsiEdit(p) /\ UNCHANGED <<attr, saved>>
        \/ CsiRegion(p, q) /\ UNCHANGED <<attr, saved>>
        \/ attr' = CsiM /\ UNCHANGED <<con, saved>>
        \/ SaveCur /\ UNCHANGED attr
        \/ RestoreCur /\ UNCHANGED attr
        \/ UNCHANGED <<con, attr, saved>>
    BY <1>1 DEF Command
  <2>9. QED
    BY <2>1, <2>2, <2>3, <2>4, <2>5, <2>6, <2>7, <2>8
<1>6. QED
  BY <1>4, <1>5 DEF ConsoleInv

\* The character behind an escape.
LEMMA EscapeCharStep == ASSUME ConsoleInv, EscapeChar PROVE ConsoleInv' /\ ScreenStep
<1>1. /\ InStep(con) /\ saved \in Nat \X Nat /\ con.y \in Nat
  BY Statics DEF ConsoleInv
<1>2. InStep(con') /\ saved' \in Nat \X Nat /\ ScreenStep
  <2>1. CASE con' = GotoXY(con, 0, con.y + 1) /\ UNCHANGED saved
    <3>1. 0 \in Nat /\ con.y + 1 \in Nat
      BY <1>1
    <3>2. QED
      BY <1>1, <2>1, <3>1, GotoStep
  <2>2. CASE con' = Ri(con) /\ UNCHANGED saved
    BY <1>1, <2>2, RiStep
  <2>3. CASE con' = Lf(con) /\ UNCHANGED saved
    BY <1>1, <2>3, LfStep
  <2>4. CASE UNCHANGED <<con, saved>>
    BY <1>1, <2>4, DisplayUnchanged
  <2>5. CASE SaveCur
    BY <2>5, SaveStep
  <2>6. CASE RestoreCur
    <3>1. UNCHANGED saved
      BY <2>6 DEF RestoreCur
    <3>2. QED
      BY <1>1, <2>6, <3>1, RestoreStep
  <2>7. QED
    BY <2>1, <2>2, <2>3, <2>4, <2>5, <2>6 DEF EscapeChar
<1>3. UNCHANGED <<npar, par, attr>>
  BY DEF EscapeChar
<1>4. QED
  BY <1>2, <1>3 DEF ConsoleInv

\* The steps that leave the display alone: the bell, the parts of a sequence
\* before its command, and F12.
QuietStep == \/ Bell \/ BeepTick \/ Escape \/ Bracket \/ Question \/ Semicolon
             \/ \E n \in Digits : Digit(n)
             \/ F12_trigger \/ UNCHANGED vars

\* They keep the invariant.
LEMMA QuietSteps == ASSUME ConsoleInv, QuietStep PROVE ConsoleInv' /\ ScreenStep
<1>1. UNCHANGED <<con, attr, saved>>
  BY DEF QuietStep, Bell, BeepTick, Escape, Bracket, Question, Semicolon, Digit, F12_trigger,
     vars, parser
<1>2. npar' \in 0..(NPAR - 1) /\ par' \in [0..(NPAR - 1) -> Nat]
  <2>1. npar \in 0..(NPAR - 1) /\ par \in [0..(NPAR - 1) -> Nat] /\ NPAR \in Nat /\ npar \in Int
    BY Sizes DEF ConsoleInv
  <2>2. CASE Semicolon
    BY <2>1, <2>2 DEF Semicolon
  <2>3. ASSUME NEW n \in Digits, Digit(n)
      PROVE npar' \in 0..(NPAR - 1) /\ par' \in [0..(NPAR - 1) -> Nat]
    <3>1. PICK v : v = (10 * par[npar] + n) % Word
      OBVIOUS
    <3>2. n \in Nat /\ par[npar] \in Nat /\ Word \in Nat /\ Word > 0
      BY <2>1, Sizes, ConsoleAssumption
    <3>3. 10 * par[npar] + n \in Int
      BY <3>2
    <3>4. v \in Nat
      BY <3>1, <3>2, <3>3
    <3>5. par' = [par EXCEPT ![npar] = v] /\ npar' = npar
      BY <2>3, <3>1 DEF Digit
    <3>6. QED
      BY <2>1, <3>4, <3>5
  <2>4. CASE UNCHANGED <<npar, par>>
    BY <2>1, <2>4
  <2>5. QED
    BY <2>2, <2>3, <2>4
       DEF QuietStep, Bell, BeepTick, Escape, Bracket, Question, F12_trigger, vars, parser
<1>3. QED
  BY <1>1, <1>2, DisplayUnchanged DEF ConsoleInv

\* Every step of the console keeps the invariant and is a step of the screen.
LEMMA ConsoleStep ==
    ASSUME ConsoleInv, [Next]_vars
    PROVE  ConsoleInv' /\ (ScreenStep \/ TypeStep)
<1>1. CASE \E c \in Class : PrintChar(c)
  BY <1>1, PrintStep
<1>2. CASE Control
  BY <1>2, ControlStep
<1>3. CASE EscapeChar
  BY <1>3, EscapeCharStep
<1>4. CASE Command
  BY <1>4, CommandStep
<1>5. CASE QuietStep
  BY <1>5, QuietSteps
<1>6. QED
  BY <1>1, <1>2, <1>3, <1>4, <1>5 DEF Next, Step, QuietStep

\* con_init starts in step, with what the plain screen starts with.
LEMMA ConsoleStart == ASSUME ConsoleInit PROVE ConsoleInv /\ S!ScreenInit
<1>0. PICK m : m = [i \in 0..(MemEnd - 1) |->
                     IF i \in (Cols - DescLen)..(Cols - 1) THEN <<"letter", 7>> ELSE Erased]
  OBVIOUS
<1>1. PICK cx \in 0..(Cols - 1), cy \in 0..(Lines - 1) :
         con = [mem |-> m, origin |-> 0, scr_end |-> Lines * Cols, pos |-> cy * Cols + cx,
                x |-> cx, y |-> cy, top |-> 0, bottom |-> Lines]
  BY <1>0 DEF ConsoleInit
<1>2. m \in [0..(MemEnd - 1) -> Cell]
  BY <1>0 DEF Cell, Glyph, Class, Attr
<1>3. /\ Lines \in Int /\ Cols \in Int /\ cx \in Int /\ cy \in Int /\ cy * Cols = RowAt(cy)
      /\ Lines * Cols = RowAt(Lines) /\ RowAt(cy) \in Int /\ RowAt(Lines) \in Int
      /\ Lines <= MemRows /\ MemRows \in Int /\ MemEnd = RowAt(MemRows)
  <2>1. Lines \in Int /\ Cols \in Int /\ cx \in Int /\ cy \in Int /\ Lines <= MemRows
            /\ MemRows \in Int
    BY Sizes
  <2>2. cy * Cols = RowAt(cy) /\ Lines * Cols = RowAt(Lines) /\ RowAt(cy) \in Int
            /\ RowAt(Lines) \in Int
    BY <2>1, Rows
  <2>3. QED
    BY <2>1, <2>2, EndRows
<1>4. RowAt(Lines) <= MemEnd
  BY <1>3, RowsInOrder
<1>5. InStep(con)
  <2>1. con \in Display
    BY <1>1, <1>2, <1>3 DEF Display
  <2>2. /\ con.pos = RowAt(cy) + cx /\ con.origin = 0 /\ con.x = cx /\ con.y = cy
        /\ con.top = 0 /\ con.bottom = Lines /\ con.scr_end = RowAt(Lines)
    BY <1>1, <1>3
  <2>3. cx \in 0..Cols /\ cy \in Row /\ 0 \in 0..(Lines - 1) /\ Lines \in 1..Lines
    BY <1>1, Sizes DEF Row
  <2>4. QED
    BY <1>3, <1>4, <2>1, <2>2, <2>3 DEF InStep
<1>6. ConsoleInv
  <2>1. 0 \in 0..(NPAR - 1) /\ [i \in 0..(NPAR - 1) |-> 0] \in [0..(NPAR - 1) -> Nat]
    BY Sizes
  <2>2. QED
    BY <1>5, <2>1 DEF ConsoleInv, ConsoleInit, Attr
<1>7. Text \in [S!Row -> [S!Col -> Glyph \cup {Erased}]]
  <2>1. ASSUME NEW r \in Row, NEW c \in Col PROVE Shows(con)[r][c] \in Cell
    <3>1. PICK i : i = con.origin + RowAt(r) + c
      OBVIOUS
    <3>2. i \in 0..(MemEnd - 1) /\ Shows(con)[r][c] = con.mem[i]
      BY <1>5, <3>1, CellInMemory
    <3>3. con.mem \in [0..(MemEnd - 1) -> Cell]
      BY <1>5, Statics
    <3>4. QED
      BY <3>2, <3>3
  <2>2. Shows(con) = [r \in Row |-> [c \in Col |-> Shows(con)[r][c]]]
    BY ShowsPicture DEF Picture
  <2>3. Shows(con) \in [Row -> [Col -> Cell]]
    BY <2>1, <2>2
  <2>4. QED
    BY <2>3, Screens DEF S!Row, S!Col, Row, Col, Cell
<1>8. con.x \in 0..Cols /\ con.y \in S!Row /\ con.top = 0 /\ con.bottom = Lines
  BY <1>1, <1>5, Statics DEF Row, S!Row
<1>9. QED
  BY <1>6, <1>7, <1>8 DEF S!ScreenInit

----------------------------------------------------------------------------

\* The console stays in step.
THEOREM InStepAlways == Spec => []ConsoleInv
<1>1. ConsoleInit => ConsoleInv
  BY ConsoleStart
<1>2. ConsoleInv /\ [Next]_vars => ConsoleInv'
  BY ConsoleStep
<1>3. QED
  BY <1>1, <1>2, PTL DEF Spec

\* The row, the column and the address of the cursor, which every handler of
\* con_write keeps up to date on its own, never disagree; the window is in video
\* memory, and the cursor in the window or one behind it.
THEOREM CursorKept == Spec => []CursorInStep
<1>1. ConsoleInv => CursorInStep
  <2>1. SUFFICES ASSUME ConsoleInv PROVE CursorInStep
    OBVIOUS
  <2>2. InStep(con) /\ DOMAIN con.mem = 0..(MemEnd - 1)
    <3>1. InStep(con)
      BY <2>1 DEF ConsoleInv
    <3>2. con.mem \in [0..(MemEnd - 1) -> Cell]
      BY <3>1, Statics
    <3>3. QED
      BY <3>1, <3>2
  <2>3. QED
    BY <2>2 DEF CursorInStep, InStep, Row
<1>2. QED
  BY <1>1, InStepAlways, PTL

\* Every character does to what the adapter shows what one operation of the
\* plain screen does, wherever the origin is and whatever was moved in memory.
THEOREM ScreenRefined == Spec => ImplementsScreen
<1>1. ConsoleInit => S!ScreenInit
  BY ConsoleStart
<1>2. ConsoleInv /\ [Next]_vars => [S!ScreenNext]_(S!screenVars)
  BY ConsoleStep DEF ScreenStep, Shift, TypeStep, S!ScreenNext
<1>3. QED
  BY <1>1, <1>2, InStepAlways, PTL DEF Spec, ImplementsScreen, S!ScreenSpec

----------------------------------------------------------------------------
\* Letters.

\* The places of a picture where a letter stands.
Letters(s) == {p \in Row \X Col : s[p[1]][p[2]][1] = "letter"}

\* There are finitely many.
LEMMA FewLetters == ASSUME NEW s PROVE IsFiniteSet(Letters(s)) /\ Cardinality(Letters(s)) \in Nat
<1>1. IsFiniteSet(Row) /\ IsFiniteSet(Col)
  <2>1. 0 \in Int /\ Lines - 1 \in Int /\ Cols - 1 \in Int
    BY Sizes
  <2>2. QED
    BY <2>1, FS_Interval DEF Row, Col
<1>2. IsFiniteSet(Row \X Col)
  BY <1>1, FS_Product
<1>3. Letters(s) \in SUBSET (Row \X Col)
  BY DEF Letters
<1>4. QED
  BY <1>2, <1>3, FS_Subset, FS_CardinalityType

\* t has not more letters than s.
NotMore(t, s) == Cardinality(Letters(t)) <= Cardinality(Letters(s))

\* So it is if every letter of t was somewhere in s, and no two in the same place.
LEMMA Sourced ==
    ASSUME NEW s, NEW t, NEW f, \A p \in Letters(t) : f[p] \in Letters(s),
           \A p, q \in Letters(t) : f[p] = f[q] => p = q
    PROVE  NotMore(t, s)
<1> DEFINE g == [p \in Letters(t) |-> f[p]]
<1>1. g \in Injection(Letters(t), Letters(s))
  BY DEF Injection, IsInjective
<1>2. QED
  BY <1>1, FewLetters, FS_Injection DEF NotMore

\* So when the letters of t are at places where s has letters.
LEMMA LettersRemain ==
    ASSUME NEW s, NEW t,
           \A r \in Row, c \in Col : t[r][c][1] = "letter" => s[r][c][1] = "letter"
    PROVE  NotMore(t, s)
<1>1. Letters(t) \in SUBSET Letters(s)
  BY DEF Letters
<1>2. QED
  BY <1>1, FewLetters, FS_Subset DEF NotMore

\* Rows scrolled up or down bring no letter in.
LEMMA UpLetters ==
    ASSUME NEW s, Picture(s), NEW t \in Nat, NEW b \in 0..Lines, NEW n \in Nat
    PROVE  NotMore(S!Up(s, t, b, n), s)
<1> DEFINE f == [p \in Row \X Col |-> IF t <= p[1] /\ p[1] < b THEN <<p[1] + n, p[2]>> ELSE p]
<1>1. PICK u : u = S!Up(s, t, b, n)
  OBVIOUS
<1>2. ASSUME NEW r \in Row, NEW c \in Col, u[r][c][1] = "letter"
      PROVE  /\ ~(t <= r /\ r < b) => <<r, c>> \in Letters(s)
             /\ t <= r /\ r < b => r + n < b /\ r + n \in Row /\ <<r + n, c>> \in Letters(s)
  <2>1. u[r][c] = IF ~(t <= r /\ r < b) THEN s[r][c] ELSE IF r + n < b THEN s[r + n][c] ELSE Erased
    BY <1>1, UpCells
  <2>2. CASE ~(t <= r /\ r < b)
    BY <1>2, <2>1, <2>2 DEF Letters
  <2>3. CASE t <= r /\ r < b
    <3>1. u[r][c] = IF r + n < b THEN s[r + n][c] ELSE Erased
      BY <2>1, <2>3
    <3>2. r + n < b /\ u[r][c] = s[r + n][c]
      BY <1>2, <3>1 DEF Erased
    <3>3. r + n \in Row
      BY <2>3, <3>2, Sizes DEF Row
    <3>4. <<r + n, c>> \in Letters(s)
      BY <1>2, <3>2, <3>3 DEF Letters
    <3>5. QED
      BY <2>3, <3>2, <3>3, <3>4
  <2>4. QED
    BY <2>2, <2>3
<1>3. ASSUME NEW p \in Letters(u)
      PROVE  /\ p = <<p[1], p[2]>> /\ p[1] \in Row /\ p[2] \in Col /\ p[1] \in Int
             /\ f[p] \in Letters(s)
             /\ f[p] = IF t <= p[1] /\ p[1] < b THEN <<p[1] + n, p[2]>> ELSE p
             /\ t <= p[1] /\ p[1] < b => p[1] + n < b
  <2>1. /\ p \in Row \X Col /\ p = <<p[1], p[2]>> /\ p[1] \in Row /\ p[2] \in Col /\ p[1] \in Int
        /\ u[p[1]][p[2]][1] = "letter"
    BY DEF Letters, Row
  <2>2. f[p] = IF t <= p[1] /\ p[1] < b THEN <<p[1] + n, p[2]>> ELSE p
    BY <2>1
  <2> HIDE DEF f
  <2>3. QED
    BY <1>2, <2>1, <2>2
<1> HIDE DEF f
<1>4. ASSUME NEW p \in Letters(u), NEW q \in Letters(u), f[p] = f[q] PROVE p = q
  <2>1. PICK a, c, h, k : a = p[1] /\ c = p[2] /\ h = q[1] /\ k = q[2]
    OBVIOUS
  <2>2. /\ p = <<a, c>> /\ q = <<h, k>> /\ a \in Int /\ h \in Int /\ t \in Int /\ b \in Int
               /\ n \in Int
        /\ t <= a /\ a < b => a + n < b
        /\ t <= h /\ h < b => h + n < b
        /\ (IF t <= a /\ a < b THEN <<a + n, c>> ELSE <<a, c>>)
           = (IF t <= h /\ h < b THEN <<h + n, k>> ELSE <<h, k>>)
    BY <1>3, <1>4, <2>1, Sizes
  <2>3. 0 <= n
    OBVIOUS
  <2>4. a = h /\ c = k
    BY ONLY <2>2, <2>3
  <2>5. QED
    BY <2>2, <2>4
<1>5. QED
  BY <1>1, <1>3, <1>4, Sourced

\* The same for rows scrolled down.
LEMMA DownLetters ==
    ASSUME NEW s, Picture(s), NEW t \in Nat, NEW b \in 0..Lines, NEW n \in Nat
    PROVE  NotMore(S!Down(s, t, b, n), s)
<1> DEFINE f == [p \in Row \X Col |-> IF t <= p[1] /\ p[1] < b THEN <<p[1] - n, p[2]>> ELSE p]
<1>1. PICK u : u = S!Down(s, t, b, n)
  OBVIOUS
<1>2. ASSUME NEW r \in Row, NEW c \in Col, u[r][c][1] = "letter"
      PROVE  /\ ~(t <= r /\ r < b) => <<r, c>> \in Letters(s)
             /\ t <= r /\ r < b => t <= r - n /\ r - n \in Row /\ <<r - n, c>> \in Letters(s)
  <2>1. u[r][c] = IF ~(t <= r /\ r < b) THEN s[r][c] ELSE IF t <= r - n THEN s[r - n][c] ELSE Erased
    BY <1>1, DownCells
  <2>2. CASE ~(t <= r /\ r < b)
    BY <1>2, <2>1, <2>2 DEF Letters
  <2>3. CASE t <= r /\ r < b
    <3>1. u[r][c] = IF t <= r - n THEN s[r - n][c] ELSE Erased
      BY <2>1, <2>3
    <3>2. t <= r - n /\ u[r][c] = s[r - n][c]
      BY <1>2, <3>1 DEF Erased
    <3>3. r - n \in Row
      BY <2>3, <3>2, Sizes DEF Row
    <3>4. <<r - n, c>> \in Letters(s)
      BY <1>2, <3>2, <3>3 DEF Letters
    <3>5. QED
      BY <2>3, <3>2, <3>3, <3>4
  <2>4. QED
    BY <2>2, <2>3
<1>3. ASSUME NEW p \in Letters(u)
      PROVE  /\ p = <<p[1], p[2]>> /\ p[1] \in Row /\ p[2] \in Col /\ p[1] \in Int
             /\ f[p] \in Letters(s)
             /\ f[p] = IF t <= p[1] /\ p[1] < b THEN <<p[1] - n, p[2]>> ELSE p
             /\ t <= p[1] /\ p[1] < b => t <= p[1] - n
  <2>1. /\ p \in Row \X Col /\ p = <<p[1], p[2]>> /\ p[1] \in Row /\ p[2] \in Col /\ p[1] \in Int
        /\ u[p[1]][p[2]][1] = "letter"
    BY DEF Letters, Row
  <2>2. f[p] = IF t <= p[1] /\ p[1] < b THEN <<p[1] - n, p[2]>> ELSE p
    BY <2>1
  <2> HIDE DEF f
  <2>3. QED
    BY <1>2, <2>1, <2>2
<1> HIDE DEF f
<1>4. ASSUME NEW p \in Letters(u), NEW q \in Letters(u), f[p] = f[q] PROVE p = q
  <2>1. PICK a, c, h, k : a = p[1] /\ c = p[2] /\ h = q[1] /\ k = q[2]
    OBVIOUS
  <2>2. /\ p = <<a, c>> /\ q = <<h, k>> /\ a \in Int /\ h \in Int /\ t \in Int /\ b \in Int
               /\ n \in Int
        /\ t <= a /\ a < b => t <= a - n
        /\ t <= h /\ h < b => t <= h - n
        /\ (IF t <= a /\ a < b THEN <<a - n, c>> ELSE <<a, c>>)
           = (IF t <= h /\ h < b THEN <<h - n, k>> ELSE <<h, k>>)
    BY <1>3, <1>4, <2>1, Sizes
  <2>3. 0 <= n
    OBVIOUS
  <2>4. a = h /\ c = k
    BY ONLY <2>2, <2>3
  <2>5. QED
    BY <2>2, <2>4
<1>5. QED
  BY <1>1, <1>3, <1>4, Sourced

\* t is s with the cells of row y from column x on shifted by n, to either side.
Shifted(t, s, y, x, n) ==
    \A r \in Row, c \in Col :
       \/ (r # y \/ c < x) /\ t[r][c] = s[r][c]
       \/ r = y /\ x <= c /\ x <= c - n /\ c - n \in Col /\ t[r][c] = s[r][c - n]
       \/ t[r][c] = Erased

\* It has no more letters.
LEMMA ShiftedLetters ==
    ASSUME NEW s, NEW t, NEW y \in Row, NEW x \in Int, NEW n \in Int, Shifted(t, s, y, x, n)
    PROVE  NotMore(t, s)
<1> DEFINE f == [p \in Row \X Col |-> IF p[1] # y \/ p[2] < x THEN p ELSE <<p[1], p[2] - n>>]
<1>1. ASSUME NEW p \in Letters(t)
      PROVE  /\ p = <<p[1], p[2]>> /\ p[2] \in Int /\ f[p] \in Letters(s)
             /\ f[p] = IF p[1] # y \/ p[2] < x THEN p ELSE <<p[1], p[2] - n>>
             /\ ~(p[1] # y \/ p[2] < x) => x <= p[2] - n
  <2>1. PICK r \in Row, c \in Col : p = <<r, c>> /\ t[r][c][1] = "letter"
    BY DEF Letters
  <2>2. c \in Int /\ f[p] = IF r # y \/ c < x THEN p ELSE <<r, c - n>>
    BY <2>1 DEF Col
  <2> HIDE DEF f
  <2>3. \/ (r # y \/ c < x) /\ t[r][c] = s[r][c]
        \/ r = y /\ x <= c /\ x <= c - n /\ c - n \in Col /\ t[r][c] = s[r][c - n]
    BY <2>1 DEF Erased, Shifted
  <2>4. CASE (r # y \/ c < x) /\ t[r][c] = s[r][c]
    BY <2>1, <2>2, <2>4 DEF Letters
  <2>5. CASE r = y /\ x <= c /\ x <= c - n /\ c - n \in Col /\ t[r][c] = s[r][c - n]
    <3>1. ~(r # y \/ c < x)
      BY <2>2, <2>5
    <3>2. <<r, c - n>> \in Letters(s)
      BY <2>1, <2>5 DEF Letters
    <3>3. QED
      BY <2>1, <2>2, <2>5, <3>1, <3>2
  <2>6. QED
    BY <2>3, <2>4, <2>5
<1> HIDE DEF f
<1>2. ASSUME NEW p \in Letters(t), NEW q \in Letters(t), f[p] = f[q] PROVE p = q
  <2>1. PICK a, c, h, k : a = p[1] /\ c = p[2] /\ h = q[1] /\ k = q[2]
    OBVIOUS
  <2>2. /\ p = <<a, c>> /\ q = <<h, k>> /\ c \in Int /\ k \in Int
        /\ ~(a # y \/ c < x) => x <= c - n
        /\ ~(h # y \/ k < x) => x <= k - n
        /\ (IF a # y \/ c < x THEN <<a, c>> ELSE <<a, c - n>>)
           = (IF h # y \/ k < x THEN <<h, k>> ELSE <<h, k - n>>)
    BY <1>1, <1>2, <2>1
  <2>3. a = h /\ c = k
    BY ONLY <2>2, x \in Int, n \in Int
  <2>4. QED
    BY <2>2, <2>3
<1>3. QED
  BY <1>1, <1>2, Sourced

\* The text, the region and the cursor of a console in step.
LEMMA TextAndCursor ==
    ASSUME ConsoleInv
    PROVE  /\ Picture(Text) /\ con.y \in Row /\ con.y \in Nat /\ con.y \in Int /\ con.y < Lines
           /\ con.x \in Int /\ 0 <= con.x /\ con.x <= Cols
           /\ con.top \in Nat /\ con.bottom \in 0..Lines /\ Lines \in 0..Lines /\ 1 \in Nat
<1>1. InStep(con) /\ Text = Shows(con)
  BY Screens DEF ConsoleInv
<1>2. Picture(Text)
  BY <1>1, ShowsPicture
<1>3. /\ con.y \in Row /\ con.y \in Int /\ 0 <= con.y /\ con.y < Lines /\ con.x \in Int
      /\ 0 <= con.x /\ con.x <= Cols /\ con.top \in Int /\ 0 <= con.top /\ con.bottom \in Int
      /\ con.bottom <= Lines /\ con.top < con.bottom /\ Lines \in Nat
  BY <1>1, Statics, Sizes
<1>4. QED
  BY <1>2, <1>3

\* NotMore is reflexive and transitive.
LEMMA NotMoreOrder ==
    ASSUME NEW s, NEW t, NEW u
    PROVE  NotMore(s, s) /\ (NotMore(u, t) /\ NotMore(t, s) => NotMore(u, s))
<1>1. PICK a, b, c : /\ a = Cardinality(Letters(s)) /\ b = Cardinality(Letters(t))
                     /\ c = Cardinality(Letters(u))
  OBVIOUS
<1>2. a \in Nat /\ b \in Nat /\ c \in Nat
  BY <1>1, FewLetters
<1>3. a <= a /\ (c <= b /\ b <= a => c <= a)
  BY <1>2
<1>4. QED
  BY <1>1, <1>3 DEF NotMore

\* A line feed brings no letter in.
LEMMA FedLetters == ASSUME ConsoleInv PROVE NotMore(S!FedText, Text) /\ Picture(S!FedText)
<1>1. CASE con.y + 1 < con.bottom
  BY <1>1, TextAndCursor, NotMoreOrder DEF S!FedText
<1>2. CASE ~(con.y + 1 < con.bottom)
  <2>1. S!FedText = S!Up(Text, con.top, con.bottom, 1)
    BY <1>2 DEF S!FedText
  <2>2. QED
    BY <2>1, TextAndCursor, UpLetters, UpCells
<1>3. QED
  BY <1>1, <1>2

\* Nor does erasing.
LEMMA WipedLetters == ASSUME NEW P PROVE NotMore(S!Wiped(P), Text)
<1>1. PICK t : t = S!Wiped(P)
  OBVIOUS
<1>2. \A r \in Row, c \in Col : t[r][c] = IF <<r, c>> \in P THEN Erased ELSE Text[r][c]
  BY <1>1 DEF S!Wiped, S!Row, S!Col, Row, Col
<1>3. ASSUME NEW r \in Row, NEW c \in Col, t[r][c][1] = "letter" PROVE Text[r][c][1] = "letter"
  <2>1. t[r][c] = Erased \/ t[r][c] = Text[r][c]
    BY <1>2
  <2>2. Erased[1] # "letter"
    BY DEF Erased
  <2>3. QED
    BY <1>3, <2>1, <2>2
<1>4. QED
  BY <1>1, <1>3, LettersRemain

\* A character that is no letter adds none.
LEMMA TypeLetters == ASSUME ConsoleInv, TypeStep, F12Flag = 1 PROVE NotMore(Text', Text)
<1>1. PICK g \in Glyph : S!Type(g) /\ g[1] # "letter"
  BY DEF TypeStep
<1>2. ASSUME NEW s, Picture(s), NEW y \in Row, NEW x \in Col, NEW t, t = WithCell(s, y, x, g)
      PROVE  NotMore(t, s)
  <2>1. \A r \in Row, c \in Col : t[r][c] = IF r = y /\ c = x THEN g ELSE s[r][c]
    BY <1>2, OneCellPicture
  <2>2. \A r \in Row, c \in Col : t[r][c][1] = "letter" => s[r][c][1] = "letter"
    BY <1>1, <2>1
  <2>3. QED
    BY <2>2, LettersRemain
<1>3. CASE con.x < Cols
  <2>1. Text' = WithCell(Text, con.y, con.x, g)
    BY <1>1, <1>3 DEF S!Type, WithCell
  <2>2. con.x \in Col
    BY <1>3, TextAndCursor, Sizes DEF Col
  <2>3. QED
    BY <1>2, <2>1, <2>2, TextAndCursor
<1>4. CASE ~(con.x < Cols)
  <2>1. Text' = WithCell(S!FedText, S!FedRow, 0, g)
    BY <1>1, <1>4 DEF S!Type, WithCell
  <2>2. 0 \in Col /\ S!FedRow \in Row
    BY TextAndCursor, Sizes DEF S!FedRow, Row, Col
  <2>3. NotMore(Text', S!FedText)
    BY <1>2, <2>1, <2>2, FedLetters
  <2>4. QED
    BY <2>3, FedLetters, NotMoreOrder
<1>5. QED
  BY <1>3, <1>4

\* n cells inserted or deleted bring no letter in.
LEMMA CellsLetters ==
    ASSUME ConsoleInv, NEW n \in 1..Cols, S!InsertCells(n) \/ S!DeleteCells(n)
    PROVE  NotMore(Text', Text)
<1>1. PICK s, t, x, y : s = Text /\ t = Text' /\ x = con.x /\ y = con.y
  OBVIOUS
<1>2. Picture(s) /\ y \in Row /\ x \in Int /\ 0 <= x /\ n \in Int /\ n >= 1 /\ Cols \in Int
  BY <1>1, TextAndCursor, Sizes
<1>3. \A c \in Col : c \in Int /\ 0 <= c /\ c < Cols /\ (\A k \in Int : k \in Col
          <=> 0 <= k /\ k < Cols)
  BY Sizes DEF Col
<1>4. CASE S!InsertCells(n)
  <2> DEFINE f == [c \in Col |-> IF c < x THEN s[y][c] ELSE IF c < x + n
      THEN Erased ELSE s[y][c - n]]
  <2>1. t = WithRow(s, y, f)
    BY <1>1, <1>4 DEF S!InsertCells, WithRow, S!Col, Col
  <2>2. f = [c \in Col |-> f[c]]
    OBVIOUS
  <2>3. \A c \in Col : f[c] = IF c < x THEN s[y][c] ELSE IF c < x + n THEN Erased ELSE s[y][c - n]
    OBVIOUS
  <2> HIDE DEF f
  <2>4. \A r \in Row, c \in Col : t[r][c] = IF r = y THEN f[c] ELSE s[r][c]
    BY <1>2, <2>1, <2>2, OneRowPicture
  <2>5. ASSUME NEW r \in Row, NEW c \in Col
        PROVE  \/ (r # y \/ c < x) /\ t[r][c] = s[r][c]
               \/ r = y /\ x <= c /\ x <= c - n /\ c - n \in Col /\ t[r][c] = s[r][c - n]
               \/ t[r][c] = Erased
    <3>1. c \in Int /\ 0 <= c /\ c < Cols
      BY <1>3
    <3>2. CASE r # y \/ c < x
      BY <2>3, <2>4, <3>2
    <3>3. CASE r = y /\ x <= c /\ c < x + n
      BY <1>2, <2>3, <2>4, <3>1, <3>3
    <3>4. CASE r = y /\ x <= c /\ x + n <= c
      <4>1. x <= c - n /\ c - n \in Col
        BY <1>2, <1>3, <3>1, <3>4
      <4>2. ~(c < x) /\ ~(c < x + n)
        BY <1>2, <3>1, <3>4
      <4>3. QED
        BY <2>3, <2>4, <3>4, <4>1, <4>2
    <3>5. QED
      BY <1>2, <3>1, <3>2, <3>3, <3>4
  <2>6. Shifted(t, s, y, x, n)
    BY <2>5 DEF Shifted
  <2>7. QED
    BY <1>1, <1>2, <2>6, ShiftedLetters
<1>5. CASE S!DeleteCells(n)
  <2> DEFINE f == [c \in Col |-> IF c < x THEN s[y][c] ELSE IF c + n < Cols
      THEN s[y][c + n] ELSE Erased]
  <2>1. t = WithRow(s, y, f)
    BY <1>1, <1>5 DEF S!DeleteCells, WithRow, S!Col, Col
  <2>2. f = [c \in Col |-> f[c]]
    OBVIOUS
  <2>3. \A c \in Col : f[c] = IF c < x THEN s[y][c] ELSE IF c + n < Cols
            THEN s[y][c + n] ELSE Erased
    OBVIOUS
  <2> HIDE DEF f
  <2>4. \A r \in Row, c \in Col : t[r][c] = IF r = y THEN f[c] ELSE s[r][c]
    BY <1>2, <2>1, <2>2, OneRowPicture
  <2>5. PICK m \in Int : m = 0 - n
    BY <1>2
  <2>6. ASSUME NEW r \in Row, NEW c \in Col
        PROVE  \/ (r # y \/ c < x) /\ t[r][c] = s[r][c]
               \/ r = y /\ x <= c /\ x <= c - m /\ c - m \in Col /\ t[r][c] = s[r][c - m]
               \/ t[r][c] = Erased
    <3>1. c \in Int /\ 0 <= c /\ c < Cols /\ c - m = c + n
      BY <1>2, <1>3, <2>5
    <3>2. CASE r # y \/ c < x
      BY <2>3, <2>4, <3>2
    <3>3. CASE r = y /\ x <= c /\ ~(c + n < Cols)
      BY <1>2, <2>3, <2>4, <3>1, <3>3
    <3>4. CASE r = y /\ x <= c /\ c + n < Cols
      <4>1. x <= c + n /\ c + n \in Col
        BY <1>2, <1>3, <3>1, <3>4
      <4>2. ~(c < x)
        BY <1>2, <3>1, <3>4
      <4>3. QED
        BY <2>3, <2>4, <3>1, <3>4, <4>1, <4>2
    <3>5. QED
      BY <1>2, <3>1, <3>2, <3>3, <3>4
  <2>7. Shifted(t, s, y, x, m)
    BY <2>6 DEF Shifted
  <2>8. QED
    BY <1>1, <1>2, <2>7, ShiftedLetters
<1>6. QED
  BY <1>4, <1>5

\* No step but typing brings a letter in.
LEMMA ScreenLetters == ASSUME ConsoleInv, ScreenStep PROVE NotMore(Text', Text)
<1>1. CASE S!LineFeed
  <2>1. Text' = S!FedText
    BY <1>1 DEF S!LineFeed
  <2>2. QED
    BY <2>1, FedLetters
<1>2. CASE S!ReverseLineFeed
  <2>1. Text' = Text \/ Text' = S!Down(Text, con.top, con.bottom, 1)
    BY <1>2 DEF S!ReverseLineFeed
  <2>2. QED
    BY <2>1, TextAndCursor, DownLetters, NotMoreOrder
<1>3. CASE S!Tab
  <2>1. Text' = Text \/ Text' = S!FedText
    BY <1>3 DEF S!Tab
  <2>2. QED
    BY <2>1, FedLetters, NotMoreOrder
<1>4. CASE S!Goto \/ S!SetRegion \/ UNCHANGED S!screenVars
  <2>1. Text' = Text
    BY <1>4 DEF S!Goto, S!SetRegion, S!screenVars
  <2>2. QED
    BY <2>1, NotMoreOrder
<1>5. CASE S!Rubout \/ S!Erase
  <2>1. \E P : Text' = S!Wiped(P)
    BY <1>5 DEF S!Rubout, S!Erase
  <2>2. QED
    BY <2>1, WipedLetters
<1>6. CASE \E n \in 1..Cols : S!InsertCells(n) \/ S!DeleteCells(n)
  BY <1>6, CellsLetters
<1>7. CASE \E n \in 1..Lines : S!InsertRows(n) \/ S!DeleteRows(n)
  <2>1. PICK n \in 1..Lines : Text' = S!Down(Text, con.y, Lines, n) \/ Text' = S!Up(Text, con.y, Lines, n)
    BY <1>7 DEF S!InsertRows, S!DeleteRows
  <2>2. n \in Nat
    OBVIOUS
  <2>3. QED
    BY <2>1, <2>2, TextAndCursor, UpLetters, DownLetters
<1>8. QED
  BY <1>1, <1>2, <1>3, <1>4, <1>5, <1>6, <1>7 DEF ScreenStep, Shift

\* After F12 the letters on the display only become fewer: not a character, not a scroll that
\* uncovers old memory, not an insertion shows one.
THEOREM LettersHidden == Spec => LettersStayHidden
<1>1. ConsoleInv /\ [Next]_vars => [F12Flag = 1 => LettersShown' <= LettersShown]_vars
  <2>1. SUFFICES ASSUME ConsoleInv, [Next]_vars, F12Flag = 1 PROVE LettersShown' <= LettersShown
    OBVIOUS
  <2>2. NotMore(Text', Text)
    BY <2>1, ConsoleStep, ScreenLetters, TypeLetters
  <2>3. LettersShown = Cardinality(Letters(Text)) /\ LettersShown' = Cardinality(Letters(Text'))
    BY DEF LettersShown, Letters, Row, Col
  <2>4. QED
    BY <2>2, <2>3 DEF NotMore
<1>2. QED
  BY <1>1, InStepAlways, PTL DEF Spec, LettersStayHidden
=============================================================================
