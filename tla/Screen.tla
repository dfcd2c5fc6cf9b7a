--------------------------------- MODULE Screen ---------------------------------
(****************************************************************************)
(* What console.c promises whoever looks at the display: Lines rows of Cols *)
(* cells, a cursor, and a scroll region of rows.  There is no video memory, *)
(* no origin and no address; scrolling shifts rows.  The cursor may stand   *)
(* one column behind the last: the next character is then wrapped.          *)
(****************************************************************************)
EXTENDS Integers

CONSTANTS Lines, Cols,   \* the size of the display
          TabStop,       \* distance of tab stops
          Erased,        \* the cell that erasing leaves behind
          Glyph          \* the cells that printing leaves behind

VARIABLES text,          \* text[r][c]: the cell in row r, column c
          x, y,          \* the cursor
          top, bottom    \* the scroll region: rows top..bottom-1

screenVars == <<text, x, y, top, bottom>>

Row == 0..(Lines - 1)
Col == 0..(Cols - 1)
BlankRow == [c \in Col |-> Erased]

\* Rows t..b-1 shifted n rows up, or down; what comes in is blank.
Up(s, t, b, n) ==
    [r \in Row |-> IF r \notin t..(b - 1) THEN s[r]
                   ELSE IF r + n < b THEN s[r + n] ELSE BlankRow]
Down(s, t, b, n) ==
    [r \in Row |-> IF r \notin t..(b - 1) THEN s[r]
                   ELSE IF r - n >= t THEN s[r - n] ELSE BlankRow]

\* The cells of P are erased.
Wiped(P) == [r \in Row |-> [c \in Col |-> IF <<r, c>> \in P THEN Erased ELSE text[r][c]]]

ScreenInit == /\ text \in [Row -> [Col -> Glyph \cup {Erased}]]
              /\ x \in 0..Cols /\ y \in Row
              /\ top = 0 /\ bottom = Lines

\* The cursor goes down one row; on the last row of the region, and on the
\* last row of the display, the region scrolls instead.
FedText == IF y + 1 < bottom THEN text ELSE Up(text, top, bottom, 1)
FedRow == IF y + 1 < bottom THEN y + 1 ELSE y

LineFeed == /\ text' = FedText /\ y' = FedRow
            /\ UNCHANGED <<x, top, bottom>>

ReverseLineFeed ==
    /\ IF y > top THEN y' = y - 1 /\ text' = text
                  ELSE y' = y /\ text' = Down(text, top, bottom, 1)
    /\ UNCHANGED <<x, top, bottom>>

\* A glyph at the cursor, wrapped to the next row behind the last column.
Type(g) ==
    /\ IF x < Cols
       THEN /\ text' = [text EXCEPT ![y][x] = g]
            /\ x' = x + 1 /\ y' = y
       ELSE /\ text' = [FedText EXCEPT ![FedRow][0] = g]
            /\ x' = 1 /\ y' = FedRow
    /\ UNCHANGED <<top, bottom>>

Tab ==
    LET to == x + TabStop - (x % TabStop)
    IN /\ IF to <= Cols THEN x' = to /\ UNCHANGED <<text, y>>
                        ELSE x' = to - Cols /\ text' = FedText /\ y' = FedRow
       /\ UNCHANGED <<top, bottom>>

\* gotoxy, carriage return, backspace and the cursor sequences.
Goto == /\ x' \in 0..Cols /\ y' \in Row
        /\ UNCHANGED <<text, top, bottom>>

Rubout == /\ x > 0 /\ x' = x - 1
          /\ text' = Wiped({<<y, x - 1>>})
          /\ UNCHANGED <<y, top, bottom>>

\* Before the cursor, from the cursor on, and both: of the row, of the display.
Before == {p \in Row \X Col : p[1] < y \/ (p[1] = y /\ p[2] < x)}
InRow == {p \in Row \X Col : p[1] = y}

Erase == /\ \E P \in {Before, (Row \X Col) \ Before, Row \X Col,
                      InRow \cap Before, InRow \ Before, InRow} : text' = Wiped(P)
         /\ UNCHANGED <<x, y, top, bottom>>

\* n cells inserted before the cursor, or deleted from it on: only the rest of
\* the row moves.
InsertCells(n) ==
    /\ text' = [text EXCEPT ![y] = [c \in Col |-> IF c < x THEN @[c]
                                      ELSE IF c < x + n THEN Erased ELSE @[c - n]]]
    /\ UNCHANGED <<x, y, top, bottom>>
DeleteCells(n) ==
    /\ text' = [text EXCEPT ![y] = [c \in Col |-> IF c < x THEN @[c]
                                      ELSE IF c + n < Cols THEN @[c + n] ELSE Erased]]
    /\ UNCHANGED <<x, y, top, bottom>>

\* n rows inserted or deleted at the cursor: the rows below move, whatever the
\* scroll region is.
InsertRows(n) == text' = Down(text, y, Lines, n) /\ UNCHANGED <<x, y, top, bottom>>
DeleteRows(n) == text' = Up(text, y, Lines, n) /\ UNCHANGED <<x, y, top, bottom>>

SetRegion == /\ bottom' \in 1..Lines /\ top' \in 0..(bottom' - 1)
             /\ UNCHANGED <<text, x, y>>

ScreenNext == \/ LineFeed \/ ReverseLineFeed \/ Tab \/ Goto \/ Rubout \/ Erase
              \/ \E g \in Glyph : Type(g)
              \/ \E n \in 1..Cols : InsertCells(n) \/ DeleteCells(n)
              \/ \E n \in 1..Lines : InsertRows(n) \/ DeleteRows(n)
              \/ SetRegion

ScreenSpec == ScreenInit /\ [][ScreenNext]_screenVars
=============================================================================
