--------------------------------- MODULE Console ---------------------------------
(****************************************************************************)
(* The console driver of Lab 7 (kernel/chr_drv/console.c): what con_write   *)
(* does with the characters of a tty's write queue, and the flag of         *)
(* F12_trigger.                                                             *)
(*                                                                          *)
(* A step is one character of con_write's loop.  Addresses count cells (two *)
(* bytes) from video_mem_start, so pos += 2 of the code is pos + 1 here and *)
(* video_size_row is Cols.  A cell is what erasing leaves, or what class of *)
(* character stands there and with which attribute.  par and npar are kept  *)
(* at zero outside an escape sequence, where the code clears them before it *)
(* reads them again; ques is left out, as nothing reads it.                 *)
(****************************************************************************)
EXTENDS Integers, FiniteSets

CONSTANTS Lines, Cols,  \* video_num_lines and video_num_columns
          MemRows,      \* rows of video memory: video_mem_end - video_mem_start
          DescLen,      \* length of display_desc (the code has 4)
          TabStop,      \* the code has 8
          NPAR,         \* parameters of a sequence (the code has 16)
          Word,         \* unsigned arithmetic is modulo Word (the code has 2^32)
          Digits,       \* the digits that are typed in a sequence
          Col7, Col8,   \* the columns '7' and '8' (55 and 56)
          BeepTicks,    \* HZ/8
          MaxInk,       \* bound on printing: cells of video memory not erased
          SavePoints,   \* bound on saving: the cursor positions where it is asked for
          MaxModes      \* bound on settings away from their initial value

ASSUME ConsoleAssumption ==
    /\ {Lines, TabStop, NPAR, BeepTicks} \subseteq Nat \ {0}
    /\ Cols \in Nat /\ Cols > 0 /\ Cols % 2 = 0
    /\ MemRows \in Nat /\ MemRows > Lines
    /\ DescLen \in 1..Cols /\ TabStop <= Cols
    /\ Word \in Nat /\ Word > Cols + TabStop /\ Word > Lines
    /\ Digits \subseteq 0..9
    /\ SavePoints \subseteq (0..Cols) \X (0..(Lines - 1))
    /\ {Col7, Col8, MaxInk, MaxModes} \subseteq Nat

Attr == {7, 15, 112}                      \* 0x07, 0x0f, 0x70
Class == {"letter", "other"}              \* isalpha(c), and the rest of 32..126
Erased == <<"blank", 7>>                  \* video_erase_char
Glyph == Class \X Attr
MemEnd == MemRows * Cols

VARIABLES con,       \* the statics that describe the display: mem, origin,
                     \* scr_end, pos, x, y, top, bottom
          ega,       \* video_type: EGA/VGA (TRUE) or MDA/CGA (FALSE)
          state,     \* of the escape sequence
          npar, par,
          attr,
          saved,     \* <<saved_x, saved_y>>
          F12Flag,
          beepcount

vars == <<con, ega, state, npar, par, attr, saved, F12Flag, beepcount>>
parser == <<state, npar, par>>

----------------------------------------------------------------------------
\* Blocks of video memory: rep stosw, and rep movsl in the direction that is
\* right for blocks that overlap.
Filled(m, from, n) ==
    [i \in DOMAIN m |-> IF i \in from..(from + n - 1) THEN Erased ELSE m[i]]
Moved(m, to, from, n) ==
    [i \in DOMAIN m |-> IF i \in to..(to + n - 1) THEN m[from + i - to] ELSE m[i]]

\* Mutant of GotoXY: only the test of the row is made.
GotoXYAnyColumn(d, nx, ny) ==
    IF ny >= Lines THEN d
    ELSE [d EXCEPT !.x = nx, !.y = ny, !.pos = d.origin + ny * Cols + nx]

\* gotoxy: column Cols is accepted, arguments out of range change nothing.
GotoXY(d, nx, ny) ==
    IF nx > Cols \/ ny >= Lines THEN d
    ELSE [d EXCEPT !.x = nx, !.y = ny, !.pos = d.origin + ny * Cols + nx]

\* Mutant of ScrupFast: the new line is not erased when memory is left.
ScrupFastDirty(d) ==
    LET o == d.origin + Cols
        e == d.scr_end + Cols
        kept == (Lines - 1) * Cols
    IN IF e > MemEnd
       THEN [d EXCEPT !.mem = Filled(Moved(@, 0, o, kept), kept, Cols),
                      !.scr_end = e - o, !.pos = @ + Cols - o, !.origin = 0]
       ELSE [d EXCEPT !.origin = o, !.scr_end = e, !.pos = @ + Cols]

\* scrup, the whole display of an EGA: the origin moves down a row, and back to
\* the start of memory, with the rows it shows, when the end is reached.
ScrupFast(d) ==
    LET o == d.origin + Cols
        e == d.scr_end + Cols
        kept == (Lines - 1) * Cols
    IN IF e > MemEnd
       THEN [d EXCEPT !.mem = Filled(Moved(@, 0, o, kept), kept, Cols),
                      !.scr_end = e - o, !.pos = @ + Cols - o, !.origin = 0]
       ELSE [d EXCEPT !.mem = Filled(@, e - Cols, Cols),
                      !.origin = o, !.scr_end = e, !.pos = @ + Cols]

\* scrup otherwise: the rows of the region are moved in memory.
ScrupSlow(d) ==
    LET n == (d.bottom - d.top - 1) * Cols
        to == d.origin + Cols * d.top
    IN [d EXCEPT !.mem = Filled(Moved(@, to, to + Cols, n), to + n, Cols)]

Scrup(d) == IF ega /\ d.top = 0 /\ d.bottom = Lines THEN ScrupFast(d) ELSE ScrupSlow(d)

\* scrdown is the same for all adapters.
Scrdown(d) ==
    LET n == (d.bottom - d.top - 1) * Cols
        from == d.origin + Cols * d.top
    IN [d EXCEPT !.mem = Filled(Moved(@, from + Cols, from, n), from, Cols)]

\* lf and ri
Lf(d) == IF d.y + 1 < d.bottom THEN [d EXCEPT !.y = @ + 1, !.pos = @ + Cols] ELSE Scrup(d)
Ri(d) == IF d.y > d.top THEN [d EXCEPT !.y = @ - 1, !.pos = @ - Cols] ELSE Scrdown(d)

Cr(d) == [d EXCEPT !.pos = @ - d.x, !.x = 0]

Del(d) == IF d.x = 0 THEN d
          ELSE [d EXCEPT !.pos = @ - 1, !.x = @ - 1, !.mem[d.pos - 1] = Erased]

\* A column behind the last goes to the next line.
Wrap(d) == Lf([d EXCEPT !.x = @ - Cols, !.pos = @ - Cols])

----------------------------------------------------------------------------
\* csi_J: from the cursor to the end, from the start to the cursor, all.
CsiJ(d, p) ==
    CASE p = 0 -> [d EXCEPT !.mem = Filled(@, d.pos, d.scr_end - d.pos)]
      [] p = 1 -> [d EXCEPT !.mem = Filled(@, d.origin, d.pos - d.origin)]
      [] p = 2 -> [d EXCEPT !.mem = Filled(@, d.origin, Cols * Lines)]
      [] OTHER -> d

\* csi_K: the same in the line.
CsiK(d, p) ==
    CASE p = 0 /\ d.x < Cols -> [d EXCEPT !.mem = Filled(@, d.pos, Cols - d.x)]
      [] p = 1 -> [d EXCEPT !.mem = Filled(@, d.pos - d.x,
                                            IF d.x < Cols THEN d.x ELSE Cols)]
      [] p = 2 -> [d EXCEPT !.mem = Filled(@, d.pos - d.x, Cols)]
      [] OTHER -> d

\* insert_char and delete_char: the cells from the cursor to the end of its
\* line, one further and one back.
InsertChar(d) ==
    IF d.x >= Cols THEN d
    ELSE [d EXCEPT !.mem = Filled(Moved(@, d.pos + 1, d.pos, Cols - d.x - 1), d.pos, 1)]
DeleteChar(d) ==
    IF d.x >= Cols THEN d
    ELSE [d EXCEPT !.mem = Filled(Moved(@, d.pos, d.pos + 1, Cols - d.x - 1),
                                  d.pos + Cols - d.x - 1, 1)]

\* insert_line and delete_line: a scroll of the region from the cursor's line
\* to the last, and then the old region again.
BelowCursor(d, Op(_)) ==
    [Op([d EXCEPT !.top = d.y, !.bottom = Lines]) EXCEPT !.top = d.top, !.bottom = d.bottom]
InsertLine(d) == BelowCursor(d, Scrdown)
DeleteLine(d) == BelowCursor(d, Scrup)

\* nr times, at least once and at most max times.
Times(Op(_), d, nr, max) ==
    LET n == IF nr > max THEN max ELSE IF nr = 0 THEN 1 ELSE nr
        after[i \in 0..n] == IF i = 0 THEN d ELSE Op(after[i - 1])
    IN after[n]

csi_at(d, nr) == Times(InsertChar, d, nr, Cols)
csi_L(d, nr) == Times(InsertLine, d, nr, Lines)
csi_P(d, nr) == Times(DeleteChar, d, nr, Cols)
csi_M(d, nr) == Times(DeleteLine, d, nr, Lines)

\* csi_m: every parameter in turn, unknown ones leave the attribute alone.
CsiM ==
    LET of(a, p) == CASE p \in {0, 27} -> 7 [] p \in {1, 4} -> 15
                      [] p = 7 -> 112 [] OTHER -> a
        after[i \in 0..(npar + 1)] ==
            IF i = 0 THEN attr ELSE of(after[i - 1], par[i - 1])
    IN after[npar + 1]

----------------------------------------------------------------------------
\* con_init: setup found the adapter and the cursor; the end of the first row
\* names the adapter.
ConsoleInit ==
    /\ ega \in BOOLEAN
    /\ \E cx \in 0..(Cols - 1), cy \in 0..(Lines - 1) :
          con = [mem |-> [i \in 0..(MemEnd - 1) |->
                             IF i \in (Cols - DescLen)..(Cols - 1)
                             THEN <<"letter", 7>> ELSE Erased],
                 origin |-> 0, scr_end |-> Lines * Cols, pos |-> cy * Cols + cx,
                 x |-> cx, y |-> cy, top |-> 0, bottom |-> Lines]
    /\ state = 0 /\ npar = 0 /\ par = [i \in 0..(NPAR - 1) |-> 0]
    /\ attr = 7
    /\ saved = <<0, 0>>
    /\ F12Flag = 0
    /\ beepcount = 0

\* state 0

\* Mutant of Shown: only the first column of a line is looked at.
ShownAtStart(c) == IF F12Flag = 1 /\ con.x = 0 /\ c = "letter" THEN "other" ELSE c

\* The character that is shown for c: '*' for a letter after F12.
Shown(c) == IF F12Flag = 1 /\ c = "letter" THEN "other" ELSE c

PrintChar(c) ==
    LET d == IF con.x >= Cols THEN Wrap(con) ELSE con
    IN /\ state = 0
       /\ Cardinality({i \in DOMAIN d.mem : d.mem[i] # Erased} \cup {d.pos}) <= MaxInk
       /\ con' = [d EXCEPT !.mem[d.pos] = <<Shown(c), attr>>, !.pos = @ + 1, !.x = @ + 1]
       /\ UNCHANGED <<ega, parser, attr, saved, F12Flag, beepcount>>

TabChar ==
    LET c == TabStop - (con.x % TabStop)
        d == [con EXCEPT !.x = @ + c, !.pos = @ + c]
    IN IF d.x > Cols THEN Wrap(d) ELSE d

Backspace == IF con.x = 0 THEN con ELSE [con EXCEPT !.x = @ - 1, !.pos = @ - 1]

\* Line feed (10, 11, 12), carriage return, erase, backspace and tab.
Control ==
    /\ state = 0
    /\ \/ con' = Lf(con)
       \/ con' = Cr(con)
       \/ con' = Del(con)
       \/ con' = Backspace
       \/ con' = TabChar
    /\ UNCHANGED <<ega, parser, attr, saved, F12Flag, beepcount>>

\* sysbeep, and what do_timer makes of beepcount (sysbeepstop at zero).
Bell == /\ state = 0 /\ beepcount' = BeepTicks
        /\ UNCHANGED <<con, ega, parser, attr, saved, F12Flag>>
BeepTick == /\ beepcount > 0 /\ beepcount' = beepcount - 1
            /\ UNCHANGED <<con, ega, parser, attr, saved, F12Flag>>

Escape == /\ state = 0 /\ state' = 1
          /\ UNCHANGED <<con, ega, npar, par, attr, saved, F12Flag, beepcount>>

\* state 1: E, M, D and Z (respond, which puts its answer in the read queue and
\* leaves the display alone); any other character saves the cursor in column
\* '7' and restores it in column '8'.
SaveCur == /\ <<con.x, con.y>> \in SavePoints
           /\ saved' = <<con.x, con.y>> /\ UNCHANGED con
RestoreCur == con' = GotoXY(con, saved[1], saved[2]) /\ UNCHANGED saved

EscapeChar ==
    /\ state = 1 /\ state' = 0
    /\ \/ con' = GotoXY(con, 0, con.y + 1) /\ UNCHANGED saved
       \/ con' = Ri(con) /\ UNCHANGED saved
       \/ con' = Lf(con) /\ UNCHANGED saved
       \/ UNCHANGED <<con, saved>>
       \/ con.x = Col7 /\ SaveCur
       \/ con.x = Col8 /\ RestoreCur
    /\ UNCHANGED <<ega, npar, par, attr, F12Flag, beepcount>>

\* state 1 to 2; state 2 and 3: parameters.  A '?' is dropped; the separator
\* behind the last parameter ends the sequence as an unknown command.
Bracket == /\ state = 1 /\ state' = 2
           /\ UNCHANGED <<con, ega, npar, par, attr, saved, F12Flag, beepcount>>
Question == /\ state = 2 /\ state' = 3
            /\ UNCHANGED <<con, ega, npar, par, attr, saved, F12Flag, beepcount>>
Semicolon == /\ state \in {2, 3} /\ npar < NPAR - 1
             /\ state' = 3 /\ npar' = npar + 1
             /\ UNCHANGED <<con, ega, par, attr, saved, F12Flag, beepcount>>
Digit(n) == /\ state \in {2, 3}
            /\ state' = 3
            /\ par' = [par EXCEPT ![npar] = (10 * @ + n) % Word]
            /\ UNCHANGED <<con, ega, npar, attr, saved, F12Flag, beepcount>>

\* state 4: the command.
Less1(p) == IF p > 0 THEN p - 1 ELSE p
AtLeast1(p) == IF p = 0 THEN 1 ELSE p
Plus(a, b) == (a + b) % Word
Minus(a, b) == (a - b) % Word

\* G A B C D E F d H
CsiMove(p, q) ==
    \/ con' = GotoXY(con, Less1(p), con.y)
    \/ con' = GotoXY(con, con.x, Minus(con.y, AtLeast1(p)))
    \/ con' = GotoXY(con, con.x, Plus(con.y, AtLeast1(p)))
    \/ con' = GotoXY(con, Plus(con.x, AtLeast1(p)), con.y)
    \/ con' = GotoXY(con, Minus(con.x, AtLeast1(p)), con.y)
    \/ con' = GotoXY(con, 0, Plus(con.y, AtLeast1(p)))
    \/ con' = GotoXY(con, 0, Minus(con.y, AtLeast1(p)))
    \/ con' = GotoXY(con, con.x, Less1(p))
    \/ con' = GotoXY(con, Less1(q), Less1(p))

\* J K L M P @
CsiEdit(p) ==
    \/ con' = CsiJ(con, p)
    \/ con' = CsiK(con, p)
    \/ con' = csi_L(con, p)
    \/ con' = csi_M(con, p)
    \/ con' = csi_P(con, p)
    \/ con' = csi_at(con, p)

\* r
CsiRegion(p, q) ==
    LET t == Less1(p)
        b == IF q = 0 THEN Lines ELSE q
    IN con' = IF t < b /\ b <= Lines THEN [con EXCEPT !.top = t, !.bottom = b] ELSE con

Command ==
    LET p == par[0]
        q == IF NPAR > 1 THEN par[1] ELSE 0
    IN /\ state \in {2, 3}
       /\ state' = 0 /\ npar' = 0 /\ par' = [i \in DOMAIN par |-> 0]
       /\ \/ CsiMove(p, q) /\ UNCHANGED <<attr, saved>>
          \/ CsiEdit(p) /\ UNCHANGED <<attr, saved>>
          \/ CsiRegion(p, q) /\ UNCHANGED <<attr, saved>>
          \/ attr' = CsiM /\ UNCHANGED <<con, saved>>
          \/ SaveCur /\ UNCHANGED attr
          \/ RestoreCur /\ UNCHANGED attr
          \/ UNCHANGED <<con, attr, saved>>
       /\ UNCHANGED <<ega, F12Flag, beepcount>>

\* F12, from the keyboard interrupt, between two characters.
F12_trigger == /\ F12Flag' = 1 - F12Flag
               /\ UNCHANGED <<con, ega, parser, attr, saved, beepcount>>

\* The settings that are away from their initial value: an attribute, a saved
\* cursor and a beep each count for all the others.
Modes == Cardinality({m \in 1..2 : \/ m = 1 /\ (con.top # 0 \/ con.bottom # Lines)
                                   \/ m = 2 /\ F12Flag # 0})
         + MaxModes * Cardinality({m \in 1..3 : \/ m = 1 /\ attr # 7
                                                \/ m = 2 /\ saved # <<0, 0>>
                                                \/ m = 3 /\ beepcount # 0})

Step == \/ \E c \in Class : PrintChar(c)
        \/ Control \/ Bell \/ BeepTick
        \/ Escape \/ EscapeChar \/ Bracket \/ Question \/ Semicolon
        \/ \E n \in Digits : Digit(n)
        \/ Command
        \/ F12_trigger

Next == Step /\ Modes' <= MaxModes

Spec == ConsoleInit /\ [][Next]_vars

----------------------------------------------------------------------------
\* The row, the column and the address of the cursor are kept up to date
\* separately by every handler, and the origin moves under them; they never
\* disagree, the window [origin, scr_end) is inside video memory, and the only
\* address outside the window is the one behind its last cell.
CursorInStep ==
    /\ con.pos = con.origin + con.y * Cols + con.x
    /\ con.x \in 0..Cols /\ con.y \in 0..(Lines - 1)
    /\ con.top \in 0..(con.bottom - 1) /\ con.bottom \in 1..Lines
    /\ con.origin >= 0 /\ con.scr_end = con.origin + Lines * Cols
    /\ con.scr_end <= MemEnd
    /\ DOMAIN con.mem = 0..(MemEnd - 1)

\* What the adapter shows.
Text == [r \in 0..(Lines - 1) |-> [c \in 0..(Cols - 1) |-> con.mem[con.origin + r * Cols + c]]]

S == INSTANCE Screen WITH text <- Text, x <- con.x, y <- con.y,
                          top <- con.top, bottom <- con.bottom

\* Moving the origin, and moving memory, are the same to the eye: every
\* character does to the display what one operation of the plain screen does.
ImplementsScreen == S!ScreenSpec

LettersShown == Cardinality({p \in (0..(Lines - 1)) \X (0..(Cols - 1)) :
                                Text[p[1]][p[2]][1] = "letter"})

\* While F12Flag is set nothing brings a letter to the display: not a character,
\* not a scroll that uncovers old memory, not an insertion.
LettersStayHidden == [][F12Flag = 1 => LettersShown' <= LettersShown]_vars
=============================================================================
