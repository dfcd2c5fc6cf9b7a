\* Three rows in a memory of four: the origin reaches the end of memory after one
\* scroll, and a region of two rows is neither of the ends only.  Arithmetic is
\* modulo 8: a parameter is 0, 2 or, after a second digit, 22 and so 6, and moves the
\* cursor past zero and past the end of the word.  One cell beside the erased ones, and two settings at a time away from
\* their initial value, keep the instance small.
SPECIFICATION Spec
CONSTANTS
  Lines = 3
  Cols = 2
  MemRows = 4
  DescLen = 1
  TabStop = 2
  NPAR = 2
  Word = 8
  Digits = {2}
  Col7 = 1
  Col8 = 2
  BeepTicks = 1
  SavePoints <- MCSavePoints
  MaxInk = 1
  MaxModes = 2
INVARIANTS
  CursorInStep
PROPERTIES
  ImplementsScreen
  LettersStayHidden
