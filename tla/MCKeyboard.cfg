\* Three keys down, one after the other or together, are enough for the chords
\* (ctrl-alt-del, both ctrl keys, shift and a cursor key) and to fill a queue of
\* seven bytes with two sequences of four.
SPECIFICATION Spec
CONSTANTS
  Keys = {"lshift", "rshift", "lctrl", "rctrl", "lalt", "ralt", "caps", "num",
          "scroll", "two", "a", "minus", "slash", "home", "ghome",
          "del", "f1", "f12", "pause"}
  Repeating = {"caps", "lctrl", "rctrl", "a"}
  size = 8
  Start = 6
  MaxPresses = 3
  MaxWire = 3
INVARIANTS
  ModifiersTrackKeys
  QueueHoldsWholeKeys
\* The bound on presses ends a behaviour, and so does the reboot.
CHECK_DEADLOCK FALSE
