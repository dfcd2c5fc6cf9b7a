-------------------------------- MODULE Keyboard --------------------------------
(****************************************************************************)
(* The keyboard interrupt of Lab 7 (kernel/chr_drv/keyboard.S): scan codes  *)
(* become modifiers, lamps and characters of the console's read queue.      *)
(*                                                                          *)
(* keyboard_interrupt acknowledges the interrupt controller only after the  *)
(* key's routine, so one scan code is one step.  The keyboard itself        *)
(* (`held`, `wire`: the codes on their way) and the reader of the queue are *)
(* outside the repository: Press, Repeat, Release, ReadChar and Sleep stand *)
(* for them.  The keyboard sends no made-up shift codes here, and for Pause *)
(* what it sends when no ctrl key is held.                                  *)
(****************************************************************************)
EXTENDS Integers, Sequences, FiniteSets

CONSTANTS Keys,         \* the keys of the keyboard
          Repeating,    \* those that send their code again when held
          size,         \* of the read queue (the code has 1024)
          Start,        \* head and tail at first
          MaxPresses,   \* bound on keys pressed or repeated
          MaxWire       \* bound on codes that queue up on their way

KeyNames == {"lshift", "rshift", "lctrl", "rctrl", "lalt", "ralt", "caps", "num",
             "scroll", "sysreq", "two", "a", "minus", "slash", "home", "ghome",
             "del", "gdel", "f1", "f11", "f12", "pause"}

ASSUME KeyboardAssumption ==
    /\ Keys \subseteq KeyNames /\ Repeating \subseteq Keys
    /\ size \in Nat /\ size > 1 /\ Start \in 0..(size - 1)
    /\ MaxPresses \in Nat /\ MaxWire \in Nat

E0 == 224
E1 == 225

\* What a key sends when it is pressed: make codes, as the comments of
\* key_table name them; a break code is the make code + 128.
Sends(k) ==
    CASE k = "lshift" -> <<42>>  [] k = "rshift" -> <<54>>
      [] k = "lctrl"  -> <<29>>  [] k = "rctrl"  -> <<E0, 29>>
      [] k = "lalt"   -> <<56>>  [] k = "ralt"   -> <<E0, 56>>
      [] k = "caps"   -> <<58>>  [] k = "num"    -> <<69>>
      [] k = "scroll" -> <<70>>  [] k = "sysreq" -> <<84>>
      [] k = "two"    -> <<3>>   [] k = "a"      -> <<30>>
      [] k = "minus"  -> <<53>>  [] k = "slash"  -> <<E0, 53>>
      [] k = "home"   -> <<71>>  [] k = "ghome"  -> <<E0, 71>>
      [] k = "del"    -> <<83>>  [] k = "gdel"   -> <<E0, 83>>
      [] k = "f1"     -> <<59>>  [] k = "f11"    -> <<87>>  [] k = "f12" -> <<88>>
      [] k = "pause"  -> <<E1, 29, 69, E1, 157, 197>>

Modifiers == {"lshift", "rshift", "lctrl", "rctrl", "lalt", "ralt"}

VARIABLES mode,         \* the bits that are set, of Modifiers (0x01, 0x02, 0x04,
                        \* 0x08, 0x10, 0x20), "caps" (0x40) and "capsdown" (0x80)
          leds,         \* of "scroll" (1), "num" (2) and "caps" (4)
          e0,
          buf, head, tail,  \* the read queue
          asleep,       \* a process sleeps in its proc_list
          F12Flag,      \* of console.c
          dead,         \* the reboot was asked for
          held, wire,   \* the keyboard
          presses,      \* keys pressed or repeated so far
          accepted      \* the bytes that routines put in the queue, to be read

queue == <<buf, head, tail, asleep, accepted>>
outside == <<held, presses>>
vars == <<mode, leds, e0, queue, F12Flag, dead, wire, outside>>

KeyboardInit ==
    /\ mode = {} /\ leds = {"num"} /\ e0 = 0
    /\ buf = [i \in 0..(size - 1) |-> 0] /\ head = Start /\ tail = Start
    /\ asleep = FALSE /\ accepted = <<>>
    /\ F12Flag = 0 /\ dead = FALSE
    /\ held = {} /\ wire = <<>> /\ presses = 0

----------------------------------------------------------------------------
\* put_queue.  Byte j goes to the free place j - 1 behind the head; when the
\* place after it is the tail the rest is dropped.

Places(bytes) == 1..Len(bytes)
FullAt(bytes) == {j \in Places(bytes) : (head + j) % size = tail}
Written(bytes) == {j \in Places(bytes) : \A f \in FullAt(bytes) : j <= f}

Buffered(bytes) ==
    [i \in 0..(size - 1) |->
        IF \E j \in Written(bytes) : i = (head + j - 1) % size
        THEN bytes[CHOOSE j \in Written(bytes) : i = (head + j - 1) % size]
        ELSE buf[i]]

\* Mutant of PutQueue: what did fit is published.
PutQueueTorn(bytes) ==
    /\ buf' = Buffered(bytes)
    /\ head' = (head + Cardinality(Written(bytes) \ FullAt(bytes))) % size
    /\ asleep' = FALSE
    /\ accepted' = IF FullAt(bytes) = {} THEN accepted \o bytes ELSE accepted
    /\ UNCHANGED tail

\* All of the bytes or none of them get behind the head, and a sleeper is woken.
PutQueue(bytes) ==
    /\ buf' = Buffered(bytes)
    /\ IF FullAt(bytes) = {}
       THEN /\ head' = (head + Len(bytes)) % size
            /\ asleep' = FALSE
            /\ accepted' = accepted \o bytes
       ELSE UNCHANGED <<head, asleep, accepted>>
    /\ UNCHANGED tail

----------------------------------------------------------------------------
\* The routines of key_table.

Toggled(S, b) == IF b \in S THEN S \ {b} ELSE S \cup {b}

\* Mutant of Side: the prefix is not looked at.
SideLeft(left, right) == left

\* ctrl, alt, unctrl, unalt: a prefix makes it the key on the right.
Side(left, right) == IF e0 = 0 THEN left ELSE right

NoOutput == UNCHANGED <<queue, F12Flag, dead>>

\* ctrl and alt, lshift and rshift
Down(bit) == mode' = mode \cup {bit} /\ UNCHANGED leds /\ NoOutput
\* unctrl and unalt, unlshift and unrshift
Lift(bit) == mode' = mode \ {bit} /\ UNCHANGED leds /\ NoOutput

\* caps: repeated codes of a key that is down are ignored.
Caps == /\ IF "capsdown" \in mode THEN UNCHANGED <<mode, leds>>
           ELSE /\ leds' = Toggled(leds, "caps")
                /\ mode' = Toggled(mode, "caps") \cup {"capsdown"}
        /\ NoOutput

\* num and scroll
Lamp(l) == leds' = Toggled(leds, l) /\ UNCHANGED mode /\ NoOutput

\* cursor: keypad and cursor keys, from code 0x47 on.
num_table == <<55, 56, 57, 32, 52, 53, 54, 32, 49, 50, 51, 48, 44>>
cur_table == <<72, 65, 53, 32, 68, 71, 67, 32, 89, 66, 54, 50, 51>>

CtrlAltDel(code) == /\ code = 83 /\ mode \cap {"lctrl", "rctrl"} # {}
                    /\ mode \cap {"lalt", "ralt"} # {}

Cursor(code) ==
    LET i == code - 70
        moves == e0 = 1 \/ "num" \notin leds \/ mode \cap {"lshift", "rshift"} # {}
    IN /\ UNCHANGED <<mode, leds, F12Flag>>
       /\ \/ /\ CtrlAltDel(code)
             /\ dead' = TRUE /\ UNCHANGED queue
          \/ /\ ~CtrlAltDel(code)
             /\ PutQueue(IF ~moves THEN <<num_table[i]>>
                         ELSE IF cur_table[i] > 57 THEN <<27, 91, cur_table[i]>>
                         ELSE <<27, 91, cur_table[i], 126>>)
             /\ UNCHANGED dead

F12_trigger == F12Flag' = 1 - F12Flag

\* func: F1 to F10, F11 and F12 send "ESC [ [" and a letter, if the register
\* %ecx of the interrupted program happens to be at least 4.  F12_trigger may
\* leave the flag in %eax, which is the index into func_table afterwards.
func_table(i) == <<27, 91, 91, 65 + i>>
Func(code) ==
    LET i == IF code <= 68 THEN code - 59 ELSE code - 59 - 18
    IN /\ UNCHANGED <<mode, leds, dead>>
       /\ IF i = 11 THEN F12_trigger ELSE UNCHANGED F12Flag
       /\ \/ UNCHANGED queue
          \/ \E eax \in {i} \cup (IF i = 11 THEN {F12Flag'} ELSE {}) :
                PutQueue(func_table(eax))

\* do_self: the maps for the codes of "2", "a" and "/" of a US keyboard (zero:
\* nothing is sent), then ctrl and caps, ctrl, and left alt.
Map(two, a, slash) == [c \in {3, 30, 53} |-> CASE c = 3 -> two [] c = 30 -> a [] c = 53 -> slash]
key_map == Map(50, 97, 47)
shift_map == Map(64, 65, 63)
alt_map == Map(64, 0, 0)

Character(code) ==
    LET ctrl == mode \cap {"lctrl", "rctrl"} # {}
        c1 == IF "ralt" \in mode THEN alt_map[code]
              ELSE IF mode \cap {"lshift", "rshift"} # {} THEN shift_map[code]
              ELSE key_map[code]
        c2 == IF (ctrl \/ "caps" \in mode) /\ c1 \in 97..125 THEN c1 - 32 ELSE c1
        c3 == IF ctrl /\ c2 \in 64..95 THEN c2 - 64 ELSE c2
    IN IF c1 = 0 THEN <<>>
       ELSE IF "lalt" \in mode THEN <<128 + (c3 % 128)>> ELSE <<c3>>

DoSelf(code) ==
    /\ UNCHANGED <<mode, leds, F12Flag, dead>>
    /\ IF Character(code) = <<>> THEN UNCHANGED queue ELSE PutQueue(Character(code))

\* minus: with a prefix, the slash of the keypad.
MinusKey(code) ==
    \/ e0 # 1 /\ DoSelf(code)
    \/ e0 = 1 /\ PutQueue(<<47>>) /\ UNCHANGED <<mode, leds, F12Flag, dead>>

\* key_table: the routine for a code.
key_table(code) ==
    \/ code = 29 /\ Down(Side("lctrl", "rctrl"))
    \/ code = 56 /\ Down(Side("lalt", "ralt"))
    \/ code = 42 /\ Down("lshift")
    \/ code = 54 /\ Down("rshift")
    \/ code = 157 /\ Lift(Side("lctrl", "rctrl"))
    \/ code = 184 /\ Lift(Side("lalt", "ralt"))
    \/ code = 170 /\ Lift("lshift")
    \/ code = 182 /\ Lift("rshift")
    \/ code = 58 /\ Caps
    \/ code = 186 /\ Lift("capsdown")
    \/ code = 69 /\ Lamp("num")
    \/ code = 70 /\ Lamp("scroll")
    \/ code \in (71..83) \ {74, 78} /\ Cursor(code)
    \/ code \in 59..68 \cup {87, 88} /\ Func(code)
    \/ code = 53 /\ MinusKey(code)
    \/ code \in DOMAIN key_map \ {53} /\ DoSelf(code)
    \/ /\ code \in {84} \cup ((128..223) \ {157, 170, 182, 184, 186})
       /\ UNCHANGED <<mode, leds>> /\ NoOutput

\* keyboard_interrupt with the next code: a prefix is kept for the code after
\* it, any other code uses it up.
keyboard_interrupt ==
    /\ ~dead /\ wire # <<>>
    /\ wire' = Tail(wire)
    /\ \/ /\ Head(wire) \in {E0, E1}
          /\ e0' = IF Head(wire) = E0 THEN 1 ELSE 2
          /\ UNCHANGED <<mode, leds>> /\ NoOutput
       \/ /\ key_table(Head(wire))
          /\ e0' = 0
    /\ UNCHANGED outside

----------------------------------------------------------------------------
\* The keyboard.

OnWire(codes) == /\ wire = <<>> \/ Len(wire) + Len(codes) <= MaxWire
                 /\ wire' = wire \o codes
                 /\ UNCHANGED <<mode, leds, e0, queue, F12Flag, dead>>

Press(k) == /\ ~dead /\ presses < MaxPresses /\ presses' = presses + 1
            /\ k \notin held
            /\ IF k = "pause" THEN held \cap {"lctrl", "rctrl"} = {} /\ held' = held
                              ELSE held' = held \cup {k}
            /\ OnWire(Sends(k))

Repeat(k) == /\ ~dead /\ presses < MaxPresses /\ presses' = presses + 1
             /\ k \in held \cap Repeating
             /\ OnWire(Sends(k))
             /\ UNCHANGED held

Release(k) == /\ ~dead /\ k \in held /\ held' = held \ {k}
              /\ OnWire([i \in DOMAIN Sends(k) |->
                            IF Sends(k)[i] = E0 THEN E0 ELSE Sends(k)[i] + 128])
              /\ UNCHANGED presses

\* The reader of the queue: takes a character, or sleeps when there is none.
ReadChar == /\ ~asleep /\ head # tail
            /\ tail' = (tail + 1) % size
            /\ accepted' = Tail(accepted)
            /\ UNCHANGED <<mode, leds, e0, buf, head, asleep, F12Flag, dead, wire, outside>>
Sleep == /\ ~asleep /\ head = tail /\ asleep' = TRUE
         /\ UNCHANGED <<mode, leds, e0, buf, head, tail, accepted, F12Flag, dead, wire, outside>>

Next == \/ keyboard_interrupt
        \/ \E k \in Keys : Press(k) \/ Repeat(k) \/ Release(k)
        \/ ReadChar \/ Sleep

Spec == KeyboardInit /\ [][Next]_vars

----------------------------------------------------------------------------
\* With no code on its way the mode bits say which of the six modifier keys and
\* whether caps lock are down, and no prefix is left over: whatever the order in
\* which left and right keys, Pause and repeated codes arrived.
ModifiersTrackKeys ==
    wire = <<>> /\ ~dead =>
        /\ mode \cap Modifiers = held \cap Modifiers
        /\ "capsdown" \in mode <=> "caps" \in held
        /\ e0 = 0

\* The bytes from tail to head are those that were put there as whole keys and
\* not read yet: a full queue drops a key as a whole, it never tears an escape
\* sequence or overwrites what is still to be read, and nobody sleeps on the
\* queue while there is something in it.
QueueHoldsWholeKeys ==
    /\ (head - tail) % size = Len(accepted)
    /\ \A j \in 1..Len(accepted) : buf[(tail + j - 1) % size] = accepted[j]
    /\ asleep => head = tail
=============================================================================
