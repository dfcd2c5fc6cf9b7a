----------------------------- MODULE InterruptsProof -----------------------------
(****************************************************************************)
(* Proofs about the two interrupt handlers that keep state of their own.    *)
(*                                                                          *)
(* The timer (module Timers): floppy_on never returns before the motor is   *)
(* up to speed, who sleeps in it is woken, and the functions of             *)
(* timer_list[] are called in their time, for any number of processes and   *)
(* drives, lists of any length and all delays.                              *)
(*                                                                          *)
(* The keyboard (module Keyboard): the read queue holds whole keys, for     *)
(* every size of the queue and any number of keys pressed; and the modifier *)
(* bits are those of the keys that are down.                                *)
(****************************************************************************)
EXTENDS Timers, Keyboard, TLAPS, FiniteSetTheorems, SequenceTheorems, WellFoundedInduction

\* The timers are never negative; an on-timer counts down while the motor is on.
MotorTypeOK == /\ motor \subseteq Drives
               /\ mon_timer \in [Drives -> Nat]
               /\ spun \in [Drives -> 0..OnTicks]
               /\ at \in [Proc -> Drives \cup {NULL}]

\* What a motor has still to wait and what it has been on make up HZ/2 at least.
\* (A new selection may raise mon_timer, and a motor is only switched off when
\* mon_timer is zero.)
SpinUp == \A d \in motor : mon_timer[d] + spun[d] >= OnTicks

MotorInv == MotorTypeOK /\ SpinUp

----------------------------------------------------------------------------
\* ticks_to_floppy_on, from whatever caller: it never shortens the wait of a motor
\* that is not up to speed, and gives a motor it switches on the whole HZ/2.
LEMMA TicksKeepMotorInv ==
    ASSUME MotorInv, NEW d \in Drives, TicksToFloppyOn(d),
           at' \in [Proc -> Drives \cup {NULL}]
    PROVE  MotorInv'
<1> USE TimersAssumption DEF MotorInv, MotorTypeOK, TicksToFloppyOn
<1>1. OnTicks \in Nat /\ SelectTicks \in Nat
  OBVIOUS
<1>2. MotorTypeOK'
  BY <1>1
<1>3. ASSUME NEW e \in motor' PROVE mon_timer'[e] + spun'[e] >= OnTicks
  <2>1. CASE e = d /\ d \notin motor
    BY <1>1, <2>1
  <2>2. CASE e = d /\ d \in motor
    BY <1>1, <2>2 DEF SpinUp
  <2>3. CASE e # d
    BY <1>1, <2>3 DEF SpinUp
  <2>4. QED
    BY <2>1, <2>2, <2>3
<1>4. QED
  BY <1>2, <1>3 DEF SpinUp

\* do_floppy_timer: a tick that is taken from the wait is added to the time on.
LEMMA TickKeepsMotorInv == MotorInv /\ FloppyTick => MotorInv'
<1> SUFFICES ASSUME MotorInv, FloppyTick PROVE MotorInv'
    OBVIOUS
<1> USE TimersAssumption DEF MotorInv, MotorTypeOK, FloppyTick
<1>1. OnTicks \in Nat
  OBVIOUS
<1>2. MotorTypeOK'
  BY <1>1
<1>3. ASSUME NEW e \in motor' PROVE mon_timer'[e] + spun'[e] >= OnTicks
  <2>1. e \in motor /\ e \in Drives /\ e \notin TurnedOff
    BY <1>3
  <2>2. CASE mon_timer[e] > 0
    BY <1>1, <2>1, <2>2 DEF SpinUp
  <2>3. CASE mon_timer[e] = 0
    BY <1>1, <2>1, <2>3 DEF SpinUp
  <2>4. QED
    BY <2>1, <2>2, <2>3
<1>4. QED
  BY <1>2, <1>3 DEF SpinUp

\* Every step keeps the invariant.
LEMMA MotorInvStep == MotorInv /\ [TimersNext]_timersVars => MotorInv'
<1> SUFFICES ASSUME MotorInv, [TimersNext]_timersVars PROVE MotorInv'
    OBVIOUS
<1> USE TimersAssumption
<1>1. CASE do_timer
  BY <1>1, TickKeepsMotorInv DEF do_timer
<1>2. CASE Select
  BY <1>2 DEF Select, MotorInv, MotorTypeOK, SpinUp, sleepVars
<1>3. ASSUME NEW n \in 0..MaxJiffies, add_timer(n) PROVE MotorInv'
  BY <1>3 DEF add_timer, MotorInv, MotorTypeOK, SpinUp, floppyVars, sleepVars
<1>4. ASSUME NEW d \in Drives, Ask(d) PROVE MotorInv'
  BY <1>4, TicksKeepMotorInv DEF Ask, MotorInv, MotorTypeOK, sleepVars
<1>5. ASSUME NEW d \in Drives, floppy_off(d) PROVE MotorInv'
  BY <1>5 DEF floppy_off, MotorInv, MotorTypeOK, SpinUp, sleepVars
<1>6. ASSUME NEW p \in Proc, GapSleep(p) PROVE MotorInv'
  BY <1>6 DEF GapSleep, MotorInv, MotorTypeOK, SpinUp, floppyVars
<1>7. ASSUME NEW p \in Proc, Resume(p) PROVE MotorInv'
  <2>1. at[p] \in Drives
    BY <1>7 DEF Resume, MotorInv, MotorTypeOK
  <2>2. at' \in [Proc -> Drives \cup {NULL}]
    BY <1>7, <2>1 DEF Resume, LoopTest, MotorInv, MotorTypeOK
  <2>3. QED
    BY <1>7, <2>1, <2>2, TicksKeepMotorInv DEF Resume
<1>8. ASSUME NEW p \in Proc, NEW d \in Drives, floppy_on(p, d) PROVE MotorInv'
  <2>1. at' \in [Proc -> Drives \cup {NULL}]
    BY <1>8 DEF floppy_on, LoopTest, MotorInv, MotorTypeOK
  <2>2. QED
    BY <1>8, <2>1, TicksKeepMotorInv DEF floppy_on
<1>9. CASE UNCHANGED timersVars
  BY <1>9 DEF timersVars, floppyVars, sleepVars, MotorInv, MotorTypeOK, SpinUp
<1>10. QED
  BY <1>1, <1>2, <1>3, <1>4, <1>5, <1>6, <1>7, <1>8, <1>9 DEF TimersNext

\* ticks_to_floppy_on answers 0, and floppy_on returns, only for a motor that has
\* been on for HZ/2 ticks, for any number of drives and callers and any delays.
THEOREM MotorsReady == TimersSpec => []MotorReady
<1>1. TimersInit => MotorInv
  BY TimersAssumption DEF TimersInit, MotorInv, MotorTypeOK, SpinUp
<1>2. MotorInv => MotorReady
  BY TimersAssumption DEF MotorInv, MotorTypeOK, SpinUp, MotorReady
<1>3. QED
  BY <1>1, <1>2, MotorInvStep, PTL DEF TimersSpec

----------------------------------------------------------------------------
\* The sleepers.  As in SemaphoreProof, `below` gives what hangs off a process in
\* floppy_on by the tmp pointers on the stacks.

Asleep(p) == state[p] = "uninterruptible"

SleepTypeOK == /\ motor \subseteq Drives /\ mon_timer \in [Drives -> Nat]
               /\ missed \in [Drives -> BOOLEAN]
               /\ wait_motor \in [Drives -> Proc \cup {NULL}]
               /\ state \in [Proc -> {"running", "uninterruptible"}]
               /\ tmp \in [Proc -> Proc \cup {NULL}]
               /\ at \in [Proc -> Drives \cup {NULL}]
               /\ gap \in Proc \cup {NULL}

\* Who sleeps is in floppy_on; who is not, or is in the gap before sleep_on, has no
\* tmp.
FramesOK == \A p \in Proc :
    /\ Asleep(p) => at[p] # NULL
    /\ at[p] = NULL \/ gap = p => tmp[p] = NULL
    /\ gap = p => at[p] # NULL /\ ~Asleep(p)

IsBelow(below) ==
    \A q \in Proc : below[q] = IF tmp[q] = NULL THEN {} ELSE {tmp[q]} \cup below[tmp[q]]

\* A chain holds sleepers for one drive, each reached through one tmp, and does not
\* return to its start.
ChainOK(below) ==
    \A q \in Proc : \A x \in below[q] :
        /\ Asleep(x) /\ at[x] = at[q] /\ x # q
        /\ x = tmp[q] \/ \E r \in below[q] : tmp[r] = x

TmpInjective == \A q, r \in Proc : tmp[q] # NULL /\ tmp[q] = tmp[r] => q = r

\* The head of a queue sleeps for that drive and is in nobody's chain.
HeadOK(below) ==
    \A d \in Drives : wait_motor[d] # NULL =>
        /\ Asleep(wait_motor[d]) /\ at[wait_motor[d]] = d
        /\ \A q \in Proc : wait_motor[d] \notin below[q]

\* Every sleeper is the head of its queue, or below the head, or below a process
\* that was woken.
Covered(below) ==
    \A p \in Proc : Asleep(p) =>
        \/ wait_motor[at[p]] = p
        \/ wait_motor[at[p]] # NULL /\ p \in below[wait_motor[at[p]]]
        \/ \E q \in Proc : at[q] = at[p] /\ state[q] = "running" /\ p \in below[q]

Chains(below) == IsBelow(below) /\ ChainOK(below) /\ HeadOK(below) /\ Covered(below)

\* The time of drive d runs, or it ran out on a process in the gap.
Timed(d) == (d \in motor /\ mon_timer[d] > 0) \/ missed[d]

\* While somebody sleeps, or is about to, the time of the drive runs.
HeadsTimed == /\ \A d \in Drives : wait_motor[d] # NULL => Timed(d)
              /\ gap # NULL => Timed(at[gap])

QueueInv == /\ SleepTypeOK /\ FramesOK /\ TmpInjective /\ HeadsTimed
            /\ \E below \in [Proc -> SUBSET Proc] : Chains(below)

\* A process that runs is in no chain, and nobody but it reaches its tmp.
LEMMA RunnerFree ==
    ASSUME QueueInv, NEW below \in [Proc -> SUBSET Proc], Chains(below),
           NEW p \in Proc, ~Asleep(p)
    PROVE  \A q \in Proc : /\ p \notin below[q] /\ tmp[q] # p
                           /\ tmp[p] # NULL /\ q # p => tmp[p] \notin below[q]
<1> SUFFICES ASSUME NEW q \in Proc
             PROVE  /\ p \notin below[q] /\ tmp[q] # p
                    /\ tmp[p] # NULL /\ q # p => tmp[p] \notin below[q]
    OBVIOUS
<1>1. p \notin below[q]
  BY DEF Chains, ChainOK
<1>2. tmp[q] # p
  BY <1>1, TimersAssumption DEF Chains, IsBelow
<1>3. ASSUME tmp[p] # NULL, q # p, tmp[p] \in below[q]
      PROVE  FALSE
  <2>1. tmp[p] = tmp[q] \/ \E r \in below[q] : tmp[r] = tmp[p]
    BY <1>3 DEF Chains, ChainOK
  <2>2. \A r \in Proc : tmp[r] = tmp[p] => r = p
    BY <1>3 DEF QueueInv, TmpInjective
  <2> QED  BY <1>1, <1>3, <2>1, <2>2
<1> QED  BY <1>1, <1>2, <1>3

\* A step that changes no pointer, no state and no place of a process.
LEMMA QueueUnchanged ==
    ASSUME QueueInv, SleepTypeOK', UNCHANGED sleepVars, HeadsTimed'
    PROVE  QueueInv'
<1>1. FramesOK' /\ TmpInjective'
  BY DEF QueueInv, FramesOK, TmpInjective, Asleep, sleepVars
<1>2. PICK below \in [Proc -> SUBSET Proc] : Chains(below)
  BY DEF QueueInv
<1>3. Chains(below)'
  BY <1>2 DEF Chains, IsBelow, ChainOK, HeadOK, Covered, Asleep, sleepVars
<1> QED  BY <1>1, <1>3 DEF QueueInv

\* ticks_to_floppy_on shortens no time that runs, and the drive it is called for
\* is on.
LEMMA TicksKeepTimed ==
    ASSUME SleepTypeOK, NEW d \in Drives, TicksToFloppyOn(d), missed' = missed
    PROVE  /\ motor' \subseteq Drives /\ mon_timer' \in [Drives -> Nat]
           /\ \A e \in Drives : Timed(e) => Timed(e)'
           /\ mon_timer'[d] # 0 => Timed(d)'
<1> USE TimersAssumption
<1>1. /\ motor' = motor \cup {d}
      /\ mon_timer' = IF d \notin motor THEN [mon_timer EXCEPT ![d] = OnTicks]
                      ELSE IF (IF selected THEN sel ELSE d) # sel /\ mon_timer[d] < SelectTicks
                      THEN [mon_timer EXCEPT ![d] = SelectTicks] ELSE mon_timer
  BY DEF TicksToFloppyOn
<1>2. OnTicks \in Nat /\ OnTicks > 0 /\ SelectTicks \in Nat /\ SelectTicks > 0
  OBVIOUS
<1>3. motor' \subseteq Drives /\ mon_timer' \in [Drives -> Nat]
  BY <1>1, <1>2 DEF SleepTypeOK
<1>4. \A e \in Drives : mon_timer[e] > 0 => mon_timer'[e] > 0
  BY <1>1, <1>2 DEF SleepTypeOK
<1>5. \A e \in Drives : Timed(e) => Timed(e)'
  BY <1>1, <1>4 DEF Timed
<1>6. mon_timer'[d] # 0 => Timed(d)'
  BY <1>1, <1>3 DEF Timed
<1> QED  BY <1>3, <1>5, <1>6

\* sleep_on: the old head and its chain come below the new one.
LEMMA GapSleepStep ==
    ASSUME QueueInv, NEW p \in Proc, GapSleep(p)
    PROVE  QueueInv'
<1> USE TimersAssumption
<1>1. PICK below \in [Proc -> SUBSET Proc] : Chains(below)
  BY DEF QueueInv
<1> DEFINE s == at[p]
           h == wait_motor[s]
           hbelow == IF h = NULL THEN {} ELSE {h} \cup below[h]
<1>2. /\ s \in Drives /\ gap = p /\ ~Asleep(p) /\ tmp[p] = NULL /\ Timed(s)
  BY DEF QueueInv, SleepTypeOK, FramesOK, HeadsTimed, GapSleep
<1>3. h \in Proc \cup {NULL}
  BY <1>2 DEF QueueInv, SleepTypeOK
<1>4. h # NULL => Asleep(h) /\ at[h] = s /\ \A q \in Proc : h \notin below[q]
  BY <1>1, <1>2 DEF Chains, HeadOK
<1>5. \A q \in Proc : p \notin below[q] /\ tmp[q] # p
  BY <1>1, <1>2, RunnerFree
<1>6. h # NULL => h # p
  BY <1>2, <1>4
<1>7. \A q \in Proc : /\ state'[q] = IF q = p THEN "uninterruptible" ELSE state[q]
                      /\ tmp'[q] = IF q = p THEN h ELSE tmp[q]
  BY DEF QueueInv, SleepTypeOK, GapSleep
<1>8. at' = at /\ gap' = NULL
  BY DEF GapSleep
<1>9. \A u \in Drives : wait_motor'[u] = IF u = s THEN p ELSE wait_motor[u]
  BY <1>2 DEF QueueInv, SleepTypeOK, GapSleep
<1>10. \A q \in Proc : Asleep(q)' <=> q = p \/ Asleep(q)
  BY <1>7 DEF Asleep
<1>11. PICK nb \in [Proc -> SUBSET Proc] : nb = [below EXCEPT ![p] = hbelow]
  BY <1>3
<1>12. \A q \in Proc : nb[q] = IF q = p THEN hbelow ELSE below[q]
  BY <1>11
<1>13. SleepTypeOK'
  BY <1>2, <1>3 DEF QueueInv, SleepTypeOK, GapSleep, floppyVars
<1>14. HeadsTimed'
  <2>1. \A d \in Drives : Timed(d) => Timed(d)'
    BY DEF Timed, GapSleep, floppyVars
  <2> QED  BY <1>2, <1>8, <1>9, <2>1 DEF QueueInv, HeadsTimed
<1>15. FramesOK'
  BY <1>2, <1>7, <1>8, <1>10 DEF QueueInv, FramesOK
<1>16. TmpInjective'
  <2>1. h # NULL => \A q \in Proc : tmp[q] # h
    BY <1>1, <1>3, <1>4 DEF Chains, IsBelow
  <2> QED  BY <1>7, <2>1 DEF QueueInv, TmpInjective
<1> HIDE DEF s, h
<1>17. \A x \in hbelow : x \in Proc /\ x # p /\ Asleep(x) /\ at[x] = s
  <2> SUFFICES ASSUME NEW x \in hbelow, h # NULL
               PROVE  x \in Proc /\ x # p /\ Asleep(x) /\ at[x] = s
    OBVIOUS
  <2>1. CASE x = h
    BY <1>3, <1>4, <1>6, <2>1
  <2>2. CASE x \in below[h]
    BY <1>1, <1>3, <1>4, <1>5, <2>2 DEF Chains, ChainOK
  <2> QED  BY <2>1, <2>2
<1>18. IsBelow(nb)'
  <2> SUFFICES ASSUME NEW q \in Proc
               PROVE  nb[q] = IF tmp'[q] = NULL THEN {} ELSE {tmp'[q]} \cup nb[tmp'[q]]
    BY DEF IsBelow
  <2>1. CASE q = p
    BY <1>3, <1>6, <1>7, <1>12, <2>1
  <2>2. CASE q # p
    <3>1. tmp'[q] = tmp[q] /\ tmp[q] # p /\ tmp[q] \in Proc \cup {NULL}
      BY <1>5, <1>7, <2>2 DEF QueueInv, SleepTypeOK
    <3>2. below[q] = IF tmp[q] = NULL THEN {} ELSE {tmp[q]} \cup below[tmp[q]]
      BY <1>1 DEF Chains, IsBelow
    <3> QED  BY <1>12, <2>2, <3>1, <3>2
  <2> QED  BY <2>1, <2>2
<1>19. ChainOK(nb)'
  <2> SUFFICES ASSUME NEW q \in Proc, NEW x \in nb[q]
               PROVE  /\ Asleep(x)' /\ at[x] = at[q] /\ x # q
                      /\ x = tmp'[q] \/ \E r \in nb[q] : tmp'[r] = x
    BY <1>8 DEF ChainOK
  <2>1. CASE q # p
    <3>1. x \in below[q] /\ x \in Proc /\ x # p
      BY <1>5, <1>12, <2>1
    <3>2. Asleep(x) /\ at[x] = at[q] /\ x # q
      BY <1>1, <3>1 DEF Chains, ChainOK
    <3>3. x = tmp[q] \/ \E r \in below[q] : tmp[r] = x
      BY <1>1, <3>1 DEF Chains, ChainOK
    <3>4. \A r \in below[q] : r \in Proc /\ r # p
      BY <1>5
    <3> QED  BY <1>7, <1>10, <1>12, <2>1, <3>1, <3>2, <3>3, <3>4
  <2>2. CASE q = p
    <3>1. x \in hbelow /\ h \in Proc
      BY <1>3, <1>12, <2>2
    <3>2. Asleep(x)' /\ at[x] = at[q] /\ x # q
      BY <1>10, <1>17, <2>2, <3>1 DEF s
    <3>3. CASE x = h
      BY <1>7, <2>2, <3>2, <3>3
    <3>4. CASE x \in below[h]
      <4>1. x = tmp[h] \/ \E r \in below[h] : tmp[r] = x
        BY <1>1, <3>1, <3>4 DEF Chains, ChainOK
      <4>2. h \in hbelow /\ \A r \in below[h] : r \in hbelow
        BY <1>3, <3>1
      <4>3. \A r \in hbelow : tmp'[r] = tmp[r]
        BY <1>7, <1>17
      <4> QED  BY <1>12, <2>2, <3>2, <4>1, <4>2, <4>3
    <3> QED  BY <1>3, <3>1, <3>3, <3>4
  <2> QED  BY <2>1, <2>2
<1>20. HeadOK(nb)'
  <2> SUFFICES ASSUME NEW u \in Drives, wait_motor'[u] # NULL, NEW g, g = wait_motor'[u]
               PROVE  /\ state'[g] = "uninterruptible" /\ at[g] = u
                      /\ \A q \in Proc : g \notin nb[q]
    BY <1>8 DEF HeadOK, Asleep
  <2>1. CASE u = s
    <3>1. g = p
      BY <1>9, <2>1
    <3> QED  BY <1>5, <1>7, <1>12, <1>17, <2>1, <3>1 DEF s
  <2>2. CASE u # s
    <3>1. g = wait_motor[u] /\ g \in Proc
      BY <1>9, <2>2 DEF QueueInv, SleepTypeOK
    <3>2. Asleep(g) /\ at[g] = u /\ \A q \in Proc : g \notin below[q]
      BY <1>1, <3>1 DEF Chains, HeadOK
    <3>3. g \notin hbelow
      BY <1>17, <2>2, <3>2
    <3> QED  BY <1>7, <1>12, <3>1, <3>2, <3>3 DEF Asleep
  <2> QED  BY <2>1, <2>2
<1>21. Covered(nb)'
  <2> SUFFICES ASSUME NEW x \in Proc, Asleep(x)'
               PROVE  \/ wait_motor'[at[x]] = x
                      \/ wait_motor'[at[x]] # NULL /\ x \in nb[wait_motor'[at[x]]]
                      \/ \E q \in Proc : /\ at[q] = at[x] /\ state'[q] = "running"
                                         /\ x \in nb[q]
    BY <1>8 DEF Covered
  <2>1. CASE x = p
    BY <1>2, <1>9, <2>1 DEF s
  <2>2. CASE x # p
    <3>1. Asleep(x) /\ at[x] \in Drives
      BY <1>10, <2>2 DEF QueueInv, FramesOK, SleepTypeOK
    <3>2. CASE wait_motor[at[x]] = x
      BY <1>3, <1>9, <1>12, <2>2, <3>1, <3>2 DEF h
    <3>3. CASE wait_motor[at[x]] # NULL /\ x \in below[wait_motor[at[x]]]
      <4>1. CASE at[x] = s
        BY <1>9, <1>12, <3>1, <3>3, <4>1 DEF h
      <4>2. CASE at[x] # s
        <5>1. wait_motor[at[x]] \in Proc /\ wait_motor[at[x]] # p
          BY <1>1, <1>2, <3>1, <3>3 DEF Chains, HeadOK, QueueInv, SleepTypeOK
        <5> QED  BY <1>9, <1>12, <3>1, <3>3, <4>2, <5>1
      <4> QED  BY <4>1, <4>2
    <3>4. CASE \E q \in Proc : at[q] = at[x] /\ state[q] = "running" /\ x \in below[q]
      <4>1. PICK q \in Proc : at[q] = at[x] /\ state[q] = "running" /\ x \in below[q]
        BY <3>4
      <4>2. q # p
        BY <1>1, <1>2, <4>1 DEF Chains, IsBelow
      <4> QED  BY <1>7, <1>12, <4>1, <4>2
    <3> QED  BY <1>1, <3>1, <3>2, <3>3, <3>4 DEF Chains, Covered
  <2> QED  BY <2>1, <2>2
<1> QED  BY <1>11, <1>13, <1>14, <1>15, <1>16, <1>18, <1>19, <1>20, <1>21
         DEF QueueInv, Chains

\* A process that was woken hands its chain to its tmp; it stays in floppy_on, on
\* its way to the gap, or leaves.
LEMMA ResumeStep ==
    ASSUME QueueInv, NEW p \in Proc, Resume(p)
    PROVE  QueueInv'
<1> USE TimersAssumption
<1>1. PICK below \in [Proc -> SUBSET Proc] : Chains(below)
  BY DEF QueueInv
<1>0. PICK s \in Drives : s = at[p]
  BY DEF QueueInv, SleepTypeOK, Resume
<1> DEFINE b == tmp[p]
<1>2. /\ gap = NULL /\ state[p] = "running" /\ ~Asleep(p)
      /\ b \in Proc \cup {NULL}
  BY DEF QueueInv, SleepTypeOK, Asleep, Resume
<1>3. TicksToFloppyOn(s) /\ LoopTest(p, s) /\ missed' = missed /\ wait_motor' = wait_motor
  BY <1>0 DEF Resume
<1>4. b # NULL => b \in below[p] /\ Asleep(b) /\ at[b] = s /\ b # p
  BY <1>0, <1>1, <1>2 DEF Chains, IsBelow, ChainOK
<1>5. \A q \in Proc : /\ p \notin below[q] /\ tmp[q] # p
                      /\ b # NULL /\ q # p => b \notin below[q]
  BY <1>1, <1>2, RunnerFree
<1>6. \A q \in Proc : /\ state'[q] = IF q = b THEN "running" ELSE state[q]
                      /\ tmp'[q] = IF q = p THEN NULL ELSE tmp[q]
  BY <1>2 DEF QueueInv, SleepTypeOK, Resume
<1>7. /\ \A q \in Proc : q # p => at'[q] = at[q]
      /\ \/ at'[p] = NULL /\ gap' = NULL
         \/ at'[p] = s /\ gap' = p /\ mon_timer'[s] # 0
  BY <1>2, <1>3 DEF LoopTest, QueueInv, SleepTypeOK
<1>8. \A q \in Proc : Asleep(q)' <=> q # b /\ Asleep(q)
  BY <1>6 DEF Asleep
<1>9. PICK nb \in [Proc -> SUBSET Proc] : nb = [below EXCEPT ![p] = {}]
  OBVIOUS
<1>10. \A q \in Proc : nb[q] = IF q = p THEN {} ELSE below[q]
  BY <1>9
<1>11. /\ motor' \subseteq Drives /\ mon_timer' \in [Drives -> Nat]
       /\ \A e \in Drives : Timed(e) => Timed(e)'
       /\ mon_timer'[s] # 0 => Timed(s)'
  BY <1>2, <1>3, TicksKeepTimed DEF QueueInv
<1>12. SleepTypeOK'
  <2>1. state' \in [Proc -> {"running", "uninterruptible"}]
    BY <1>2 DEF QueueInv, SleepTypeOK, Resume
  <2>2. tmp' \in [Proc -> Proc \cup {NULL}]
    BY DEF QueueInv, SleepTypeOK, Resume
  <2>3. at' \in [Proc -> Drives \cup {NULL}] /\ gap' \in Proc \cup {NULL}
    BY <1>2, <1>3 DEF QueueInv, SleepTypeOK, LoopTest
  <2> QED  BY <1>3, <1>11, <2>1, <2>2, <2>3 DEF QueueInv, SleepTypeOK
<1>13. HeadsTimed'
  <2>1. \A d \in Drives : wait_motor[d] # NULL => Timed(d)'
    BY <1>11 DEF QueueInv, HeadsTimed
  <2>2. gap' # NULL => Timed(s)' /\ at'[gap'] = s
    BY <1>7, <1>11
  <2>3. gap' # NULL => Timed(at[gap])'
    <3> SUFFICES ASSUME gap' # NULL PROVE Timed(at[gap])'  OBVIOUS
    <3>1. at'[gap'] = s /\ ((s \in motor' /\ mon_timer'[s] > 0) \/ missed'[s])
      BY <2>2 DEF Timed
    <3> QED  BY <3>1 DEF Timed
  <2> QED  BY <1>3, <2>1, <2>3 DEF HeadsTimed
<1>14. FramesOK'
  BY <1>2, <1>4, <1>6, <1>7, <1>8 DEF QueueInv, FramesOK
<1>15. TmpInjective'
  BY <1>6 DEF QueueInv, TmpInjective
<1>16. IsBelow(nb)'
  <2> SUFFICES ASSUME NEW q \in Proc
               PROVE  nb[q] = IF tmp'[q] = NULL THEN {} ELSE {tmp'[q]} \cup nb[tmp'[q]]
    BY DEF IsBelow
  <2>1. CASE q = p
    BY <1>6, <1>10, <2>1
  <2>2. CASE q # p
    <3>1. tmp'[q] = tmp[q] /\ tmp[q] # p /\ tmp[q] \in Proc \cup {NULL}
      BY <1>5, <1>6, <2>2 DEF QueueInv, SleepTypeOK
    <3>2. below[q] = IF tmp[q] = NULL THEN {} ELSE {tmp[q]} \cup below[tmp[q]]
      BY <1>1 DEF Chains, IsBelow
    <3> QED  BY <1>10, <2>2, <3>1, <3>2
  <2> QED  BY <2>1, <2>2
<1>17. ChainOK(nb)'
  <2> SUFFICES ASSUME NEW q \in Proc, NEW x \in nb[q]
               PROVE  /\ Asleep(x)' /\ at'[x] = at'[q] /\ x # q
                      /\ x = tmp'[q] \/ \E r \in nb[q] : tmp'[r] = x
    BY DEF ChainOK
  <2>1. q # p /\ x \in below[q] /\ x \in Proc /\ x # p /\ x # b
    BY <1>2, <1>5, <1>10
  <2>2. Asleep(x) /\ at[x] = at[q] /\ x # q
    BY <1>1, <2>1 DEF Chains, ChainOK
  <2>3. x = tmp[q] \/ \E r \in below[q] : tmp[r] = x
    BY <1>1, <2>1 DEF Chains, ChainOK
  <2>4. \A r \in below[q] : r \in Proc /\ r # p
    BY <1>5
  <2> QED  BY <1>6, <1>7, <1>8, <1>10, <2>1, <2>2, <2>3, <2>4
<1>18. HeadOK(nb)'
  <2> SUFFICES ASSUME NEW u \in Drives, wait_motor[u] # NULL, NEW g, g = wait_motor[u]
               PROVE  /\ state'[g] = "uninterruptible" /\ at'[g] = u
                      /\ \A q \in Proc : g \notin nb[q]
    BY <1>3 DEF HeadOK, Asleep
  <2>1. g \in Proc
    BY DEF QueueInv, SleepTypeOK
  <2>2. Asleep(g) /\ at[g] = u /\ \A q \in Proc : g \notin below[q]
    BY <1>1 DEF Chains, HeadOK
  <2>3. g # p /\ g # b
    BY <1>2, <1>4, <2>1, <2>2
  <2> QED  BY <1>6, <1>7, <1>10, <2>1, <2>2, <2>3 DEF Asleep
<1>19. Covered(nb)'
  <2> SUFFICES ASSUME NEW x \in Proc, Asleep(x)'
               PROVE  \/ wait_motor[at'[x]] = x
                      \/ wait_motor[at'[x]] # NULL /\ x \in nb[wait_motor[at'[x]]]
                      \/ \E q \in Proc : /\ at'[q] = at'[x] /\ state'[q] = "running"
                                         /\ x \in nb[q]
    BY <1>3 DEF Covered
  <2>1. Asleep(x) /\ x # b /\ x # p
    BY <1>2, <1>8
  <2>2. at'[x] = at[x] /\ at[x] \in Drives
    BY <1>7, <2>1 DEF QueueInv, FramesOK, SleepTypeOK
  <2>3. CASE wait_motor[at[x]] # NULL /\ x \in below[wait_motor[at[x]]]
    <3>1. wait_motor[at[x]] \in Proc /\ wait_motor[at[x]] # p
      BY <1>1, <1>2, <2>2, <2>3 DEF Chains, HeadOK, QueueInv, SleepTypeOK
    <3> QED  BY <1>10, <2>2, <2>3, <3>1
  <2>4. CASE \E q \in Proc : at[q] = at[x] /\ state[q] = "running" /\ x \in below[q]
    <3>1. PICK q \in Proc : at[q] = at[x] /\ state[q] = "running" /\ x \in below[q]
      BY <2>4
    <3>2. CASE q # p
      BY <1>6, <1>7, <1>10, <2>2, <3>1, <3>2
    <3>3. CASE q = p
      <4>1. b # NULL /\ x \in below[b]
        BY <1>1, <2>1, <3>1, <3>3 DEF Chains, IsBelow
      <4>2. b \in Proc /\ b # p /\ state'[b] = "running" /\ at'[b] = at[x]
        BY <1>2, <1>4, <1>6, <1>7, <3>1, <3>3, <4>1, <1>0
      <4> QED  BY <1>10, <2>2, <4>1, <4>2
    <3> QED  BY <3>2, <3>3
  <2> QED  BY <1>1, <2>1, <2>2, <2>3, <2>4 DEF Chains, Covered
<1> QED  BY <1>9, <1>12, <1>13, <1>14, <1>15, <1>16, <1>17, <1>18, <1>19
         DEF QueueInv, Chains

\* floppy_on, up to the gap or to its return: the caller is in no queue yet.
LEMMA FloppyOnStep ==
    ASSUME QueueInv, NEW p \in Proc, NEW d \in Drives, floppy_on(p, d)
    PROVE  QueueInv'
<1> USE TimersAssumption
<1>1. PICK below \in [Proc -> SUBSET Proc] : Chains(below)
  BY DEF QueueInv
<1>2. /\ gap = NULL /\ state[p] = "running" /\ ~Asleep(p) /\ at[p] = NULL /\ tmp[p] = NULL
      /\ TicksToFloppyOn(d) /\ LoopTest(p, d)
      /\ UNCHANGED <<wait_motor, state, tmp, missed>>
  BY DEF QueueInv, FramesOK, Asleep, floppy_on
<1>3. /\ \A q \in Proc : q # p => at'[q] = at[q]
      /\ \/ at'[p] = NULL /\ gap' = NULL
         \/ at'[p] = d /\ gap' = p /\ mon_timer'[d] # 0
  BY <1>2 DEF LoopTest, QueueInv, SleepTypeOK
<1>4. \A q \in Proc : p \notin below[q]
  BY <1>1, <1>2, RunnerFree
<1>5. below[p] = {}
  BY <1>1, <1>2 DEF Chains, IsBelow
<1>6. /\ motor' \subseteq Drives /\ mon_timer' \in [Drives -> Nat]
      /\ \A e \in Drives : Timed(e) => Timed(e)'
      /\ mon_timer'[d] # 0 => Timed(d)'
  BY <1>2, TicksKeepTimed DEF QueueInv
<1>7. SleepTypeOK'
  <2>1. at' \in [Proc -> Drives \cup {NULL}] /\ gap' \in Proc \cup {NULL}
    BY <1>2 DEF QueueInv, SleepTypeOK, LoopTest
  <2> QED  BY <1>2, <1>6, <2>1 DEF QueueInv, SleepTypeOK
<1>8. HeadsTimed'
  <2>1. \A e \in Drives : wait_motor'[e] # NULL => Timed(e)'
    BY <1>2, <1>6 DEF QueueInv, HeadsTimed
  <2>2. ASSUME gap' # NULL PROVE Timed(at[gap])'
    BY <1>3, <1>6, <2>2 DEF Timed
  <2> QED  BY <2>1, <2>2 DEF HeadsTimed
<1>9. \A q \in Proc : Asleep(q)' <=> Asleep(q)
  BY <1>2 DEF Asleep
<1>10. FramesOK' /\ TmpInjective'
  BY <1>2, <1>3, <1>9 DEF QueueInv, FramesOK, TmpInjective
<1>11. IsBelow(below)'
  BY <1>1, <1>2 DEF Chains, IsBelow
<1>12. ChainOK(below)'
  <2> SUFFICES ASSUME NEW q \in Proc, NEW x \in below[q]
               PROVE  /\ Asleep(x)' /\ at'[x] = at'[q] /\ x # q
                      /\ x = tmp'[q] \/ \E r \in below[q] : tmp'[r] = x
    BY DEF ChainOK
  <2>1. x \in Proc /\ x # p /\ q # p
    BY <1>4, <1>5
  <2> QED  BY <1>1, <1>2, <1>3, <1>9, <2>1 DEF Chains, ChainOK
<1>13. HeadOK(below)'
  <2> SUFFICES ASSUME NEW u \in Drives, wait_motor[u] # NULL, NEW g, g = wait_motor[u]
               PROVE  /\ state'[g] = "uninterruptible" /\ at'[g] = u
                      /\ \A q \in Proc : g \notin below[q]
    BY <1>2 DEF HeadOK, Asleep
  <2>1. g \in Proc
    BY DEF QueueInv, SleepTypeOK
  <2>2. Asleep(g) /\ at[g] = u /\ \A q \in Proc : g \notin below[q]
    BY <1>1 DEF Chains, HeadOK
  <2> QED  BY <1>2, <1>3, <2>1, <2>2 DEF Asleep
<1>14. Covered(below)'
  <2> SUFFICES ASSUME NEW x \in Proc, Asleep(x)
               PROVE  \/ wait_motor[at'[x]] = x
                      \/ wait_motor[at'[x]] # NULL /\ x \in below[wait_motor[at'[x]]]
                      \/ \E q \in Proc : /\ at'[q] = at'[x] /\ state[q] = "running"
                                         /\ x \in below[q]
    BY <1>2, <1>9 DEF Covered
  <2>1. at'[x] = at[x]
    BY <1>2, <1>3
  <2>2. \A q \in Proc : x \in below[q] => q # p
    BY <1>5
  <2> QED  BY <1>1, <1>3, <2>1, <2>2 DEF Chains, Covered
<1> QED  BY <1>1, <1>7, <1>8, <1>10, <1>11, <1>12, <1>13, <1>14 DEF QueueInv, Chains

\* do_floppy_timer: the heads whose motor comes up to speed run, and their chains
\* are covered by them; the time of the others goes on.
LEMMA FloppyTickStep ==
    ASSUME QueueInv, FloppyTick
    PROVE  QueueInv'
<1> USE TimersAssumption
<1>1. PICK below \in [Proc -> SUBSET Proc] : Chains(below)
  BY DEF QueueInv
<1>2. /\ \A q \in Proc : state'[q] = IF \E d \in Ready : wait_motor[d] = q THEN "running"
                                     ELSE state[q]
      /\ \A d \in Drives : /\ wait_motor'[d] = IF d \in Ready THEN NULL ELSE wait_motor[d]
                           /\ missed'[d] = IF d \in Ready THEN gap # NULL /\ at[gap] = d
                                           ELSE missed[d]
                           /\ mon_timer'[d] = IF d \in motor /\ mon_timer[d] > 0
                                              THEN mon_timer[d] - 1 ELSE mon_timer[d]
      /\ motor' = motor \ TurnedOff
      /\ UNCHANGED <<tmp, at, gap>>
  BY DEF FloppyTick
<1>3. Ready \subseteq Drives
  BY DEF Ready, QueueInv, SleepTypeOK
<1>4. SleepTypeOK'
  <2>1. mon_timer' \in [Drives -> Nat]
    BY DEF QueueInv, SleepTypeOK, FloppyTick
  <2>2. missed' \in [Drives -> BOOLEAN]
    <3>1. \A d \in Drives : missed'[d] \in BOOLEAN
      BY <1>2, Zenon DEF QueueInv, SleepTypeOK
    <3>2. missed' = [d \in Drives |-> missed'[d]]
      BY Zenon DEF FloppyTick
    <3> QED  BY <3>1, <3>2, Zenon
  <2>3. /\ wait_motor' \in [Drives -> Proc \cup {NULL}]
        /\ state' \in [Proc -> {"running", "uninterruptible"}]
    BY DEF QueueInv, SleepTypeOK, FloppyTick
  <2> QED  BY <1>2, <2>1, <2>2, <2>3 DEF QueueInv, SleepTypeOK
<1>5. ASSUME NEW d \in Drives, Timed(d), d \notin Ready
      PROVE  Timed(d)'
  <2>1. CASE missed[d]
    BY <1>2, <1>5, <2>1 DEF Timed
  <2>2. CASE d \in motor /\ mon_timer[d] > 0
    <3>1. mon_timer[d] \in Nat /\ mon_timer[d] # 1
      BY <1>5, <2>2 DEF Ready, QueueInv, SleepTypeOK
    <3>2. mon_timer'[d] > 0
      BY <1>2, <2>2, <3>1
    <3>3. d \in motor'
      BY <1>2, <2>2, <3>1 DEF TurnedOff
    <3> QED  BY <3>2, <3>3 DEF Timed
  <2> QED  BY <1>5, <2>1, <2>2 DEF Timed
<1>6. HeadsTimed'
  <2>1. \A d \in Drives : wait_motor'[d] # NULL => Timed(d)'
    <3> SUFFICES ASSUME NEW d \in Drives, wait_motor'[d] # NULL PROVE Timed(d)'  OBVIOUS
    <3>1. d \notin Ready /\ wait_motor[d] # NULL
      BY <1>2
    <3> QED  BY <1>5, <3>1 DEF QueueInv, HeadsTimed
  <2>2. ASSUME gap' # NULL PROVE Timed(at[gap])'
    <3>0. PICK e \in Drives : e = at[gap]
      BY <1>2, <2>2 DEF QueueInv, SleepTypeOK, FramesOK
    <3>1. gap \in Proc /\ gap # NULL /\ Timed(e)
      BY <1>2, <2>2, <3>0 DEF QueueInv, SleepTypeOK, FramesOK, HeadsTimed
    <3>2. at'[gap'] = e
      BY <1>2, <3>0
    <3>3. CASE e \in Ready
      <4>1. missed'[e]
        BY <1>2, <3>0, <3>1, <3>3
      <4> QED  BY <3>2, <4>1 DEF Timed
    <3>4. CASE e \notin Ready
      <4>1. Timed(e)'  BY <1>5, <3>1, <3>4
      <4> QED  BY <3>2, <4>1 DEF Timed
    <3> QED  BY <3>3, <3>4
  <2> QED  BY <2>1, <2>2 DEF HeadsTimed
<1>7. \A d \in Drives : wait_motor[d] # NULL =>
         /\ Asleep(wait_motor[d]) /\ at[wait_motor[d]] = d /\ wait_motor[d] \in Proc
         /\ \A q \in Proc : wait_motor[d] \notin below[q]
  BY <1>1 DEF Chains, HeadOK, QueueInv, SleepTypeOK
<1>8. \A q \in Proc : Asleep(q)' => Asleep(q) /\ \A d \in Ready : wait_motor[d] # q
  BY <1>2 DEF Asleep
<1>9. \A q \in Proc : Asleep(q) /\ (\A d \in Ready : wait_motor[d] # q) => Asleep(q)'
  BY <1>2 DEF Asleep
<1>10. FramesOK' /\ TmpInjective'
  <2>1. \A q \in Proc : gap = q => ~Asleep(q)'
    BY <1>8 DEF QueueInv, FramesOK
  <2> QED  BY <1>2, <1>8, <2>1 DEF QueueInv, FramesOK, TmpInjective
<1>11. IsBelow(below)'
  BY <1>1, <1>2 DEF Chains, IsBelow
<1>12. ChainOK(below)'
  <2> SUFFICES ASSUME NEW q \in Proc, NEW x \in below[q]
               PROVE  /\ Asleep(x)' /\ at[x] = at[q] /\ x # q
                      /\ x = tmp[q] \/ \E r \in below[q] : tmp[r] = x
    BY <1>2 DEF ChainOK
  <2>1. x \in Proc /\ \A d \in Ready : wait_motor[d] # x
    BY <1>3, <1>7
  <2>2. Asleep(x) /\ at[x] = at[q] /\ x # q
        /\ (x = tmp[q] \/ \E r \in below[q] : tmp[r] = x)
    BY <1>1 DEF Chains, ChainOK
  <2> QED  BY <1>9, <2>1, <2>2
<1>13. HeadOK(below)'
  <2> SUFFICES ASSUME NEW u \in Drives, wait_motor'[u] # NULL, NEW g, g = wait_motor'[u]
               PROVE  /\ state'[g] = "uninterruptible" /\ at[g] = u
                      /\ \A q \in Proc : g \notin below[q]
    BY <1>2 DEF HeadOK, Asleep
  <2>1. u \notin Ready /\ g = wait_motor[u]
    BY <1>2
  <2>2. Asleep(g) /\ at[g] = u /\ g \in Proc /\ \A q \in Proc : g \notin below[q]
    BY <1>7, <2>1
  <2>3. \A d \in Ready : wait_motor[d] # g
    BY <1>3, <1>7, <2>1, <2>2
  <2> QED  BY <1>9, <2>2, <2>3 DEF Asleep
<1>14. Covered(below)'
  <2> SUFFICES ASSUME NEW x \in Proc, Asleep(x)'
               PROVE  \/ wait_motor'[at[x]] = x
                      \/ wait_motor'[at[x]] # NULL /\ x \in below[wait_motor'[at[x]]]
                      \/ \E q \in Proc : /\ at[q] = at[x] /\ state'[q] = "running"
                                         /\ x \in below[q]
    BY <1>2 DEF Covered
  <2>1. Asleep(x) /\ (\A d \in Ready : wait_motor[d] # x) /\ at[x] \in Drives
    BY <1>8 DEF QueueInv, FramesOK, SleepTypeOK
  <2>2. CASE wait_motor[at[x]] = x
    BY <1>2, <2>1, <2>2
  <2>3. CASE wait_motor[at[x]] # NULL /\ x \in below[wait_motor[at[x]]]
    <3>1. CASE at[x] \in Ready
      <4>1. at[wait_motor[at[x]]] = at[x] /\ wait_motor[at[x]] \in Proc
        BY <1>7, <2>1, <2>3
      <4>2. state'[wait_motor[at[x]]] = "running"
        BY <1>2, <3>1, <4>1
      <4> QED  BY <2>3, <4>1, <4>2
    <3>2. CASE at[x] \notin Ready
      BY <1>2, <2>1, <2>3, <3>2
    <3> QED  BY <3>1, <3>2
  <2>4. CASE \E q \in Proc : at[q] = at[x] /\ state[q] = "running" /\ x \in below[q]
    BY <1>2, <2>4
  <2> QED  BY <1>1, <2>1, <2>2, <2>3, <2>4 DEF Chains, Covered
<1> QED  BY <1>1, <1>4, <1>6, <1>10, <1>11, <1>12, <1>13, <1>14 DEF QueueInv, Chains

\* Every step keeps the invariant.
LEMMA QueueInvStep == QueueInv /\ [TimersNext]_timersVars => QueueInv'
<1> SUFFICES ASSUME QueueInv, [TimersNext]_timersVars PROVE QueueInv'
    OBVIOUS
<1> USE TimersAssumption
<1>1. CASE do_timer
  BY <1>1, FloppyTickStep DEF do_timer
<1>2. ASSUME UNCHANGED <<sleepVars, missed, motor, mon_timer>> PROVE QueueInv'
  <2>1. SleepTypeOK' /\ HeadsTimed'
    BY <1>2 DEF QueueInv, SleepTypeOK, HeadsTimed, Timed, sleepVars
  <2> QED  BY <1>2, <2>1, QueueUnchanged
<1>3. CASE Select
  BY <1>2, <1>3 DEF Select
<1>4. ASSUME NEW n \in 0..MaxJiffies, add_timer(n) PROVE QueueInv'
  BY <1>2, <1>4 DEF add_timer, floppyVars
<1>5. ASSUME NEW d \in Drives, floppy_off(d) PROVE QueueInv'
  BY <1>2, <1>5 DEF floppy_off
<1>6. ASSUME NEW d \in Drives, Ask(d) PROVE QueueInv'
  <2>1. TicksToFloppyOn(d) /\ missed' = missed /\ UNCHANGED sleepVars
    BY <1>6 DEF Ask
  <2>2. /\ motor' \subseteq Drives /\ mon_timer' \in [Drives -> Nat]
        /\ \A e \in Drives : Timed(e) => Timed(e)'
    BY <2>1, TicksKeepTimed DEF QueueInv
  <2>3. SleepTypeOK'
    BY <2>1, <2>2 DEF QueueInv, SleepTypeOK, sleepVars
  <2>4. \A e \in Drives : wait_motor'[e] # NULL => Timed(e)'
    BY <2>1, <2>2 DEF QueueInv, HeadsTimed, sleepVars
  <2>5. gap # NULL => at[gap] \in Drives /\ Timed(at[gap])
    BY DEF QueueInv, SleepTypeOK, FramesOK, HeadsTimed
  <2>6. gap' # NULL => Timed(at[gap])'
    BY <2>1, <2>2, <2>5 DEF Timed, sleepVars
  <2> QED  BY <2>1, <2>3, <2>4, <2>6, QueueUnchanged DEF HeadsTimed
<1>7. CASE UNCHANGED timersVars
  BY <1>2, <1>7 DEF timersVars, floppyVars
<1> QED
  BY <1>1, <1>3, <1>4, <1>5, <1>6, <1>7, GapSleepStep, ResumeStep, FloppyOnStep
  DEF TimersNext

\* Nobody sleeps for a motor and is forgotten: the time of the drive runs, or a
\* process that was woken has still to pass the wake-up on, or the last tick came
\* between the test of floppy_on and its sleep_on.
THEOREM SleepersWoken == TimersSpec => []MotorSleepersWoken
<1> USE TimersAssumption
<1>1. TimersInit => QueueInv
  <2> SUFFICES ASSUME TimersInit PROVE QueueInv  OBVIOUS
  <2>1. SleepTypeOK /\ FramesOK /\ TmpInjective /\ HeadsTimed
    BY DEF TimersInit, SleepTypeOK, FramesOK, TmpInjective, HeadsTimed, Asleep
  <2> DEFINE none == [q \in Proc |-> {}]
  <2>2. none \in [Proc -> SUBSET Proc]  OBVIOUS
  <2>3. Chains(none)
    BY DEF TimersInit, Chains, IsBelow, ChainOK, HeadOK, Covered, Asleep
  <2> QED  BY <2>1, <2>2, <2>3 DEF QueueInv
<1>2. QueueInv => MotorSleepersWoken
  <2> SUFFICES ASSUME QueueInv, NEW p \in Proc, Asleep(p)
               PROVE  \/ at[p] \in motor /\ mon_timer[at[p]] > 0
                      \/ \E q \in Proc : at[q] = at[p] /\ state[q] = "running"
                      \/ missed[at[p]]
    BY DEF MotorSleepersWoken, Asleep
  <2>1. PICK below \in [Proc -> SUBSET Proc] : Chains(below)
    BY DEF QueueInv
  <2>2. at[p] \in Drives  BY DEF QueueInv, SleepTypeOK, FramesOK
  <2>3. wait_motor[at[p]] # NULL => Timed(at[p])
    BY <2>2 DEF QueueInv, HeadsTimed
  <2>4. \/ wait_motor[at[p]] # NULL
        \/ \E q \in Proc : at[q] = at[p] /\ state[q] = "running"
    BY <2>1 DEF Chains, Covered
  <2> QED  BY <2>3, <2>4 DEF Timed
<1> QED  BY <1>1, <1>2, QueueInvStep, PTL DEF TimersSpec

----------------------------------------------------------------------------
\* The list of timers.

\* Induction on a set of numbers.
LEMMA Induct ==
    ASSUME NEW T, 0 \in T, \A i \in Nat : i \in T => i + 1 \in T
    PROVE  Nat \subseteq T
<1> SUFFICES ASSUME NEW z \in Nat, z \notin T PROVE FALSE
  OBVIOUS
<1>1. PICK x \in Nat \ T : \A y \in Nat \ T : ~(<<y, x>> \in OpToRel(<, Nat))
  BY NatLessThanWellFounded, WFMin
<1>2. x \in Nat /\ x # 0 /\ x - 1 \in Nat /\ (x - 1) + 1 = x
  <2>1. x \in Nat /\ x # 0
    BY ONLY <1>1, 0 \in T
  <2> QED  BY ONLY <2>1
<1>3. x - 1 \in Nat \ T
  <2>1. x - 1 \in T => (x - 1) + 1 \in T
    BY <1>2
  <2> QED  BY <1>1, <1>2, <2>1
<1>4. <<x - 1, x>> \in OpToRel(<, Nat)
  BY <1>1, <1>2 DEF OpToRel
<1> QED  BY <1>1, <1>3, <1>4

Entry == [jiffies : Int, due : Nat, exact : BOOLEAN]

\* f is the partial sums of J up to n.
Sums(f, J, n) == f \in [0..n -> Int] /\ f[0] = 0 /\ \A i \in 1..n : f[i] = f[i - 1] + J[i]

\* They exist.
LEMMA SumsExist ==
    ASSUME NEW J, J \in [Nat -> Int], NEW n, n \in Nat
    PROVE  \E f : Sums(f, J, n)
<1> DEFINE T == {k \in Nat : \E f : Sums(f, J, k)}
<1>1. 0 \in T
  <2>1. Sums([i \in 0..0 |-> 0], J, 0)
    BY DEF Sums
  <2> QED  BY <2>1
<1>2. ASSUME NEW k \in Nat, k \in T PROVE k + 1 \in T
  <2>1. PICK f : Sums(f, J, k)
    BY <1>2
  <2> DEFINE g == [i \in 0..(k + 1) |-> IF i <= k THEN f[i] ELSE f[k] + J[k + 1]]
  <2>2. f[k] + J[k + 1] \in Int
    BY <2>1 DEF Sums
  <2>3. g \in [0..(k + 1) -> Int] /\ g[0] = 0
    BY <2>1, <2>2 DEF Sums
  <2>4. ASSUME NEW i \in 1..(k + 1) PROVE g[i] = g[i - 1] + J[i]
    <3>1. CASE i <= k
      BY <2>1, <3>1 DEF Sums
    <3>2. CASE i = k + 1
      BY <2>1, <3>2 DEF Sums
    <3> QED  BY <3>1, <3>2
  <2>5. Sums(g, J, k + 1)
    BY <2>3, <2>4 DEF Sums
  <2> HIDE DEF g
  <2> QED  BY <2>5
<1>3. n \in T
  <2> HIDE DEF T
  <2> QED  BY <1>1, <1>2, Induct
<1> QED  BY <1>3

\* The times in a list are numbers.
LEMMA JiffiesInt ==
    ASSUME NEW s, s \in Seq(Entry)
    PROVE  \A k \in 1..Len(s) : s[k] \in Entry /\ s[k].jiffies \in Int
<1> SUFFICES ASSUME NEW k \in 1..Len(s) PROVE s[k] \in Entry /\ s[k].jiffies \in Int
  OBVIOUS
<1>1. s[k] \in Entry
  OBVIOUS
<1>2. PICK e \in Entry : e = s[k]
  BY <1>1
<1>3. e.jiffies \in Int
  BY DEF Entry
<1> QED  BY <1>1, <1>2, <1>3

\* The equations of Until.
LEMMA UntilSums ==
    ASSUME NEW s, s \in Seq(Entry)
    PROVE  /\ Until(s, 0) = 0
           /\ \A k \in 0..Len(s) : Until(s, k) \in Int
           /\ \A k \in 1..Len(s) : Until(s, k) = Until(s, k - 1) + s[k].jiffies
<1>1. PICK n \in Nat : n = Len(s)
  OBVIOUS
<1>2. \A i \in 1..n : s[i].jiffies \in Int
  BY <1>1, JiffiesInt
<1> DEFINE J == [i \in Nat |-> IF i \in 1..n THEN s[i].jiffies ELSE 0]
           Runs(f) == f = [j \in 0..n |-> IF j = 0 THEN 0 ELSE f[j - 1] + s[j].jiffies]
           sum == CHOOSE f : Runs(f)
<1>3. \E f : Runs(f)
  <2>1. J \in [Nat -> Int] /\ \A i \in 1..n : J[i] = s[i].jiffies
    BY <1>2
  <2> HIDE DEF J
  <2>2. PICK f : Sums(f, J, n)
    BY <2>1, SumsExist
  <2>3. f = [j \in 0..n |-> f[j]]
    BY <2>2 DEF Sums
  <2>4. ASSUME NEW j \in 0..n PROVE f[j] = IF j = 0 THEN 0 ELSE f[j - 1] + s[j].jiffies
    BY <2>1, <2>2 DEF Sums
  <2>5. [j \in 0..n |-> f[j]] = [j \in 0..n |-> IF j = 0 THEN 0 ELSE f[j - 1] + s[j].jiffies]
    BY ONLY <2>4
  <2> QED  BY <2>3, <2>5
<1>4. Runs(sum)
  BY <1>3
<1>5. \A k : Until(s, k) = sum[k]
  BY <1>1 DEF Until
<1> HIDE DEF sum
<1>6. sum[0] = 0 /\ \A i \in 1..n : sum[i] = sum[i - 1] + s[i].jiffies
  <2>1. sum[0] = 0
    BY <1>4
  <2>2. ASSUME NEW i \in 1..n PROVE sum[i] = sum[i - 1] + s[i].jiffies
    BY <1>4
  <2> QED  BY <2>1, <2>2
<1>7. \A k \in 0..n : sum[k] \in Int
  <2> DEFINE T == {k \in Nat : k <= n => sum[k] \in Int}
  <2>1. 0 \in T
    BY <1>6
  <2>2. ASSUME NEW i \in Nat, i \in T PROVE i + 1 \in T
    <3> SUFFICES ASSUME i + 1 <= n PROVE sum[i + 1] \in Int
      OBVIOUS
    <3>1. i + 1 \in 1..n /\ i <= n /\ (i + 1) - 1 = i
      OBVIOUS
    <3>2. sum[i + 1] = sum[i] + s[i + 1].jiffies
      BY <1>6, <3>1
    <3> QED  BY <1>2, <2>2, <3>1, <3>2
  <2>3. Nat \subseteq T
    <3> HIDE DEF T
    <3> QED  BY <2>1, <2>2, Induct
  <2> QED  BY <2>3
<1> QED  BY <1>1, <1>5, <1>6, <1>7

\* They have no other solution.
LEMMA UntilUnique ==
    ASSUME NEW s, s \in Seq(Entry), NEW n, n \in 0..Len(s), NEW f, f[0] = 0,
           \A k \in 1..n : f[k] = f[k - 1] + s[k].jiffies
    PROVE  \A k \in 0..n : f[k] = Until(s, k)
<1> DEFINE T == {k \in Nat : k <= n => f[k] = Until(s, k)}
<1>1. 0 \in T
  BY UntilSums
<1>2. ASSUME NEW i \in Nat, i \in T PROVE i + 1 \in T
  <2> SUFFICES ASSUME i + 1 <= n PROVE f[i + 1] = Until(s, i + 1)
    OBVIOUS
  <2>1. i + 1 \in 1..n /\ i + 1 \in 1..Len(s) /\ i <= n /\ (i + 1) - 1 = i
    OBVIOUS
  <2>2. f[i + 1] = f[i] + s[i + 1].jiffies
    BY <2>1
  <2>3. Until(s, i + 1) = Until(s, i) + s[i + 1].jiffies
    BY <2>1, UntilSums
  <2> QED  BY <1>2, <2>1, <2>2, <2>3
<1>3. Nat \subseteq T
  <2> HIDE DEF T
  <2> QED  BY <1>1, <1>2, Induct
<1> QED  BY <1>3

\* The times of a list whose entries all have some time left.
LEMMA UntilPositive ==
    ASSUME NEW s, s \in Seq(Entry), \A k \in 1..Len(s) : s[k].jiffies > 0
    PROVE  \A k \in 1..Len(s) : Until(s, k) > 0
<1> DEFINE T == {k \in Nat : k <= Len(s) => Until(s, k) >= 0 /\ (k > 0 => Until(s, k) > 0)}
<1>0. \A k \in 1..Len(s) : s[k].jiffies \in Int
  BY JiffiesInt
<1>1. 0 \in T
  BY UntilSums
<1>2. ASSUME NEW i \in Nat, i \in T PROVE i + 1 \in T
  <2> SUFFICES ASSUME i + 1 <= Len(s) PROVE Until(s, i + 1) >= 0 /\ Until(s, i + 1) > 0
    OBVIOUS
  <2>1. i + 1 \in 1..Len(s) /\ i \in 0..Len(s) /\ i <= Len(s) /\ (i + 1) - 1 = i
    OBVIOUS
  <2>2. Until(s, i + 1) = Until(s, i) + s[i + 1].jiffies /\ Until(s, i) \in Int
    BY <2>1, UntilSums
  <2>3. Until(s, i) >= 0
    BY <1>2, <2>1
  <2>4. s[i + 1].jiffies > 0 /\ s[i + 1].jiffies \in Int
    BY <1>0, <2>1
  <2> QED  BY ONLY <2>2, <2>3, <2>4
<1>3. Nat \subseteq T
  <2> HIDE DEF T
  <2> QED  BY <1>1, <1>2, Induct
<1> QED  BY <1>3

\* A set of places that has with each all before it is an interval from 1.
LEMMA InitialInterval ==
    ASSUME NEW n \in Nat, NEW P \in SUBSET (1..n),
           \A k \in P : \A j \in 1..k : j \in P
    PROVE  Cardinality(P) \in 0..n /\ P = 1..Cardinality(P)
<1> DEFINE T == {k \in Nat : k + 1 \notin P}
<1>1. T # {} /\ T \in SUBSET Nat
  <2>1. n \in T  OBVIOUS
  <2> QED  BY <2>1
<1>2. PICK m \in T : \A y \in T : ~(<<y, m>> \in OpToRel(<, Nat))
  <2> HIDE DEF T
  <2> QED  BY <1>1, NatLessThanWellFounded, WFMin
<1>3. \A y \in T : ~(y < m)
  BY <1>1, <1>2 DEF OpToRel
<1>4. \A j \in 1..m : j \in P
  <2> SUFFICES ASSUME NEW j \in 1..m PROVE j \in P  OBVIOUS
  <2>1. j - 1 \notin T  BY <1>3
  <2> QED  BY <2>1
<1>5. \A k \in P : k <= m
  <2> SUFFICES ASSUME NEW k \in P, k > m PROVE FALSE  OBVIOUS
  <2>1. m + 1 \in 1..k  OBVIOUS
  <2> QED  BY <2>1
<1>6. P = 1..m /\ m \in 0..n
  <2>1. m \in Nat /\ ~(n < m)  BY <1>3
  <2> HIDE DEF T
  <2>2. m \in 0..n  BY <2>1
  <2>3. P \subseteq 1..m  BY <1>5, <2>2
  <2>4. 1..m \subseteq P  BY <1>4
  <2> QED  BY <2>2, <2>3, <2>4
<1> HIDE DEF T
<1>7. Cardinality(1..m) = m
  <2>1. m \in Nat  BY <1>6
  <2>2. 1 \in Int /\ m \in Int  BY <2>1
  <2>3. Cardinality(1..m) = IF 1 > m THEN 0 ELSE m - 1 + 1  BY <2>2, FS_Interval
  <2> QED  BY <2>1, <2>3
<1> QED  BY <1>6, <1>7

\* The time of every entry still runs, and is what TimersOnTime says.
ListInv == timers \in Seq(Entry) /\ TimersOnTime

OnTime(s) == \A k \in 1..Len(s) : /\ s[k].jiffies > 0
                                  /\ Until(s, k) >= s[k].due
                                  /\ s[k].exact => Until(s, k) = s[k].due

\* The loop of add_timer passes the entries up to some place, the last of which is
\* called before the new one.
LEMMA PassedUpTo ==
    ASSUME NEW s, s \in Seq(Entry), NEW n \in Nat \ {0}
    PROVE  /\ Cardinality(Passed(s, n)) \in 0..Len(s)
           /\ Until(s, Cardinality(Passed(s, n))) < n
<1>1. PICK L \in Nat : L = Len(s)
  OBVIOUS
<1>2. PICK P \in SUBSET (1..L) : P = Passed(s, n)
  BY <1>1 DEF Passed
<1>3. \A k \in P : \A j \in 1..k : j \in P
  BY <1>1, <1>2 DEF Passed
<1>4. PICK K : K = Cardinality(P)
  OBVIOUS
<1>5. K \in 0..L /\ P = 1..K
  BY <1>1, <1>2, <1>3, <1>4, InitialInterval
<1>6. Until(s, K) < n
  <2>1. CASE K = 0
    BY <2>1, UntilSums
  <2>2. CASE K # 0
    <3>1. K \in P /\ K \in 1..L /\ K - 1 \in 0..L
      BY <1>5, <2>2
    <3>2. s[K].jiffies < n - Until(s, K - 1)
      BY <1>2, <3>1 DEF Passed
    <3>3. /\ Until(s, K) = Until(s, K - 1) + s[K].jiffies
          /\ Until(s, K - 1) \in Int /\ s[K].jiffies \in Int
      BY <1>1, <3>1, UntilSums, JiffiesInt
    <3> QED  BY ONLY <3>2, <3>3, n \in Nat
  <2> QED  BY <2>1, <2>2
<1> QED  BY <1>1, <1>2, <1>4, <1>5, <1>6

\* What add_timer makes of the list: the new entry after the first K, whose fields
\* stay, and behind it the others, no longer exact.
LEMMA InsertedEntries ==
    ASSUME NEW s, s \in Seq(Entry), NEW n \in Nat \ {0},
           NEW K \in 0..Len(s), K = Cardinality(Passed(s, n)),
           NEW t, t = Inserted(s, n)
    PROVE  /\ t \in Seq(Entry) /\ Len(t) = Len(s) + 1
           /\ \A i \in 1..K : t[i] = s[i]
           /\ t[K + 1] = [jiffies |-> n - Until(s, K), due |-> n, exact |-> TRUE]
           /\ \A i \in (K + 2)..(Len(s) + 1) : t[i] = [s[i - 1] EXCEPT !.exact = FALSE]
<1>1. PICK L \in Nat : L = Len(s)
  OBVIOUS
<1>2. K \in 0..L
  BY <1>1
<1>3. \A i \in 1..L : s[i] \in Entry
  BY <1>1, JiffiesInt
<1>4. PICK e : e = [jiffies |-> n - Until(s, K), due |-> n, exact |-> TRUE]
  OBVIOUS
<1>5. e \in Entry
  <2>1. Until(s, K) \in Int
    BY <1>1, <1>2, UntilSums
  <2> QED  BY <1>4, <2>1 DEF Entry
<1>6. PICK a : a = SubSeq(s, 1, K)
  OBVIOUS
<1>7. a \in Seq(Entry) /\ Len(a) = K /\ \A i \in 1..K : a[i] = s[i]
  BY <1>2, <1>3, <1>6
<1>8. PICK c : c = [i \in 1..(L - K) |-> [s[i + K] EXCEPT !.exact = FALSE]]
  OBVIOUS
<1>9. c \in Seq(Entry) /\ Len(c) = L - K
  <2>1. ASSUME NEW i \in 1..(L - K) PROVE [s[i + K] EXCEPT !.exact = FALSE] \in Entry
    <3>1. PICK r \in Entry : r = s[i + K]
      BY <1>2, <1>3
    <3>2. [r EXCEPT !.exact = FALSE] \in Entry
      BY DEF Entry
    <3> QED  BY <3>1, <3>2
  <2>2. L - K \in Nat
    BY <1>2
  <2>3. c \in [1..(L - K) -> Entry]
    BY <1>8, <2>1
  <2> QED  BY <2>2, <2>3
<1>10. PICK b : b = a \o <<e>>
  OBVIOUS
<1>11. /\ b \in Seq(Entry) /\ Len(b) = K + 1
       /\ \A i \in 1..K : b[i] = s[i]
       /\ b[K + 1] = e
  BY <1>2, <1>5, <1>7, <1>10
<1>12. PICK v : v = b \o c
  OBVIOUS
<1>13. /\ t \in Seq(Entry) /\ Len(t) = L + 1
       /\ \A i \in 1..(L + 1) : t[i] = IF i <= K + 1 THEN b[i] ELSE c[i - (K + 1)]
  <2>1. /\ v \in Seq(Entry) /\ Len(v) = Len(b) + Len(c)
        /\ \A i \in 1..(Len(b) + Len(c)) : v[i] = IF i <= Len(b) THEN b[i] ELSE c[i - Len(b)]
    BY <1>9, <1>11, <1>12, ConcatProperties
  <2>2. Len(b) + Len(c) = L + 1
    BY <1>2, <1>9, <1>11
  <2>3. t = v
    BY <1>1, <1>4, <1>6, <1>8, <1>10, <1>12 DEF Inserted
  <2> QED  BY <1>11, <2>1, <2>2, <2>3
<1>14. \A i \in 1..K : t[i] = s[i]
  BY <1>2, <1>11, <1>13
<1>15. t[K + 1] = e
  BY <1>2, <1>11, <1>13
<1>16. ASSUME NEW i \in (K + 2)..(L + 1) PROVE t[i] = [s[i - 1] EXCEPT !.exact = FALSE]
  <2>1. i - (K + 1) \in 1..(L - K) /\ ~(i <= K + 1) /\ i \in 1..(L + 1)
    BY <1>2
  <2>2. (i - (K + 1)) + K = i - 1
    BY <1>2
  <2>3. c[i - (K + 1)] = [s[(i - (K + 1)) + K] EXCEPT !.exact = FALSE]
    BY <1>8, <2>1
  <2> QED  BY <1>13, <2>1, <2>2, <2>3
<1> QED
  BY <1>1, <1>4, <1>13, <1>14, <1>15, <1>16

\* The new entry is called in its n ticks; those before it when they were to be
\* called, and those behind it so much later as the new one has left.
LEMMA InsertedOnTime ==
    ASSUME NEW s, s \in Seq(Entry), OnTime(s), NEW n \in Nat \ {0}
    PROVE  Inserted(s, n) \in Seq(Entry) /\ OnTime(Inserted(s, n))
<1>1. PICK L \in Nat : L = Len(s)
  OBVIOUS
<1>2. PICK K \in 0..L : K = Cardinality(Passed(s, n)) /\ Until(s, K) < n
  BY <1>1, PassedUpTo
<1>3. PICK t : t = Inserted(s, n)
  OBVIOUS
<1>4. /\ t \in Seq(Entry) /\ Len(t) = L + 1
      /\ \A i \in 1..K : t[i] = s[i]
      /\ t[K + 1] = [jiffies |-> n - Until(s, K), due |-> n, exact |-> TRUE]
      /\ \A i \in (K + 2)..(L + 1) : t[i] = [s[i - 1] EXCEPT !.exact = FALSE]
  <2>1. K \in 0..Len(s) /\ K = Cardinality(Passed(s, n))
    BY <1>1, <1>2
  <2>2. /\ t \in Seq(Entry) /\ Len(t) = Len(s) + 1
        /\ \A i \in 1..K : t[i] = s[i]
        /\ t[K + 1] = [jiffies |-> n - Until(s, K), due |-> n, exact |-> TRUE]
        /\ \A i \in (K + 2)..(Len(s) + 1) : t[i] = [s[i - 1] EXCEPT !.exact = FALSE]
    <3>1. n \in Nat \ {0} /\ s \in Seq(Entry)
      OBVIOUS
    <3> QED  BY ONLY <1>3, <2>1, <3>1, InsertedEntries
  <2> QED  BY <1>1, <2>2, Zenon
<1>5. PICK u \in [0..L -> Int] : \A k \in 0..L : u[k] = Until(s, k)
  <2>1. [k \in 0..L |-> Until(s, k)] \in [0..L -> Int]
    BY <1>1, UntilSums
  <2> QED  BY <2>1
<1>6. u[0] = 0 /\ \A k \in 1..L : u[k] = u[k - 1] + s[k].jiffies
  <2>1. u[0] = 0
    BY <1>1, <1>5, UntilSums
  <2>2. ASSUME NEW k \in 1..L PROVE u[k] = u[k - 1] + s[k].jiffies
    <3>1. k - 1 \in 0..L /\ k \in 0..L
      OBVIOUS
    <3>2. Until(s, k) = Until(s, k - 1) + s[k].jiffies
      BY <1>1, UntilSums
    <3> QED  BY <1>5, <3>1, <3>2
  <2> QED  BY <2>1, <2>2
<1>7. /\ u[K] < n
      /\ \A k \in 1..L : /\ s[k].jiffies \in Int /\ s[k].due \in Nat
                         /\ s[k].jiffies > 0 /\ u[k] >= s[k].due
                         /\ s[k].exact => u[k] = s[k].due
  <2>1. u[K] < n
    BY <1>2, <1>5
  <2>2. ASSUME NEW k \in 1..L
        PROVE  /\ s[k].jiffies \in Int /\ s[k].due \in Nat
               /\ s[k].jiffies > 0 /\ u[k] >= s[k].due
               /\ s[k].exact => u[k] = s[k].due
    <3>1. PICK e \in Entry : e = s[k]
      BY <1>1, JiffiesInt
    <3>2. e.jiffies \in Int /\ e.due \in Nat
      BY DEF Entry
    <3>3. k \in 0..L /\ u[k] = Until(s, k)
      BY <1>5
    <3> QED  BY <1>1, <3>1, <3>2, <3>3 DEF OnTime
  <2> QED  BY <2>1, <2>2
<1> DEFINE f == [i \in 0..(L + 1) |-> IF i <= K THEN u[i] ELSE n + u[i - 1] - u[K]]
<1>8. \A i \in 0..(L + 1) : f[i] = IF i <= K THEN u[i] ELSE n + u[i - 1] - u[K]
  OBVIOUS
<1> HIDE DEF f
<1>9. ASSUME NEW i \in 1..(L + 1)
      PROVE  /\ f[i] = f[i - 1] + t[i].jiffies
             /\ t[i].jiffies > 0 /\ f[i] >= t[i].due
             /\ t[i].exact => f[i] = t[i].due
  <2>1. i \in 0..(L + 1) /\ i - 1 \in 0..(L + 1)
    OBVIOUS
  <2>2. CASE i <= K
    <3>1. i \in 1..L /\ i \in 1..K /\ i - 1 <= K
      BY <2>2
    <3>2. t[i] = s[i] /\ f[i] = u[i] /\ f[i - 1] = u[i - 1]
      BY <1>4, <1>8, <2>1, <2>2, <3>1
    <3> QED  BY <1>6, <1>7, <3>1, <3>2
  <2>3. CASE i = K + 1
    <3>1. t[i].jiffies = n - u[K] /\ t[i].due = n
      BY <1>4, <1>5, <2>3
    <3>2. f[i] = n + u[K] - u[K] /\ f[i - 1] = u[K] /\ u[K] \in Int
      BY <1>5, <1>8, <2>1, <2>3
    <3> QED  BY <1>7, <3>1, <3>2
  <2>4. CASE i > K + 1
    <3>1. i - 1 \in 1..L /\ i \in (K + 2)..(L + 1) /\ ~(i <= K) /\ ~(i - 1 <= K)
      BY <2>4
    <3>2. PICK r \in Entry : r = s[i - 1]
      BY <1>1, <3>1, JiffiesInt
    <3>3. /\ [r EXCEPT !.exact = FALSE].jiffies = r.jiffies
          /\ [r EXCEPT !.exact = FALSE].due = r.due
          /\ [r EXCEPT !.exact = FALSE].exact = FALSE
      BY DEF Entry
    <3>4. t[i].jiffies = s[i - 1].jiffies /\ t[i].due = s[i - 1].due /\ t[i].exact = FALSE
      BY <1>4, <3>1, <3>2, <3>3
    <3>5. f[i] = n + u[i - 1] - u[K] /\ f[i - 1] = n + u[(i - 1) - 1] - u[K]
      BY <1>8, <2>1, <3>1
    <3>6. /\ u[i - 1] = u[(i - 1) - 1] + s[i - 1].jiffies
          /\ s[i - 1].jiffies > 0 /\ u[i - 1] >= s[i - 1].due
          /\ s[i - 1].jiffies \in Int /\ s[i - 1].due \in Nat
      BY <1>6, <1>7, <3>1
    <3>7. u[i - 1] \in Int /\ u[(i - 1) - 1] \in Int /\ u[K] \in Int /\ u[K] < n
      BY <1>5, <1>7, <3>1
    <3>8. f[i] = f[i - 1] + t[i].jiffies /\ t[i].jiffies > 0 /\ f[i] >= t[i].due
      <4>1. PICK x, y, z, j, e :
               x = u[i - 1] /\ y = u[(i - 1) - 1] /\ z = u[K] /\ j = s[i - 1].jiffies
               /\ e = s[i - 1].due
        OBVIOUS
      <4>2. f[i] = n + x - z /\ f[i - 1] = n + y - z /\ t[i].jiffies = j /\ t[i].due = e
        BY ONLY <3>4, <3>5, <4>1
      <4>3. x \in Int /\ y \in Int /\ z \in Int /\ z < n /\ j \in Int /\ e \in Nat
        BY ONLY <3>6, <3>7, <4>1
      <4>4. x = y + j /\ j > 0 /\ x >= e
        BY ONLY <3>6, <4>1
      <4> QED  BY ONLY n \in Nat, <4>2, <4>3, <4>4
    <3> QED  BY ONLY <3>4, <3>8, Zenon
  <2> QED  BY <2>2, <2>3, <2>4
<1>10. f[0] = 0
  <2>1. 0 \in 0..(L + 1) /\ 0 <= K
    OBVIOUS
  <2>2. f[0] = u[0]
    BY ONLY <1>8, <2>1
  <2> QED  BY <1>6, <2>2
<1>11. \A i \in 0..(L + 1) : f[i] = Until(t, i)
  <2>1. L + 1 \in 0..Len(t) /\ \A i \in 1..(L + 1) : f[i] = f[i - 1] + t[i].jiffies
    BY <1>4, <1>9
  <2> QED  BY <1>4, <1>10, <2>1, UntilUnique
<1>12. OnTime(t)
  <2>1. ASSUME NEW i \in 1..(L + 1)
        PROVE  /\ t[i].jiffies > 0 /\ Until(t, i) >= t[i].due
               /\ t[i].exact => Until(t, i) = t[i].due
    <3>1. f[i] = Until(t, i)
      BY <1>11
    <3> QED  BY <1>9, <3>1
  <2> QED  BY <1>4, <2>1 DEF OnTime
<1> QED  BY <1>3, <1>4, <1>12

\* One tick off the time of every entry: the first is counted down, and left out
\* (q is then 1) when its time is over.
LEMMA TickedOnTime ==
    ASSUME NEW s, s \in Seq(Entry), OnTime(s), NEW l, l \in Seq(Entry), NEW q \in 0..1,
           Len(l) = Len(s) - q,
           IF q = 1 THEN s[1].jiffies = 1 ELSE Len(s) > 0 => s[1].jiffies > 1,
           \A i \in 1..Len(l) :
               /\ l[i].jiffies = IF i + q = 1 THEN s[i + q].jiffies - 1 ELSE s[i + q].jiffies
               /\ l[i].due = IF s[i + q].due > 0 THEN s[i + q].due - 1 ELSE 0
               /\ l[i].exact = s[i + q].exact
    PROVE  OnTime(l)
<1>1. PICK L \in Nat : L = Len(s)
  OBVIOUS
<1>2. PICK M \in Nat : M = Len(l)
  BY LenProperties
<1>3. M = L - q
  BY <1>1, <1>2
<1>4. PICK u \in [0..L -> Int] : \A k \in 0..L : u[k] = Until(s, k)
  <2>1. [k \in 0..L |-> Until(s, k)] \in [0..L -> Int]
    BY <1>1, UntilSums
  <2> QED  BY <2>1
<1>5. u[0] = 0 /\ \A k \in 1..L : u[k] = u[k - 1] + s[k].jiffies
  <2>1. u[0] = 0
    BY <1>1, <1>4, UntilSums
  <2>2. ASSUME NEW k \in 1..L PROVE u[k] = u[k - 1] + s[k].jiffies
    <3>1. k - 1 \in 0..L /\ k \in 0..L
      OBVIOUS
    <3>2. Until(s, k) = Until(s, k - 1) + s[k].jiffies
      BY <1>1, UntilSums
    <3> QED  BY <1>4, <3>1, <3>2
  <2> QED  BY <2>1, <2>2
<1>6. ASSUME NEW k \in 1..L
      PROVE  /\ s[k].jiffies \in Int /\ s[k].due \in Nat
             /\ s[k].jiffies > 0 /\ u[k] >= s[k].due /\ u[k] > 0
             /\ s[k].exact => u[k] = s[k].due
  <2>1. PICK e \in Entry : e = s[k]
    BY <1>1, JiffiesInt
  <2>2. e.jiffies \in Int /\ e.due \in Nat
    BY DEF Entry
  <2>3. k \in 0..L /\ u[k] = Until(s, k)
    BY <1>4
  <2>4. Until(s, k) > 0
    BY <1>1, UntilPositive DEF OnTime
  <2> QED  BY <1>1, <2>1, <2>2, <2>3, <2>4 DEF OnTime
<1> DEFINE f == [i \in 0..M |-> IF i = 0 THEN 0 ELSE u[i + q] - 1]
<1>7. \A i \in 0..M : f[i] = IF i = 0 THEN 0 ELSE u[i + q] - 1
  OBVIOUS
<1> HIDE DEF f
<1>8. ASSUME NEW i \in 1..M
      PROVE  /\ f[i] = f[i - 1] + l[i].jiffies
             /\ l[i].jiffies > 0 /\ f[i] >= l[i].due
             /\ l[i].exact => f[i] = l[i].due
  <2>1. PICK k \in 1..L : k = i + q
    BY <1>3
  <2>2. i \in 0..M /\ i - 1 \in 0..M /\ f[i] = u[k] - 1 /\ u[k] \in Int /\ u[k - 1] \in Int
    <3>1. i \in 0..M /\ i - 1 \in 0..M /\ i # 0 /\ k \in 0..L /\ k - 1 \in 0..L
      OBVIOUS
    <3>2. f[i] = u[i + q] - 1
      BY <1>7, <3>1
    <3> QED  BY <2>1, <3>1, <3>2
  <2>3. /\ l[i].jiffies = IF k = 1 THEN s[k].jiffies - 1 ELSE s[k].jiffies
        /\ l[i].due = IF s[k].due > 0 THEN s[k].due - 1 ELSE 0
        /\ l[i].exact = s[k].exact
    BY <1>2, <2>1
  <2>4. f[i] >= l[i].due /\ (l[i].exact => f[i] = l[i].due)
    <3>1. /\ s[k].due \in Nat /\ u[k] >= s[k].due /\ u[k] > 0
          /\ s[k].exact => u[k] = s[k].due
      BY <1>6
    <3>2. u[k] - 1 >= l[i].due
      BY ONLY <2>2, <2>3, <3>1
    <3>3. ASSUME s[k].exact PROVE u[k] - 1 = l[i].due
      <4>1. u[k] = s[k].due
        BY <3>1, <3>3
      <4> QED  BY ONLY <2>2, <2>3, <3>1, <4>1
    <3> QED  BY <2>2, <2>3, <3>2, <3>3
  <2>5. u[k] = u[k - 1] + s[k].jiffies
    BY <1>5
  <2>6. l[i].jiffies > 0
    BY <1>1, <1>6, <2>1, <2>3
  <2>7. f[i] = f[i - 1] + l[i].jiffies
    <3>1. CASE k = 1
      <4>1. i = 1 /\ f[i - 1] = 0 /\ u[k - 1] = 0
        BY <1>5, <1>7, <2>1, <2>2, <3>1
      <4> QED  BY <1>6, <2>2, <2>3, <2>5, <3>1, <4>1
    <3>2. CASE k # 1 /\ i = 1
      <4>1. q = 1 /\ k = 2 /\ f[i - 1] = 0
        BY <1>7, <2>1, <2>2, <3>2
      <4>2. u[k - 1] = 1
        BY <1>1, <1>5, <1>6, <4>1
      <4> QED  BY <1>6, <2>2, <2>3, <2>5, <4>1, <4>2
    <3>3. CASE k # 1 /\ i # 1
      <4>1. f[i - 1] = u[k - 1] - 1
        <5>1. (i - 1) + q = k - 1 /\ i - 1 # 0
          BY <2>1, <3>3
        <5> QED  BY <1>7, <2>2, <5>1
      <4>2. s[k].jiffies \in Int
        BY <1>6
      <4>3. f[i] = u[k] - 1 /\ u[k - 1] \in Int /\ l[i].jiffies = s[k].jiffies
        BY ONLY <2>2, <2>3, <3>3
      <4>4. PICK j \in Int : j = s[k].jiffies
        BY <4>2
      <4>5. PICK b \in Int : b = u[k - 1]
        BY <4>3
      <4>6. f[i] = b + j - 1 /\ f[i - 1] = b - 1
        BY ONLY <2>5, <4>1, <4>3, <4>4, <4>5
      <4>7. f[i] = f[i - 1] + j
        BY ONLY <4>6, b \in Int, j \in Int
      <4> QED  BY ONLY <4>3, <4>4, <4>7
    <3> QED  BY <3>1, <3>2, <3>3
  <2> QED  BY <2>4, <2>6, <2>7
<1>9. \A i \in 0..M : f[i] = Until(l, i)
  <2>1. M \in 0..Len(l) /\ f[0] = 0 /\ \A i \in 1..M : f[i] = f[i - 1] + l[i].jiffies
    BY <1>2, <1>7, <1>8
  <2> QED  BY ONLY l \in Seq(Entry), M \in Nat, <2>1, UntilUnique
<1>10. ASSUME NEW i \in 1..M
       PROVE  /\ l[i].jiffies > 0 /\ Until(l, i) >= l[i].due
              /\ l[i].exact => Until(l, i) = l[i].due
  <2>1. f[i] = Until(l, i)
    BY <1>9
  <2> QED  BY <1>8, <2>1
<1> QED  BY <1>2, <1>10 DEF OnTime

\* Whatever time is asked for, the list it makes of a list that is right is right.
LEMMA AddedOnTime ==
    ASSUME NEW s, s \in Seq(Entry), OnTime(s), NEW n \in Nat, timers' = Added(s, n)
    PROVE  ListInv'
<1>1. timers' \in Seq(Entry) /\ OnTime(timers')
  <2>1. CASE n = 0
    BY <2>1 DEF Added
  <2>2. CASE n # 0
    <3>1. n \in Nat \ {0} /\ timers' = Inserted(s, n)
      BY <2>2 DEF Added
    <3> QED  BY <3>1, InsertedOnTime
  <2> QED  BY <2>1, <2>2
<1>2. DOMAIN timers' = 1..Len(timers')
  BY <1>1
<1> QED  BY <1>1, <1>2 DEF ListInv, TimersOnTime, OnTime

\* do_timer counts the first entry down, and takes it off when its time is over;
\* only one entry can be due at a time, for the others have time left behind it.
LEMMA ListTickOnTime == ListInv /\ ListTick => ListInv'
<1> SUFFICES ASSUME ListInv, ListTick PROVE ListInv'
  OBVIOUS
<1>1. PICK s \in Seq(Entry) : s = timers
  BY DEF ListInv
<1>2. OnTime(s)
  <2>1. DOMAIN s = 1..Len(s)
    OBVIOUS
  <2> QED  BY <1>1, <2>1 DEF ListInv, TimersOnTime, OnTime
<1>3. PICK L \in Nat : L = Len(s)
  OBVIOUS
<1>4. PICK c : c = Counted
  OBVIOUS
<1>5. ASSUME NEW k \in 1..L
      PROVE  /\ c[k] \in Entry
             /\ c[k].jiffies = IF k = 1 THEN s[k].jiffies - 1 ELSE s[k].jiffies
             /\ c[k].due = IF s[k].due > 0 THEN s[k].due - 1 ELSE 0
             /\ c[k].exact = s[k].exact
             /\ s[k].jiffies \in Int /\ s[k].jiffies > 0
  <2>1. PICK e \in Entry : e = s[k]
    BY <1>3, JiffiesInt
  <2>2. e.jiffies \in Int /\ e.due \in Nat /\ e.exact \in BOOLEAN
    BY DEF Entry
  <2>3. PICK d : d = [e EXCEPT !.jiffies = IF k = 1 THEN @ - 1 ELSE @,
                              !.due = IF @ > 0 THEN @ - 1 ELSE 0]
    OBVIOUS
  <2>4. c[k] = d
    <3>1. k \in DOMAIN timers
      BY <1>1, <1>3
    <3> QED  BY <1>1, <1>4, <2>1, <2>3, <3>1 DEF Counted
  <2>5. /\ d.jiffies = IF k = 1 THEN e.jiffies - 1 ELSE e.jiffies
        /\ d.due = IF e.due > 0 THEN e.due - 1 ELSE 0
        /\ d.exact = e.exact
    BY <2>3 DEF Entry
  <2>6. d \in Entry
    <3>1. PICK j, h : /\ j = (IF k = 1 THEN e.jiffies - 1 ELSE e.jiffies)
                      /\ h = (IF e.due > 0 THEN e.due - 1 ELSE 0)
      OBVIOUS
    <3>2. j \in Int /\ h \in Nat
      BY <2>2, <3>1
    <3>3. d = [e EXCEPT !.jiffies = j, !.due = h]
      BY <2>3, <3>1
    <3> QED  BY <3>2, <3>3 DEF Entry
  <2>7. s[k].jiffies > 0
    BY <1>2, <1>3 DEF OnTime
  <2> QED  BY <2>1, <2>2, <2>4, <2>5, <2>6, <2>7
<1>6. c \in Seq(Entry) /\ Len(c) = L
  <2>1. DOMAIN timers = 1..L
    BY <1>1, <1>3
  <2>2. c = [k \in 1..L |-> c[k]]
    BY <1>4, <2>1 DEF Counted
  <2>3. c \in [1..L -> Entry]
    BY <1>5, <2>2
  <2> QED  BY <2>3
<1>7. \A k \in Over : k = 1 /\ L > 0 /\ s[1].jiffies = 1
  <2> SUFFICES ASSUME NEW k \in Over PROVE k = 1 /\ L > 0 /\ s[1].jiffies = 1
    OBVIOUS
  <2>1. k \in 1..L /\ \A j \in 1..k : c[j].jiffies <= 0
    BY <1>1, <1>3, <1>4 DEF Over
  <2>2. k \in 1..k /\ 1 \in 1..k /\ 1 \in 1..L
    BY <2>1
  <2>3. c[k].jiffies <= 0 /\ c[1].jiffies <= 0
    BY <2>1, <2>2
  <2>4. k = 1
    BY <1>5, <2>1, <2>3
  <2> QED  BY <1>5, <2>2, <2>3, <2>4
<1>8. L > 0 /\ s[1].jiffies = 1 => 1 \in Over
  <2> SUFFICES ASSUME L > 0, s[1].jiffies = 1 PROVE 1 \in Over
    OBVIOUS
  <2>1. 1 \in 1..L /\ 1 \in DOMAIN timers
    BY <1>1, <1>3
  <2>2. c[1].jiffies <= 0
    BY <1>5, <2>1
  <2> QED  BY <1>4, <2>1, <2>2 DEF Over
<1>9. PICK left : left = SubSeq(c, Cardinality(Over) + 1, L)
  OBVIOUS
<1>10. left \in Seq(Entry) /\ OnTime(left)
  <2>1. CASE Over = {}
    <3>1. Cardinality(Over) = 0
      BY <2>1, FS_EmptySet
    <3>2. left = c
      BY <1>6, <1>9, <3>1
    <3>3. L > 0 => s[1].jiffies > 1
      BY <1>5, <1>8, <2>1
    <3>4. \A i \in 1..Len(c) :
              /\ c[i].jiffies = IF i + 0 = 1 THEN s[i + 0].jiffies - 1 ELSE s[i + 0].jiffies
              /\ c[i].due = IF s[i + 0].due > 0 THEN s[i + 0].due - 1 ELSE 0
              /\ c[i].exact = s[i + 0].exact
      <4> SUFFICES ASSUME NEW i \in 1..L
                   PROVE  /\ c[i].jiffies = IF i + 0 = 1 THEN s[i + 0].jiffies - 1
                                            ELSE s[i + 0].jiffies
                          /\ c[i].due = IF s[i + 0].due > 0 THEN s[i + 0].due - 1 ELSE 0
                          /\ c[i].exact = s[i + 0].exact
        BY <1>6
      <4>1. i + 0 = i
        OBVIOUS
      <4> QED  BY <1>5, <4>1
    <3>5. Len(c) = Len(s) - 0 /\ 0 \in 0..1
          /\ (IF 0 = 1 THEN s[1].jiffies = 1 ELSE Len(s) > 0 => s[1].jiffies > 1)
      BY <1>3, <1>6, <3>3
    <3>6. OnTime(c)
      BY ONLY s \in Seq(Entry), <1>2, <1>6, <3>4, <3>5, TickedOnTime
    <3> QED  BY <1>6, <3>2, <3>6
  <2>2. CASE Over # {}
    <3>1. Over = {1} /\ L > 0 /\ s[1].jiffies = 1
      BY <1>7, <2>2
    <3>2. Cardinality(Over) = 1
      BY <3>1, FS_Singleton
    <3>3. left = SubSeq(c, 2, L)
      BY <1>9, <3>2
    <3>4. /\ left \in Seq(Entry) /\ Len(left) = L - 1
          /\ \A i \in 1..(L - 1) : left[i] = c[i + 1]
      BY <1>6, <3>1, <3>3
    <3>5. \A i \in 1..Len(left) :
              /\ left[i].jiffies = IF i + 1 = 1 THEN s[i + 1].jiffies - 1 ELSE s[i + 1].jiffies
              /\ left[i].due = IF s[i + 1].due > 0 THEN s[i + 1].due - 1 ELSE 0
              /\ left[i].exact = s[i + 1].exact
      <4> SUFFICES ASSUME NEW i \in 1..(L - 1)
                   PROVE  /\ left[i].jiffies = IF i + 1 = 1 THEN s[i + 1].jiffies - 1
                                               ELSE s[i + 1].jiffies
                          /\ left[i].due = IF s[i + 1].due > 0 THEN s[i + 1].due - 1 ELSE 0
                          /\ left[i].exact = s[i + 1].exact
        BY <3>4
      <4>1. i + 1 \in 1..L
        OBVIOUS
      <4>2. PICK k \in 1..L : k = i + 1
        BY <4>1
      <4>3. k # 1 /\ left[i] = c[k]
        BY <3>4, <4>2
      <4>4. /\ left[i].jiffies = s[k].jiffies
            /\ left[i].due = IF s[k].due > 0 THEN s[k].due - 1 ELSE 0
            /\ left[i].exact = s[k].exact
        BY <1>5, <4>3
      <4> QED  BY <4>2, <4>3, <4>4
    <3>6. Len(left) = Len(s) - 1 /\ 1 \in 0..1
          /\ (IF 1 = 1 THEN s[1].jiffies = 1 ELSE Len(s) > 0 => s[1].jiffies > 1)
      BY <1>3, <3>1, <3>4
    <3>7. OnTime(left)
      BY ONLY s \in Seq(Entry), <1>2, <3>4, <3>5, <3>6, TickedOnTime
    <3> QED  BY <3>4, <3>7
  <2> QED  BY <2>1, <2>2
<1>11. PICK n \in Nat : timers' = Added(left, n)
  <2>1. \E n \in IF Over = {} THEN {0} ELSE 0..MaxJiffies : timers' = Added(left, n)
    BY <1>1, <1>3, <1>4, <1>9 DEF ListTick
  <2>2. MaxJiffies \in Nat
    BY TimersAssumption
  <2> QED  BY <2>1, <2>2
<1> QED  BY <1>10, <1>11, AddedOnTime

LEMMA ListInvStep == ListInv /\ [TimersNext]_timersVars => ListInv'
<1> SUFFICES ASSUME ListInv, [TimersNext]_timersVars PROVE ListInv'
  OBVIOUS
<1>1. CASE do_timer
  BY <1>1, ListTickOnTime DEF do_timer
<1>2. ASSUME NEW n \in 0..MaxJiffies, add_timer(n) PROVE ListInv'
  <2>1. n \in Nat
    BY TimersAssumption
  <2>2. CASE timers' = Added(timers, n)
    <3>1. timers \in Seq(Entry) /\ DOMAIN timers = 1..Len(timers)
      BY DEF ListInv
    <3>2. OnTime(timers)
      BY <3>1 DEF ListInv, TimersOnTime, OnTime
    <3> QED  BY <2>1, <2>2, <3>1, <3>2, AddedOnTime
  <2>3. CASE UNCHANGED timers
    BY <2>3 DEF ListInv, TimersOnTime
  <2> QED  BY <1>2, <2>2, <2>3 DEF add_timer
<1>3. CASE UNCHANGED timers
  BY <1>3 DEF ListInv, TimersOnTime
<1>4. ASSUME NEW d \in Drives, Ask(d) \/ floppy_off(d) PROVE UNCHANGED timers
  BY <1>4 DEF Ask, floppy_off
<1>5. ASSUME NEW p \in Proc, GapSleep(p) \/ Resume(p) \/ \E d \in Drives : floppy_on(p, d)
      PROVE  UNCHANGED timers
  BY <1>5 DEF GapSleep, Resume, floppy_on
<1>6. CASE Select \/ UNCHANGED timersVars
  BY <1>3, <1>6 DEF Select, timersVars
<1> QED  BY <1>1, <1>2, <1>3, <1>4, <1>5, <1>6 DEF TimersNext

\* Every function of the list is called in its time or, when a later request was put
\* in front of it, after it, for lists of any length and any sequence of requests.
THEOREM TimersInTime == TimersSpec => []TimersOnTime
<1>1. TimersInit => ListInv
  BY DEF TimersInit, ListInv, TimersOnTime
<1>2. ListInv => TimersOnTime
  BY DEF ListInv
<1> QED  BY <1>1, <1>2, ListInvStep, PTL DEF TimersSpec

--------------------------------------------------------------------------------

\* The keyboard interrupt.

\* The read queue: bytes in a ring, and what is still to be read.
QueueTypeOK ==
    /\ buf \in [0..(size - 1) -> Int]
    /\ head \in 0..(size - 1) /\ tail \in 0..(size - 1)
    /\ accepted \in Seq(Int)
    /\ asleep \in BOOLEAN
    /\ F12Flag \in 0..1

ReadQueueInv == QueueTypeOK /\ QueueHoldsWholeKeys

----------------------------------------------------------------------------
\* Places behind a place of the ring that are less than two rounds away.
LEMMA Around ==
    ASSUME NEW a \in 0..(2 * size - 1)
    PROVE  a % size = IF a < size THEN a ELSE a - size
BY KeyboardAssumption

\* The number of bytes in the ring.
LEMMA Distance ==
    ASSUME NEW h \in 0..(size - 1), NEW t \in 0..(size - 1)
    PROVE  /\ (h - t) % size = IF t <= h THEN h - t ELSE h - t + size
           /\ (h - t) % size \in 0..(size - 1)
BY KeyboardAssumption

\* The bytes that put_queue is about to write do not reach the tail if all fit,
\* and none of those it does write is in the place of a byte that is to be read.
LEMMA RoomForAll ==
    ASSUME ReadQueueInv, NEW bytes \in Seq(Int)
    PROVE  /\ FullAt(bytes) = {} => Len(accepted) + Len(bytes) < size
           /\ \A j \in Written(bytes) : Len(accepted) + j <= size
<1> DEFINE L == Len(accepted)
           f == size - L
<1>1. size \in Nat /\ size > 1 /\ L \in 0..(size - 1) /\ Len(bytes) \in Nat
  BY KeyboardAssumption, Distance DEF ReadQueueInv, QueueTypeOK, QueueHoldsWholeKeys
<1>2. L = IF tail <= head THEN head - tail ELSE head - tail + size
  BY KeyboardAssumption, Distance DEF ReadQueueInv, QueueTypeOK, QueueHoldsWholeKeys
<1>3. head \in 0..(size - 1) /\ tail \in 0..(size - 1)
  BY DEF ReadQueueInv, QueueTypeOK
<1> HIDE DEF L
<1>4. f \in 1..size /\ head + f \in 0..(2 * size - 1)
  BY <1>1, <1>3
<1>5. (head + f) % size = tail
  BY <1>1, <1>2, <1>3, <1>4, Around
<1>6. f <= Len(bytes) => f \in FullAt(bytes)
  BY <1>1, <1>4, <1>5 DEF FullAt, Places
<1> HIDE DEF f
<1>7. FullAt(bytes) = {} => ~(f <= Len(bytes))
  BY <1>6
<1>8. ASSUME NEW j \in Written(bytes) PROVE j \in Nat /\ j <= Len(bytes) /\ ~(f < j)
  BY <1>1, <1>4, <1>6 DEF Written, Places
<1>9. f = size - L
  BY DEF f
<1>10. QED
  BY <1>1, <1>7, <1>8, <1>9 DEF L

\* put_queue keeps the queue whole: it publishes all the bytes or none, and
\* writes over nothing that is to be read.
LEMMA PutQueueKeepsQueue ==
    ASSUME ReadQueueInv, NEW bytes \in Seq(Int), PutQueue(bytes), F12Flag' \in 0..1
    PROVE  ReadQueueInv'
<1> DEFINE L == Len(accepted)
           n == Len(bytes)
           At(j) == (head + j - 1) % size
           From(k) == (tail + k - 1) % size
<1>1. size \in Nat /\ size > 1 /\ L \in 0..(size - 1) /\ n \in Nat
  BY KeyboardAssumption, Distance DEF ReadQueueInv, QueueTypeOK, QueueHoldsWholeKeys
<1>2. L = IF tail <= head THEN head - tail ELSE head - tail + size
  BY KeyboardAssumption, Distance DEF ReadQueueInv, QueueTypeOK, QueueHoldsWholeKeys
<1>3. head \in 0..(size - 1) /\ tail \in 0..(size - 1) /\ accepted \in Seq(Int)
      /\ buf \in [0..(size - 1) -> Int]
  BY DEF ReadQueueInv, QueueTypeOK
<1>4. ASSUME NEW j \in Written(bytes) PROVE j \in 1..n /\ L + j <= size
  BY <1>1, RoomForAll DEF Written, Places
<1>5. ASSUME NEW j \in 1..n, L + j <= size
      PROVE  At(j) = IF head + j <= size THEN head + j - 1 ELSE head + j - 1 - size
  <2>1. head + j - 1 \in 0..(2 * size - 1)
    BY <1>1, <1>3, <1>5
  <2>2. At(j) = IF head + j - 1 < size THEN head + j - 1 ELSE head + j - 1 - size
    <3> DEFINE a == head + j - 1
    <3>1. a \in 0..(2 * size - 1)
      BY <2>1
    <3> HIDE DEF a
    <3>2. a % size = IF a < size THEN a ELSE a - size
      BY <3>1, Around
    <3>3. QED
      BY <1>1, <1>3, <3>2 DEF a
  <2> HIDE DEF At
  <2>3. QED
    BY <1>1, <1>3, <1>5, <2>2
<1>6. ASSUME NEW k \in 1..size
      PROVE  From(k) = IF tail + k <= size THEN tail + k - 1 ELSE tail + k - 1 - size
  <2>1. tail + k - 1 \in 0..(2 * size - 1)
    BY <1>1, <1>3, <1>6
  <2>2. From(k) = IF tail + k - 1 < size THEN tail + k - 1 ELSE tail + k - 1 - size
    <3> DEFINE a == tail + k - 1
    <3>1. a \in 0..(2 * size - 1)
      BY <2>1
    <3> HIDE DEF a
    <3>2. a % size = IF a < size THEN a ELSE a - size
      BY <3>1, Around
    <3>3. QED
      BY <1>1, <1>3, <3>2 DEF a
  <2> HIDE DEF From
  <2>3. QED
    BY <1>1, <1>3, <1>6, <2>2
<1> HIDE DEF L, n, At, From
\* No two of the bytes have one place, and byte j stands j places behind the queue.
<1>7. ASSUME NEW j \in 1..n, L + j <= size PROVE At(j) = From(L + j) /\ At(j) \in 0..(size - 1)
  <2>1. L + j \in 1..size
    BY <1>1, <1>7
  <2>2. /\ At(j) = IF head + j <= size THEN head + j - 1 ELSE head + j - 1 - size
        /\ From(L + j) = IF tail + (L + j) <= size THEN tail + (L + j) - 1
                         ELSE tail + (L + j) - 1 - size
    BY <1>5, <1>6, <1>7, <2>1
  <2>3. QED
    BY ONLY <1>1, <1>2, <1>3, <1>7, <2>2
<1>8. ASSUME NEW k \in 1..size, NEW l \in 1..size, From(k) = From(l) PROVE k = l
  <2>1. /\ From(k) = IF tail + k <= size THEN tail + k - 1 ELSE tail + k - 1 - size
        /\ From(l) = IF tail + l <= size THEN tail + l - 1 ELSE tail + l - 1 - size
    BY <1>6
  <2>2. k \in Int /\ l \in Int /\ k >= 1 /\ k <= size /\ l >= 1 /\ l <= size
    BY <1>1
  <2>3. size \in Int /\ tail \in Int /\ tail >= 0 /\ tail < size
    BY <1>1, <1>3
  <2>4. \/ tail + k - 1 = tail + l - 1
        \/ tail + k - 1 = tail + l - 1 - size
        \/ tail + k - 1 - size = tail + l - 1
    <3>1. CASE tail + k <= size /\ tail + l <= size
      BY <1>8, <2>1, <3>1
    <3>2. CASE tail + k <= size /\ ~(tail + l <= size)
      BY <1>8, <2>1, <3>2
    <3>3. CASE ~(tail + k <= size) /\ tail + l <= size
      BY <1>8, <2>1, <3>3
    <3>4. CASE ~(tail + k <= size) /\ ~(tail + l <= size)
      <4>1. tail + k - 1 - size = tail + l - 1 - size
        BY <1>8, <2>1, <3>4
      <4>2. QED
        BY ONLY <2>2, <2>3, <4>1
    <3>5. QED
      BY <3>1, <3>2, <3>3, <3>4
  <2>5. QED
    BY ONLY <2>2, <2>3, <2>4
<1>9. buf' = [x \in 0..(size - 1) |->
                 IF \E j \in Written(bytes) : x = At(j)
                 THEN bytes[CHOOSE j \in Written(bytes) : x = At(j)] ELSE buf[x]]
  BY DEF PutQueue, Buffered, At
<1>10. ASSUME NEW j \in Written(bytes) PROVE buf'[At(j)] = bytes[j]
  <2>1. At(j) \in 0..(size - 1)
    BY <1>4, <1>7
  <2>2. PICK i \in Written(bytes) : /\ At(j) = At(i)
                                    /\ i = CHOOSE h \in Written(bytes) : At(j) = At(h)
    OBVIOUS
  <2>3. From(L + j) = From(L + i)
    BY <1>4, <1>7, <2>2
  <2>4. L + j \in 1..size /\ L + i \in 1..size /\ i \in Int /\ j \in Int
    BY <1>1, <1>4
  <2>5. L + j = L + i
    BY <1>8, <2>3, <2>4
  <2>6. i = j
    BY <1>1, <2>4, <2>5
  <2>7. buf'[At(j)] = bytes[CHOOSE h \in Written(bytes) : At(j) = At(h)]
    BY ONLY <1>9, <2>1, j \in Written(bytes), Zenon
  <2>8. QED
    BY ONLY <2>2, <2>6, <2>7
<1>11. ASSUME NEW k \in 1..L PROVE buf'[From(k)] = accepted[k] /\ From(k) \in 0..(size - 1)
  <2>1. From(k) \in 0..(size - 1) /\ k \in 1..size
    BY <1>1, <1>3, <1>6
  <2>2. buf[From(k)] = accepted[k]
    BY DEF ReadQueueInv, QueueHoldsWholeKeys, From, L
  <2>3. ASSUME NEW j \in Written(bytes), From(k) = At(j) PROVE FALSE
    <3>1. L + j \in 1..size /\ j \in 1..n /\ From(k) = From(L + j)
      BY <1>1, <1>4, <1>7, <2>3
    <3>2. QED
      BY <1>1, <1>8, <2>1, <3>1
  <2>4. QED
    BY <1>9, <2>1, <2>2, <2>3
<1>12. buf' \in [0..(size - 1) -> Int]
  <2>1. ASSUME NEW x \in 0..(size - 1) PROVE buf'[x] \in Int
    <3>1. CASE \E j \in Written(bytes) : x = At(j)
      BY <1>4, <1>10, <3>1 DEF n
    <3>2. CASE ~ \E j \in Written(bytes) : x = At(j)
      BY <1>3, <1>9, <3>2
    <3>3. QED
      BY <3>1, <3>2
  <2>2. QED
    BY <1>9, <2>1
<1>13. CASE FullAt(bytes) # {}
  <2>1. UNCHANGED <<head, tail, asleep, accepted>>
    BY <1>13 DEF PutQueue
  <2>2. QueueTypeOK'
    BY <1>12, <2>1 DEF ReadQueueInv, QueueTypeOK
  <2>3. \A k \in 1..Len(accepted') : buf'[(tail' + k - 1) % size] = accepted'[k]
    BY <1>11, <2>1 DEF L, From
  <2>4. QED
    BY <2>1, <2>2, <2>3 DEF ReadQueueInv, QueueHoldsWholeKeys
<1>14. CASE FullAt(bytes) = {}
  <2>1. /\ head' = (head + n) % size /\ tail' = tail /\ asleep' = FALSE
        /\ accepted' = accepted \o bytes
    BY <1>14 DEF PutQueue, n
  <2>2. L + n < size /\ head + n \in 0..(2 * size - 1)
    BY <1>1, <1>3, <1>14, RoomForAll DEF L, n
  <2>3. head' \in 0..(size - 1)
        /\ head' = IF head + n < size THEN head + n ELSE head + n - size
    <3>1. (head + n) % size = IF head + n < size THEN head + n ELSE head + n - size
      <4> DEFINE a == head + n
      <4>1. a \in 0..(2 * size - 1)
        BY <2>2
      <4> HIDE DEF a
      <4>2. a % size = IF a < size THEN a ELSE a - size
        BY <4>1, Around
      <4>3. QED
        BY <1>1, <1>3, <4>2 DEF a
    <3>2. head' = IF head + n < size THEN head + n ELSE head + n - size
      BY <2>1, <3>1
    <3>3. QED
      BY ONLY <1>1, <1>3, <2>2, <3>2
  <2>4. Len(accepted') = L + n /\ accepted' \in Seq(Int)
    BY <1>3, <2>1 DEF L, n
  <2>5. (head' - tail') % size = L + n
    <3>1. (head' - tail) % size = IF tail <= head' THEN head' - tail ELSE head' - tail + size
      BY <1>3, <2>3, Distance
    <3>2. (head' - tail) % size = L + n
      <4> DEFINE d == (head' - tail) % size
      <4> HIDE DEF d
      <4>1. d = IF tail <= head' THEN head' - tail ELSE head' - tail + size
        BY <3>1 DEF d
      <4>2. d = L + n
        BY ONLY <1>1, <1>2, <1>3, <2>2, <2>3, <4>1
      <4>3. QED
        BY <4>2 DEF d
    <3>3. QED
      BY <2>1, <3>2
  <2>6. ASSUME NEW j \in 1..n PROVE j \in Written(bytes)
    BY <1>14 DEF Written, Places, n
  <2>7. ASSUME NEW k \in 1..(L + n) PROVE buf'[From(k)] = accepted'[k]
    <3>1. CASE k \in 1..L
      BY <1>3, <1>11, <2>1, <3>1 DEF L, n
    <3>2. CASE k \notin 1..L
      <4>1. k - L \in 1..n /\ k = L + (k - L)
        BY <1>1, <3>2
      <4>2. From(k) = At(k - L) /\ buf'[At(k - L)] = bytes[k - L]
        BY <1>4, <1>7, <1>10, <2>6, <4>1
      <4>3. accepted'[k] = bytes[k - L]
        BY <1>1, <1>3, <2>1, <3>2, <4>1 DEF L, n
      <4>4. QED
        BY <4>2, <4>3
    <3>3. QED
      BY <3>1, <3>2
  <2>8. QueueTypeOK'
    BY <1>3, <1>12, <2>1, <2>3, <2>4 DEF QueueTypeOK
  <2>9. QueueHoldsWholeKeys'
    BY <2>1, <2>4, <2>5, <2>7 DEF QueueHoldsWholeKeys, From
  <2>10. QED
    BY <2>8, <2>9 DEF ReadQueueInv
<1>15. QED
  BY <1>13, <1>14

----------------------------------------------------------------------------
\* Whatever a routine of key_table hands to put_queue is a sequence of bytes.
LEMMA RoutinesPutBytes ==
    ASSUME ReadQueueInv, NEW code, key_table(code)
    PROVE  /\ UNCHANGED queue \/ \E bytes \in Seq(Int) : PutQueue(bytes)
           /\ F12Flag' \in 0..1
<1>1. F12Flag \in 0..1 /\ F12Flag = F12Flag + 0
  BY DEF ReadQueueInv, QueueTypeOK
<1>2. ASSUME NEW bit, Down(bit) \/ Lift(bit) PROVE UNCHANGED queue /\ F12Flag' = F12Flag
  BY <1>2 DEF Down, Lift, NoOutput
<1>3. ASSUME Caps PROVE UNCHANGED queue /\ F12Flag' = F12Flag
  BY <1>3 DEF Caps, NoOutput
<1>4. ASSUME NEW l, Lamp(l) PROVE UNCHANGED queue /\ F12Flag' = F12Flag
  BY <1>4 DEF Lamp, NoOutput
<1>5. ASSUME code \in (71..83) \ {74, 78}, Cursor(code)
      PROVE  /\ UNCHANGED queue \/ \E bytes \in Seq(Int) : PutQueue(bytes)
             /\ F12Flag' = F12Flag
  <2>1. code - 70 \in 1..13
    BY <1>5
  <2>2. num_table[code - 70] \in Int /\ cur_table[code - 70] \in Int
    BY <2>1 DEF num_table, cur_table
  <2>3. /\ <<num_table[code - 70]>> \in Seq(Int)
        /\ <<27, 91, cur_table[code - 70]>> \in Seq(Int)
        /\ <<27, 91, cur_table[code - 70], 126>> \in Seq(Int)
    BY <2>2
  <2>4. QED
    BY <1>5, <2>3 DEF Cursor
<1>6. ASSUME code \in 59..68 \cup {87, 88}, Func(code)
      PROVE  /\ UNCHANGED queue \/ \E bytes \in Seq(Int) : PutQueue(bytes)
             /\ F12Flag' \in 0..1
  <2>1. F12Flag' \in 0..1
    BY <1>1, <1>6 DEF Func, F12_trigger
  <2>2. ASSUME NEW i \in Int PROVE func_table(i) \in Seq(Int)
    BY DEF func_table
  <2>3. CASE UNCHANGED queue
    BY <2>1, <2>3
  <2>4. CASE \E eax \in Int : PutQueue(func_table(eax))
    BY <2>1, <2>2, <2>4
  <2>5. QED
    BY <1>6, <2>1, <2>3, <2>4 DEF Func
<1>7. ASSUME code \in DOMAIN key_map, DoSelf(code)
      PROVE  /\ UNCHANGED queue \/ \E bytes \in Seq(Int) : PutQueue(bytes)
             /\ F12Flag' = F12Flag
  <2>1. code \in {3, 30, 53}
    BY <1>7 DEF key_map, Map
  <2>2. key_map[code] \in Int /\ shift_map[code] \in Int /\ alt_map[code] \in Int
    BY <2>1 DEF key_map, shift_map, alt_map, Map
  <2>3. Character(code) \in Seq(Int)
    BY <2>2 DEF Character
  <2>4. QED
    BY <1>7, <2>3 DEF DoSelf
<1>8. ASSUME MinusKey(code), code = 53
      PROVE  /\ UNCHANGED queue \/ \E bytes \in Seq(Int) : PutQueue(bytes)
             /\ F12Flag' = F12Flag
  <2>1. code \in DOMAIN key_map
    BY <1>8 DEF key_map, Map
  <2>2. <<47>> \in Seq(Int)
    OBVIOUS
  <2>3. CASE DoSelf(code)
    BY <1>7, <2>1, <2>3
  <2>4. CASE e0 = 1 /\ PutQueue(<<47>>) /\ F12Flag' = F12Flag
    BY <2>2, <2>4
  <2>5. QED
    BY <1>8, <2>3, <2>4 DEF MinusKey
<1>9. ASSUME NoOutput PROVE UNCHANGED queue /\ F12Flag' = F12Flag
  BY <1>9 DEF NoOutput
<1>10. QED
  <2>1. \/ UNCHANGED queue /\ F12Flag' = F12Flag
        \/ code \in (71..83) \ {74, 78} /\ Cursor(code)
        \/ code \in 59..68 \cup {87, 88} /\ Func(code)
        \/ code = 53 /\ MinusKey(code)
        \/ code \in DOMAIN key_map /\ DoSelf(code)
    BY <1>2, <1>3, <1>4, <1>9, Zenon DEF key_table
  <2>2. QED
    BY <1>1, <1>5, <1>6, <1>7, <1>8, <2>1, Zenon

\* The reader and the interrupt keep the queue whole.
LEMMA ReadQueueInvInductive == ReadQueueInv /\ [Next]_vars => ReadQueueInv'
<1> SUFFICES ASSUME ReadQueueInv, [Next]_vars PROVE ReadQueueInv'
  OBVIOUS
<1>1. ASSUME UNCHANGED queue, F12Flag' \in 0..1 PROVE ReadQueueInv'
  BY <1>1 DEF ReadQueueInv, QueueTypeOK, QueueHoldsWholeKeys, queue
<1>2. F12Flag \in 0..1
  BY DEF ReadQueueInv, QueueTypeOK
<1>3. CASE keyboard_interrupt
  <2>1. CASE NoOutput
    BY <1>1, <1>2, <2>1 DEF NoOutput
  <2>2. CASE key_table(Head(wire))
    <3>1. F12Flag' \in 0..1
      BY <2>2, RoutinesPutBytes
    <3>2. CASE UNCHANGED queue
      BY <1>1, <3>1, <3>2
    <3>3. CASE \E bytes \in Seq(Int) : PutQueue(bytes)
      BY <3>1, <3>3, PutQueueKeepsQueue
    <3>4. QED
      BY <2>2, <3>2, <3>3, RoutinesPutBytes
  <2>3. QED
    BY <1>3, <2>1, <2>2 DEF keyboard_interrupt
<1>4. CASE \E k \in Keys : Press(k) \/ Repeat(k) \/ Release(k)
  <2>1. UNCHANGED queue /\ F12Flag' = F12Flag
    BY <1>4 DEF Press, Repeat, Release, OnWire
  <2>2. QED
    BY <1>1, <1>2, <2>1
<1>5. CASE ReadChar
  <2> DEFINE L == Len(accepted)
             From(k) == (tail + k - 1) % size
  <2>1. /\ size \in Nat /\ size > 1 /\ head \in 0..(size - 1) /\ tail \in 0..(size - 1)
        /\ accepted \in Seq(Int) /\ L \in 0..(size - 1) /\ head # tail
    BY <1>5, KeyboardAssumption, Distance DEF ReadQueueInv, QueueTypeOK, QueueHoldsWholeKeys, ReadChar
  <2>2. L = IF tail <= head THEN head - tail ELSE head - tail + size
    BY <2>1, Distance DEF ReadQueueInv, QueueHoldsWholeKeys
  <2>3. /\ tail' = (tail + 1) % size /\ accepted' = Tail(accepted)
        /\ UNCHANGED <<buf, head, asleep, F12Flag>> /\ ~asleep
    BY <1>5 DEF ReadChar
  <2>4. tail' = IF tail + 1 < size THEN tail + 1 ELSE 0
    <3>1. CASE tail + 1 < size
      BY <2>1, <2>3, <3>1
    <3>2. CASE tail + 1 = size
      BY <2>1, <2>3, <3>2
    <3>3. QED
      BY <2>1, <3>1, <3>2
  <2>5. L >= 1 /\ accepted # <<>>
    BY <2>1, <2>2
  <2>6. /\ accepted' \in Seq(Int) /\ Len(accepted') = L - 1
        /\ \A k \in 1..(L - 1) : accepted'[k] = accepted[k + 1]
    BY <2>1, <2>3, <2>5
  <2>7. (head - tail') % size = L - 1
    <3>1. tail' \in 0..(size - 1)
      BY <2>1, <2>4
    <3>2. (head - tail') % size = IF tail' <= head THEN head - tail' ELSE head - tail' + size
      BY <2>1, <3>1, Distance
    <3> HIDE DEF L
    <3> DEFINE d == (head - tail') % size
    <3>3. d = IF tail' <= head THEN head - tail' ELSE head - tail' + size
      BY <3>2
    <3> HIDE DEF d
    <3>4. d = L - 1
      BY ONLY <2>1, <2>2, <2>4, <2>5, <3>1, <3>3
    <3>5. QED
      BY <3>4 DEF d
  <2>8. ASSUME NEW k \in 1..(L - 1) PROVE buf[(tail' + k - 1) % size] = accepted[k + 1]
    <3>1. buf[From(k + 1)] = accepted[k + 1]
      BY <2>1 DEF ReadQueueInv, QueueHoldsWholeKeys
    <3> DEFINE a == tail + k
               b == tail' + k - 1
    <3>2. /\ a \in 0..(2 * size - 1) /\ b \in 0..(2 * size - 1)
          /\ b = a \/ (tail + 1 = size /\ b = a - size)
      BY <2>1, <2>4
    <3> HIDE DEF L
    <3>3. From(k + 1) = a % size
      BY <2>1
    <3> HIDE DEF a, b
    <3>4. b % size = a % size
      BY <2>1, <3>2
    <3>5. QED
      BY <2>1, <3>1, <3>3, <3>4 DEF a, b
  <2>9. QueueTypeOK'
    BY <2>1, <2>3, <2>4, <2>6 DEF ReadQueueInv, QueueTypeOK
  <2>10. QueueHoldsWholeKeys'
    BY <2>3, <2>6, <2>7, <2>8 DEF QueueHoldsWholeKeys
  <2>11. QED
    BY <2>9, <2>10 DEF ReadQueueInv
<1>6. CASE Sleep
  BY <1>6 DEF Sleep, ReadQueueInv, QueueTypeOK, QueueHoldsWholeKeys
<1>7. CASE UNCHANGED vars
  BY <1>1, <1>2, <1>7 DEF vars
<1>8. QED
  BY <1>3, <1>4, <1>5, <1>6, <1>7 DEF Next

\* A full queue drops a key as a whole, never tears the bytes of one and never
\* overwrites what is to be read, for queues of every size.
THEOREM QueueIsWhole == Spec => []QueueHoldsWholeKeys
<1>1. KeyboardInit => ReadQueueInv
  <2> SUFFICES ASSUME KeyboardInit PROVE ReadQueueInv
    OBVIOUS
  <2>1. (head - tail) % size = 0
    BY KeyboardAssumption, Distance DEF KeyboardInit
  <2>2. QED
    <3>1. Len(accepted) = 0 /\ accepted \in Seq(Int) /\ head = tail
      BY DEF KeyboardInit
    <3>2. QueueTypeOK
      <4>1. buf = [i \in 0..(size - 1) |-> 0]
        BY DEF KeyboardInit
      <4>2. buf \in [0..(size - 1) -> Int]
        BY <4>1
      <4>3. head = Start /\ tail = Start /\ asleep = FALSE /\ F12Flag = 0
        BY DEF KeyboardInit
      <4>4. Start \in 0..(size - 1)
        BY KeyboardAssumption
      <4>5. asleep \in BOOLEAN
        BY <4>3
      <4>6. F12Flag \in 0..1 /\ head \in 0..(size - 1) /\ tail \in 0..(size - 1)
        BY <4>3, <4>4
      <4>7. QED
        BY <3>1, <4>2, <4>5, <4>6 DEF QueueTypeOK
    <3>3. QED
      BY <2>1, <3>1, <3>2 DEF ReadQueueInv, QueueHoldsWholeKeys
<1>2. ReadQueueInv => QueueHoldsWholeKeys
  BY DEF ReadQueueInv
<1>3. QED
  BY <1>1, <1>2, ReadQueueInvInductive, PTL DEF Spec

----------------------------------------------------------------------------
\* The codes on the wire.

\* The keys whose bits are tracked, the bit and the make code of each.
Tracked == Modifiers \cup {"caps"}
Bit(k) == IF k = "caps" THEN "capsdown" ELSE k
Code(k) == CASE k = "lshift" -> 42 [] k = "rshift" -> 54
             [] k \in {"lctrl", "rctrl"} -> 29 [] k \in {"lalt", "ralt"} -> 56
             [] k = "caps" -> 58

\* What e0 becomes after a code, and whether a code that meets a given e0 is
\* about key k.
Kind(c) == IF c = E0 THEN 1 ELSE IF c = E1 THEN 2 ELSE 0
Concerns(k, c, prefix) ==
    /\ c \in {Code(k), Code(k) + 128}
    /\ k \in {"lctrl", "lalt"} => prefix = 0
    /\ k \in {"rctrl", "ralt"} => prefix # 0

\* When the codes s come with e0 = e: the value of e0 that code i meets, and the
\* places of the codes about k.
Prefix(s, e, i) == IF i = 1 THEN e ELSE Kind(s[i - 1])
About(k, s, e) == {i \in 1..Len(s) : Concerns(k, s[i], Prefix(s, e, i))}

\* (Pause is released as soon as it is pressed.)
WireTypeOK == /\ wire \in Seq(Int) /\ e0 \in 0..2 /\ held \subseteq Keys \ {"pause"}

\* The last code on the wire is no prefix; without codes no prefix is left over.
WireEnds == IF wire = <<>> THEN e0 = 0 ELSE Kind(wire[Len(wire)]) = 0

\* The last code about a key says whether the key is down; without codes about it
\* its bit does.
WireTellsKeys ==
    \A k \in Tracked :
        /\ About(k, wire, e0) = {} => (Bit(k) \in mode <=> k \in held)
        /\ \A i \in About(k, wire, e0) : \/ \E j \in About(k, wire, e0) : j > i
                                         \/ wire[i] = Code(k) <=> k \in held

ModeInv == WireTypeOK /\ WireEnds /\ WireTellsKeys

\* key_table changes the bit of the key that a code is about, and no other bit
\* that is tracked.
LEMMA KeyTableSetsBit ==
    ASSUME NEW code \in Int, key_table(code), e0 \in 0..2, NEW k \in Tracked
    PROVE  /\ Concerns(k, code, e0) => (Bit(k) \in mode' <=> code = Code(k))
           /\ ~Concerns(k, code, e0) => (Bit(k) \in mode' <=> Bit(k) \in mode)
<1>1. k \in {"lshift", "rshift", "lctrl", "rctrl", "lalt", "ralt", "caps"}
  BY DEF Tracked, Modifiers
<1>2. /\ k = "lshift" => Bit(k) = "lshift" /\ Code(k) = 42
      /\ k = "rshift" => Bit(k) = "rshift" /\ Code(k) = 54
      /\ k = "lctrl" => Bit(k) = "lctrl" /\ Code(k) = 29
      /\ k = "rctrl" => Bit(k) = "rctrl" /\ Code(k) = 29
      /\ k = "lalt" => Bit(k) = "lalt" /\ Code(k) = 56
      /\ k = "ralt" => Bit(k) = "ralt" /\ Code(k) = 56
      /\ k = "caps" => Bit(k) = "capsdown" /\ Code(k) = 58
  BY DEF Bit, Code
<1>3. CASE code = 29 /\ Down(Side("lctrl", "rctrl"))
  BY <1>1, <1>2, <1>3 DEF Down, Side, Concerns
<1>4. CASE code = 56 /\ Down(Side("lalt", "ralt"))
  BY <1>1, <1>2, <1>4 DEF Down, Side, Concerns
<1>5. CASE code = 42 /\ Down("lshift")
  BY <1>1, <1>2, <1>5 DEF Down, Concerns
<1>6. CASE code = 54 /\ Down("rshift")
  BY <1>1, <1>2, <1>6 DEF Down, Concerns
<1>7. CASE code = 157 /\ Lift(Side("lctrl", "rctrl"))
  BY <1>1, <1>2, <1>7 DEF Lift, Side, Concerns
<1>8. CASE code = 184 /\ Lift(Side("lalt", "ralt"))
  BY <1>1, <1>2, <1>8 DEF Lift, Side, Concerns
<1>9. CASE code = 170 /\ Lift("lshift")
  BY <1>1, <1>2, <1>9 DEF Lift, Concerns
<1>10. CASE code = 182 /\ Lift("rshift")
  BY <1>1, <1>2, <1>10 DEF Lift, Concerns
<1>11. CASE code = 58 /\ Caps
  BY <1>1, <1>2, <1>11 DEF Caps, Toggled, Concerns
<1>12. CASE code = 186 /\ Lift("capsdown")
  BY <1>1, <1>2, <1>12 DEF Lift, Concerns
<1>13. CASE /\ code \in {69, 70, 84} \cup (71..83) \cup (59..68) \cup {87, 88, 3, 30, 53}
                        \cup ((128..223) \ {157, 170, 182, 184, 186})
            /\ mode' = mode
  BY <1>1, <1>2, <1>13 DEF Concerns
<1>14. DOMAIN key_map = {3, 30, 53}
  BY DEF key_map, Map
<1>15. QED
  BY <1>3, <1>4, <1>5, <1>6, <1>7, <1>8, <1>9, <1>10, <1>11, <1>12, <1>13, <1>14
     DEF key_table, Lamp, Cursor, Func, MinusKey, DoSelf

\* What Release puts on the wire.
Breaks(s) == [i \in DOMAIN s |-> IF s[i] = E0 THEN E0 ELSE s[i] + 128]

\* The keys that send a prefix before their code, and the code of each key.
Prefixed == {"rctrl", "ralt", "slash", "ghome", "gdel"}
Last(key) == CASE key \in {"lctrl", "rctrl"} -> 29 [] key \in {"lalt", "ralt"} -> 56
               [] key \in {"minus", "slash"} -> 53  [] key \in {"home", "ghome"} -> 71
               [] key \in {"del", "gdel"} -> 83
               [] key = "lshift" -> 42 [] key = "rshift" -> 54 [] key = "caps" -> 58
               [] key = "num" -> 69 [] key = "scroll" -> 70 [] key = "sysreq" -> 84
               [] key = "two" -> 3 [] key = "a" -> 30
               [] key = "f1" -> 59 [] key = "f11" -> 87 [] key = "f12" -> 88

\* A key sends one code, or one behind a prefix, and the codes concern it alone.
LEMMA CodesOfKeys ==
    ASSUME NEW key \in KeyNames \ {"pause"}, NEW k \in Tracked
    PROVE  /\ Last(key) \in 0..88
           /\ key = k => Last(key) = Code(k)
           /\ Sends(key) = IF key \in Prefixed THEN <<E0, Last(key)>> ELSE <<Last(key)>>
           /\ LET prefix == IF key \in Prefixed THEN 1 ELSE 0
              IN /\ Concerns(k, Last(key), prefix) <=> key = k
                 /\ Concerns(k, Last(key) + 128, prefix) <=> key = k
<1>1. k \in {"lshift", "rshift", "lctrl", "rctrl", "lalt", "ralt", "caps"}
  BY DEF Tracked, Modifiers
<1>2. /\ k = "lshift" => Code(k) = 42
      /\ k = "rshift" => Code(k) = 54
      /\ k \in {"lctrl", "rctrl"} => Code(k) = 29
      /\ k \in {"lalt", "ralt"} => Code(k) = 56
      /\ k = "caps" => Code(k) = 58
  BY DEF Code
<1>3. ASSUME NEW c \in 0..88, NEW prefix \in 0..1
      PROVE  /\ Concerns(k, c, prefix) <=> c = Code(k) /\ (k \in {"lctrl", "lalt"} => prefix = 0)
                                         /\ (k \in {"rctrl", "ralt"} => prefix # 0)
             /\ Concerns(k, c + 128, prefix) <=> Concerns(k, c, prefix)
  <2>1. Code(k) \in 29..58
    BY <1>1, <1>2
  <2>2. /\ Concerns(k, c, prefix) <=> (c = Code(k) /\ (k \in {"lctrl", "lalt"} => prefix = 0)
                                                   /\ (k \in {"rctrl", "ralt"} => prefix # 0))
        /\ Concerns(k, c + 128, prefix) <=>
              (c = Code(k) /\ (k \in {"lctrl", "lalt"} => prefix = 0)
                           /\ (k \in {"rctrl", "ralt"} => prefix # 0))
    BY <2>1 DEF Concerns
  <2>3. QED
    BY <2>2
<1>4. CASE key \in Prefixed
  <2>1. Sends(key) = <<E0, Last(key)>> /\ Last(key) \in 0..88
    BY <1>4 DEF Sends, Last, Prefixed
  <2>2. Concerns(k, Last(key), 1) <=> key = k
    BY <1>1, <1>2, <1>3, <1>4, <2>1 DEF Last, Prefixed
  <2>3. key = k => Last(key) = Code(k)
    BY <1>1, <1>2, <1>4 DEF Last, Prefixed
  <2>4. QED
    BY <1>3, <1>4, <2>1, <2>2, <2>3
<1>5. CASE key \notin Prefixed
  <2>1. key \in {"lshift", "rshift", "lctrl", "lalt", "caps", "num", "scroll", "sysreq",
                 "two", "a", "minus", "home", "del", "f1", "f11", "f12"}
    BY <1>5 DEF KeyNames, Prefixed
  <2>2. Sends(key) = <<Last(key)>> /\ Last(key) \in 0..88
    BY <2>1 DEF Sends, Last
  <2>3. Concerns(k, Last(key), 0) <=> key = k
    BY <1>1, <1>2, <1>3, <2>1, <2>2 DEF Last
  <2>4. key = k => Last(key) = Code(k)
    BY <1>1, <1>2, <2>1 DEF Last
  <2>5. QED
    BY <1>3, <1>5, <2>2, <2>3, <2>4
<1>6. QED
  BY <1>4, <1>5

\* What a key sends ends with a code that is no prefix, and it is this code that
\* concerns the key, and no other.
LEMMA KeysSpeakForThemselves ==
    ASSUME NEW key \in KeyNames \ {"pause"}, NEW k \in Tracked,
           NEW s \in {Sends(key), Breaks(Sends(key))}
    PROVE  /\ s \in Seq(Int) /\ Len(s) > 0 /\ Kind(s[Len(s)]) = 0
           /\ key = k => About(k, s, 0) = {Len(s)}
           /\ key = k => s[Len(s)] = IF s = Sends(key) THEN Code(k) ELSE Code(k) + 128
           /\ key # k => About(k, s, 0) = {}
<1> DEFINE c == Last(key)
<1>1. /\ c \in 0..88
      /\ key = k => c = Code(k)
      /\ \/ Sends(key) = <<c>> /\ (Concerns(k, c, 0) <=> key = k)
                              /\ (Concerns(k, c + 128, 0) <=> key = k)
         \/ Sends(key) = <<E0, c>> /\ (Concerns(k, c, 1) <=> key = k)
                                  /\ (Concerns(k, c + 128, 1) <=> key = k)
  BY CodesOfKeys
<1> HIDE DEF c
<1>2. Kind(c) = 0 /\ Kind(c + 128) = 0 /\ Kind(E0) = 1
  BY <1>1 DEF Kind, E0, E1
<1>3. ~Concerns(k, E0, 0)
  BY DEF Concerns, Code, Tracked, Modifiers, E0
<1>4. ASSUME NEW d \in {c, c + 128}, s = <<d>>, Concerns(k, d, 0) <=> key = k
      PROVE  /\ s \in Seq(Int) /\ Len(s) = 1 /\ s[Len(s)] = d
             /\ key = k => About(k, s, 0) = {Len(s)}
             /\ key # k => About(k, s, 0) = {}
  <2>1. s \in Seq(Int) /\ Len(s) = 1 /\ s[1] = d
    BY <1>1, <1>4
  <2>2. About(k, s, 0) = {i \in {1} : Concerns(k, d, 0)}
    BY <2>1 DEF About, Prefix
  <2>3. QED
    BY <1>4, <2>1, <2>2
<1>5. ASSUME NEW d \in {c, c + 128}, s = <<E0, d>>, Concerns(k, d, 1) <=> key = k
      PROVE  /\ s \in Seq(Int) /\ Len(s) = 2 /\ s[Len(s)] = d
             /\ key = k => About(k, s, 0) = {Len(s)}
             /\ key # k => About(k, s, 0) = {}
  <2>1. s \in Seq(Int) /\ Len(s) = 2 /\ s[1] = E0 /\ s[2] = d
    BY <1>1, <1>5 DEF E0
  <2>2. ASSUME NEW i \in 1..2 PROVE i \in About(k, s, 0) <=> i = 2 /\ Concerns(k, d, 1)
    <3>1. CASE i = 1
      BY <1>3, <2>1, <3>1 DEF About, Prefix
    <3>2. CASE i = 2
      BY <1>2, <2>1, <3>2 DEF About, Prefix
    <3>3. QED
      BY <3>1, <3>2
  <2>3. About(k, s, 0) \subseteq 1..2
    BY <2>1 DEF About
  <2>4. QED
    BY <1>5, <2>1, <2>2, <2>3
<1>6. CASE Sends(key) = <<c>> /\ (Concerns(k, c, 0) <=> key = k)
                            /\ (Concerns(k, c + 128, 0) <=> key = k)
  <2>1. Breaks(Sends(key)) = <<c + 128>>
    BY <1>1, <1>6 DEF Breaks, E0
  <2>2. CASE s = Sends(key)
    BY <1>1, <1>2, <1>4, <1>6, <2>2
  <2>3. CASE s = Breaks(Sends(key)) /\ s # Sends(key)
    BY <1>1, <1>2, <1>4, <1>6, <2>1, <2>3
  <2>4. QED
    BY <2>2, <2>3
<1>7. CASE Sends(key) = <<E0, c>> /\ (Concerns(k, c, 1) <=> key = k)
                                /\ (Concerns(k, c + 128, 1) <=> key = k)
  <2>1. Breaks(Sends(key)) = <<E0, c + 128>>
    BY <1>1, <1>7 DEF Breaks, E0
  <2>2. CASE s = Sends(key)
    BY <1>1, <1>2, <1>5, <1>7, <2>2
  <2>3. CASE s = Breaks(Sends(key)) /\ s # Sends(key)
    BY <1>1, <1>2, <1>5, <1>7, <2>1, <2>3
  <2>4. QED
    BY <2>2, <2>3
<1>8. QED
  BY <1>1, <1>6, <1>7

\* Pause goes on as if the ctrl key on the right were pressed and released.
LEMMA PauseSpeaks ==
    ASSUME NEW k \in Tracked
    PROVE  LET s == Sends("pause")
           IN /\ s \in Seq(Int) /\ Len(s) > 0 /\ Kind(s[Len(s)]) = 0
              /\ k # "rctrl" => About(k, s, 0) = {}
              /\ k = "rctrl" => 5 \in About(k, s, 0) /\ s[5] # Code(k)
                                /\ \A i \in About(k, s, 0) : i <= 5
<1> DEFINE s == Sends("pause")
<1>1. s = <<225, 29, 69, 225, 157, 197>>
  BY DEF Sends, E1
<1>2. /\ s \in Seq(Int) /\ Len(s) = 6 /\ s[1] = 225 /\ s[2] = 29 /\ s[3] = 69
      /\ s[4] = 225 /\ s[5] = 157 /\ s[6] = 197
  <2> HIDE DEF s
  <2>1. QED
    BY <1>1
<1> HIDE DEF s
<1>3. /\ Prefix(s, 0, 1) = 0 /\ Prefix(s, 0, 2) = 2 /\ Prefix(s, 0, 3) = 0
      /\ Prefix(s, 0, 4) = 0 /\ Prefix(s, 0, 5) = 2 /\ Prefix(s, 0, 6) = 0
  BY <1>2 DEF Prefix, Kind, E0, E1
<1>4. /\ ~Concerns(k, 225, 0) /\ ~Concerns(k, 69, 0) /\ ~Concerns(k, 197, 0)
      /\ Concerns(k, 29, 2) <=> k = "rctrl"
      /\ Concerns(k, 157, 2) <=> k = "rctrl"
  BY DEF Concerns, Code, Tracked, Modifiers
<1>5. About(k, s, 0) = {i \in {2, 5} : k = "rctrl"}
  <2>1. 1..6 = {1, 2, 3, 4, 5, 6}
    OBVIOUS
  <2>2. QED
    BY <1>2, <1>3, <1>4, <2>1 DEF About
<1>6. k = "rctrl" => Code(k) = 29
  BY DEF Code
<1>7. Kind(s[Len(s)]) = 0
  BY <1>2 DEF Kind, E0, E1
<1>8. /\ k # "rctrl" => About(k, s, 0) = {}
      /\ k = "rctrl" => 5 \in About(k, s, 0) /\ s[5] # Code(k)
                        /\ \A i \in About(k, s, 0) : i <= 5
  BY <1>2, <1>5, <1>6
<1>9. QED
  BY <1>2, <1>7, <1>8 DEF s

\* Every code but the first meets what the one before it leaves in e0.
LEMMA LaterPrefix ==
    ASSUME NEW s, NEW e, NEW i \in Int, i # 1, NEW j \in Int, j = i - 1
    PROVE  Prefix(s, e, i) = Kind(s[j])
BY DEF Prefix

\* Codes that a key adds to the wire: the older ones mean what they meant, and the
\* last code about a key is now one of the new ones, if any of them is.
LEMMA WireGrows ==
    ASSUME ModeInv, NEW s \in Seq(Int), Len(s) > 0, Kind(s[Len(s)]) = 0,
           wire' = wire \o s, UNCHANGED <<mode, e0>>, held' \subseteq Keys \ {"pause"},
           \A k \in Tracked :
              /\ About(k, s, 0) = {} => (k \in held' <=> k \in held)
              /\ \A i \in About(k, s, 0) : \/ \E j \in About(k, s, 0) : j > i
                                           \/ s[i] = Code(k) <=> k \in held'
    PROVE  ModeInv'
<1> DEFINE n == Len(wire)
           m == Len(s)
<1>1. n \in Nat /\ m \in Nat \ {0} /\ wire \in Seq(Int) /\ e0 \in 0..2
  BY DEF ModeInv, WireTypeOK
<1>2. /\ wire' \in Seq(Int) /\ Len(wire') = n + m
      /\ \A i \in 1..n : wire'[i] = wire[i]
      /\ \A i \in 1..m : wire'[n + i] = s[i]
  BY <1>1
<1>3. WireTypeOK' /\ wire' # <<>>
  BY <1>1, <1>2 DEF WireTypeOK
<1>4. WireEnds'
  BY <1>1, <1>2, <1>3 DEF WireEnds
<1> HIDE DEF n, m
<1>5. ASSUME NEW i \in 1..n PROVE Prefix(wire', e0', i) = Prefix(wire, e0, i)
  <2>1. e0' = e0
    OBVIOUS
  <2>2. CASE i = 1
    BY <2>1, <2>2 DEF Prefix
  <2>3. CASE i # 1
    <3>1. i - 1 \in 1..n
      BY <1>1, <2>3
    <3>2. wire'[i - 1] = wire[i - 1]
      BY <1>2, <3>1
    <3>3. QED
      BY <2>3, <3>2 DEF Prefix
  <2>4. QED
    BY <2>2, <2>3
<1>6. ASSUME NEW i \in 1..m PROVE Prefix(wire', e0', n + i) = Prefix(s, 0, i)
  <2>1. CASE i = 1 /\ n = 0
    BY <1>1, <2>1 DEF Prefix, ModeInv, WireEnds, n
  <2>2. CASE i = 1 /\ n # 0
    <3>1. Kind(wire[n]) = 0
      BY <1>1, <2>2 DEF ModeInv, WireEnds, n
    <3>2. Prefix(wire', e0', n + i) = Kind(wire'[n])
      <4>1. PICK x \in Int : x = n + i
        BY <1>1
      <4>2. n \in Int /\ n = x - 1 /\ x # 1
        BY <1>1, <2>2, <4>1
      <4>3. Prefix(wire', e0', x) = Kind(wire'[n])
        BY <4>2, LaterPrefix
      <4>4. QED
        BY <4>1, <4>3
    <3>3. n \in 1..n
      BY <1>1, <2>2
    <3>4. QED
      BY <1>2, <2>2, <3>1, <3>2, <3>3 DEF Prefix
  <2>3. CASE i # 1
    <3>1. Prefix(wire', e0', n + i) = Kind(wire'[n + (i - 1)])
      <4>1. PICK x \in Int, y \in Int : x = n + i /\ y = n + (i - 1)
        BY <1>1
      <4>2. y = x - 1 /\ x # 1
        BY <1>1, <2>3, <4>1
      <4>3. Prefix(wire', e0', x) = Kind(wire'[y])
        BY <4>2, LaterPrefix
      <4>4. QED
        BY <4>1, <4>3
    <3>2. i - 1 \in 1..m
      BY <1>1, <2>3
    <3>3. QED
      BY <1>2, <2>3, <3>1, <3>2 DEF Prefix
  <2>4. QED
    BY <2>1, <2>2, <2>3
<1>7. ASSUME NEW k \in Tracked, NEW i \in 1..n
      PROVE i \in About(k, wire', e0') <=> i \in About(k, wire, e0)
  BY <1>1, <1>2, <1>5 DEF About, n
<1>8. ASSUME NEW k \in Tracked, NEW i \in 1..m
      PROVE n + i \in About(k, wire', e0') <=> i \in About(k, s, 0)
  <2>1. n + i \in 1..Len(wire')
    BY <1>1, <1>2
  <2>2. QED
    <3>1. n + i \in About(k, wire', e0') <=> Concerns(k, s[i], Prefix(s, 0, i))
      BY <1>2, <1>6, <2>1 DEF About
    <3>2. QED
      BY <3>1 DEF About, m
<1>9. ASSUME NEW k \in Tracked, NEW i \in About(k, wire', e0')
      PROVE  i \in About(k, wire, e0) \/ \E a \in About(k, s, 0) : i = n + a
  <2>1. i \in 1..(n + m)
    BY <1>2 DEF About
  <2>2. CASE i \in 1..n
    BY <1>7, <1>9, <2>2
  <2>3. CASE i \notin 1..n
    <3>1. i - n \in 1..m /\ i = n + (i - n)
      BY <1>1, <2>1, <2>3
    <3>2. QED
      BY <1>8, <1>9, <3>1
  <2>4. QED
    BY <2>2, <2>3
<1>10. ASSUME NEW k \in Tracked
       PROVE  /\ About(k, wire', e0') = {} => (Bit(k) \in mode' <=> k \in held')
              /\ \A i \in About(k, wire', e0') : \/ \E j \in About(k, wire', e0') : j > i
                                                 \/ wire'[i] = Code(k) <=> k \in held'
  <2>1. About(k, wire, e0) \subseteq 1..n /\ About(k, s, 0) \subseteq 1..m
    BY DEF About, n, m
  <2>2. CASE About(k, s, 0) = {}
    <3>1. About(k, wire', e0') = About(k, wire, e0)
      BY <1>7, <1>9, <2>1, <2>2
    <3>2. (k \in held' <=> k \in held) /\ mode' = mode
      BY <2>2
    <3>3. ASSUME NEW i \in About(k, wire, e0) PROVE wire'[i] = wire[i]
      BY <1>2, <2>1
    <3>4. /\ About(k, wire, e0) = {} => (Bit(k) \in mode <=> k \in held)
          /\ \A i \in About(k, wire, e0) : \/ \E j \in About(k, wire, e0) : j > i
                                           \/ wire[i] = Code(k) <=> k \in held
      BY DEF ModeInv, WireTellsKeys
    <3>5. QED
      BY <3>1, <3>2, <3>3, <3>4
  <2>3. CASE About(k, s, 0) # {}
    <3>1. PICK a \in About(k, s, 0) : TRUE
      BY <2>3
    <3>2. n + a \in About(k, wire', e0')
      BY <1>8, <2>1
    <3>3. ASSUME NEW i \in About(k, wire', e0')
          PROVE  \/ \E j \in About(k, wire', e0') : j > i
                 \/ wire'[i] = Code(k) <=> k \in held'
      <4>1. CASE i \in About(k, wire, e0)
        <5>1. n + a > i
          BY <1>1, <2>1, <4>1
        <5>2. QED
          BY <3>2, <5>1
      <4>2. CASE \E b \in About(k, s, 0) : i = n + b
        <5>1. PICK b \in About(k, s, 0) : i = n + b
          BY <4>2
        <5>2. b \in 1..m /\ wire'[i] = s[b]
          BY <1>2, <2>1, <5>1
        <5>3. CASE \E j \in About(k, s, 0) : j > b
          <6>1. PICK j \in About(k, s, 0) : j > b
            BY <5>3
          <6>2. n + j \in About(k, wire', e0') /\ n + j > i
            BY <1>1, <1>8, <2>1, <5>1, <5>2, <6>1
          <6>3. QED
            BY <6>2
        <5>4. CASE s[b] = Code(k) <=> k \in held'
          BY <5>2, <5>4
        <5>5. QED
          BY <5>3, <5>4
      <4>3. QED
        BY <1>9, <4>1, <4>2
    <3>4. QED
      BY <3>2, <3>3
  <2>4. QED
    BY <2>2, <2>3
<1>11. WireTellsKeys'
  BY <1>10 DEF WireTellsKeys
<1>12. QED
  BY <1>3, <1>4, <1>11 DEF ModeInv

\* The interrupt takes the first code: what the other codes will meet in e0 stays.
LEMMA InterruptKeepsModeInv ==
    ASSUME ModeInv, keyboard_interrupt
    PROVE  ModeInv'
<1> DEFINE n == Len(wire)
<1>1. /\ wire \in Seq(Int) /\ e0 \in 0..2
      /\ held \subseteq Keys \ {"pause"} /\ wire # <<>> /\ n \in Nat \ {0}
      /\ wire[1] \in Int /\ Head(wire) = wire[1]
  BY DEF ModeInv, WireTypeOK, keyboard_interrupt
<1>2. /\ wire' = Tail(wire) /\ held' = held
      /\ \/ wire[1] \in {E0, E1} /\ e0' = (IF wire[1] = E0 THEN 1 ELSE 2) /\ mode' = mode
         \/ key_table(wire[1]) /\ e0' = 0
  BY <1>1 DEF keyboard_interrupt, outside
<1>3. /\ wire' \in Seq(Int) /\ Len(wire') = n - 1
      /\ \A i \in 1..(n - 1) : wire'[i] = wire[i + 1]
  BY <1>1, <1>2
<1>4. key_table(wire[1]) => wire[1] \notin {E0, E1}
  BY DEF key_table, key_map, Map, E0, E1
<1>5. e0' = Kind(wire[1]) /\ e0' \in 0..2
  BY <1>2, <1>4 DEF Kind, E0, E1
<1>6. WireTypeOK'
  BY <1>1, <1>2, <1>3, <1>5 DEF WireTypeOK
<1> HIDE DEF n
<1>7. WireEnds'
  <2>1. CASE n = 1
    <3>1. wire' = <<>> /\ Kind(wire[1]) = 0
      BY <1>1, <1>2, <1>3, <2>1 DEF ModeInv, WireEnds, n
    <3>2. QED
      BY <1>5, <3>1 DEF WireEnds
  <2>2. CASE n # 1
    <3>1. n - 1 \in 1..(n - 1) /\ n - 1 + 1 = n /\ wire' # <<>>
      BY <1>1, <1>3, <2>2
    <3>2. wire'[Len(wire')] = wire[n]
      BY <1>3, <3>1
    <3>3. QED
      BY <1>1, <3>1, <3>2 DEF ModeInv, WireEnds, n
  <2>3. QED
    BY <2>1, <2>2
<1>8. ASSUME NEW i \in 1..(n - 1) PROVE Prefix(wire', e0', i) = Prefix(wire, e0, i + 1)
  <2>1. CASE i = 1
    BY <1>5, <2>1 DEF Prefix
  <2>2. CASE i # 1
    <3>1. i - 1 \in 1..(n - 1) /\ i - 1 + 1 = i /\ i + 1 - 1 = i /\ i + 1 # 1
      BY <1>1, <2>2
    <3>2. wire'[i - 1] = wire[i]
      BY <1>3, <3>1
    <3>3. QED
      BY <2>2, <3>1, <3>2 DEF Prefix
  <2>3. QED
    BY <2>1, <2>2
<1>9. ASSUME NEW k, NEW i \in 1..(n - 1)
      PROVE i \in About(k, wire', e0') <=> i + 1 \in About(k, wire, e0)
  <2>1. i \in 1..Len(wire') /\ i + 1 \in 1..n
    BY <1>1, <1>3
  <2>2. QED
    BY <1>3, <1>8, <2>1 DEF About, n
<1>10. ASSUME NEW k
       PROVE About(k, wire, e0) \subseteq 1..n /\ About(k, wire', e0') \subseteq 1..(n - 1)
  BY <1>1, <1>3 DEF About, n
<1>11. ASSUME NEW k \in Tracked
       PROVE  /\ Concerns(k, wire[1], e0) => (Bit(k) \in mode' <=> wire[1] = Code(k))
              /\ ~Concerns(k, wire[1], e0) => (Bit(k) \in mode' <=> Bit(k) \in mode)
  <2>1. CASE key_table(wire[1])
    BY <1>1, <2>1, KeyTableSetsBit
  <2>2. CASE wire[1] \in {E0, E1} /\ mode' = mode
    <3>1. ~Concerns(k, wire[1], e0)
      BY <2>2 DEF Concerns, Code, Tracked, Modifiers, E0, E1
    <3>2. QED
      BY <2>2, <3>1
  <2>3. QED
    BY <1>2, <2>1, <2>2
<1>12. ASSUME NEW k \in Tracked PROVE 1 \in About(k, wire, e0) <=> Concerns(k, wire[1], e0)
  BY <1>1 DEF About, Prefix, n
<1>13. ASSUME NEW k \in Tracked
       PROVE  /\ About(k, wire', e0') = {} => (Bit(k) \in mode' <=> k \in held')
              /\ \A i \in About(k, wire', e0') : \/ \E j \in About(k, wire', e0') : j > i
                                                 \/ wire'[i] = Code(k) <=> k \in held'
  <2>1. ASSUME NEW j \in About(k, wire, e0), j # 1 PROVE j - 1 \in About(k, wire', e0')
    <3>1. j - 1 \in 1..(n - 1) /\ j - 1 + 1 = j
      BY <1>1, <1>10, <2>1
    <3>2. QED
      BY <1>9, <2>1, <3>1
  <2>2. ASSUME About(k, wire', e0') = {} PROVE Bit(k) \in mode' <=> k \in held'
    <3>1. CASE 1 \in About(k, wire, e0)
      <4>1. \A j \in About(k, wire, e0) : j = 1
        BY <2>1, <2>2
      <4>2. ~ \E j \in About(k, wire, e0) : j > 1
        BY <4>1
      <4>3. wire[1] = Code(k) <=> k \in held
        BY <3>1, <4>2 DEF ModeInv, WireTellsKeys
      <4>4. QED
        BY <1>2, <1>11, <1>12, <3>1, <4>3
    <3>2. CASE 1 \notin About(k, wire, e0)
      <4>1. About(k, wire, e0) = {}
        BY <2>1, <2>2, <3>2
      <4>2. Bit(k) \in mode <=> k \in held
        BY <4>1 DEF ModeInv, WireTellsKeys
      <4>3. QED
        BY <1>2, <1>11, <1>12, <3>2, <4>2
    <3>3. QED
      BY <3>1, <3>2
  <2>3. ASSUME NEW i \in About(k, wire', e0')
        PROVE  \/ \E j \in About(k, wire', e0') : j > i
               \/ wire'[i] = Code(k) <=> k \in held'
    <3>1. i \in 1..(n - 1) /\ i + 1 \in About(k, wire, e0) /\ wire'[i] = wire[i + 1]
      BY <1>3, <1>9, <1>10, <2>3
    <3>2. CASE \E j \in About(k, wire, e0) : j > i + 1
      <4>1. PICK j \in About(k, wire, e0) : j > i + 1
        BY <3>2
      <4>2. j - 1 \in About(k, wire', e0') /\ j - 1 > i
        BY <1>1, <1>10, <2>1, <3>1, <4>1
      <4>3. QED
        BY <4>2
    <3>3. CASE wire[i + 1] = Code(k) <=> k \in held
      BY <1>2, <3>1, <3>3
    <3>4. QED
      BY <3>1, <3>2, <3>3 DEF ModeInv, WireTellsKeys
  <2>4. QED
    BY <2>2, <2>3
<1>14. WireTellsKeys'
  BY <1>13 DEF WireTellsKeys
<1>15. QED
  BY <1>6, <1>7, <1>14 DEF ModeInv

\* Pressing, repeating and releasing a key, Pause included.
LEMMA KeysKeepModeInv ==
    ASSUME ModeInv, NEW key \in Keys, Press(key) \/ Repeat(key) \/ Release(key)
    PROVE  ModeInv'
<1>1. key \in KeyNames /\ held \subseteq Keys \ {"pause"} /\ UNCHANGED <<mode, e0>>
  BY KeyboardAssumption DEF ModeInv, WireTypeOK, Press, Repeat, Release, OnWire
<1>2. CASE key # "pause" /\ (Press(key) \/ Repeat(key))
  <2> DEFINE s == Sends(key)
  <2>1. /\ wire' = wire \o s /\ key \in held' /\ held' \subseteq Keys \ {"pause"}
        /\ \A k \in Tracked : k # key => (k \in held' <=> k \in held)
    BY <1>1, <1>2 DEF Press, Repeat, OnWire
  <2>2. ASSUME NEW k \in Tracked
        PROVE  /\ s \in Seq(Int) /\ Len(s) > 0 /\ Kind(s[Len(s)]) = 0
               /\ key = k => About(k, s, 0) = {Len(s)} /\ s[Len(s)] = Code(k)
               /\ key # k => About(k, s, 0) = {}
    BY <1>1, <1>2, KeysSpeakForThemselves
  <2>3. "caps" \in Tracked
    BY DEF Tracked
  <2> HIDE DEF s
  <2>4. s \in Seq(Int) /\ Len(s) > 0 /\ Kind(s[Len(s)]) = 0
    BY <2>2, <2>3
  <2>5. ASSUME NEW k \in Tracked
        PROVE  /\ About(k, s, 0) = {} => (k \in held' <=> k \in held)
               /\ \A i \in About(k, s, 0) : s[i] = Code(k) <=> k \in held'
    <3>1. CASE k = key
      BY <2>1, <2>2, <3>1
    <3>2. CASE k # key
      BY <2>1, <2>2, <3>2
    <3>3. QED
      BY <3>1, <3>2
  <2>6. QED
    BY <1>1, <2>1, <2>4, <2>5, WireGrows
<1>3. CASE key # "pause" /\ Release(key)
  <2> DEFINE s == Breaks(Sends(key))
  <2>1. /\ wire' = wire \o s /\ key \notin held' /\ held' \subseteq Keys \ {"pause"}
        /\ \A k \in Tracked : k # key => (k \in held' <=> k \in held)
    BY <1>1, <1>3 DEF Release, OnWire, Breaks
  <2>2. ASSUME NEW k \in Tracked
        PROVE  /\ s \in Seq(Int) /\ Len(s) > 0 /\ Kind(s[Len(s)]) = 0
               /\ key = k => About(k, s, 0) = {Len(s)}
                            /\ s[Len(s)] \in {Code(k), Code(k) + 128}
                            /\ (s # Sends(key) => s[Len(s)] = Code(k) + 128)
               /\ key # k => About(k, s, 0) = {}
    BY <1>1, <1>3, KeysSpeakForThemselves
  <2>3. "caps" \in Tracked
    BY DEF Tracked
  <2>4. s # Sends(key)
    <3>1. PICK c \in 0..88 : Sends(key) = <<c>> \/ Sends(key) = <<E0, c>>
      BY <1>1, <1>3, <2>3, CodesOfKeys
    <3>2. Breaks(<<c>>) = <<c + 128>> /\ Breaks(<<E0, c>>) = <<E0, c + 128>>
      BY DEF Breaks, E0
    <3>3. <<c>> # <<c + 128>> /\ <<E0, c>> # <<E0, c + 128>>
      OBVIOUS
    <3>4. QED
      BY <3>1, <3>2, <3>3
  <2> HIDE DEF s
  <2>5. s \in Seq(Int) /\ Len(s) > 0 /\ Kind(s[Len(s)]) = 0
    BY <2>2, <2>3
  <2>6. ASSUME NEW k \in Tracked PROVE Code(k) # Code(k) + 128
    BY DEF Tracked, Modifiers, Code
  <2>7. ASSUME NEW k \in Tracked
        PROVE  /\ About(k, s, 0) = {} => (k \in held' <=> k \in held)
               /\ \A i \in About(k, s, 0) : s[i] = Code(k) <=> k \in held'
    <3>1. CASE k = key
      BY <2>1, <2>2, <2>4, <2>6, <3>1
    <3>2. CASE k # key
      BY <2>1, <2>2, <3>2
    <3>3. QED
      BY <3>1, <3>2
  <2>8. QED
    BY <1>1, <2>1, <2>5, <2>7, WireGrows
\* Pause is not held down: nothing is repeated or released, and no ctrl key is down.
<1>4. CASE key = "pause" /\ Press(key)
  <2> DEFINE s == Sends("pause")
  <2>1. /\ wire' = wire \o s /\ held' = held /\ "rctrl" \notin held
    BY <1>1, <1>4 DEF Press, OnWire
  <2>2. ASSUME NEW k \in Tracked
        PROVE  /\ s \in Seq(Int) /\ Len(s) > 0 /\ Kind(s[Len(s)]) = 0
               /\ k # "rctrl" => About(k, s, 0) = {}
               /\ k = "rctrl" => 5 \in About(k, s, 0) /\ s[5] # Code(k)
                                /\ \A i \in About(k, s, 0) : i <= 5
    BY PauseSpeaks
  <2>3. "caps" \in Tracked
    BY DEF Tracked
  <2> HIDE DEF s
  <2>4. s \in Seq(Int) /\ Len(s) > 0 /\ Kind(s[Len(s)]) = 0
    BY <2>2, <2>3
  <2>5. ASSUME NEW k \in Tracked
        PROVE  /\ About(k, s, 0) = {} => (k \in held' <=> k \in held)
               /\ \A i \in About(k, s, 0) : \/ \E j \in About(k, s, 0) : j > i
                                            \/ s[i] = Code(k) <=> k \in held'
    <3>1. CASE k = "rctrl"
      <4>1. ASSUME NEW i \in About(k, s, 0)
            PROVE  \/ \E j \in About(k, s, 0) : j > i
                   \/ s[i] = Code(k) <=> k \in held'
        <5>1. i \in Int /\ i <= 5 /\ 5 \in About(k, s, 0)
          BY <2>2, <3>1 DEF About
        <5>2. CASE i = 5
          BY <2>1, <2>2, <3>1, <5>2
        <5>3. CASE i # 5
          <6>1. 5 > i
            BY <5>1, <5>3
          <6>2. QED
            BY <5>1, <6>1
        <5>4. QED
          BY <5>2, <5>3
      <4>2. QED
        BY <2>1, <4>1
    <3>2. CASE k # "rctrl"
      BY <2>1, <2>2, <3>2
    <3>3. QED
      BY <3>1, <3>2
  <2>6. QED
    BY <1>1, <2>1, <2>4, <2>5, WireGrows
<1>5. ~(key = "pause" /\ (Repeat(key) \/ Release(key)))
  BY <1>1 DEF Repeat, Release
<1>6. QED
  BY <1>2, <1>3, <1>4, <1>5

\* While no code is on its way the modifier bits and the caps bit say which keys are
\* down, for any number of keys pressed, repeated and released in any order.
THEOREM BitsAreKeys == Spec => []ModifiersTrackKeys
<1>1. KeyboardInit => ModeInv
  <2> SUFFICES ASSUME KeyboardInit PROVE ModeInv
    OBVIOUS
  <2>1. wire = <<>> /\ Len(wire) = 0 /\ wire \in Seq(Int) /\ e0 = 0 /\ held = {} /\ mode = {}
    BY DEF KeyboardInit
  <2>2. \A k : About(k, wire, e0) = {}
    BY <2>1 DEF About
  <2>3. QED
    BY <2>1, <2>2 DEF ModeInv, WireTypeOK, WireEnds, WireTellsKeys
<1>2. ModeInv /\ [Next]_vars => ModeInv'
  <2> SUFFICES ASSUME ModeInv, [Next]_vars PROVE ModeInv'
    OBVIOUS
  <2>1. ASSUME UNCHANGED <<mode, e0, wire, held>> PROVE ModeInv'
    BY <2>1 DEF ModeInv, WireTypeOK, WireEnds, WireTellsKeys
  <2>2. CASE ReadChar \/ Sleep \/ UNCHANGED vars
    BY <2>1, <2>2 DEF ReadChar, Sleep, vars, outside
  <2>3. QED
    BY <2>2, InterruptKeepsModeInv, KeysKeepModeInv DEF Next
<1>3. ModeInv => ModifiersTrackKeys
  <2> SUFFICES ASSUME ModeInv, wire = <<>>
               PROVE  /\ mode \cap Modifiers = held \cap Modifiers
                      /\ "capsdown" \in mode <=> "caps" \in held
                      /\ e0 = 0
    BY DEF ModifiersTrackKeys
  <2>1. e0 = 0 /\ Len(wire) = 0
    BY DEF ModeInv, WireEnds
  <2>2. ASSUME NEW k \in Tracked PROVE Bit(k) \in mode <=> k \in held
    <3>1. About(k, wire, e0) = {}
      BY <2>1 DEF About
    <3>2. QED
      BY <3>1 DEF ModeInv, WireTellsKeys
  <2>3. ASSUME NEW k \in Modifiers PROVE k \in mode <=> k \in held
    BY <2>2 DEF Tracked, Bit, Modifiers
  <2>4. "capsdown" \in mode <=> "caps" \in held
    BY <2>2 DEF Tracked, Bit
  <2>5. QED
    BY <2>1, <2>3, <2>4
<1>4. QED
  BY <1>1, <1>2, <1>3, PTL DEF Spec

================================================================================
