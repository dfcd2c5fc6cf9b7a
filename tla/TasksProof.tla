------------------------------- MODULE TasksProof -------------------------------
(****************************************************************************)
(* Proofs about module Tasks, for any number of slots, pids and tasks.      *)
(*                                                                          *)
(* A step of Tasks is a change of the table followed, in most cases, by     *)
(* schedule(), which works on the changed table.  The parts of the          *)
(* inductive invariant are therefore operators on a table t: a table is     *)
(* Sound before schedule(), Settled after it and in every state.            *)
(****************************************************************************)
EXTENDS Tasks, TLAPS, FiniteSetTheorems, WellFoundedInduction

----------------------------------------------------------------------------
\* Choices of a least or a greatest element.

\* Every set of natural numbers that has an element has a least one.
LEMMA LeastNat ==
    ASSUME NEW S \in SUBSET Nat, S # {}
    PROVE  \E x \in S : \A y \in S : x <= y
<1>1. PICK x \in S : \A y \in S : ~(<<y, x>> \in OpToRel(<, Nat))
    BY WFMin, NatLessThanWellFounded
<1>2. \A y \in S : ~(y < x)
    BY <1>1 DEF OpToRel
<1> QED  BY <1>2

\* A set of slots that has an element has a first one and a last one.
LEMMA FirstAndLastSlot ==
    ASSUME NEW S \in SUBSET Slot, S # {}
    PROVE  /\ \E x \in S : \A y \in S : x <= y
           /\ \E x \in S : \A y \in S : y <= x
<1> USE TasksAssumption
<1>1. \E x \in S : \A y \in S : x <= y
    BY LeastNat DEF Slot
<1>2. DEFINE T == {n \in Nat : (NR_TASKS - 1) - n \in S}
<1>3. T # {}
  <2>1. PICK s \in S : TRUE  OBVIOUS
  <2>2. (NR_TASKS - 1) - s \in T  BY <2>1 DEF Slot
  <2> QED  BY <2>2
<1>4. PICK n \in T : \A m \in T : n <= m
  <2> HIDE DEF T
  <2>1. T \in SUBSET Nat  BY DEF T
  <2> QED  BY <1>3, <2>1, LeastNat
<1>5. \A y \in S : (NR_TASKS - 1) - y \in T  BY DEF Slot
<1>6. \A y \in S : n <= (NR_TASKS - 1) - y  BY <1>4, <1>5
<1>7. \A y \in S : y <= (NR_TASKS - 1) - n  BY <1>6, <1>4 DEF Slot
<1>8. (NR_TASKS - 1) - n \in S  BY <1>4
<1> QED  BY <1>1, <1>7, <1>8

TypeT(t) == t \in [Slot -> TaskRecord \cup {NULL}]
Live(t) == {s \in Slot : t[s] # NULL}

\* An entry of the table that is not NULL is a task_struct.
LEMMA EntryType ==
    ASSUME NEW t, TypeT(t), NEW s \in Slot, t[s] # NULL
    PROVE  t[s] \in TaskRecord
BY DEF TypeT

\* find_empty_process ends: there are more pids than tasks, so one is unused, and
\* the one it finds is.
LEMMA NextPidUnused ==
    ASSUME TypeT(task), task[0] # NULL, task[0].pid = 0, last_pid \in Pid
    PROVE  /\ NextPid \in 1..MaxPid
           /\ \A s \in Slot : task[s] # NULL => task[s].pid # NextPid
<1> USE TasksAssumption
<1> DEFINE Used(n) == \E s \in Slot : task[s] # NULL /\ task[s].pid = n
           Distance(n) == (n - last_pid + MaxPid - 1) % MaxPid
           Unused == {n \in Pid \ {0} : ~Used(n)}
<1>1. Unused # {}
  <2> SUFFICES ASSUME Unused = {} PROVE FALSE  OBVIOUS
  <2>1. \A n \in 1..MaxPid : \E s \in Slot \ {0} : task[s].pid = n
    BY DEF Pid
  <2> DEFINE f == [n \in 1..MaxPid |-> CHOOSE s \in Slot \ {0} : task[s].pid = n]
  <2>2. \A n \in 1..MaxPid : f[n] \in Slot \ {0} /\ task[f[n]].pid = n
    BY <2>1
  <2>3. f \in [1..MaxPid -> Slot \ {0}]
    BY <2>2
  <2>4. IsFiniteSet(1..MaxPid) /\ Cardinality(1..MaxPid) = MaxPid
    BY FS_Interval
  <2>5. Slot \ {0} = 1..(NR_TASKS - 1)
    BY DEF Slot
  <2>6. IsFiniteSet(Slot \ {0}) /\ Cardinality(Slot \ {0}) = NR_TASKS - 1
    <3>1. 1 \in Int /\ NR_TASKS - 1 \in Int /\ ~(1 > NR_TASKS - 1)  OBVIOUS
    <3>2. /\ IsFiniteSet(1..(NR_TASKS - 1))
          /\ Cardinality(1..(NR_TASKS - 1)) = NR_TASKS - 1
      BY FS_Interval, <3>1
    <3> QED  BY <2>5, <3>2
  <2>7. \E x, y \in 1..MaxPid : x # y /\ f[x] = f[y]
    <3> HIDE DEF f
    <3>1. Cardinality(Slot \ {0}) < Cardinality(1..MaxPid)
      BY <2>4, <2>6
    <3> QED  BY <2>3, <2>4, <2>6, <3>1, FS_PigeonHole
  <2> QED  BY <2>2, <2>7
<1>2. \A n \in Unused : Distance(n) \in Nat
  <2> SUFFICES ASSUME NEW n \in Unused PROVE Distance(n) \in Nat  OBVIOUS
  <2>1. n - last_pid + MaxPid - 1 \in Int  BY DEF Pid
  <2>2. MaxPid \in Nat /\ MaxPid > 0  OBVIOUS
  <2>3. \A a \in Int, b \in Nat : b > 0 => a % b \in Nat  OBVIOUS
  <2> QED  BY <2>1, <2>2, <2>3
<1>3. \E n \in Unused : \A m \in Unused : Distance(n) <= Distance(m)
  <2> HIDE DEF Distance, Unused
  <2> DEFINE D == {Distance(n) : n \in Unused}
  <2>1. D \in SUBSET Nat /\ D # {}  BY <1>1, <1>2
  <2>2. PICK d \in D : \A e \in D : d <= e
    <3> HIDE DEF D
    <3> QED  BY <2>1, LeastNat
  <2> QED  BY <2>2
<1>4. NextPid = CHOOSE n \in Unused : \A m \in Unused : Distance(n) <= Distance(m)
  BY DEF NextPid
<1>5. NextPid \in Unused
  <2> HIDE DEF Distance, Unused
  <2> QED  BY <1>3, <1>4
<1> QED  BY <1>5 DEF Pid

\* schedule() finds the runnable task with the largest counter, or task 0.
LEMMA NextTaskRuns ==
    ASSUME NEW t, TypeT(t)
    PROVE  \/ NextTask(t) \in Runnable(t)
           \/ NextTask(t) = 0 /\ Runnable(t) = {}
<1> USE TasksAssumption
<1> SUFFICES ASSUME Runnable(t) # {} PROVE NextTask(t) \in Runnable(t)
    BY DEF NextTask
<1> DEFINE R == Runnable(t)
<1>1. R \in SUBSET Slot /\ \A r \in R : t[r].counter \in 0..(2 * MaxPriority)
    BY EntryType DEF Runnable, Others, TaskRecord
<1> DEFINE T == {n \in Nat : \E r \in R : t[r].counter = 2 * MaxPriority - n}
<1>2. T # {}
  <2>1. PICK r \in R : TRUE  OBVIOUS
  <2>2. 2 * MaxPriority - t[r].counter \in Nat  BY <1>1
  <2>3. t[r].counter = 2 * MaxPriority - (2 * MaxPriority - t[r].counter)  BY <1>1
  <2>4. 2 * MaxPriority - t[r].counter \in T  BY <2>2, <2>3
  <2> QED  BY <2>4
<1>3. PICK n \in T : \A m \in T : n <= m
  <2>1. T \in SUBSET Nat  OBVIOUS
  <2> HIDE DEF T
  <2> QED  BY <1>2, <2>1, LeastNat
<1> DEFINE S == {r \in R : t[r].counter = 2 * MaxPriority - n}
<1>4. S # {} /\ S \in SUBSET Slot  BY <1>1, <1>3
<1>5. \A r \in R : t[r].counter <= 2 * MaxPriority - n
  <2> SUFFICES ASSUME NEW r \in R PROVE t[r].counter <= 2 * MaxPriority - n  OBVIOUS
  <2>1. 2 * MaxPriority - t[r].counter \in T  BY <1>1
  <2> QED  BY <1>1, <1>3, <2>1
<1>6. PICK s \in S : \A r \in S : r <= s
  <2> HIDE DEF S
  <2> QED  BY <1>4, FirstAndLastSlot
<1>7. \A r \in R \ {s} : t[r].counter < t[s].counter
                           \/ (t[r].counter = t[s].counter /\ r < s)
  BY <1>1, <1>3, <1>5, <1>6 DEF Slot
<1>8. s \in R  BY <1>6
<1> HIDE DEF R, S, T
<1>9. \E x \in R : \A r \in R \ {x} : t[r].counter < t[x].counter
                           \/ (t[r].counter = t[x].counter /\ r < x)
  BY <1>7, <1>8
<1>10. NextTask(t) = CHOOSE x \in R : \A r \in R \ {x} : t[r].counter < t[x].counter
                           \/ (t[r].counter = t[x].counter /\ r < x)
  BY DEF NextTask, R
<1> QED  BY <1>9, <1>10 DEF R

----------------------------------------------------------------------------
\* The parts of the invariant, of a table t.

\* task 0 and init are there and have not exited, init has nothing that would end
\* it, and a task that has exited is in do_exit.
Roots(t) ==
    /\ t[0] # NULL /\ t[0].pid = 0 /\ t[0].state # "zombie" /\ t[0].at = "user"
    /\ t[1] # NULL /\ t[1].pid = 1 /\ t[1].state # "zombie" /\ t[1].father = 0
    /\ ~t[1].alarm /\ "SIGALRM" \notin t[1].signal
    /\ \A s \in Live(t) : t[s].state = "zombie" => t[s].at = "exit"

Unique(t) == \A s, r \in Live(t) : t[s].pid = t[r].pid => s = r

\* Only init is a child of task 0, and no father is a zombie.
Fathers(t) ==
    \A s \in Live(t) \ {0, 1} :
        /\ t[s].father >= 1
        /\ \E f \in Live(t) : t[f].pid = t[s].father /\ t[f].state # "zombie"

\* The log, apart from who has the processor, and that.
LogState(t) ==
    \A s \in Live(t) \ {0} :
        /\ t[s].log = "W" <=> t[s].state = "interruptible"
        /\ t[s].log = "E" <=> t[s].state = "zombie"
LogRuns(t, c) == \A s \in Live(t) \ {0} : t[s].log = "R" => s = c

\* z is a zombie that s waits for in waitpid.
Claims(t, s, z) ==
    /\ s \in Live(t) \ {0} /\ t[s].at = "waitpid"
    /\ z \in Live(t) \ {0} /\ t[z].state = "zombie"
    /\ t[z].father = t[s].pid
    /\ t[s].want \in {-1, t[z].pid}
\* Before schedule() a signal will do: the first loop acts on it.
Claimed(t) ==
    \A s, z \in Slot : Claims(t, s, z) => t[s].state = "running" \/ t[s].signal # {}
ClaimedNow(t) ==
    \A s, z \in Slot : Claims(t, s, z) => t[s].state = "running"

Kin(t) == TypeT(t) /\ Roots(t) /\ Unique(t) /\ Fathers(t)
Sound(t, c) == Kin(t) /\ LogState(t) /\ LogRuns(t, c) /\ Claimed(t)
Settled(t, c) == /\ Kin(t) /\ LogState(t) /\ LogRuns(t, c) /\ ClaimedNow(t)
                 /\ c \in Live(t) /\ (c = 0 \/ t[c].state = "running")

\* u is t up to what does not matter to Kin: nobody has come, gone, exited or
\* changed its name.
SameKin(t, u) ==
    /\ TypeT(u)
    /\ Live(u) = Live(t)
    /\ \A s \in Live(t) :
          /\ u[s].pid = t[s].pid /\ u[s].father = t[s].father
          /\ u[s].state = "zombie" => t[s].state = "zombie" /\ u[s].at = t[s].at
    /\ u[0].at = t[0].at
    /\ u[1].alarm => t[1].alarm
    /\ "SIGALRM" \in u[1].signal => "SIGALRM" \in t[1].signal

\* Such a change keeps the relations between tasks.
LEMMA SameKinKeeps ==
    ASSUME NEW t, NEW u, Kin(t), SameKin(t, u)
    PROVE  Kin(u)
<1> USE TasksAssumption
<1>1. 0 \in Live(t) /\ 1 \in Live(t)
    BY DEF Kin, Roots, Live, Slot
<1>2. Roots(u)
    BY <1>1 DEF Kin, Roots, SameKin, Live
<1>3. Unique(u)
    BY DEF Kin, Unique, SameKin
<1>4. Fathers(u)
    BY DEF Kin, Fathers, SameKin
<1> QED  BY <1>2, <1>3, <1>4 DEF Kin, SameKin

----------------------------------------------------------------------------
\* schedule()

\* The first loop: a task that it wakes was interruptible, and afterwards nobody
\* sleeps with a signal.
LEMMA SignalledSettles ==
    ASSUME NEW t, NEW c, Sound(t, c),
           NEW expired \in SUBSET {s \in Others(t) : t[s].alarm}
    PROVE  LET u == Signalled(t, expired)
           IN Kin(u) /\ LogState(u) /\ LogRuns(u, c) /\ ClaimedNow(u) /\ Live(u) = Live(t)
<1> USE TasksAssumption
<1> DEFINE u == Signalled(t, expired)
           v(s) == IF s \notin expired THEN t[s]
                   ELSE [t[s] EXCEPT !.signal = @ \cup {"SIGALRM"}, !.alarm = FALSE]
<1>0. TypeT(t) /\ 0 \in Slot /\ 1 \in Slot /\ t[0] # NULL /\ t[1] # NULL
    BY DEF Sound, Kin, Roots, Slot
<1>1. \A s \in Slot : s \notin Others(t) => u[s] = t[s]
    BY DEF Signalled
<1>2. ASSUME NEW s \in Others(t)
      PROVE  /\ v(s) \in TaskRecord
             /\ v(s).pid = t[s].pid /\ v(s).father = t[s].father /\ v(s).at = t[s].at
             /\ v(s).want = t[s].want /\ v(s).state = t[s].state /\ v(s).log = t[s].log
             /\ t[s].signal \subseteq v(s).signal
             /\ v(s).alarm => t[s].alarm
             /\ s \notin expired => v(s) = t[s]
  <2>1. t[s] \in TaskRecord  BY <1>0, EntryType DEF Others
  <2> QED  BY <2>1 DEF TaskRecord
<1>3. ASSUME NEW s \in Others(t)
      PROVE  u[s] = IF v(s).signal # {} /\ v(s).state = "interruptible"
                    THEN [v(s) EXCEPT !.state = "running", !.log = "J"] ELSE v(s)
  <2>1. v(s) \in TaskRecord  BY <1>2
  <2>2. Logged([v(s) EXCEPT !.state = "running"], "J")
          = [v(s) EXCEPT !.state = "running", !.log = "J"]
    BY <2>1 DEF Logged, TaskRecord
  <2>3. s \in Slot  BY DEF Others
  <2> HIDE DEF v
  <2>4. u[s] = IF v(s).signal # {} /\ v(s).state = "interruptible"
                    THEN Logged([v(s) EXCEPT !.state = "running"], "J") ELSE v(s)
    BY <2>3 DEF Signalled, v
  <2> QED  BY <2>2, <2>4
<1> HIDE DEF u, v
<1>4. ASSUME NEW s \in Others(t)
      PROVE  /\ u[s] \in TaskRecord
             /\ u[s].pid = t[s].pid /\ u[s].father = t[s].father /\ u[s].at = t[s].at
             /\ u[s].want = t[s].want
             /\ \/ u[s].state = t[s].state /\ u[s].log = t[s].log
                \/ t[s].state = "interruptible" /\ u[s].state = "running" /\ u[s].log = "J"
             /\ u[s].state = "interruptible" => t[s].signal = {}
             /\ u[s].alarm => t[s].alarm
             /\ s \notin expired => u[s].signal = t[s].signal
  <2> DEFINE w == [v(s) EXCEPT !.state = "running", !.log = "J"]
  <2>1. v(s) \in TaskRecord  BY <1>2
  <2>2. /\ w \in TaskRecord
        /\ w.pid = v(s).pid /\ w.father = v(s).father /\ w.at = v(s).at
        /\ w.want = v(s).want /\ w.alarm = v(s).alarm /\ w.signal = v(s).signal
        /\ w.state = "running" /\ w.log = "J"
    BY <2>1 DEF TaskRecord
  <2>3. u[s] = IF v(s).signal # {} /\ v(s).state = "interruptible" THEN w ELSE v(s)
    BY <1>3
  <2> HIDE DEF w
  <2> QED  BY <1>2, <2>2, <2>3
<1>5. TypeT(u)
  <2>1. \A s \in Slot : u[s] \in TaskRecord \cup {NULL}
    BY <1>0, <1>1, <1>4 DEF TypeT
  <2>2. u = [s \in Slot |-> u[s]]  BY DEF u, Signalled
  <2> QED  BY <2>1, <2>2 DEF TypeT
<1>6. Live(u) = Live(t)
    BY <1>1, <1>4 DEF Live, Others
<1>7. \A s \in Live(t) \ {0} : s \in Others(t)
    BY DEF Live, Others
<1>8. SameKin(t, u)
  <2>1. 0 \notin Others(t) /\ 1 \in Others(t) /\ 1 \notin expired
    BY <1>0 DEF Others, Sound, Kin, Roots
  <2> QED  BY <1>0, <1>1, <1>4, <1>5, <1>6, <1>7, <2>1 DEF SameKin
<1>9. Kin(u)
    BY <1>8, SameKinKeeps DEF Sound
<1>10. LogState(u) /\ LogRuns(u, c)
    BY <1>4, <1>6, <1>7 DEF Sound, LogState, LogRuns
<1>11. ClaimedNow(u)
  <2> SUFFICES ASSUME NEW s \in Slot, NEW z \in Slot, Claims(u, s, z)
               PROVE  u[s].state = "running"
    BY DEF ClaimedNow
  <2>1. s \in Others(t) /\ z \in Others(t)  BY <1>6, <1>7 DEF Claims
  <2>2. Claims(t, s, z)  BY <1>4, <1>6, <2>1 DEF Claims
  <2>3. t[s].state = "running" \/ t[s].signal # {}  BY <2>2 DEF Sound, Claimed
  <2>4. u[s].state # "zombie"
    BY <1>6, <1>9 DEF Claims, Kin, Roots
  <2> QED  BY <1>4, <2>1, <2>3, <2>4 DEF TaskRecord
<1> QED  BY <1>6, <1>9, <1>10, <1>11 DEF u

\* The second loop changes counters, within their bound, and nothing else.
LEMMA RefilledCounters ==
    ASSUME NEW t, TypeT(t)
    PROVE  LET u == Refilled(t)
           IN /\ TypeT(u) /\ Live(u) = Live(t) /\ u[0] = t[0]
              /\ \A s \in Live(t) :
                    /\ u[s].pid = t[s].pid /\ u[s].father = t[s].father
                    /\ u[s].at = t[s].at /\ u[s].want = t[s].want /\ u[s].tmp = t[s].tmp
                    /\ u[s].state = t[s].state /\ u[s].log = t[s].log
                    /\ u[s].signal = t[s].signal /\ u[s].alarm = t[s].alarm
<1> USE TasksAssumption
<1> DEFINE u == Refilled(t)
<1>1. CASE ~(Runnable(t) # {} /\ \A s \in Runnable(t) : t[s].counter = 0)
    BY <1>1 DEF Refilled
<1>2. CASE Runnable(t) # {} /\ \A s \in Runnable(t) : t[s].counter = 0
  <2>1. u = [s \in Slot |-> IF s \notin Others(t) THEN t[s]
                             ELSE [t[s] EXCEPT !.counter = (@ \div 2) + t[s].priority]]
    BY <1>2 DEF Refilled
  <2> HIDE DEF u
  <2>2. \A s \in Slot : s \notin Others(t) => u[s] = t[s]
    BY <2>1
  <2>3. ASSUME NEW s \in Others(t)
        PROVE  /\ u[s] \in TaskRecord
               /\ u[s].pid = t[s].pid /\ u[s].father = t[s].father
               /\ u[s].at = t[s].at /\ u[s].want = t[s].want /\ u[s].tmp = t[s].tmp
               /\ u[s].state = t[s].state /\ u[s].log = t[s].log
               /\ u[s].signal = t[s].signal /\ u[s].alarm = t[s].alarm
    <3>1. t[s] \in TaskRecord /\ s \in Slot  BY EntryType DEF Others
    <3>2. t[s].counter \in 0..(2 * MaxPriority) /\ t[s].priority \in 1..MaxPriority
      BY <3>1 DEF TaskRecord
    <3> DEFINE n == (t[s].counter \div 2) + t[s].priority
               w == [t[s] EXCEPT !.counter = n]
    <3>3. n \in 0..(2 * MaxPriority)
      <4>1. t[s].counter \div 2 \in 0..MaxPriority  BY <3>2
      <4> QED  BY <3>2, <4>1
    <3>4. u[s] = w  BY <2>1, <3>1
    <3> HIDE DEF n
    <3>5. /\ w \in TaskRecord
          /\ w.pid = t[s].pid /\ w.father = t[s].father
          /\ w.at = t[s].at /\ w.want = t[s].want /\ w.tmp = t[s].tmp
          /\ w.state = t[s].state /\ w.log = t[s].log
          /\ w.signal = t[s].signal /\ w.alarm = t[s].alarm
      BY <3>1, <3>3 DEF TaskRecord
    <3> HIDE DEF w
    <3> QED  BY <3>4, <3>5
  <2>4. TypeT(u)
    <3>1. \A s \in Slot : u[s] \in TaskRecord \cup {NULL}
      BY <2>2, <2>3 DEF TypeT
    <3>2. u = [s \in Slot |-> u[s]]  BY <2>1
    <3> QED  BY <3>1, <3>2 DEF TypeT
  <2>5. Live(u) = Live(t) /\ 0 \notin Others(t) /\ 0 \in Slot
    BY <2>2, <2>3 DEF Live, Others, Slot
  <2> QED  BY <2>2, <2>3, <2>4, <2>5 DEF u, Live, Others
<1> QED  BY <1>1, <1>2

\* Such a change keeps everything.
LEMMA RefilledKeeps ==
    ASSUME NEW t, NEW c, Kin(t), LogState(t), LogRuns(t, c), ClaimedNow(t)
    PROVE  LET u == Refilled(t)
           IN Kin(u) /\ LogState(u) /\ LogRuns(u, c) /\ ClaimedNow(u) /\ Live(u) = Live(t)
<1> USE TasksAssumption
<1> DEFINE u == Refilled(t)
<1>1. /\ TypeT(u) /\ Live(u) = Live(t) /\ u[0] = t[0]
      /\ \A s \in Live(t) :
                    /\ u[s].pid = t[s].pid /\ u[s].father = t[s].father
                    /\ u[s].at = t[s].at /\ u[s].want = t[s].want
                    /\ u[s].state = t[s].state /\ u[s].log = t[s].log
                    /\ u[s].signal = t[s].signal /\ u[s].alarm = t[s].alarm
    BY RefilledCounters DEF Kin
<1> HIDE DEF u
<1>2. 1 \in Live(t)
    BY DEF Kin, Roots, Live, Slot
<1>3. Kin(u)
    BY <1>1, <1>2, SameKinKeeps DEF SameKin
<1>4. LogState(u) /\ LogRuns(u, c)
    BY <1>1 DEF LogState, LogRuns
<1>5. ClaimedNow(u)
    BY <1>1 DEF ClaimedNow, Claims
<1> QED  BY <1>1, <1>3, <1>4, <1>5 DEF u

\* schedule() turns a sound table into a settled one.
LEMMA ScheduleSettles ==
    ASSUME NEW t, Sound(t, current), current \in Live(t), Schedule(t)
    PROVE  Settled(task', current') /\ current' \in Slot
<1> USE TasksAssumption
<1>1. PICK expired \in SUBSET {s \in Others(t) : t[s].alarm} :
        LET u == Refilled(Signalled(t, expired))
            next == NextTask(u)
        IN /\ current' = next
           /\ task' = IF next = current THEN u
                      ELSE [u EXCEPT ![current] = IF @ # NULL /\ @.state = "running"
                                                  THEN Logged(@, "J") ELSE @,
                                     ![next] = Logged(@, "R")]
    BY DEF Schedule
<1> DEFINE w == Signalled(t, expired)
           u == Refilled(w)
           next == NextTask(u)
           c == current
<1>2. Kin(w) /\ LogState(w) /\ LogRuns(w, c) /\ ClaimedNow(w) /\ Live(w) = Live(t)
    BY SignalledSettles
<1> HIDE DEF w
<1>3. Kin(u) /\ LogState(u) /\ LogRuns(u, c) /\ ClaimedNow(u) /\ Live(u) = Live(t)
    BY <1>2, RefilledKeeps
<1>4. /\ current' = next
      /\ task' = IF next = c THEN u
                 ELSE [u EXCEPT ![c] = IF u[c] # NULL /\ u[c].state = "running"
                                       THEN Logged(u[c], "J") ELSE u[c],
                                ![next] = Logged(@, "R")]
    BY <1>1 DEF w
<1> HIDE DEF u
<1>5. /\ next \in Slot /\ next \in Live(u)
      /\ next # 0 => u[next].state = "running"
  <2>1. TypeT(u) /\ u[0] # NULL /\ 0 \in Slot  BY <1>3 DEF Kin, Roots, Slot
  <2>2. next \in Runnable(u) \/ next = 0  BY <2>1, NextTaskRuns
  <2> QED  BY <2>1, <2>2 DEF Runnable, Others, Live
<1> HIDE DEF next
<1>6. CASE next = c
    BY <1>3, <1>4, <1>5, <1>6 DEF Settled
<1>7. CASE next # c
  <2>0. c \in Slot /\ u[c] # NULL /\ u[next] # NULL  BY <1>3, <1>5 DEF Live
  <2> DEFINE a == IF u[c].state = "running" THEN [u[c] EXCEPT !.log = "J"] ELSE u[c]
             b == [u[next] EXCEPT !.log = "R"]
             v == task'
  <2>1. v = [u EXCEPT ![c] = a, ![next] = b]
    BY <1>4, <1>7, <2>0 DEF Logged
  <2>2. u \in [Slot -> TaskRecord \cup {NULL}]  BY <1>3 DEF Kin, TypeT
  <2>3. u[c] \in TaskRecord /\ u[next] \in TaskRecord  BY <2>0, <2>2, <1>5
  <2>4. /\ a \in TaskRecord /\ a.pid = u[c].pid /\ a.father = u[c].father /\ a.at = u[c].at
        /\ a.want = u[c].want /\ a.state = u[c].state /\ a.signal = u[c].signal
        /\ a.alarm = u[c].alarm
        /\ a.log = IF u[c].state = "running" THEN "J" ELSE u[c].log
    BY <2>3 DEF TaskRecord
  <2>5. /\ b \in TaskRecord /\ b.pid = u[next].pid /\ b.father = u[next].father
        /\ b.at = u[next].at /\ b.want = u[next].want /\ b.state = u[next].state
        /\ b.signal = u[next].signal /\ b.alarm = u[next].alarm /\ b.log = "R"
    BY <2>3 DEF TaskRecord
  <2> HIDE DEF a, b, v
  <2>6. /\ v[c] = a /\ v[next] = b /\ \A s \in Slot \ {c, next} : v[s] = u[s]
        /\ TypeT(v)
    BY <1>5, <1>7, <2>0, <2>1, <2>2, <2>4, <2>5 DEF TypeT
  <2>7. Live(v) = Live(u)
    BY <2>0, <2>4, <2>5, <2>6, <1>5 DEF Live
  <2>8. \A s \in Live(u) :
           /\ v[s].pid = u[s].pid /\ v[s].father = u[s].father
           /\ v[s].at = u[s].at /\ v[s].want = u[s].want
           /\ v[s].state = u[s].state /\ v[s].signal = u[s].signal
           /\ v[s].alarm = u[s].alarm
    BY <2>4, <2>5, <2>6 DEF Live
  <2>9. Kin(v)
    <3>1. 0 \in Live(u) /\ 1 \in Live(u)  BY <1>3 DEF Kin, Roots, Live, Slot
    <3>2. SameKin(u, v)  BY <2>6, <2>7, <2>8, <3>1 DEF SameKin
    <3> QED  BY <1>3, <3>2, SameKinKeeps
  <2>10. ClaimedNow(v)
    BY <1>3, <2>7, <2>8 DEF ClaimedNow, Claims
  <2>11. LogState(v)
    <3> SUFFICES ASSUME NEW s \in Live(u) \ {0}
                 PROVE  /\ v[s].log = "W" <=> v[s].state = "interruptible"
                        /\ v[s].log = "E" <=> v[s].state = "zombie"
      BY <2>7 DEF LogState
    <3>1. /\ u[s].log = "W" <=> u[s].state = "interruptible"
          /\ u[s].log = "E" <=> u[s].state = "zombie"
      BY <1>3 DEF LogState
    <3>2. s \in Slot  BY DEF Live
    <3>3. CASE s = c  BY <2>4, <2>6, <3>1, <3>3
    <3>4. CASE s = next  BY <1>5, <2>5, <2>6, <3>4
    <3>5. CASE s \notin {c, next}  BY <2>6, <3>1, <3>2, <3>5
    <3> QED  BY <3>3, <3>4, <3>5
  <2>12. LogRuns(v, next)
    <3> SUFFICES ASSUME NEW s \in Live(u) \ {0}, v[s].log = "R", s # next
                 PROVE  FALSE
      BY <2>7 DEF LogRuns
    <3>1. s \in Slot /\ u[s] \in TaskRecord  BY <2>2 DEF Live
    <3>2. s # c => FALSE  BY <2>6, <3>1, <1>3 DEF LogRuns
    <3>3. u[c].state # "running" /\ u[c].log = "R"  BY <2>4, <2>6, <3>2
    <3>4. u[c].state \in {"interruptible", "zombie"}  BY <3>1, <3>2, <3>3 DEF TaskRecord
    <3> QED  BY <1>3, <3>2, <3>3, <3>4 DEF LogState
  <2> QED  BY <1>4, <1>5, <2>7, <2>8, <2>9, <2>10, <2>11, <2>12 DEF Settled, v
<1> QED  BY <1>6, <1>7

----------------------------------------------------------------------------
\* What a task does to the table before it calls schedule() or returns.

\* A settled table is sound.
LEMMA SettledIsSound ==
    ASSUME NEW t, NEW c, Settled(t, c)
    PROVE  Sound(t, c)
BY DEF Settled, Sound, ClaimedNow, Claimed

\* The running task changes its own entry to r; it does not exit, logs its state,
\* and goes to sleep in waitpid only when there is nothing to claim.
OwnChange(t, c, r) ==
    /\ c \in Live(t) \ {0}
    /\ r \in TaskRecord /\ r.pid = t[c].pid /\ r.father = t[c].father
    /\ r.state # "zombie" /\ r.log # "E"
    /\ r.log = "W" <=> r.state = "interruptible"
    /\ c = 1 => ~r.alarm /\ "SIGALRM" \notin r.signal
    /\ r.at = "waitpid" /\ r.state # "running"
          => \A z \in Slot : ~Claims([t EXCEPT ![c] = r], c, z)

\* The table stays sound, and settled when the task goes on running.
LEMMA OwnChangeSound ==
    ASSUME NEW t, NEW c, Settled(t, c), NEW r, OwnChange(t, c, r)
    PROVE  LET v == [t EXCEPT ![c] = r]
           IN /\ Sound(v, c) /\ c \in Live(v)
              /\ r.state = "running" => Settled(v, c)
<1> USE TasksAssumption
<1> DEFINE v == [t EXCEPT ![c] = r]
<1>0. /\ c \in Slot /\ c # 0 /\ t[c] # NULL /\ t \in [Slot -> TaskRecord \cup {NULL}]
      /\ r \in TaskRecord /\ r # NULL
    BY DEF OwnChange, Settled, Kin, TypeT, Live
<1>1. v[c] = r /\ (\A s \in Slot \ {c} : v[s] = t[s]) /\ TypeT(v)
    BY <1>0 DEF TypeT
<1>2. \A z \in Slot : r.at = "waitpid" /\ r.state # "running" => ~Claims(v, c, z)
    BY DEF OwnChange
<1> HIDE DEF v
<1>3. Live(v) = Live(t)
    BY <1>0, <1>1 DEF Live
<1>4. 0 \in Slot /\ 1 \in Slot /\ 0 \in Live(t) /\ 1 \in Live(t)
    BY DEF Settled, Kin, Roots, Live, Slot
<1>5. Kin(v)
  <2>1. SameKin(t, v)
    BY <1>0, <1>1, <1>3, <1>4 DEF SameKin, OwnChange, Live
  <2> QED  BY <2>1, SameKinKeeps DEF Settled
<1>6. LogState(v) /\ LogRuns(v, c)
    BY <1>0, <1>1, <1>3 DEF Settled, LogState, LogRuns, OwnChange, Live
<1>7. ClaimedNow(v)
  <2> SUFFICES ASSUME NEW s \in Slot, NEW z \in Slot, Claims(v, s, z)
               PROVE  v[s].state = "running"
    BY DEF ClaimedNow
  <2>1. z # c  BY <1>1 DEF Claims, OwnChange
  <2>2. CASE s = c  BY <1>1, <1>2, <2>2 DEF Claims
  <2>3. CASE s # c
    <3>1. Claims(t, s, z)  BY <1>1, <1>3, <2>1, <2>3 DEF Claims
    <3> QED  BY <1>1, <2>3, <3>1 DEF Settled, ClaimedNow
  <2> QED  BY <2>2, <2>3
<1>8. Claimed(v)
    BY <1>7 DEF Claimed, ClaimedNow
<1> QED  BY <1>0, <1>1, <1>3, <1>5, <1>6, <1>7, <1>8 DEF Sound, Settled, OwnChange, v

\* A wake-up through a pointer, stale or not, keeps a settled table settled.
LEMMA SetRunningSettled ==
    ASSUME NEW t, NEW c, Settled(t, c), NEW p \in Slot \cup {NULL}
    PROVE  LET v == SetRunning(t, p)
           IN /\ Settled(v, c) /\ Live(v) = Live(t)
              /\ \A s \in Slot \ {p} : v[s] = t[s]
              /\ p \in Live(t) => /\ v[p].pid = t[p].pid /\ v[p].at = t[p].at
                                   /\ v[p].signal = t[p].signal /\ v[p].alarm = t[p].alarm
                                   /\ v[p].father = t[p].father
<1> USE TasksAssumption
<1> DEFINE v == SetRunning(t, p)
<1>1. CASE p = NULL \/ t[p] = NULL
  <2>1. v = t  BY <1>1 DEF SetRunning
  <2> QED  BY <1>1, <2>1 DEF Live
<1>2. CASE p # NULL /\ t[p] # NULL
  <2> DEFINE r == [t[p] EXCEPT !.state = "running", !.log = "J"]
  <2>0. /\ p \in Slot /\ t \in [Slot -> TaskRecord \cup {NULL}] /\ t[p] \in TaskRecord
        /\ 0 \in Slot /\ 1 \in Slot /\ 0 \in Live(t) /\ 1 \in Live(t)
    BY <1>2 DEF Settled, Kin, TypeT, Roots, Live, Slot
  <2>1. /\ r \in TaskRecord /\ r.pid = t[p].pid /\ r.father = t[p].father /\ r.at = t[p].at
        /\ r.want = t[p].want /\ r.signal = t[p].signal /\ r.alarm = t[p].alarm
        /\ r.state = "running" /\ r.log = "J"
    BY <2>0 DEF TaskRecord
  <2>2. v = [t EXCEPT ![p] = r]
    BY <1>2 DEF SetRunning, Logged
  <2> HIDE DEF r, v
  <2>3. v[p] = r /\ (\A s \in Slot \ {p} : v[s] = t[s]) /\ TypeT(v) /\ Live(v) = Live(t)
    BY <1>2, <2>0, <2>1, <2>2 DEF TypeT, Live
  <2>4. SameKin(t, v)
    BY <2>0, <2>1, <2>3 DEF SameKin, Live
  <2>5. Kin(v)
    BY <2>4, SameKinKeeps DEF Settled
  <2>6. LogState(v) /\ LogRuns(v, c)
    BY <2>1, <2>3 DEF Settled, LogState, LogRuns, Live
  <2>7. ClaimedNow(v)
    <3> SUFFICES ASSUME NEW s \in Slot, NEW z \in Slot, Claims(v, s, z)
                 PROVE  v[s].state = "running"
      BY DEF ClaimedNow
    <3>1. z # p  BY <2>1, <2>3 DEF Claims
    <3>2. Claims(t, s, z)  BY <2>1, <2>3, <3>1 DEF Claims
    <3> QED  BY <2>1, <2>3, <3>2 DEF Settled, ClaimedNow
  <2>8. c \in Live(v) /\ (c = 0 \/ v[c].state = "running")
    BY <2>1, <2>3 DEF Settled, Live
  <2> QED  BY <2>1, <2>3, <2>5, <2>6, <2>7, <2>8 DEF Settled, v
<1> QED  BY <1>1, <1>2

\* What do_exit's first loop leaves: the children of c have init as their father,
\* and when a zombie is among them init has SIGCHLD.
LEMMA ReparentedFacts ==
    ASSUME NEW t, Kin(t), NEW c \in Live(t) \ {0, 1}
    PROVE  LET u == Reparented(t, c)
               mine == {s \in Live(t) : t[s].father = t[c].pid}
           IN /\ TypeT(u) /\ Live(u) = Live(t) /\ 1 \notin mine
              /\ \A s \in Live(t) :
                    /\ u[s].pid = t[s].pid /\ u[s].state = t[s].state
                    /\ u[s].at = t[s].at /\ u[s].want = t[s].want /\ u[s].tmp = t[s].tmp
                    /\ u[s].log = t[s].log /\ u[s].alarm = t[s].alarm
                    /\ u[s].father = IF s \in mine THEN 1 ELSE t[s].father
                    /\ s # 1 => u[s].signal = t[s].signal
              /\ "SIGALRM" \notin u[1].signal
              /\ (\E s \in mine : t[s].state = "zombie") => "SIGCHLD" \in u[1].signal
<1> USE TasksAssumption
<1> DEFINE u == Reparented(t, c)
           mine == {s \in Live(t) : t[s].father = t[c].pid}
           x == [s \in Slot |-> IF s \in mine THEN [t[s] EXCEPT !.father = 1] ELSE t[s]]
<1>0. /\ t \in [Slot -> TaskRecord \cup {NULL}] /\ 0 \in Slot /\ 1 \in Slot
      /\ 0 \in Live(t) /\ 1 \in Live(t) /\ t[1] \in TaskRecord /\ mine \subseteq Slot
    BY DEF Kin, TypeT, Roots, Live, Slot
<1>1. mine = {s \in Slot : t[s] # NULL /\ t[s].father = t[c].pid}
    BY DEF Live
<1>2. u = IF \E s \in mine : t[s].state = "zombie"
          THEN [x EXCEPT ![1].signal = @ \cup {"SIGCHLD"}] ELSE x
    BY <1>1 DEF Reparented
<1>3. 1 \notin mine
  <2>1. t[c].pid # 0  BY <1>0 DEF Kin, Roots, Unique
  <2> QED  BY <2>1 DEF Kin, Roots
<1>4. \A s \in Slot \ mine : x[s] = t[s]
    OBVIOUS
<1>5. ASSUME NEW s \in mine
      PROVE  /\ x[s] \in TaskRecord
             /\ x[s].pid = t[s].pid /\ x[s].state = t[s].state
             /\ x[s].at = t[s].at /\ x[s].want = t[s].want /\ x[s].tmp = t[s].tmp
             /\ x[s].log = t[s].log /\ x[s].alarm = t[s].alarm
             /\ x[s].father = 1 /\ x[s].signal = t[s].signal
  <2> DEFINE r == [t[s] EXCEPT !.father = 1]
  <2>1. s \in Slot /\ t[s] \in TaskRecord  BY <1>0 DEF Live
  <2>2. /\ r \in TaskRecord
        /\ r.pid = t[s].pid /\ r.state = t[s].state /\ r.at = t[s].at /\ r.want = t[s].want
        /\ r.tmp = t[s].tmp
        /\ r.log = t[s].log /\ r.alarm = t[s].alarm /\ r.father = 1 /\ r.signal = t[s].signal
    BY <2>1 DEF TaskRecord
  <2>3. x[s] = r  BY <2>1
  <2> HIDE DEF r, x
  <2> QED  BY <2>2, <2>3
<1>6. x = [s \in Slot |-> x[s]]
    OBVIOUS
<1> HIDE DEF x, mine
<1>7. x \in [Slot -> TaskRecord \cup {NULL}]
  <2>1. \A s \in Slot : x[s] \in TaskRecord \cup {NULL}  BY <1>0, <1>4, <1>5
  <2> QED  BY <1>6, <2>1
<1>8. Live(x) = Live(t)
    BY <1>0, <1>4, <1>5 DEF Live, mine
<1>9. CASE ~\E s \in mine : t[s].state = "zombie"
  <2>1. u = x  BY <1>2, <1>9
  <2>2. "SIGALRM" \notin x[1].signal  BY <1>0, <1>3, <1>4 DEF Kin, Roots
  <2> HIDE DEF u
  <2> QED  BY <1>3, <1>4, <1>5, <1>7, <1>8, <1>9, <2>1, <2>2 DEF u, mine, TypeT, Live
<1>10. CASE \E s \in mine : t[s].state = "zombie"
  <2> DEFINE r == [t[1] EXCEPT !.signal = @ \cup {"SIGCHLD"}]
  <2>1. /\ r \in TaskRecord
        /\ r.pid = t[1].pid /\ r.state = t[1].state /\ r.at = t[1].at /\ r.want = t[1].want
        /\ r.tmp = t[1].tmp
        /\ r.log = t[1].log /\ r.alarm = t[1].alarm /\ r.father = t[1].father
        /\ r.signal = t[1].signal \cup {"SIGCHLD"}
    BY <1>0 DEF TaskRecord
  <2>2. u = [x EXCEPT ![1] = r]
    <3>1. x[1] = t[1]  BY <1>0, <1>3, <1>4
    <3>2. u = [x EXCEPT ![1] = [x[1] EXCEPT !.signal = @ \cup {"SIGCHLD"}]]
      BY <1>2, <1>10
    <3> QED  BY <3>1, <3>2
  <2> HIDE DEF r, u
  <2>3. u[1] = r /\ (\A s \in Slot \ {1} : u[s] = x[s]) /\ TypeT(u) /\ Live(u) = Live(t)
    BY <1>0, <1>7, <1>8, <2>1, <2>2 DEF TypeT, Live
  <2>4. "SIGALRM" \notin u[1].signal /\ "SIGCHLD" \in u[1].signal
    BY <2>1, <2>3 DEF Kin, Roots
  <2>5. \A s \in Live(t) :
                    /\ u[s].pid = t[s].pid /\ u[s].state = t[s].state
                    /\ u[s].at = t[s].at /\ u[s].want = t[s].want /\ u[s].tmp = t[s].tmp
                    /\ u[s].log = t[s].log /\ u[s].alarm = t[s].alarm
                    /\ u[s].father = IF s \in mine THEN 1 ELSE t[s].father
                    /\ s # 1 => u[s].signal = t[s].signal
    <3> SUFFICES ASSUME NEW s \in Live(t)
                 PROVE /\ u[s].pid = t[s].pid /\ u[s].state = t[s].state
                       /\ u[s].at = t[s].at /\ u[s].want = t[s].want /\ u[s].tmp = t[s].tmp
                       /\ u[s].log = t[s].log /\ u[s].alarm = t[s].alarm
                       /\ u[s].father = IF s \in mine THEN 1 ELSE t[s].father
                       /\ s # 1 => u[s].signal = t[s].signal
      OBVIOUS
    <3>1. s \in Slot  BY DEF Live
    <3>2. CASE s = 1  BY <1>3, <2>1, <2>3, <3>2
    <3>3. CASE s # 1 /\ s \in mine  BY <1>5, <2>3, <3>1, <3>3
    <3>4. CASE s # 1 /\ s \notin mine  BY <1>4, <2>3, <3>1, <3>4
    <3> QED  BY <3>2, <3>3, <3>4
  <2> QED  BY <1>3, <2>3, <2>4, <2>5 DEF u, mine
<1> QED  BY <1>9, <1>10

\* do_exit: the children go to init, the father is told, and both find out when
\* they wait for what is a zombie now.
LEMMA DoExitSettles ==
    ASSUME NEW t, Settled(t, current), current \notin {0, 1}, DoExit(t, current)
    PROVE  Settled(task', current') /\ current' \in Slot
<1> USE TasksAssumption
<1> DEFINE c == current
           u == Reparented(t, c)
           mine == {s \in Live(t) : t[s].father = t[c].pid}
           z == [u[c] EXCEPT !.state = "zombie", !.at = "exit", !.alarm = FALSE,
                             !.signal = {}, !.log = "E"]
           w == [u EXCEPT ![c] = z]
           x == FatherToldOf(w, c)
<1>0. /\ Kin(t) /\ c \in Live(t) \ {0, 1} /\ 0 \in Live(t) /\ 1 \in Live(t)
      /\ Live(t) \subseteq Slot
    BY DEF Settled, Kin, Roots, Live, Slot
<1>1. /\ TypeT(u) /\ Live(u) = Live(t) /\ 1 \notin mine
      /\ \A s \in Live(t) :
            /\ u[s].pid = t[s].pid /\ u[s].state = t[s].state
            /\ u[s].at = t[s].at /\ u[s].want = t[s].want
            /\ u[s].log = t[s].log /\ u[s].alarm = t[s].alarm
            /\ u[s].father = IF s \in mine THEN 1 ELSE t[s].father
            /\ s # 1 => u[s].signal = t[s].signal
      /\ "SIGALRM" \notin u[1].signal
      /\ (\E s \in mine : t[s].state = "zombie") => "SIGCHLD" \in u[1].signal
    BY <1>0, ReparentedFacts
<1>2. u[c] \in TaskRecord
    BY <1>0, <1>1 DEF TypeT, Live
<1>3. Schedule(x)
  <2>1. Logged([u[c] EXCEPT !.state = "zombie", !.at = "exit", !.alarm = FALSE,
                            !.signal = {}], "E") = z
    BY <1>2 DEF Logged, TaskRecord
  <2> HIDE DEF z
  <2> QED  BY <2>1 DEF DoExit
<1> HIDE DEF u
<1>4. /\ z \in TaskRecord /\ z.pid = u[c].pid /\ z.father = u[c].father
      /\ z.state = "zombie" /\ z.at = "exit" /\ z.log = "E" /\ ~z.alarm
    BY <1>2 DEF TaskRecord
<1> HIDE DEF z
<1>5. w[c] = z /\ (\A s \in Slot \ {c} : w[s] = u[s]) /\ TypeT(w) /\ Live(w) = Live(t)
    BY <1>0, <1>1, <1>4 DEF TypeT, Live
<1> HIDE DEF w
<1> DEFINE fathers == {s \in Slot : w[s] # NULL /\ w[s].pid = w[c].father}
           f == CHOOSE s \in fathers : \A r \in fathers : s <= r
<1>6. \A s \in Live(t) : w[s].pid = t[s].pid /\ w[s].father = u[s].father
    BY <1>0, <1>1, <1>4, <1>5
<1>7. w[c].father >= 1 /\ w[c].father # t[c].pid /\ fathers # {}
  <2>1. t[c].pid # 1  BY <1>0 DEF Kin, Roots, Unique
  <2>2. CASE c \in mine
    <3>1. w[c].father = 1  BY <1>0, <1>1, <1>6, <2>2
    <3>2. 1 \in fathers  BY <1>0, <1>5, <1>6, <3>1 DEF Kin, Roots, Live
    <3> QED  BY <2>1, <3>1, <3>2
  <2>3. CASE c \notin mine
    <3>1. w[c].father = t[c].father  BY <1>0, <1>1, <1>6, <2>3
    <3>2. PICK g \in Live(t) : t[g].pid = t[c].father  BY <1>0 DEF Kin, Fathers
    <3>3. g \in fathers  BY <1>0, <1>5, <1>6, <3>1, <3>2 DEF Live
    <3> QED  BY <1>0, <2>3, <3>1, <3>3 DEF Kin, Fathers
  <2> QED  BY <2>2, <2>3
<1>8. f \in fathers /\ f \in Live(t) /\ f # c /\ f # 0
  <2>1. f \in fathers
    <3> HIDE DEF fathers
    <3>1. fathers \in SUBSET Slot  BY DEF fathers
    <3> QED  BY <1>7, <3>1, FirstAndLastSlot
  <2>2. f \in Live(t)  BY <1>5, <2>1 DEF Live
  <2>3. t[f].pid = w[c].father  BY <1>6, <2>1, <2>2
  <2> HIDE DEF f, fathers
  <2>4. f # c  BY <1>7, <2>3
  <2>5. f # 0  BY <1>0, <1>7, <2>3 DEF Kin, Roots
  <2> QED  BY <2>1, <2>2, <2>4, <2>5
<1>9. x = [w EXCEPT ![f] = [w[f] EXCEPT !.signal = @ \cup {"SIGCHLD"}]]
  <2>1. ~(w[c].father = 0 \/ fathers = {})  BY <1>7
  <2> QED  BY <2>1 DEF FatherToldOf
<1> HIDE DEF fathers, f, x
<1> DEFINE r == [w[f] EXCEPT !.signal = @ \cup {"SIGCHLD"}]
<1>10. w[f] \in TaskRecord  BY <1>0, <1>5, <1>8 DEF TypeT, Live
<1>11. /\ r \in TaskRecord /\ r.pid = w[f].pid /\ r.father = w[f].father
       /\ r.state = w[f].state /\ r.at = w[f].at /\ r.want = w[f].want /\ r.log = w[f].log
       /\ r.alarm = w[f].alarm /\ r.signal = w[f].signal \cup {"SIGCHLD"}
    BY <1>10 DEF TaskRecord
<1> HIDE DEF r
<1>12. x[f] = r /\ (\A s \in Slot \ {f} : x[s] = w[s]) /\ TypeT(x) /\ Live(x) = Live(t)
    BY <1>0, <1>5, <1>8, <1>9, <1>11 DEF TypeT, Live, r
<1>13. \A s \in Live(t) :
          /\ x[s].pid = t[s].pid
          /\ x[s].father = IF s \in mine THEN 1 ELSE t[s].father
          /\ s # c => /\ x[s].state = t[s].state /\ x[s].at = t[s].at
                      /\ x[s].want = t[s].want /\ x[s].log = t[s].log
                      /\ x[s].alarm = t[s].alarm /\ u[s].signal \subseteq x[s].signal
  <2> SUFFICES ASSUME NEW s \in Live(t)
               PROVE  /\ x[s].pid = t[s].pid
                      /\ x[s].father = IF s \in mine THEN 1 ELSE t[s].father
                      /\ s # c => /\ x[s].state = t[s].state /\ x[s].at = t[s].at
                                  /\ x[s].want = t[s].want /\ x[s].log = t[s].log
                                  /\ x[s].alarm = t[s].alarm
                                  /\ u[s].signal \subseteq x[s].signal
    OBVIOUS
  <2>1. s \in Slot  BY <1>0
  <2>2. CASE s = f  BY <1>1, <1>5, <1>6, <1>8, <1>11, <1>12, <2>1, <2>2
  <2>3. CASE s # f  BY <1>1, <1>5, <1>6, <1>12, <2>1, <2>3
  <2> QED  BY <2>2, <2>3
<1>14. x[c].state = "zombie" /\ x[c].at = "exit" /\ x[c].log = "E"
    BY <1>0, <1>4, <1>5, <1>8, <1>12
<1>15. "SIGALRM" \notin x[1].signal
  <2>1. CASE f = 1  BY <1>0, <1>1, <1>5, <1>11, <1>12, <2>1
  <2>2. CASE f # 1  BY <1>0, <1>1, <1>5, <1>12, <2>2
  <2> QED  BY <2>1, <2>2
<1>16. Roots(x)
  <2>1. x[0] # NULL /\ x[1] # NULL  BY <1>0, <1>12 DEF Live
  <2>2. /\ x[0].pid = 0 /\ x[0].state # "zombie" /\ x[0].at = "user"
        /\ x[1].pid = 1 /\ x[1].state # "zombie" /\ ~x[1].alarm
    BY <1>0, <1>13 DEF Kin, Roots
  <2>3. x[1].father = 0  BY <1>0, <1>1, <1>13 DEF Kin, Roots
  <2>4. \A s \in Live(x) : x[s].state = "zombie" => x[s].at = "exit"
    BY <1>0, <1>12, <1>13, <1>14 DEF Kin, Roots
  <2> QED  BY <1>15, <2>1, <2>2, <2>3, <2>4 DEF Roots
<1>17. Unique(x)
    BY <1>0, <1>12, <1>13 DEF Kin, Unique
<1>18. Fathers(x)
  <2> SUFFICES ASSUME NEW s \in Live(t) \ {0, 1}
               PROVE  /\ x[s].father >= 1
                      /\ \E g \in Live(t) : x[g].pid = x[s].father /\ x[g].state # "zombie"
    BY <1>12 DEF Fathers
  <2>1. CASE s \in mine
    <3>1. x[s].father = 1  BY <1>13, <2>1
    <3>2. x[1].pid = 1 /\ x[1].state # "zombie"  BY <1>0, <1>13 DEF Kin, Roots
    <3> QED  BY <1>0, <3>1, <3>2
  <2>2. CASE s \notin mine
    <3>1. x[s].father = t[s].father  BY <1>13, <2>2
    <3>2. PICK g \in Live(t) : t[g].pid = t[s].father /\ t[g].state # "zombie"
      BY <1>0 DEF Kin, Fathers
    <3>3. g # c  BY <2>2, <3>2
    <3>4. x[g].pid = x[s].father /\ x[g].state # "zombie"  BY <1>13, <3>1, <3>2, <3>3
    <3> QED  BY <1>0, <3>1, <3>4 DEF Kin, Fathers
  <2> QED  BY <2>1, <2>2
<1>19. LogState(x) /\ LogRuns(x, c)
    BY <1>12, <1>13, <1>14 DEF Settled, LogState, LogRuns
<1>20. Claimed(x)
  <2> SUFFICES ASSUME NEW s \in Slot, NEW y \in Slot, Claims(x, s, y)
               PROVE  x[s].state = "running" \/ x[s].signal # {}
    BY DEF Claimed
  <2>1. s \in Live(t) \ {0} /\ y \in Live(t) \ {0} /\ s # c
    BY <1>12, <1>14 DEF Claims
  <2>2. CASE y = c
    <3>1. t[s].pid = w[c].father  BY <1>0, <1>1, <1>6, <1>13, <2>1, <2>2 DEF Claims
    <3>2. t[f].pid = w[c].father  BY <1>6, <1>8 DEF fathers
    <3>3. s = f  BY <1>0, <1>8, <2>1, <3>1, <3>2 DEF Kin, Unique
    <3> QED  BY <1>11, <1>12, <3>3
  <2>3. CASE y # c /\ y \in mine
    <3>1. x[s].pid = 1 /\ t[y].state = "zombie"  BY <1>13, <2>1, <2>3 DEF Claims
    <3>2. s = 1  BY <1>0, <1>13, <2>1, <3>1 DEF Kin, Roots, Unique
    <3>3. "SIGCHLD" \in u[1].signal  BY <1>1, <2>3, <3>1
    <3> QED  BY <1>0, <1>13, <3>2, <3>3
  <2>4. CASE y # c /\ y \notin mine
    <3>1. Claims(t, s, y)  BY <1>13, <2>1, <2>4 DEF Claims
    <3> QED  BY <1>13, <2>1, <3>1 DEF Settled, ClaimedNow
  <2> QED  BY <2>2, <2>3, <2>4
<1>21. Sound(x, c) /\ c \in Live(x)
    BY <1>0, <1>12, <1>16, <1>17, <1>18, <1>19, <1>20 DEF Sound, Kin
<1> QED  BY <1>3, <1>21, ScheduleSettles

\* release(): the entry of a zombie is given up.
LEMMA ReleaseSettled ==
    ASSUME NEW t, NEW c, Settled(t, c), NEW z \in Live(t), t[z].state = "zombie", z # c
    PROVE  Settled([t EXCEPT ![z] = NULL], c)
<1> USE TasksAssumption
<1> DEFINE v == [t EXCEPT ![z] = NULL]
<1>0. /\ t \in [Slot -> TaskRecord \cup {NULL}] /\ z \in Slot /\ z \notin {0, 1}
      /\ 0 \in Slot /\ 1 \in Slot
    BY DEF Settled, Kin, TypeT, Roots, Live, Slot
<1>1. v[z] = NULL /\ (\A s \in Slot \ {z} : v[s] = t[s]) /\ TypeT(v)
    BY <1>0 DEF TypeT
<1> HIDE DEF v
<1>2. Live(v) = Live(t) \ {z}
    BY <1>0, <1>1 DEF Live
<1>3. \A s \in Live(v) : s \in Live(t) /\ s \in Slot /\ s # z /\ v[s] = t[s]
    BY <1>1, <1>2 DEF Live
<1>4. Roots(v)
    BY <1>0, <1>1, <1>3 DEF Settled, Kin, Roots
<1>5. Unique(v)
    BY <1>3 DEF Settled, Kin, Unique
<1>6. Fathers(v)
  <2> SUFFICES ASSUME NEW s \in Live(v) \ {0, 1}
               PROVE  /\ v[s].father >= 1
                      /\ \E f \in Live(v) : v[f].pid = v[s].father /\ v[f].state # "zombie"
    BY DEF Fathers
  <2>1. PICK f \in Live(t) : t[f].pid = t[s].father /\ t[f].state # "zombie"
    BY <1>3 DEF Settled, Kin, Fathers
  <2>2. f \in Live(v) /\ v[f] = t[f]  BY <1>2, <1>3, <2>1
  <2> QED  BY <1>3, <2>1, <2>2 DEF Settled, Kin, Fathers
<1>7. LogState(v) /\ LogRuns(v, c)
    BY <1>3 DEF Settled, LogState, LogRuns
<1>8. ClaimedNow(v)
    BY <1>3 DEF Settled, ClaimedNow, Claims
<1>9. c \in Live(v) /\ (c = 0 \/ v[c].state = "running")
    BY <1>2, <1>3 DEF Settled
<1> QED  BY <1>1, <1>4, <1>5, <1>6, <1>7, <1>8, <1>9 DEF Settled, Kin, v

\* sys_waitpid, one turn.
LEMMA WaitTurnSettles ==
    ASSUME NEW t, Settled(t, current), current # 0, current \in Slot,
           NEW want \in -1..MaxPid, NEW h \in BOOLEAN, WaitTurn(t, current, want, h)
    PROVE  Settled(task', current') /\ current' \in Slot
<1> USE TasksAssumption
<1> DEFINE c == current
           children == {s \in Others(t) \ {c} : /\ t[s].father = t[c].pid
                                                /\ want \in {-1, t[s].pid}}
           zombies == {s \in children : t[s].state = "zombie"}
           last == CHOOSE s \in zombies : \A r \in zombies : r <= s
           w == [t[c] EXCEPT !.state = "interruptible", !.at = "waitpid", !.want = want,
                             !.log = "W"]
           d == [t[c] EXCEPT !.at = "ret", !.want = -1]
           done == [t EXCEPT ![c] = d]
<1>0. /\ c \in Slot /\ c \in Live(t) \ {0} /\ t[c] \in TaskRecord
      /\ t[c].state = "running" /\ t[c].log \notin {"W", "E"}
      /\ c = 1 => ~t[c].alarm /\ "SIGALRM" \notin t[c].signal
    BY DEF Settled, Kin, TypeT, Roots, LogState, Live
<1>1. /\ d \in TaskRecord /\ d.pid = t[c].pid /\ d.father = t[c].father
      /\ d.state = t[c].state /\ d.log = t[c].log /\ d.alarm = t[c].alarm
      /\ d.signal = t[c].signal /\ d.at = "ret"
  <2>1. \A n \in -1..MaxPid : [t[c] EXCEPT !.at = "ret", !.want = n] \in TaskRecord
    BY <1>0 DEF TaskRecord
  <2>2. -1 \in -1..MaxPid  OBVIOUS
  <2>3. d \in TaskRecord  BY <2>1, <2>2
  <2>4. /\ d.pid = t[c].pid /\ d.father = t[c].father
        /\ d.state = t[c].state /\ d.log = t[c].log /\ d.alarm = t[c].alarm
        /\ d.signal = t[c].signal /\ d.at = "ret"
    BY <1>0 DEF TaskRecord
  <2> QED  BY <2>3, <2>4
<1>2. /\ w \in TaskRecord /\ w.pid = t[c].pid /\ w.father = t[c].father
      /\ w.state = "interruptible" /\ w.log = "W" /\ w.alarm = t[c].alarm
      /\ w.signal = t[c].signal /\ w.at = "waitpid" /\ w.want = want
    BY <1>0 DEF TaskRecord
<1>3. IF zombies # {} THEN Schedule([done EXCEPT ![last] = NULL])
      ELSE IF children = {} \/ h THEN task' = done /\ UNCHANGED current
      ELSE Schedule([t EXCEPT ![c] = w])
  <2>1. Logged([t[c] EXCEPT !.state = "interruptible", !.at = "waitpid", !.want = want],
               "W") = w
    BY <1>0 DEF Logged, TaskRecord
  <2>2. [t EXCEPT ![c].at = "ret", ![c].want = -1] = done
    BY <1>0 DEF Settled, Kin, TypeT
  <2> HIDE DEF w, d
  <2> QED  BY <2>1, <2>2 DEF WaitTurn
<1> HIDE DEF w, d
<1>4. Settled(done, c)
  <2>1. OwnChange(t, c, d)  BY <1>0, <1>1 DEF OwnChange
  <2> QED  BY <1>0, <1>1, <2>1, OwnChangeSound
<1>5. CASE zombies # {}
  <2>1. last \in zombies
    <3>1. zombies \in SUBSET Slot  BY DEF Others
    <3> HIDE DEF zombies
    <3> QED  BY <1>5, <3>1, FirstAndLastSlot
  <2> HIDE DEF last
  <2>2. last \in Live(done) /\ done[last].state = "zombie" /\ last # c
    <3>1. last \in Slot /\ last # c /\ t[last] # NULL /\ t[last].state = "zombie"
      BY <2>1 DEF Others
    <3>2. done[last] = t[last]  BY <1>0, <3>1 DEF Settled, Kin, TypeT
    <3> QED  BY <3>1, <3>2 DEF Live
  <2> HIDE DEF done
  <2>3. Settled([done EXCEPT ![last] = NULL], c)
    BY <1>4, <2>2, ReleaseSettled
  <2>4. Schedule([done EXCEPT ![last] = NULL])  BY <1>3, <1>5
  <2>5. Sound([done EXCEPT ![last] = NULL], c) /\ c \in Live([done EXCEPT ![last] = NULL])
    BY <2>3, SettledIsSound DEF Settled
  <2> QED  BY <2>4, <2>5, ScheduleSettles
<1>6. CASE zombies = {} /\ (children = {} \/ h)
    BY <1>0, <1>3, <1>4, <1>6
<1>7. CASE zombies = {} /\ ~(children = {} \/ h)
  <2> DEFINE v == [t EXCEPT ![c] = w]
  <2>1. \A z \in Slot : ~Claims(v, c, z)
    <3> SUFFICES ASSUME NEW z \in Slot, Claims(v, c, z) PROVE FALSE  OBVIOUS
    <3>1. v[c] = w /\ \A s \in Slot \ {c} : v[s] = t[s]
      BY <1>0 DEF Settled, Kin, TypeT
    <3> HIDE DEF v
    <3>2. z # c  BY <1>2, <3>1 DEF Claims
    <3>3. z \in Others(t) \ {c}  BY <3>1, <3>2 DEF Claims, Live, Others
    <3>4. z \in zombies  BY <1>2, <3>1, <3>2, <3>3 DEF Claims
    <3> QED  BY <1>7, <3>4
  <2>2. OwnChange(t, c, w)  BY <1>0, <1>2, <2>1 DEF OwnChange
  <2>3. Sound(v, c) /\ c \in Live(v)  BY <2>2, OwnChangeSound
  <2>4. Schedule(v)  BY <1>3, <1>7
  <2> QED  BY <2>3, <2>4, ScheduleSettles
<1> QED  BY <1>5, <1>6, <1>7

\* copy_process: a task with a new pid, running, whose father is the running task.
LEMMA NewTaskSettled ==
    ASSUME NEW t, NEW c, Settled(t, c), c # 0, NEW n \in Slot, t[n] = NULL,
           NEW r \in TaskRecord, r.pid # 0, r.father = t[c].pid, r.state = "running",
           r.at # "waitpid", r.log = "J", \A s \in Live(t) : t[s].pid # r.pid
    PROVE  Settled([t EXCEPT ![n] = r], c)
<1> USE TasksAssumption
<1> DEFINE v == [t EXCEPT ![n] = r]
<1>0. /\ t \in [Slot -> TaskRecord \cup {NULL}] /\ 0 \in Live(t) /\ 1 \in Live(t)
      /\ c \in Live(t) /\ t[c].state = "running" /\ Live(t) \subseteq Slot
      /\ n \notin Live(t) /\ t[c] \in TaskRecord
    BY DEF Settled, Kin, TypeT, Roots, Live, Slot
<1>1. v[n] = r /\ (\A s \in Live(t) : v[s] = t[s]) /\ TypeT(v) /\ Live(v) = Live(t) \cup {n}
    BY <1>0 DEF TypeT, Live
<1> HIDE DEF v
<1>2. Roots(v)
    BY <1>0, <1>1 DEF Settled, Kin, Roots, Live
<1>3. Unique(v)
    BY <1>0, <1>1 DEF Settled, Kin, Unique
<1>4. Fathers(v)
  <2> SUFFICES ASSUME NEW s \in Live(v) \ {0, 1}
               PROVE  /\ v[s].father >= 1
                      /\ \E f \in Live(v) : v[f].pid = v[s].father /\ v[f].state # "zombie"
    BY DEF Fathers
  <2>1. CASE s = n
    <3>1. t[c].pid # 0 /\ t[c].pid \in 0..MaxPid
      BY <1>0 DEF Settled, Kin, Roots, Unique, TaskRecord, Pid
    <3> QED  BY <1>0, <1>1, <2>1, <3>1
  <2>2. CASE s # n
    <3>1. s \in Live(t)  BY <1>1, <2>2
    <3>2. PICK f \in Live(t) : t[f].pid = t[s].father /\ t[f].state # "zombie"
      BY <3>1 DEF Settled, Kin, Fathers
    <3> QED  BY <1>1, <3>1, <3>2 DEF Settled, Kin, Fathers
  <2> QED  BY <2>1, <2>2
<1>5. LogState(v) /\ LogRuns(v, c)
    BY <1>0, <1>1 DEF Settled, LogState, LogRuns
<1>6. ClaimedNow(v)
    BY <1>0, <1>1 DEF Settled, ClaimedNow, Claims
<1>7. c \in Live(v) /\ v[c].state = "running"
    BY <1>0, <1>1
<1> QED  BY <1>1, <1>2, <1>3, <1>4, <1>5, <1>6, <1>7 DEF Settled, Kin, v

\* ret_from_sys_call: a handler is called, the signal ignored, or the task exits.
LEMMA DeliverSettles ==
    ASSUME NEW t, Settled(t, current), current # 0, current \in Slot, Deliver(t, current)
    PROVE  Settled(task', current') /\ current' \in Slot
<1> USE TasksAssumption
<1> DEFINE c == current
           r(sig) == [t[c] EXCEPT !.signal = @ \ {sig}, !.at = "user"]
<1>0. /\ c \in Live(t) \ {0} /\ t[c] \in TaskRecord
      /\ t[c].state = "running" /\ t[c].log \notin {"W", "E"}
      /\ c = 1 => ~t[c].alarm /\ "SIGALRM" \notin t[c].signal
    BY DEF Settled, Kin, TypeT, Roots, LogState, Live
<1>1. ASSUME NEW sig
      PROVE  /\ [t EXCEPT ![c].signal = @ \ {sig}, ![c].at = "user"] = [t EXCEPT ![c] = r(sig)]
             /\ Settled([t EXCEPT ![c] = r(sig)], c)
  <2>1. /\ r(sig) \in TaskRecord /\ r(sig).pid = t[c].pid /\ r(sig).father = t[c].father
        /\ r(sig).state = t[c].state /\ r(sig).log = t[c].log /\ r(sig).alarm = t[c].alarm
        /\ r(sig).signal \subseteq t[c].signal /\ r(sig).at = "user"
    BY <1>0 DEF TaskRecord
  <2>2. [t EXCEPT ![c].signal = @ \ {sig}, ![c].at = "user"] = [t EXCEPT ![c] = r(sig)]
    BY <1>0 DEF Settled, Kin, TypeT
  <2> HIDE DEF r
  <2>3. OwnChange(t, c, r(sig))  BY <1>0, <2>1 DEF OwnChange
  <2> QED  BY <1>0, <2>1, <2>2, <2>3, OwnChangeSound
<1> HIDE DEF r
<1>2. CASE task' = [t EXCEPT ![c] = r("SIGALRM")] /\ UNCHANGED current
    BY <1>1, <1>2
<1>3. CASE task' = [t EXCEPT ![c] = r("SIGCHLD")] /\ UNCHANGED current
    BY <1>1, <1>3
<1>4. CASE "SIGALRM" \in t[c].signal /\ DoExit([t EXCEPT ![c] = r("SIGALRM")], c)
    BY <1>0, <1>1, <1>4, DoExitSettles
<1> QED  BY <1>1, <1>2, <1>3, <1>4 DEF Deliver

----------------------------------------------------------------------------
\* The inductive invariant.

TasksInv == /\ Settled(task, current) /\ current \in Slot
            /\ last_pid \in Pid
            /\ proc_list \in Slot \cup {NULL}
            /\ forks \in 0..MaxLoad

\* What is known of the running task, and of an entry of its own.
LEMMA CurrentFacts ==
    ASSUME NEW t, NEW c, Settled(t, c), c # 0
    PROVE  /\ c \in Slot /\ c \in Live(t) \ {0} /\ t[c] \in TaskRecord
           /\ t[c].state = "running" /\ t[c].log \notin {"W", "E"}
           /\ c = 1 => ~t[c].alarm /\ "SIGALRM" \notin t[c].signal
           /\ t[c].pid # 1 => c # 1
           /\ t \in [Slot -> TaskRecord \cup {NULL}]
BY DEF Settled, Kin, TypeT, Roots, LogState, Live

\* A step that only changes the entry of the running task, which runs on.
LEMMA RunsOn ==
    ASSUME NEW t, NEW c, Settled(t, c), c # 0, NEW r \in TaskRecord,
           r.pid = t[c].pid, r.father = t[c].father, r.state = t[c].state, r.log = t[c].log,
           c = 1 => r.alarm = t[c].alarm /\ r.signal \subseteq t[c].signal
    PROVE  Settled([t EXCEPT ![c] = r], c)
<1>1. OwnChange(t, c, r)
    BY CurrentFacts DEF OwnChange
<1> QED  BY <1>1, OwnChangeSound, CurrentFacts

\* A step of the running task that puts it to sleep elsewhere than in waitpid.
LEMMA SleepsSound ==
    ASSUME NEW t, Settled(t, current), current # 0, NEW r \in TaskRecord,
           r.pid = t[current].pid, r.father = t[current].father,
           r.state = "interruptible", r.log = "W", r.at # "waitpid",
           r.alarm = t[current].alarm, r.signal = t[current].signal,
           Schedule([t EXCEPT ![current] = r])
    PROVE  Settled(task', current') /\ current' \in Slot
<1>1. OwnChange(t, current, r)
    BY CurrentFacts DEF OwnChange
<1>2. /\ Sound([t EXCEPT ![current] = r], current)
      /\ current \in Live([t EXCEPT ![current] = r])
    BY <1>1, OwnChangeSound
<1> QED  BY <1>2, ScheduleSettles

\* schedule() called by a task that stays runnable.
LEMMA YieldSettles ==
    ASSUME NEW t, Settled(t, current), Schedule(t)
    PROVE  Settled(task', current') /\ current' \in Slot
<1>1. Sound(t, current) /\ current \in Live(t)
    BY SettledIsSound DEF Settled
<1> QED  BY <1>1, ScheduleSettles

\* Bounded counts are natural numbers.
LEMMA LoadBounds ==
    ASSUME NEW t, NEW n \in Nat, Load(t, n) <= MaxLoad
    PROVE  n \in 0..MaxLoad
<1> USE TasksAssumption
<1> DEFINE S == {s \in Others(t) : t[s].priority > 1}
<1>1. IsFiniteSet(0..(NR_TASKS - 1))  BY FS_Interval
<1>2. S \in SUBSET (0..(NR_TASKS - 1))  BY DEF Others, Slot
<1>3. IsFiniteSet(S)  BY <1>1, <1>2, FS_Subset
<1>4. Cardinality(S) \in Nat  BY <1>3, FS_CardinalityType
<1>5. Load(t, n) = n + Cardinality(S)  BY DEF Load
<1> HIDE DEF S
<1> QED  BY <1>4, <1>5

\* fork and its failure.
LEMMA ForkStep ==
    ASSUME TasksInv, NEW c \in Slot, Fork(c) \/ ForkFails(c)
    PROVE  TasksInv'
<1> USE TasksAssumption
<1> DEFINE d == [task[c] EXCEPT !.at = "ret"]
           v == [task EXCEPT ![c] = d]
<1>1. /\ current = c /\ c # 0 /\ task[c].at = "user" /\ Settled(task, c)
      /\ last_pid' = NextPid /\ forks' = forks + 1 /\ Load(task', forks') <= MaxLoad
      /\ UNCHANGED <<current, proc_list>>
    BY DEF TasksInv, Fork, ForkFails, UserMode
<1>2. /\ c \in Live(task) \ {0} /\ task[c] \in TaskRecord /\ task[c].state = "running"
      /\ task \in [Slot -> TaskRecord \cup {NULL}]
    BY <1>1, CurrentFacts
<1>3. /\ NextPid \in 1..MaxPid
      /\ \A s \in Slot : task[s] # NULL => task[s].pid # NextPid
    BY <1>1, NextPidUnused DEF TasksInv, Settled, Kin, Roots
<1>4. /\ d \in TaskRecord /\ d.pid = task[c].pid /\ d.father = task[c].father
      /\ d.state = task[c].state /\ d.log = task[c].log
      /\ d.alarm = task[c].alarm /\ d.signal = task[c].signal
    BY <1>2 DEF TaskRecord
<1>5. Settled(v, c)
  <2> HIDE DEF d
  <2> QED  BY <1>1, <1>4, RunsOn
<1>6. forks' \in 0..MaxLoad /\ last_pid' \in Pid
    BY <1>1, <1>3, LoadBounds DEF TasksInv, Pid
<1>7. CASE ForkFails(c)
  <2>1. task' = v  BY <1>7 DEF ForkFails
  <2>2. Settled(task', current')  BY <1>1, <1>5, <2>1
  <2> QED  BY <1>1, <1>6, <2>2 DEF TasksInv
<1>8. CASE Fork(c)
  <2> DEFINE nr == CHOOSE s \in EmptySlots : \A r \in EmptySlots : s <= r
             r == [task[c] EXCEPT !.pid = NextPid, !.father = task[c].pid,
                                  !.counter = task[c].priority, !.signal = {},
                                  !.alarm = FALSE, !.log = "J"]
  <2>1. nr \in EmptySlots
    <3>1. EmptySlots \in SUBSET Slot  BY DEF EmptySlots
    <3>2. EmptySlots # {}  BY <1>8 DEF Fork
    <3> QED  BY <3>1, <3>2, FirstAndLastSlot
  <2>2. /\ task[c].pid \in -1..MaxPid
        /\ task[c].priority \in 0..(2 * MaxPriority)
        /\ NextPid \in Pid
    BY <1>2, <1>3 DEF TaskRecord, Pid
  <2>3. task' = [task EXCEPT ![nr] = r, ![c] = d]
    <3>1. Logged([task[c] EXCEPT !.pid = NextPid, !.father = task[c].pid,
                                 !.counter = task[c].priority, !.signal = {},
                                 !.alarm = FALSE, !.log = "N"], "J") = r
      BY <1>2 DEF Logged, TaskRecord
    <3>2. nr # c  BY <1>2, <2>1 DEF EmptySlots, Live
    <3>3. task' = [task EXCEPT ![nr] = r, ![c].at = "ret"]
      BY <1>8, <3>1 DEF Fork
    <3> HIDE DEF nr, r
    <3> QED  BY <1>2, <2>1, <3>2, <3>3 DEF EmptySlots, Live
  <2>4. /\ r \in TaskRecord /\ r.pid = NextPid /\ r.father = task[c].pid
        /\ r.state = "running" /\ r.at = "user" /\ r.log = "J"
    BY <1>1, <1>2, <2>2 DEF TaskRecord
  <2> HIDE DEF nr, r, d
  <2>5. nr \in Slot /\ nr # c /\ task[nr] = NULL
    BY <1>2, <2>1 DEF EmptySlots, Live
  <2>6. task' = [v EXCEPT ![nr] = r]
    BY <1>2, <2>3, <2>5
  <2>7. v[nr] = NULL /\ v[c].pid = task[c].pid
    BY <1>2, <1>4, <2>5
  <2>8. \A s \in Live(v) : v[s].pid # r.pid
    <3>1. \A s \in Live(v) : s \in Slot /\ task[s] # NULL /\ v[s].pid = task[s].pid
      BY <1>2, <1>4 DEF Live
    <3> QED  BY <1>3, <2>4, <3>1
  <2>9. r.pid # 0 /\ r.at # "waitpid" /\ r.father = v[c].pid
    BY <1>3, <2>4, <2>7
  <2> HIDE DEF v
  <2>10. Settled([v EXCEPT ![nr] = r], c)
    BY <1>1, <1>5, <2>4, <2>5, <2>7, <2>8, <2>9, NewTaskSettled
  <2>11. Settled(task', current')  BY <1>1, <2>6, <2>10
  <2> QED  BY <1>1, <1>6, <2>11 DEF TasksInv
<1> QED  BY <1>7, <1>8

\* sys_kill.
LEMMA KillStep ==
    ASSUME TasksInv, NEW c \in Slot, Kill(c)
    PROVE  TasksInv'
<1> USE TasksAssumption
<1> DEFINE living == {s \in Others(task) \ {1} : task[s].state # "zombie"}
           v == task'
<1>1. /\ current = c /\ c # 0 /\ task[c].pid # 1 /\ Settled(task, c)
      /\ UNCHANGED <<current, last_pid, proc_list, forks>>
    BY DEF TasksInv, Kill, NotInit, UserMode
<1>2. /\ c \in Live(task) \ {0} /\ task[c] \in TaskRecord /\ task[c].state = "running"
      /\ task \in [Slot -> TaskRecord \cup {NULL}]
    BY <1>1, CurrentFacts
<1>3. PICK targets \in SUBSET living :
        v = [s \in Slot |->
               LET u == IF s \in targets
                        THEN [task[s] EXCEPT !.signal = @ \cup {"SIGALRM"}] ELSE task[s]
               IN IF s = c THEN [u EXCEPT !.at = "ret"] ELSE u]
  <2>1. PICK targets \in {{s} : s \in living} \cup {living, {}} :
          v = [s \in Slot |->
                 LET u == IF s \in targets
                          THEN [task[s] EXCEPT !.signal = @ \cup {"SIGALRM"}] ELSE task[s]
                 IN IF s = c THEN [u EXCEPT !.at = "ret"] ELSE u]
    BY DEF Kill
  <2>2. targets \in SUBSET living  OBVIOUS
  <2> QED  BY <2>1, <2>2
<1> HIDE DEF v
<1> DEFINE y(s) == IF s \in targets
                   THEN [task[s] EXCEPT !.signal = @ \cup {"SIGALRM"}] ELSE task[s]
<1>4. ASSUME NEW s \in Live(task)
      PROVE  /\ y(s) \in TaskRecord
             /\ y(s).pid = task[s].pid /\ y(s).father = task[s].father
             /\ y(s).state = task[s].state /\ y(s).log = task[s].log
             /\ y(s).at = task[s].at /\ y(s).want = task[s].want
             /\ y(s).alarm = task[s].alarm
             /\ s = 1 => y(s).signal = task[s].signal
  <2>1. task[s] \in TaskRecord  BY <1>2 DEF Live
  <2>2. 1 \notin targets  OBVIOUS
  <2> QED  BY <2>1, <2>2 DEF TaskRecord
<1>5. \A s \in Slot : v[s] = IF s = c THEN [y(s) EXCEPT !.at = "ret"] ELSE y(s)
    BY <1>3
<1>6. v = [s \in Slot |-> v[s]]
    BY <1>3
<1>7. \A s \in Slot : task[s] = NULL => y(s) = NULL
    BY DEF Others
<1> HIDE DEF y
<1>8. ASSUME NEW s \in Live(task)
      PROVE  /\ v[s] \in TaskRecord
             /\ v[s].pid = task[s].pid /\ v[s].father = task[s].father
             /\ v[s].state = task[s].state /\ v[s].log = task[s].log
             /\ v[s].at = IF s = c THEN "ret" ELSE task[s].at
             /\ v[s].want = task[s].want /\ v[s].alarm = task[s].alarm
             /\ s = 1 => v[s].signal = task[s].signal
  <2> DEFINE r == [y(s) EXCEPT !.at = "ret"]
  <2>1. y(s) \in TaskRecord  BY <1>4
  <2>2. /\ r \in TaskRecord /\ r.pid = y(s).pid /\ r.father = y(s).father
        /\ r.state = y(s).state /\ r.log = y(s).log /\ r.at = "ret" /\ r.want = y(s).want
        /\ r.alarm = y(s).alarm /\ r.signal = y(s).signal
    BY <2>1 DEF TaskRecord
  <2>3. v[s] = IF s = c THEN r ELSE y(s)  BY <1>5 DEF Live
  <2> HIDE DEF r
  <2> QED  BY <1>4, <2>2, <2>3
<1>9. TypeT(v) /\ Live(v) = Live(task)
  <2>1. \A s \in Slot \ Live(task) : v[s] = NULL
    BY <1>2, <1>5, <1>7 DEF Live
  <2>2. \A s \in Slot : v[s] \in TaskRecord \cup {NULL}  BY <1>8, <2>1
  <2>3. TypeT(v)  BY <1>6, <2>2 DEF TypeT
  <2>4. \A s \in Live(task) : s \in Slot /\ v[s] # NULL  BY <1>8 DEF Live
  <2> QED  BY <2>1, <2>3, <2>4 DEF Live
<1>10. 0 \in Live(task) /\ 1 \in Live(task) /\ Kin(task)
    BY <1>1 DEF Settled, Kin, Roots, Live, Slot
<1>11. Kin(v)
  <2>1. \A s \in Live(task) : v[s].state = "zombie" => s # c  BY <1>2, <1>8
  <2>2. SameKin(task, v)  BY <1>1, <1>8, <1>9, <1>10, <2>1 DEF SameKin
  <2> QED  BY <1>10, <2>2, SameKinKeeps
<1>12. LogState(v) /\ LogRuns(v, c)
    BY <1>1, <1>8, <1>9 DEF Settled, LogState, LogRuns
<1>13. ClaimedNow(v)
  <2> SUFFICES ASSUME NEW s \in Slot, NEW z \in Slot, Claims(v, s, z)
               PROVE  v[s].state = "running"
    BY DEF ClaimedNow
  <2>1. s \in Live(task) /\ z \in Live(task)  BY <1>9 DEF Claims
  <2>2. Claims(task, s, z)  BY <1>8, <1>9, <2>1 DEF Claims
  <2> QED  BY <1>1, <1>8, <2>1, <2>2 DEF Settled, ClaimedNow
<1>14. Settled(v, c)
    BY <1>2, <1>8, <1>9, <1>11, <1>12, <1>13 DEF Settled
<1> QED  BY <1>1, <1>14 DEF TasksInv, v

\* The calls that change only the caller's entry, and the timer.
LEMMA OwnStep ==
    ASSUME TasksInv, NEW c \in Slot,
           TickKernel(c) \/ Alarm(c) \/ Nice(c) \/ Pause(c) \/ TtyRead(c)
    PROVE  TasksInv'
<1> USE TasksAssumption
<1>1. current = c /\ c # 0 /\ Settled(task, c)
    BY DEF TasksInv, TickKernel, Alarm, Nice, Pause, TtyRead, NotInit, UserMode
<1>2. /\ task[c] \in TaskRecord /\ (task[c].pid # 1 => c # 1)
      /\ task \in [Slot -> TaskRecord \cup {NULL}]
    BY <1>1, CurrentFacts
<1>3. CASE TickKernel(c)
  <2> DEFINE n == Decremented(task[c].counter)
             r == [task[c] EXCEPT !.counter = n]
  <2>1. n \in 0..(2 * MaxPriority)
    <3>1. task[c].counter \in 0..(2 * MaxPriority)  BY <1>2 DEF TaskRecord
    <3> QED  BY <3>1 DEF Decremented
  <2>2. task' = [task EXCEPT ![c] = r] /\ UNCHANGED <<current, last_pid, proc_list, forks>>
    BY <1>3 DEF TickKernel
  <2> HIDE DEF n
  <2>3. /\ r \in TaskRecord /\ r.pid = task[c].pid /\ r.father = task[c].father
        /\ r.state = task[c].state /\ r.log = task[c].log
        /\ r.alarm = task[c].alarm /\ r.signal = task[c].signal
    BY <1>2, <2>1 DEF TaskRecord
  <2> HIDE DEF r
  <2>4. Settled([task EXCEPT ![c] = r], c)  BY <1>1, <2>3, RunsOn
  <2> QED  BY <1>1, <2>2, <2>4 DEF TasksInv
<1>4. CASE Alarm(c)
  <2>1. PICK on \in BOOLEAN : task' = [task EXCEPT ![c].alarm = on, ![c].at = "ret"]
    BY <1>4 DEF Alarm
  <2> DEFINE r == [task[c] EXCEPT !.alarm = on, !.at = "ret"]
  <2>2. task' = [task EXCEPT ![c] = r] /\ UNCHANGED <<current, last_pid, proc_list, forks>>
    BY <1>2, <1>4, <2>1 DEF Alarm
  <2>3. /\ r \in TaskRecord /\ r.pid = task[c].pid /\ r.father = task[c].father
        /\ r.state = task[c].state /\ r.log = task[c].log
    BY <1>2 DEF TaskRecord
  <2>4. c # 1  BY <1>2, <1>4 DEF Alarm, NotInit
  <2> HIDE DEF r
  <2>5. Settled([task EXCEPT ![c] = r], c)  BY <1>1, <2>3, <2>4, RunsOn
  <2> QED  BY <1>1, <2>2, <2>5 DEF TasksInv
<1>5. CASE Nice(c)
  <2>1. PICK n \in 1..MaxPriority : task' = [task EXCEPT ![c].priority = n, ![c].at = "ret"]
    BY <1>5 DEF Nice
  <2> DEFINE r == [task[c] EXCEPT !.priority = n, !.at = "ret"]
  <2>2. task' = [task EXCEPT ![c] = r] /\ UNCHANGED <<current, last_pid, proc_list, forks>>
    BY <1>2, <1>5, <2>1 DEF Nice
  <2>3. /\ r \in TaskRecord /\ r.pid = task[c].pid /\ r.father = task[c].father
        /\ r.state = task[c].state /\ r.log = task[c].log
        /\ r.alarm = task[c].alarm /\ r.signal = task[c].signal
    BY <1>2 DEF TaskRecord
  <2> HIDE DEF r
  <2>4. Settled([task EXCEPT ![c] = r], c)  BY <1>1, <2>3, RunsOn
  <2> QED  BY <1>1, <2>2, <2>4 DEF TasksInv
<1>6. CASE Pause(c)
  <2> DEFINE r == [task[c] EXCEPT !.state = "interruptible", !.at = "ret", !.log = "W"]
  <2>1. Schedule([task EXCEPT ![c] = r]) /\ UNCHANGED <<last_pid, proc_list, forks>>
    <3>1. Logged([task[c] EXCEPT !.state = "interruptible", !.at = "ret"], "W") = r
      BY <1>2 DEF Logged, TaskRecord
    <3> HIDE DEF r
    <3> QED  BY <1>6, <3>1 DEF Pause
  <2>2. /\ r \in TaskRecord /\ r.pid = task[c].pid /\ r.father = task[c].father
        /\ r.state = "interruptible" /\ r.log = "W" /\ r.at # "waitpid"
        /\ r.alarm = task[c].alarm /\ r.signal = task[c].signal
    BY <1>2 DEF TaskRecord
  <2> HIDE DEF r
  <2>3. Settled(task', current') /\ current' \in Slot
    BY <1>1, <2>1, <2>2, SleepsSound
  <2> QED  BY <2>1, <2>3 DEF TasksInv
<1>7. CASE TtyRead(c)
  <2> DEFINE r == [task[c] EXCEPT !.state = "interruptible", !.at = "tty", !.tmp = proc_list,
                                  !.log = "W"]
  <2>0. proc_list \in Slot \cup {NULL}  BY DEF TasksInv
  <2>1. /\ Schedule([task EXCEPT ![c] = r])
        /\ UNCHANGED <<last_pid, forks>> /\ proc_list' = c
    <3>1. Logged([task[c] EXCEPT !.state = "interruptible", !.at = "tty",
                                 !.tmp = proc_list], "W") = r
      BY <1>2 DEF Logged, TaskRecord
    <3> HIDE DEF r
    <3> QED  BY <1>7, <3>1 DEF TtyRead
  <2>2. /\ r \in TaskRecord /\ r.pid = task[c].pid /\ r.father = task[c].father
        /\ r.state = "interruptible" /\ r.log = "W" /\ r.at # "waitpid"
        /\ r.alarm = task[c].alarm /\ r.signal = task[c].signal
    BY <1>2, <2>0 DEF TaskRecord
  <2> HIDE DEF r
  <2>3. Settled(task', current') /\ current' \in Slot
    BY <1>1, <2>1, <2>2, SleepsSound
  <2> QED  BY <2>1, <2>3 DEF TasksInv
<1> QED  BY <1>3, <1>4, <1>5, <1>6, <1>7

\* exit and waitpid.
LEMMA WaitStep ==
    ASSUME TasksInv, NEW c \in Slot, Exit(c) \/ Waitpid(c) \/ WaitpidResume(c)
    PROVE  TasksInv'
<1> USE TasksAssumption
<1>1. /\ current = c /\ Settled(task, c) /\ UNCHANGED <<last_pid, proc_list, forks>>
    BY DEF TasksInv, Exit, Waitpid, WaitpidResume, NotInit, UserMode
<1>2. c # 0
  <2>1. task[0].at = "user"  BY <1>1 DEF Settled, Kin, Roots
  <2> QED  BY <2>1 DEF Exit, Waitpid, WaitpidResume, NotInit, UserMode
<1>3. /\ task[c] \in TaskRecord /\ (task[c].pid # 1 => c # 1)
      /\ task \in [Slot -> TaskRecord \cup {NULL}]
    BY <1>1, <1>2, CurrentFacts
<1>4. SUFFICES Settled(task', current') /\ current' \in Slot
    BY <1>1 DEF TasksInv
<1>5. CASE Exit(c)
  <2>1. c # 1 /\ DoExit(task, c)  BY <1>3, <1>5 DEF Exit, NotInit
  <2> QED  BY <1>1, <1>2, <2>1, DoExitSettles
<1>6. CASE Waitpid(c)
  <2>1. PICK want \in {-1} \cup {task[s].pid : s \in Others(task)}, h \in BOOLEAN :
          WaitTurn(task, c, want, h)
    BY <1>6 DEF Waitpid
  <2>2. \A s \in Others(task) : task[s].pid \in -1..MaxPid
    <3> SUFFICES ASSUME NEW s \in Others(task) PROVE task[s].pid \in -1..MaxPid  OBVIOUS
    <3>1. task[s] \in TaskRecord  BY <1>3 DEF Others
    <3>2. task[s].pid \in Pid  BY <3>1 DEF TaskRecord
    <3> QED  BY <3>2 DEF Pid
  <2>3. want \in -1..MaxPid  BY <2>1, <2>2
  <2> QED  BY <1>1, <1>2, <2>1, <2>3, WaitTurnSettles
<1>7. CASE WaitpidResume(c)
  <2> DEFINE r == [task[c] EXCEPT !.signal = @ \ {"SIGCHLD"}]
             t == [task EXCEPT ![c] = r]
             d == [r EXCEPT !.at = "ret", !.want = -1]
  <2>1. /\ r \in TaskRecord /\ r.pid = task[c].pid /\ r.father = task[c].father
        /\ r.state = task[c].state /\ r.log = task[c].log
        /\ r.alarm = task[c].alarm /\ r.signal \subseteq task[c].signal
    BY <1>3 DEF TaskRecord
  <2>2. IF t[c].signal = {} THEN WaitTurn(t, c, t[c].want, FALSE)
        ELSE /\ task' = [t EXCEPT ![c].at = "ret", ![c].want = -1]
             /\ UNCHANGED current
    BY <1>7 DEF WaitpidResume
  <2>3. t[c] = r /\ t \in [Slot -> TaskRecord \cup {NULL}]
    BY <1>3, <2>1
  <2> HIDE DEF r
  <2>4. Settled(t, c)  BY <1>1, <1>2, <2>1, RunsOn
  <2> HIDE DEF t
  <2>5. CASE r.signal = {}
    <3>1. r.want \in -1..MaxPid  BY <2>1 DEF TaskRecord
    <3>2. WaitTurn(t, c, r.want, FALSE)  BY <2>2, <2>3, <2>5
    <3> QED  BY <1>1, <1>2, <2>4, <3>1, <3>2, WaitTurnSettles
  <2>6. CASE r.signal # {}
    <3>1. task' = [t EXCEPT ![c] = d] /\ UNCHANGED current
      BY <2>2, <2>3, <2>6
    <3>2. d \in TaskRecord
      <4>1. \A n \in -1..MaxPid : [r EXCEPT !.at = "ret", !.want = n] \in TaskRecord
        BY <2>1 DEF TaskRecord
      <4>2. -1 \in -1..MaxPid  OBVIOUS
      <4> QED  BY <4>1, <4>2
    <3>3. /\ d.pid = r.pid /\ d.father = r.father /\ d.state = r.state /\ d.log = r.log
          /\ d.alarm = r.alarm /\ d.signal = r.signal
      BY <2>1 DEF TaskRecord
    <3> HIDE DEF d
    <3>4. Settled([t EXCEPT ![c] = d], c)
      BY <1>2, <2>3, <2>4, <3>2, <3>3, RunsOn
    <3> QED  BY <1>1, <3>1, <3>4
  <2> QED  BY <2>5, <2>6
<1> QED  BY <1>5, <1>6, <1>7

\* Reading from the tty, and the keyboard.
LEMMA TtyStep ==
    ASSUME TasksInv, NEW c \in Slot, TtyReadResume(c)
    PROVE  TasksInv'
<1> USE TasksAssumption
<1>1. /\ current = c /\ Settled(task, c) /\ UNCHANGED <<last_pid, forks>>
      /\ proc_list \in Slot \cup {NULL}
    BY DEF TasksInv, TtyReadResume
<1>2. c # 0
  <2>1. task[0].at = "user"  BY <1>1 DEF Settled, Kin, Roots
  <2> QED  BY <2>1 DEF TtyReadResume
<1>3. /\ task[c] \in TaskRecord /\ task[c].tmp \in Slot \cup {NULL}
  <2>1. task[c] \in TaskRecord  BY <1>1, <1>2, CurrentFacts
  <2> QED  BY <2>1 DEF TaskRecord
<1>4. CASE proc_list \notin {NULL, c}
  <2> DEFINE t == SetRunning(task, proc_list)
             r == [t[c] EXCEPT !.state = "interruptible", !.log = "W"]
  <2>1. Settled(t, c) /\ t[c] = task[c]
    BY <1>1, <1>4, SetRunningSettled
  <2>2. t[c] \in TaskRecord  BY <1>3, <2>1
  <2> HIDE DEF t
  <2>3. Logged([t[c] EXCEPT !.state = "interruptible"], "W") = r
    BY <2>2 DEF Logged, TaskRecord
  <2>4. /\ r \in TaskRecord /\ r.pid = t[c].pid /\ r.father = t[c].father
        /\ r.state = "interruptible" /\ r.log = "W" /\ r.at = t[c].at
        /\ r.alarm = t[c].alarm /\ r.signal = t[c].signal
    BY <2>2 DEF TaskRecord
  <2>5. task[c].at = "tty"  BY DEF TtyReadResume
  <2> HIDE DEF r
  <2>6. Schedule([t EXCEPT ![c] = r]) /\ UNCHANGED proc_list
    BY <1>4, <2>3 DEF TtyReadResume, t
  <2>7. Settled(task', current') /\ current' \in Slot
    BY <1>1, <1>2, <2>1, <2>4, <2>5, <2>6, SleepsSound
  <2> QED  BY <1>1, <2>6, <2>7 DEF TasksInv
<1>5. CASE proc_list \in {NULL, c}
  <2> DEFINE t == SetRunning(task, task[c].tmp)
             r == [t[c] EXCEPT !.at = "ret", !.tmp = NULL]
  <2>1. Settled(t, c)
    BY <1>1, <1>3, SetRunningSettled
  <2>2. /\ task' = [t EXCEPT ![c].at = "ret", ![c].tmp = NULL]
        /\ proc_list' = NULL /\ UNCHANGED current
    BY <1>5 DEF TtyReadResume
  <2> HIDE DEF t
  <2>3. t[c] \in TaskRecord /\ t \in [Slot -> TaskRecord \cup {NULL}]
    BY <1>2, <2>1, CurrentFacts
  <2>4. task' = [t EXCEPT ![c] = r]
    BY <2>2, <2>3
  <2>5. /\ r \in TaskRecord /\ r.pid = t[c].pid /\ r.father = t[c].father
        /\ r.state = t[c].state /\ r.log = t[c].log
        /\ r.alarm = t[c].alarm /\ r.signal = t[c].signal
    BY <2>3 DEF TaskRecord
  <2> HIDE DEF r
  <2>6. Settled([t EXCEPT ![c] = r], c)
    BY <1>2, <2>1, <2>5, RunsOn
  <2> QED  BY <1>1, <2>2, <2>4, <2>6 DEF TasksInv
<1> QED  BY <1>4, <1>5

\* The ways back to user mode, by the end of a system call or of a tick.
LEMMA ReturnStep ==
    ASSUME TasksInv, NEW c \in Slot, Return(c) \/ ReturnScheduled(c) \/ TickUser(c)
    PROVE  TasksInv'
<1> USE TasksAssumption
<1>1. /\ current = c /\ c # 0 /\ Settled(task, c)
      /\ UNCHANGED <<last_pid, proc_list, forks>>
    BY DEF TasksInv, Return, ReturnScheduled, TickUser, UserMode
<1>2. task[c] \in TaskRecord /\ task \in [Slot -> TaskRecord \cup {NULL}]
    BY <1>1, CurrentFacts
<1>3. SUFFICES Settled(task', current') /\ current' \in Slot
    BY <1>1 DEF TasksInv
<1>4. CASE Deliver(task, c)
    BY <1>1, <1>4, DeliverSettles
<1>5. CASE Schedule([task EXCEPT ![c].at = "signals"])
  <2> DEFINE r == [task[c] EXCEPT !.at = "signals"]
  <2>1. /\ r \in TaskRecord /\ r.pid = task[c].pid /\ r.father = task[c].father
        /\ r.state = task[c].state /\ r.log = task[c].log
        /\ r.alarm = task[c].alarm /\ r.signal = task[c].signal
    BY <1>2 DEF TaskRecord
  <2>2. Schedule([task EXCEPT ![c] = r])  BY <1>5
  <2> HIDE DEF r
  <2>3. Settled([task EXCEPT ![c] = r], c)  BY <1>1, <2>1, RunsOn
  <2> QED  BY <1>1, <2>2, <2>3, YieldSettles
<1>6. CASE TickUser(c)
  <2> DEFINE n == Decremented(task[c].counter)
             r == [task[c] EXCEPT !.counter = n]
             t == [task EXCEPT ![c] = r]
             d == [r EXCEPT !.at = "signals"]
  <2>1. IF t[c].counter > 0 THEN Deliver(t, c) ELSE Schedule([t EXCEPT ![c].at = "signals"])
    BY <1>6 DEF TickUser
  <2>2. n \in 0..(2 * MaxPriority)
    <3>1. task[c].counter \in 0..(2 * MaxPriority)  BY <1>2 DEF TaskRecord
    <3> QED  BY <3>1 DEF Decremented
  <2> HIDE DEF n
  <2>3. /\ r \in TaskRecord /\ r.pid = task[c].pid /\ r.father = task[c].father
        /\ r.state = task[c].state /\ r.log = task[c].log
        /\ r.alarm = task[c].alarm /\ r.signal = task[c].signal
    BY <1>2, <2>2 DEF TaskRecord
  <2>4. t[c] = r  BY <1>2
  <2> HIDE DEF r
  <2>5. Settled(t, c)  BY <1>1, <2>3, RunsOn
  <2> HIDE DEF t
  <2>6. /\ d \in TaskRecord /\ d.pid = r.pid /\ d.father = r.father
        /\ d.state = r.state /\ d.log = r.log /\ d.alarm = r.alarm /\ d.signal = r.signal
    BY <2>3 DEF TaskRecord
  <2>7. CASE Deliver(t, c)
    BY <1>1, <2>5, <2>7, DeliverSettles
  <2>8. CASE Schedule([t EXCEPT ![c].at = "signals"])
    <3>1. Schedule([t EXCEPT ![c] = d])  BY <2>4, <2>8
    <3> HIDE DEF d
    <3>2. Settled([t EXCEPT ![c] = d], c)  BY <1>1, <2>4, <2>5, <2>6, RunsOn
    <3> QED  BY <1>1, <3>1, <3>2, YieldSettles
  <2> QED  BY <2>1, <2>7, <2>8
<1>7. CASE Return(c)
    BY <1>4, <1>5, <1>7 DEF Return
<1>8. CASE ReturnScheduled(c)
    BY <1>4, <1>8 DEF ReturnScheduled
<1> QED  BY <1>6, <1>7, <1>8

\* Every step keeps the invariant.
LEMMA TasksInvStep ==
    ASSUME TasksInv, [TasksNext]_vars
    PROVE  TasksInv'
<1>1. CASE UNCHANGED vars
    BY <1>1 DEF TasksInv, vars
<1>2. CASE Idle
  <2>1. Settled(task', current') /\ current' \in Slot
    BY <1>2, YieldSettles DEF TasksInv, Idle
  <2> QED  BY <1>2, <2>1 DEF TasksInv, Idle
<1>3. CASE Keyboard
  <2>1. Settled(SetRunning(task, proc_list), current)
    BY SetRunningSettled DEF TasksInv
  <2> QED  BY <1>3, <2>1 DEF TasksInv, Keyboard
<1>4. ASSUME NEW c \in Slot, KernelStep(c) \/ SystemCall(c) \/ TickUser(c) \/ TickKernel(c)
      PROVE  TasksInv'
    BY <1>4, ForkStep, KillStep, OwnStep, WaitStep, TtyStep, ReturnStep
    DEF KernelStep, SystemCall
<1> QED  BY <1>1, <1>2, <1>3, <1>4 DEF TasksNext

\* The first state satisfies it.
LEMMA TasksInvInit ==
    ASSUME TasksInit
    PROVE  TasksInv
<1> USE TasksAssumption
<1> DEFINE a == [pid |-> 0, father |-> -1, state |-> "interruptible", counter |-> 0,
                 priority |-> 1, signal |-> {}, alarm |-> FALSE, at |-> "user",
                 want |-> -1, tmp |-> NULL, log |-> "R"]
           b == [a EXCEPT !.pid = 1, !.father = 0, !.counter = 1,
                          !.state = "running", !.log = "J"]
<1>1. /\ task = [s \in Slot |-> IF s = 0 THEN a ELSE IF s = 1 THEN b ELSE NULL]
      /\ current = 0 /\ last_pid = BootPid /\ proc_list = NULL /\ forks = 0
    BY DEF TasksInit
<1>2. /\ a \in TaskRecord /\ a.pid = 0 /\ a.state # "zombie" /\ a.at = "user"
      /\ ~a.alarm /\ a.signal = {}
  <2>1. a \in TaskRecord  BY DEF TaskRecord, Pid
  <2> QED  BY <2>1
<1> HIDE DEF a
<1>3. /\ b \in TaskRecord /\ b.pid = 1 /\ b.father = 0 /\ b.state = "running"
      /\ b.at = "user" /\ ~b.alarm /\ b.signal = {} /\ b.log = "J"
  <2>1. 1 \in Pid /\ 0 \in -1..MaxPid /\ 1 \in 0..(2 * MaxPriority)  BY DEF Pid
  <2> QED  BY <1>2, <2>1 DEF TaskRecord
<1> HIDE DEF b
<1>4. 0 \in Slot /\ 1 \in Slot /\ task[0] = a /\ task[1] = b /\ Live(task) = {0, 1}
    BY <1>1, <1>2, <1>3 DEF Slot, Live
<1>5. TypeT(task)
    BY <1>1, <1>2, <1>3 DEF TypeT
<1>6. Roots(task) /\ Unique(task) /\ Fathers(task)
    BY <1>2, <1>3, <1>4 DEF Roots, Unique, Fathers
<1>7. LogState(task) /\ LogRuns(task, current) /\ ClaimedNow(task)
    BY <1>3, <1>4 DEF LogState, LogRuns, ClaimedNow, Claims
<1>8. Settled(task, current)
    BY <1>1, <1>4, <1>5, <1>6, <1>7 DEF Settled, Kin
<1> QED  BY <1>1, <1>4, <1>8 DEF TasksInv, Pid

\* TasksInv is an invariant of the module.
THEOREM TasksInvariant == TasksSpec => []TasksInv
BY TasksInvInit, TasksInvStep, PTL DEF TasksSpec

----------------------------------------------------------------------------
\* What the runs check, for every number of slots, pids, tasks, tty readers and
\* signals.

\* Types: in particular no counter exceeds twice the largest priority, however long
\* a task sleeps, and no count of the bounds is left.
THEOREM TasksTyped == TasksSpec => []TaskTypeOK
<1>1. TasksInv => TaskTypeOK
    BY DEF TasksInv, Settled, Kin, TypeT, TaskTypeOK
<1> QED  BY <1>1, TasksInvariant, PTL

\* No two tasks have one pid, whatever last_pid has wrapped over.
THEOREM PidsAreUnique == TasksSpec => []PidsUnique
<1>1. TasksInv => PidsUnique
    BY DEF TasksInv, Settled, Kin, Unique, Live, PidsUnique
<1> QED  BY <1>1, TasksInvariant, PTL

\* tell_father always finds a father that has not exited.
THEOREM FathersAreLive == TasksSpec => []FathersLive
<1>1. TasksInv => FathersLive
  <2> SUFFICES ASSUME TasksInv, NEW s \in Others(task)
               PROVE  \E f \in Slot : /\ task[f] # NULL
                                      /\ task[f].pid = task[s].father
                                      /\ task[f].state # "zombie"
    BY DEF FathersLive
  <2> USE TasksAssumption
  <2>1. s \in Live(task) \ {0}  BY DEF Others, Live
  <2>2. CASE s = 1
    BY <2>2 DEF TasksInv, Settled, Kin, Roots, Slot
  <2>3. CASE s # 1
    BY <2>1, <2>3 DEF TasksInv, Settled, Kin, Fathers, Live
  <2> QED  BY <2>2, <2>3
<1> QED  BY <1>1, TasksInvariant, PTL

\* No exit of a child, and no zombie inherited from a father that exits, is missed
\* by a task that waits for it, over any number of generations.
THEOREM NoExitMissed == TasksSpec => []ClaimableNotAsleep
<1>1. TasksInv => ClaimableNotAsleep
  <2> SUFFICES ASSUME TasksInv, NEW s \in Others(task), task[s].at = "waitpid",
                      HasClaimable(s)
               PROVE  task[s].state = "running"
    BY DEF ClaimableNotAsleep
  <2>1. PICK z \in Others(task) : /\ task[z].state = "zombie"
                                  /\ task[z].father = task[s].pid
                                  /\ task[s].want \in {-1, task[z].pid}
    BY DEF HasClaimable
  <2>2. Claims(task, s, z) /\ s \in Slot /\ z \in Slot
    BY <2>1 DEF Claims, Others, Live
  <2> QED  BY <2>2 DEF TasksInv, Settled, ClaimedNow
<1> QED  BY <1>1, TasksInvariant, PTL

\* The last line of /var/process.log about a process tells its state.
THEOREM LogIsTrue == TasksSpec => []LogTellsState
<1>1. TasksInv => LogTellsState
  <2> SUFFICES ASSUME TasksInv, NEW s \in Others(task)
               PROVE  /\ task[s].log = "W" <=> task[s].state = "interruptible"
                      /\ task[s].log = "E" <=> task[s].state = "zombie"
                      /\ task[s].log = "R" => current = s
    BY DEF LogTellsState
  <2>1. s \in Live(task) \ {0}  BY DEF Others, Live
  <2> QED  BY <2>1 DEF TasksInv, Settled, LogState, LogRuns
<1> QED  BY <1>1, TasksInvariant, PTL

----------------------------------------------------------------------------
\* The head of the tty's queue, for any number of readers.  A reader that has
\* a later one in front of it goes back to sleep, whoever woke it, and one
\* that leaves takes the head with it, so that proc_list always leads to a
\* task that stands in interruptible_sleep_on.

Placed(t, pl) == pl # NULL => pl \in Live(t) /\ t[pl].at = "tty"

\* r becomes q: it stays where it is.
Tame(r, q) == q \in TaskRecord /\ q.at = r.at

\* Every entry of t is changed so, to that of u.
SameSpots(t, u) ==
    TypeT(u) /\ Live(u) = Live(t) /\ \A s \in Live(t) : Tame(t[s], u[s])

\* Such a change keeps Placed.
LEMMA SpotsKept ==
    ASSUME NEW t, NEW u, NEW pl, Placed(t, pl), SameSpots(t, u)
    PROVE  Placed(u, pl)
BY DEF Placed, SameSpots, Tame

\* A table with every entry changed, and one with one entry changed.
LEMMA TameMap ==
    ASSUME NEW t, NEW u, u = [s \in Slot |-> u[s]],
           \A s \in Slot : t[s] = NULL => u[s] = NULL,
           \A s \in Live(t) : Tame(t[s], u[s])
    PROVE  SameSpots(t, u)
<1> USE TasksAssumption
<1>1. \A s \in Live(t) : s \in Slot /\ u[s] \in TaskRecord /\ u[s] # NULL
    BY DEF Live, Tame
<1>2. \A s \in Slot : s \notin Live(t) => u[s] = NULL
    BY DEF Live
<1>3. Live(u) = Live(t)
    BY <1>1, <1>2 DEF Live
<1>4. \A s \in Slot : u[s] \in TaskRecord \cup {NULL}
    BY <1>1, <1>2
<1>5. TypeT(u)
    BY <1>4 DEF TypeT
<1> QED  BY <1>3, <1>5 DEF SameSpots

LEMMA TameEntry ==
    ASSUME NEW t, TypeT(t), NEW n \in Live(t), NEW r, Tame(t[n], r)
    PROVE  SameSpots(t, [t EXCEPT ![n] = r])
<1> USE TasksAssumption
<1> DEFINE v == [t EXCEPT ![n] = r]
<1>1. n \in Slot /\ r \in TaskRecord /\ r # NULL  BY DEF Live, Tame
<1>2. v[n] = r /\ (\A s \in Slot \ {n} : v[s] = t[s]) /\ TypeT(v)
    BY <1>1 DEF TypeT
<1>3. \A s \in Live(t) : s \in Slot /\ t[s] \in TaskRecord
    BY DEF Live, TypeT
<1> HIDE DEF v
<1>4. Live(v) = Live(t)
    BY <1>1, <1>2 DEF Live
<1>5. \A s \in Live(t) : Tame(t[s], v[s])
    BY <1>2, <1>3 DEF Tame
<1> QED  BY <1>2, <1>4, <1>5 DEF SameSpots, v

\* fprintk moves nobody.
LEMMA LoggedTame ==
    ASSUME NEW r \in TaskRecord, NEW l \in {"N", "J", "R", "W", "E"}
    PROVE  Tame(r, Logged(r, l)) /\ Logged(r, l).state = r.state
BY DEF Tame, Logged, TaskRecord

\* schedule() moves nobody.
LEMMA SignalledSpots ==
    ASSUME NEW t, TypeT(t), NEW expired \in SUBSET {s \in Others(t) : t[s].alarm}
    PROVE  SameSpots(t, Signalled(t, expired))
<1> USE TasksAssumption
<1> DEFINE u == Signalled(t, expired)
           v(s) == IF s \notin expired THEN t[s]
                   ELSE [t[s] EXCEPT !.signal = @ \cup {"SIGALRM"}, !.alarm = FALSE]
<1>1. u = [s \in Slot |-> u[s]] /\ \A s \in Slot : s \notin Others(t) => u[s] = t[s]
    BY DEF Signalled
<1>2. ASSUME NEW s \in Others(t)
      PROVE  Tame(t[s], u[s])
  <2>1. t[s] \in TaskRecord /\ s \in Slot  BY EntryType DEF Others
  <2>2. v(s) \in TaskRecord /\ Tame(t[s], v(s)) /\ v(s).state = t[s].state
    BY <2>1 DEF Tame, TaskRecord
  <2>3. u[s] = IF v(s).signal # {} /\ v(s).state = "interruptible"
               THEN Logged([v(s) EXCEPT !.state = "running"], "J") ELSE v(s)
    BY <2>1 DEF Signalled
  <2> HIDE DEF v, u
  <2>4. CASE v(s).signal # {} /\ v(s).state = "interruptible"
    <3> DEFINE q == [v(s) EXCEPT !.state = "running"]
    <3>1. q \in TaskRecord /\ q.at = v(s).at
      BY <2>2 DEF TaskRecord
    <3> HIDE DEF q
    <3>2. Tame(q, Logged(q, "J"))  BY <3>1, LoggedTame
    <3>3. u[s] = Logged(q, "J")  BY <2>3, <2>4 DEF q
    <3> QED  BY <2>2, <2>4, <3>1, <3>2, <3>3 DEF Tame
  <2>5. CASE ~(v(s).signal # {} /\ v(s).state = "interruptible")
    BY <2>2, <2>3, <2>5
  <2> QED  BY <2>4, <2>5
<1> HIDE DEF u
<1>3. \A s \in Live(t) : Tame(t[s], u[s])
  <2> SUFFICES ASSUME NEW s \in Live(t) PROVE Tame(t[s], u[s])  OBVIOUS
  <2>1. s \in Slot /\ t[s] \in TaskRecord  BY EntryType DEF Live
  <2>2. CASE s \in Others(t)  BY <1>2, <2>2
  <2>3. CASE s \notin Others(t)  BY <1>1, <2>1, <2>3 DEF Tame
  <2> QED  BY <2>2, <2>3
<1>4. \A s \in Slot : t[s] = NULL => u[s] = NULL
    BY <1>1 DEF Others
<1>5. SameSpots(t, u)
    BY <1>1, <1>3, <1>4, TameMap
<1> QED  BY <1>5 DEF u

LEMMA ScheduleSpots ==
    ASSUME NEW t, TypeT(t), t[0] # NULL, current \in Slot, Schedule(t),
           NEW pl, Placed(t, pl)
    PROVE  Placed(task', pl)
<1> USE TasksAssumption
<1>1. PICK expired \in SUBSET {s \in Others(t) : t[s].alarm} :
        LET u == Refilled(Signalled(t, expired))
            next == NextTask(u)
        IN task' = IF next = current THEN u
                   ELSE [u EXCEPT ![current] = IF @ # NULL /\ @.state = "running"
                                               THEN Logged(@, "J") ELSE @,
                                  ![next] = Logged(@, "R")]
    BY DEF Schedule
<1> DEFINE w == Signalled(t, expired)
           u == Refilled(w)
           next == NextTask(u)
           c == current
<1>2. SameSpots(t, w)  BY SignalledSpots
<1> HIDE DEF w
<1>3. TypeT(w) /\ Live(w) = Live(t) /\ Placed(w, pl)
    BY <1>2, SpotsKept DEF SameSpots
<1>4. SameSpots(w, u)
  <2>1. /\ TypeT(u) /\ Live(u) = Live(w)
        /\ \A s \in Live(w) : /\ u[s].at = w[s].at
                              /\ u[s].state = w[s].state
    BY <1>3, RefilledCounters
  <2> HIDE DEF u
  <2>2. \A s \in Live(w) : u[s] \in TaskRecord  BY <2>1, EntryType DEF Live
  <2> QED  BY <2>1, <2>2 DEF SameSpots, Tame
<1> HIDE DEF u
<1>5. TypeT(u) /\ Live(u) = Live(t) /\ Placed(u, pl)
    BY <1>3, <1>4, SpotsKept DEF SameSpots
<1>6. next \in Slot /\ next \in Live(u)
  <2>1. 0 \in Slot /\ 0 \in Live(u)  BY <1>5 DEF Slot, Live
  <2>2. next \in Runnable(u) \/ next = 0  BY <1>5, NextTaskRuns
  <2> QED  BY <2>1, <2>2 DEF Runnable, Others, Live
<1>7. task' = IF next = c THEN u
              ELSE [u EXCEPT ![c] = IF u[c] # NULL /\ u[c].state = "running"
                                    THEN Logged(u[c], "J") ELSE u[c],
                             ![next] = Logged(@, "R")]
    BY <1>1 DEF w, u
<1> HIDE DEF next
<1>8. CASE next = c
    BY <1>5, <1>7, <1>8
<1>9. CASE next # c
  <2> DEFINE a == IF u[c] # NULL /\ u[c].state = "running" THEN Logged(u[c], "J") ELSE u[c]
             v == [u EXCEPT ![c] = a]
             b == Logged(u[next], "R")
  <2>1. c \in Slot /\ u[c] \in TaskRecord \cup {NULL} /\ u[next] \in TaskRecord
    BY <1>5, <1>6, EntryType DEF Live, TypeT
  <2>2. u[c] # NULL => Tame(u[c], a)  BY <2>1, LoggedTame DEF Tame
  <2>3. Tame(u[next], b)  BY <2>1, LoggedTame
  <2>4. task' = [v EXCEPT ![next] = b]
    <3>1. v[next] = u[next]  BY <1>5, <1>6, <1>9, <2>1 DEF TypeT
    <3>2. task' = [v EXCEPT ![next] = Logged(@, "R")]  BY <1>7, <1>9
    <3>3. task' = [v EXCEPT ![next] = Logged(v[next], "R")]  BY <3>2
    <3> QED  BY <3>1, <3>3
  <2>5. SameSpots(u, v)
    <3>1. CASE u[c] = NULL
      <4>1. v = u  BY <1>5, <3>1 DEF TypeT
      <4>2. \A s \in Live(u) : u[s] \in TaskRecord  BY <1>5 DEF TypeT, Live
      <4> HIDE DEF v
      <4> QED  BY <1>5, <4>1, <4>2 DEF SameSpots, Tame
    <3>2. CASE u[c] # NULL
      <4>1. c \in Live(u)  BY <2>1, <3>2 DEF Live
      <4> HIDE DEF a
      <4> QED  BY <1>5, <2>2, <3>2, <4>1, TameEntry
    <3> QED  BY <3>1, <3>2
  <2>6. v[next] = u[next]  BY <1>5, <1>6, <1>9, <2>1 DEF TypeT
  <2> HIDE DEF a, b, v
  <2>7. TypeT(v) /\ Live(v) = Live(u) /\ Placed(v, pl)
    BY <1>5, <2>5, SpotsKept DEF SameSpots
  <2>8. SameSpots(v, [v EXCEPT ![next] = b])
    BY <1>6, <2>3, <2>6, <2>7, TameEntry
  <2> QED  BY <2>4, <2>7, <2>8, SpotsKept
<1> QED  BY <1>8, <1>9

\* A task changes its own entry to r, and proc_list becomes q.
LEMMA OwnPlaced ==
    ASSUME NEW t, TypeT(t), NEW c \in Live(t), NEW r \in TaskRecord,
           NEW pl, Placed(t, pl), NEW q \in {NULL, c, pl}, q = c => r.at = "tty"
    PROVE  LET v == [t EXCEPT ![c] = r]
           IN TypeT(v) /\ Live(v) = Live(t) /\ Placed(v, q)
<1> USE TasksAssumption
<1> DEFINE v == [t EXCEPT ![c] = r]
<1>1. c \in Slot /\ r # NULL  BY DEF Live
<1>2. v[c] = r /\ (\A s \in Slot \ {c} : v[s] = t[s]) /\ TypeT(v)
    BY <1>1 DEF TypeT
<1> HIDE DEF v
<1>3. Live(v) = Live(t)
    BY <1>1, <1>2 DEF Live
<1>4. Live(t) \subseteq Slot  BY DEF Live
<1>5. q # NULL => q \in Live(v) /\ v[q].at = "tty"
    BY <1>2, <1>3, <1>4 DEF Placed
<1> QED  BY <1>2, <1>3, <1>5 DEF Placed, v

\* An entry is given up that proc_list does not lead to.
LEMMA ReleasePlaced ==
    ASSUME NEW t, TypeT(t), NEW z \in Slot, NEW pl, Placed(t, pl), z # pl
    PROVE  LET v == [t EXCEPT ![z] = NULL]
           IN TypeT(v) /\ (\A s \in Slot \ {z} : v[s] = t[s]) /\ Placed(v, pl)
<1> DEFINE v == [t EXCEPT ![z] = NULL]
<1>1. v[z] = NULL /\ (\A s \in Slot \ {z} : v[s] = t[s]) /\ TypeT(v)
    BY DEF TypeT
<1> HIDE DEF v
<1> QED  BY <1>1 DEF Placed, Live, v

\* What is known of the running task.
LEMMA CurrentPlaced ==
    ASSUME NEW t, NEW c, Settled(t, c), c # 0, NEW pl, Placed(t, pl)
    PROVE  /\ TypeT(t) /\ t[0] # NULL /\ 0 \in Slot /\ c \in Slot /\ c \in Live(t)
           /\ t[c] \in TaskRecord
           /\ t[c].at # "tty" => pl # c
<1> USE TasksAssumption
<1>1. c \in Live(t) /\ t[c] \in TaskRecord /\ t[c].state = "running"
    BY CurrentFacts
<1> QED  BY <1>1 DEF Settled, Kin, Roots, Placed, Live, Slot

\* It changes its own entry and calls schedule().
LEMMA OwnThenSchedule ==
    ASSUME NEW t, Settled(t, current), current # 0,
           NEW r \in TaskRecord, NEW pl, Placed(t, pl), NEW q \in {NULL, current, pl},
           q = current => r.at = "tty", Schedule([t EXCEPT ![current] = r])
    PROVE  Placed(task', q)
<1> DEFINE v == [t EXCEPT ![current] = r]
<1>1. /\ TypeT(t) /\ t[0] # NULL /\ 0 \in Slot /\ current \in Slot /\ current \in Live(t)
    BY CurrentPlaced
<1>2. TypeT(v) /\ Placed(v, q)
    BY <1>1, OwnPlaced
<1>3. v[0] # NULL
    BY <1>1 DEF TypeT
<1> HIDE DEF v
<1> QED  BY <1>1, <1>2, <1>3, ScheduleSpots DEF v

\* A wake-up through any pointer, also one to a task that has gone.
LEMMA SetRunningPlaced ==
    ASSUME NEW t, TypeT(t), NEW pl, Placed(t, pl), NEW p \in Slot \cup {NULL}
    PROVE  LET v == SetRunning(t, p)
           IN Placed(v, pl) /\ TypeT(v) /\ Live(v) = Live(t)
<1>1. CASE p = NULL \/ t[p] = NULL
    BY <1>1 DEF SetRunning
<1>2. CASE ~(p = NULL \/ t[p] = NULL)
  <2> DEFINE r == Logged([t[p] EXCEPT !.state = "running"], "J")
  <2>1. p \in Live(t) /\ p \in Slot /\ t[p] # NULL /\ t[p] \in TaskRecord
    BY <1>2, EntryType DEF Live
  <2>2. r \in TaskRecord /\ r.at = t[p].at
    BY <2>1 DEF Logged, TaskRecord
  <2>3. SetRunning(t, p) = [t EXCEPT ![p] = r]
    BY <1>2, <2>1 DEF SetRunning
  <2>4. pl = p => r.at = "tty"
    BY <1>2, <2>1, <2>2 DEF Placed
  <2> HIDE DEF r
  <2>5. /\ Placed([t EXCEPT ![p] = r], pl) /\ TypeT([t EXCEPT ![p] = r])
        /\ Live([t EXCEPT ![p] = r]) = Live(t)
    BY <1>2, <2>1, <2>2, <2>4, OwnPlaced
  <2> QED  BY <2>3, <2>5
<1> QED  BY <1>1, <1>2

\* do_exit puts a zombie in the place of its task; its children and its father
\* stay where they are.
LEMMA DoExitPlaced ==
    ASSUME NEW t, Settled(t, current), current \notin {0, 1}, DoExit(t, current),
           NEW pl, Placed(t, pl), t[current].at # "tty"
    PROVE  Placed(task', pl)
<1> USE TasksAssumption
<1> DEFINE c == current
           u == Reparented(t, c)
           z == Logged([u[c] EXCEPT !.state = "zombie", !.at = "exit", !.alarm = FALSE,
                                    !.signal = {}], "E")
           w == [u EXCEPT ![c] = z]
           x == FatherToldOf(w, c)
<1>0. /\ TypeT(t) /\ t[0] # NULL /\ 0 \in Slot /\ c \in Slot /\ c \in Live(t) \ {0, 1}
      /\ pl # c /\ Kin(t)
    BY CurrentPlaced DEF Settled
<1>1. Schedule(x)
    BY DEF DoExit
<1>2. SameSpots(t, u)
  <2>1. /\ TypeT(u) /\ Live(u) = Live(t)
        /\ \A s \in Live(t) : /\ u[s].at = t[s].at
                              /\ u[s].state = t[s].state
    BY <1>0, ReparentedFacts
  <2> HIDE DEF u
  <2>2. \A s \in Live(t) : u[s] \in TaskRecord  BY <2>1, EntryType DEF Live
  <2> QED  BY <2>1, <2>2 DEF SameSpots, Tame
<1> HIDE DEF u
<1>3. TypeT(u) /\ Live(u) = Live(t) /\ Placed(u, pl) /\ u[c] \in TaskRecord
  <2>1. TypeT(u) /\ Live(u) = Live(t) /\ Placed(u, pl)
    BY <1>2, SpotsKept DEF SameSpots
  <2> QED  BY <1>0, <2>1, EntryType DEF Placed, Live
<1>4. z \in TaskRecord /\ z.at = "exit" /\ z.state = "zombie"
    BY <1>3 DEF Logged, TaskRecord
<1> HIDE DEF z
<1>5. TypeT(w) /\ Live(w) = Live(t) /\ Placed(w, pl)
    BY <1>0, <1>3, <1>4, OwnPlaced
<1> HIDE DEF w
<1> DEFINE fathers == {s \in Slot : w[s] # NULL /\ w[s].pid = w[c].father}
           f == CHOOSE s \in fathers : \A r \in fathers : s <= r
<1>6. x = IF w[c].father = 0 \/ fathers = {} THEN [w EXCEPT ![c] = NULL]
          ELSE [w EXCEPT ![f] = [w[f] EXCEPT !.signal = @ \cup {"SIGCHLD"}]]
    BY DEF FatherToldOf
<1> HIDE DEF x
<1>7. w[0] # NULL
    BY <1>0, <1>5 DEF Live
<1>8. CASE w[c].father = 0 \/ fathers = {}
  <2>1. x = [w EXCEPT ![c] = NULL]  BY <1>6, <1>8
  <2>2. TypeT(x) /\ (\A s \in Slot \ {c} : x[s] = w[s]) /\ Placed(x, pl)
    BY <1>0, <1>5, <2>1, ReleasePlaced
  <2>3. x[0] # NULL  BY <1>0, <1>7, <2>2
  <2> QED  BY <1>0, <1>1, <2>2, <2>3, ScheduleSpots
<1>9. CASE ~(w[c].father = 0 \/ fathers = {})
  <2>1. f \in fathers
    <3>1. fathers \in SUBSET Slot  OBVIOUS
    <3> HIDE DEF fathers
    <3> QED  BY <1>9, <3>1, FirstAndLastSlot
  <2>2. f \in Slot /\ f \in Live(w)  BY <2>1 DEF Live
  <2> HIDE DEF f, fathers
  <2> DEFINE r == [w[f] EXCEPT !.signal = @ \cup {"SIGCHLD"}]
  <2>3. w[f] \in TaskRecord  BY <1>5, <2>2 DEF TypeT, Live
  <2>4. Tame(w[f], r)  BY <2>3 DEF Tame, TaskRecord
  <2>5. x = [w EXCEPT ![f] = r]  BY <1>6, <1>9
  <2> HIDE DEF r
  <2>6. SameSpots(w, x)  BY <1>5, <2>2, <2>4, <2>5, TameEntry
  <2>7. TypeT(x) /\ Live(x) = Live(w) /\ Placed(x, pl)
    BY <1>5, <2>6, SpotsKept DEF SameSpots
  <2>8. x[0] # NULL  BY <1>0, <1>7, <2>7 DEF Live
  <2> QED  BY <1>0, <1>1, <2>7, <2>8, ScheduleSpots
<1> QED  BY <1>8, <1>9

\* waitpid releases a zombie, to which proc_list does not lead.
LEMMA WaitTurnPlaced ==
    ASSUME NEW t, Settled(t, current), current # 0, NEW want \in -1..MaxPid,
           NEW h \in BOOLEAN, WaitTurn(t, current, want, h),
           NEW pl, Placed(t, pl), t[current].at # "tty"
    PROVE  Placed(task', pl)
<1> USE TasksAssumption
<1> DEFINE c == current
           children == {s \in Others(t) \ {c} : /\ t[s].father = t[c].pid
                                                /\ want \in {-1, t[s].pid}}
           zombies == {s \in children : t[s].state = "zombie"}
           last == CHOOSE s \in zombies : \A r \in zombies : r <= s
           w == Logged([t[c] EXCEPT !.state = "interruptible", !.at = "waitpid",
                                    !.want = want], "W")
           d == [t[c] EXCEPT !.at = "ret", !.want = -1]
           done == [t EXCEPT ![c] = d]
<1>0. /\ TypeT(t) /\ t[0] # NULL /\ 0 \in Slot /\ c \in Slot /\ c \in Live(t)
      /\ t[c] \in TaskRecord /\ pl # c
    BY CurrentPlaced
<1>1. d \in TaskRecord /\ d.at = "ret"
  <2>1. \A n \in -1..MaxPid : [t[c] EXCEPT !.at = "ret", !.want = n] \in TaskRecord
    BY <1>0 DEF TaskRecord
  <2>2. -1 \in -1..MaxPid  OBVIOUS
  <2>3. d \in TaskRecord  BY <2>1, <2>2
  <2> QED  BY <1>0, <2>3 DEF TaskRecord
<1>2. w \in TaskRecord /\ w.at = "waitpid"
    BY <1>0 DEF Logged, TaskRecord
<1>3. IF zombies # {} THEN Schedule([done EXCEPT ![last] = NULL])
      ELSE IF children = {} \/ h THEN task' = done /\ UNCHANGED current
      ELSE Schedule([t EXCEPT ![c] = w])
  <2>1. [t EXCEPT ![c].at = "ret", ![c].want = -1] = done
    BY <1>0 DEF TypeT
  <2> HIDE DEF w, d
  <2> QED  BY <2>1 DEF WaitTurn, w
<1> HIDE DEF w, d
<1>4. TypeT(done) /\ Live(done) = Live(t) /\ Placed(done, pl)
    BY <1>0, <1>1, OwnPlaced
<1>5. CASE zombies # {}
  <2>1. last \in zombies
    <3>1. zombies \in SUBSET Slot  BY DEF Others
    <3> HIDE DEF zombies
    <3> QED  BY <1>5, <3>1, FirstAndLastSlot
  <2> HIDE DEF last
  <2>2. last \in Slot /\ last # c /\ last # 0 /\ last \in Live(t) /\ t[last].state = "zombie"
    BY <2>1 DEF Others, Live
  <2>3. last # pl
    <3>1. t[last].at = "exit"  BY <2>2 DEF Settled, Kin, Roots
    <3>2. t[last].at # "tty"  BY <3>1
    <3> QED  BY <1>0, <2>2, <3>2 DEF Placed
  <2>4. Schedule([done EXCEPT ![last] = NULL])  BY <1>3, <1>5
  <2> HIDE DEF done
  <2> DEFINE v == [done EXCEPT ![last] = NULL]
  <2>5. TypeT(v) /\ (\A s \in Slot \ {last} : v[s] = done[s]) /\ Placed(v, pl)
    BY <1>4, <2>2, <2>3, ReleasePlaced
  <2>6. v[0] # NULL
    <3>1. done[0] # NULL  BY <1>0, <1>4 DEF Live
    <3> QED  BY <1>0, <2>2, <2>5, <3>1
  <2> HIDE DEF v
  <2> QED  BY <1>0, <2>4, <2>5, <2>6, ScheduleSpots DEF v
<1>6. CASE zombies = {} /\ (children = {} \/ h)
    BY <1>3, <1>4, <1>6
<1>7. CASE zombies = {} /\ ~(children = {} \/ h)
  <2>1. Schedule([t EXCEPT ![c] = w])  BY <1>3, <1>7
  <2> QED  BY <1>0, <1>2, <2>1, OwnThenSchedule
<1> QED  BY <1>5, <1>6, <1>7

\* The delivery of a signal.
LEMMA DeliverPlaced ==
    ASSUME NEW t, Settled(t, current), current # 0, Deliver(t, current),
           NEW pl, Placed(t, pl), t[current].at # "tty"
    PROVE  Placed(task', pl)
<1> USE TasksAssumption
<1> DEFINE c == current
           r(sig) == [t[c] EXCEPT !.signal = @ \ {sig}, !.at = "user"]
<1>0. /\ TypeT(t) /\ c \in Slot /\ c \in Live(t)
      /\ t[c] \in TaskRecord /\ pl # c
    BY CurrentPlaced
<1>1. ASSUME NEW sig
      PROVE  /\ [t EXCEPT ![c].signal = @ \ {sig}, ![c].at = "user"] = [t EXCEPT ![c] = r(sig)]
             /\ Settled([t EXCEPT ![c] = r(sig)], c)
             /\ Placed([t EXCEPT ![c] = r(sig)], pl)
             /\ [t EXCEPT ![c] = r(sig)][c].at = "user"
  <2>1. /\ r(sig) \in TaskRecord /\ r(sig).pid = t[c].pid /\ r(sig).father = t[c].father
        /\ r(sig).state = t[c].state /\ r(sig).log = t[c].log /\ r(sig).alarm = t[c].alarm
        /\ r(sig).signal \subseteq t[c].signal /\ r(sig).at = "user"
    BY <1>0 DEF TaskRecord
  <2>2. [t EXCEPT ![c].signal = @ \ {sig}, ![c].at = "user"] = [t EXCEPT ![c] = r(sig)]
    BY <1>0 DEF TypeT
  <2> HIDE DEF r
  <2>3. Settled([t EXCEPT ![c] = r(sig)], c)  BY <2>1, RunsOn
  <2>4. Placed([t EXCEPT ![c] = r(sig)], pl)  BY <1>0, <2>1, OwnPlaced
  <2>5. [t EXCEPT ![c] = r(sig)][c] = r(sig)  BY <1>0 DEF TypeT
  <2> QED  BY <2>1, <2>2, <2>3, <2>4, <2>5
<1> HIDE DEF r
<1>2. CASE task' = [t EXCEPT ![c] = r("SIGALRM")]
    BY <1>1, <1>2
<1>3. CASE task' = [t EXCEPT ![c] = r("SIGCHLD")]
    BY <1>1, <1>3
<1>4. CASE "SIGALRM" \in t[c].signal /\ DoExit([t EXCEPT ![c] = r("SIGALRM")], c)
  <2> DEFINE v == [t EXCEPT ![c] = r("SIGALRM")]
  <2>1. Settled(v, c) /\ Placed(v, pl) /\ v[c].at = "user"  BY <1>1
  <2>2. c \notin {0, 1}  BY <1>4 DEF Settled, Kin, Roots
  <2>3. DoExit(v, c)  BY <1>4
  <2> HIDE DEF v
  <2> QED  BY <2>1, <2>2, <2>3, DoExitPlaced
<1> QED  BY <1>1, <1>2, <1>3, <1>4 DEF Deliver

PlacedNow == Placed(task, proc_list)

\* fork, kill and the calls that change the caller's entry.
LEMMA ForkPlaced ==
    ASSUME TasksInv, PlacedNow, NEW c \in Slot, Fork(c) \/ ForkFails(c)
    PROVE  PlacedNow'
<1> USE TasksAssumption
<1> DEFINE d == [task[c] EXCEPT !.at = "ret"]
           v == [task EXCEPT ![c] = d]
<1>1. /\ current = c /\ c # 0 /\ task[c].at = "user" /\ Settled(task, c)
      /\ proc_list' = proc_list /\ Placed(task, proc_list)
    BY DEF TasksInv, Fork, ForkFails, UserMode, PlacedNow
<1>2. /\ TypeT(task) /\ c \in Live(task)
      /\ task[c] \in TaskRecord /\ proc_list # c
    BY <1>1, CurrentPlaced
<1>3. d \in TaskRecord /\ d.at = "ret"
    BY <1>2 DEF TaskRecord
<1>4. TypeT(v) /\ Live(v) = Live(task) /\ Placed(v, proc_list)
  <2> HIDE DEF d
  <2> QED  BY <1>1, <1>2, <1>3, OwnPlaced
<1>5. CASE ForkFails(c)
  <2>1. task' = v  BY <1>5 DEF ForkFails
  <2> QED  BY <1>1, <1>4, <2>1 DEF PlacedNow
<1>6. CASE Fork(c)
  <2> DEFINE nr == CHOOSE s \in EmptySlots : \A r \in EmptySlots : s <= r
             r == Logged([task[c] EXCEPT !.pid = NextPid, !.father = task[c].pid,
                                         !.counter = task[c].priority, !.signal = {},
                                         !.alarm = FALSE, !.log = "N"], "J")
  <2>1. nr \in EmptySlots
    <3>1. EmptySlots \in SUBSET Slot  BY DEF EmptySlots
    <3>2. EmptySlots # {}  BY <1>6 DEF Fork
    <3> QED  BY <3>1, <3>2, FirstAndLastSlot
  <2>2. task' = [task EXCEPT ![nr] = r, ![c].at = "ret"]
    BY <1>6 DEF Fork
  <2>3. r.at = "user"
    BY <1>1, <1>2 DEF Logged, TaskRecord
  <2> HIDE DEF nr, r, d
  <2>4. nr \in Slot /\ nr # c /\ nr \notin Live(task)
    BY <1>2, <2>1 DEF EmptySlots, Live
  <2>5. task' = [v EXCEPT ![nr] = r]
    BY <1>2, <2>2, <2>4 DEF TypeT, d
  <2> HIDE DEF v
  <2>6. task'[nr] = r /\ \A s \in Slot \ {nr} : task'[s] = v[s]
    BY <1>4, <2>4, <2>5 DEF TypeT
  <2>7. \A s \in Live(task') : s = nr \/ s \in Live(v)
    BY <2>6 DEF Live
  <2>8. proc_list # NULL => proc_list \in Live(task') /\ task'[proc_list].at = "tty"
    BY <1>4, <2>4, <2>6 DEF Placed, Live
  <2>9. Placed(task', proc_list)
    BY <2>8 DEF Placed
  <2> QED  BY <1>1, <2>9 DEF PlacedNow
<1> QED  BY <1>5, <1>6

LEMMA KillPlaced ==
    ASSUME TasksInv, PlacedNow, NEW c \in Slot, Kill(c)
    PROVE  PlacedNow'
<1> USE TasksAssumption
<1> DEFINE living == {s \in Others(task) \ {1} : task[s].state # "zombie"}
<1>1. /\ current = c /\ c # 0 /\ task[c].at = "user" /\ Settled(task, c)
      /\ proc_list' = proc_list /\ Placed(task, proc_list)
    BY DEF TasksInv, Kill, NotInit, UserMode, PlacedNow
<1>2. /\ TypeT(task) /\ c \in Live(task)
      /\ task[c] \in TaskRecord /\ proc_list # c
    BY <1>1, CurrentPlaced
<1>3. PICK targets \in {{s} : s \in living} \cup {living, {}} :
        task' = [s \in Slot |->
               LET u == IF s \in targets
                        THEN [task[s] EXCEPT !.signal = @ \cup {"SIGALRM"}] ELSE task[s]
               IN IF s = c THEN [u EXCEPT !.at = "ret"] ELSE u]
    BY DEF Kill
<1> DEFINE y(s) == IF s \in targets
                   THEN [task[s] EXCEPT !.signal = @ \cup {"SIGALRM"}] ELSE task[s]
           v == [s \in Slot |-> y(s)]
           d == [y(c) EXCEPT !.at = "ret"]
<1>4. ASSUME NEW s \in Live(task)
      PROVE  Tame(task[s], y(s))
  <2>1. task[s] \in TaskRecord  BY <1>2 DEF TypeT, Live
  <2> QED  BY <2>1 DEF Tame, TaskRecord
<1>5. \A s \in Slot : task[s] = NULL => y(s) = NULL
    BY DEF Others
<1>6. task' = [v EXCEPT ![c] = d]
    BY <1>3
<1> HIDE DEF y
<1>7. SameSpots(task, v)
  <2>1. v = [s \in Slot |-> v[s]] /\ \A s \in Slot : v[s] = y(s)
    OBVIOUS
  <2> HIDE DEF v
  <2>2. \A s \in Live(task) : Tame(task[s], v[s])
    BY <1>4, <2>1 DEF Live
  <2>3. \A s \in Slot : task[s] = NULL => v[s] = NULL
    BY <1>5, <2>1
  <2> QED  BY <2>1, <2>2, <2>3, TameMap
<1>8. TypeT(v) /\ Live(v) = Live(task) /\ Placed(v, proc_list)
    BY <1>1, <1>7, SpotsKept DEF SameSpots
<1>9. d \in TaskRecord /\ d.at = "ret"
  <2>1. y(c) \in TaskRecord  BY <1>2, <1>4 DEF Tame
  <2> QED  BY <2>1 DEF TaskRecord
<1> HIDE DEF v, d
<1>10. Placed([v EXCEPT ![c] = d], proc_list)
    BY <1>2, <1>8, <1>9, OwnPlaced
<1> QED  BY <1>1, <1>6, <1>10 DEF PlacedNow

LEMMA OwnStepPlaced ==
    ASSUME TasksInv, PlacedNow, NEW c \in Slot,
           TickKernel(c) \/ Alarm(c) \/ Nice(c) \/ Pause(c) \/ TtyRead(c)
    PROVE  PlacedNow'
<1> USE TasksAssumption
<1>1. current = c /\ c # 0 /\ Settled(task, c) /\ Placed(task, proc_list)
    BY DEF TasksInv, TickKernel, Alarm, Nice, Pause, TtyRead, NotInit, UserMode, PlacedNow
<1>2. /\ TypeT(task) /\ c \in Live(task) /\ task[c] \in TaskRecord
      /\ task[c].at # "tty" => proc_list # c
    BY <1>1, CurrentPlaced
<1>3. CASE TickKernel(c)
  <2> DEFINE n == Decremented(task[c].counter)
             r == [task[c] EXCEPT !.counter = n]
  <2>1. n \in 0..(2 * MaxPriority)
    <3>1. task[c].counter \in 0..(2 * MaxPriority)  BY <1>2 DEF TaskRecord
    <3> QED  BY <3>1 DEF Decremented
  <2>2. task' = [task EXCEPT ![c] = r] /\ proc_list' = proc_list
    BY <1>3 DEF TickKernel
  <2> HIDE DEF n
  <2>3. r \in TaskRecord /\ r.at = task[c].at
    BY <1>2, <2>1 DEF TaskRecord
  <2> HIDE DEF r
  <2>4. Placed([task EXCEPT ![c] = r], proc_list)
    BY <1>1, <1>2, <2>3, OwnPlaced
  <2> QED  BY <2>2, <2>4 DEF PlacedNow
<1>4. CASE Alarm(c)
  <2>1. PICK on \in BOOLEAN : task' = [task EXCEPT ![c].alarm = on, ![c].at = "ret"]
    BY <1>4 DEF Alarm
  <2> DEFINE r == [task[c] EXCEPT !.alarm = on, !.at = "ret"]
  <2>2. task' = [task EXCEPT ![c] = r] /\ proc_list' = proc_list /\ task[c].at = "user"
    BY <1>2, <1>4, <2>1 DEF Alarm, NotInit, UserMode, TypeT
  <2>3. r \in TaskRecord /\ r.at = "ret"
    BY <1>2 DEF TaskRecord
  <2> HIDE DEF r
  <2>4. Placed([task EXCEPT ![c] = r], proc_list)
    BY <1>1, <1>2, <2>2, <2>3, OwnPlaced
  <2> QED  BY <2>2, <2>4 DEF PlacedNow
<1>5. CASE Nice(c)
  <2>1. PICK n \in 1..MaxPriority : task' = [task EXCEPT ![c].priority = n, ![c].at = "ret"]
    BY <1>5 DEF Nice
  <2> DEFINE r == [task[c] EXCEPT !.priority = n, !.at = "ret"]
  <2>2. task' = [task EXCEPT ![c] = r] /\ proc_list' = proc_list /\ task[c].at = "user"
    BY <1>2, <1>5, <2>1 DEF Nice, NotInit, UserMode, TypeT
  <2>3. r \in TaskRecord /\ r.at = "ret"
    BY <1>2 DEF TaskRecord
  <2> HIDE DEF r
  <2>4. Placed([task EXCEPT ![c] = r], proc_list)
    BY <1>1, <1>2, <2>2, <2>3, OwnPlaced
  <2> QED  BY <2>2, <2>4 DEF PlacedNow
<1>6. CASE Pause(c)
  <2> DEFINE r == Logged([task[c] EXCEPT !.state = "interruptible", !.at = "ret"], "W")
  <2>1. /\ Schedule([task EXCEPT ![c] = r])
        /\ proc_list' = proc_list /\ task[c].at = "user"
    BY <1>6 DEF Pause, NotInit, UserMode
  <2>2. r \in TaskRecord /\ r.at = "ret"
    BY <1>2 DEF Logged, TaskRecord
  <2> HIDE DEF r
  <2>3. Placed(task', proc_list)
    BY <1>1, <1>2, <2>1, <2>2, OwnThenSchedule
  <2> QED  BY <2>1, <2>3 DEF PlacedNow
<1>7. CASE TtyRead(c)
  <2> DEFINE r == Logged([task[c] EXCEPT !.state = "interruptible", !.at = "tty",
                                         !.tmp = proc_list], "W")
  <2>1. /\ Schedule([task EXCEPT ![c] = r])
        /\ proc_list' = c /\ task[c].at = "user"
    BY <1>7 DEF TtyRead, NotInit, UserMode
  <2>2. proc_list \in Slot \cup {NULL}
    BY DEF TasksInv
  <2>3. r \in TaskRecord /\ r.at = "tty"
    BY <1>2, <2>2 DEF Logged, TaskRecord
  <2> HIDE DEF r
  <2>4. Placed(task', c)
    BY <1>1, <1>2, <2>1, <2>3, OwnThenSchedule
  <2> QED  BY <2>1, <2>4 DEF PlacedNow
<1> QED  BY <1>3, <1>4, <1>5, <1>6, <1>7

\* exit and waitpid.
LEMMA WaitPlaced ==
    ASSUME TasksInv, PlacedNow, NEW c \in Slot, Exit(c) \/ Waitpid(c) \/ WaitpidResume(c)
    PROVE  PlacedNow'
<1> USE TasksAssumption
<1>1. /\ current = c /\ Settled(task, c) /\ proc_list' = proc_list
      /\ Placed(task, proc_list) /\ task[c].at \in {"user", "waitpid"}
    BY DEF TasksInv, Exit, Waitpid, WaitpidResume, NotInit, UserMode, PlacedNow
<1>2. c # 0
  <2>1. task[0].at = "user"  BY <1>1 DEF Settled, Kin, Roots
  <2> QED  BY <2>1 DEF Exit, Waitpid, WaitpidResume, NotInit, UserMode
<1>3. /\ TypeT(task) /\ c \in Live(task) /\ task[c] \in TaskRecord
      /\ proc_list # c /\ (task[c].pid # 1 => c # 1)
    BY <1>1, <1>2, CurrentPlaced, CurrentFacts
<1>4. SUFFICES Placed(task', proc_list)
    BY <1>1 DEF PlacedNow
<1>5. CASE Exit(c)
  <2>1. c # 1 /\ DoExit(task, c)  BY <1>3, <1>5 DEF Exit, NotInit
  <2> QED  BY <1>1, <1>2, <2>1, DoExitPlaced
<1>6. CASE Waitpid(c)
  <2>1. PICK want \in {-1} \cup {task[s].pid : s \in Others(task)}, h \in BOOLEAN :
          WaitTurn(task, c, want, h)
    BY <1>6 DEF Waitpid
  <2>2. \A s \in Others(task) : task[s].pid \in -1..MaxPid
    <3> SUFFICES ASSUME NEW s \in Others(task) PROVE task[s].pid \in -1..MaxPid  OBVIOUS
    <3>1. task[s] \in TaskRecord  BY <1>3, EntryType DEF Others
    <3>2. task[s].pid \in Pid  BY <3>1 DEF TaskRecord
    <3> QED  BY <3>2 DEF Pid
  <2>3. want \in -1..MaxPid  BY <2>1, <2>2
  <2> QED  BY <1>1, <1>2, <2>1, <2>3, WaitTurnPlaced
<1>7. CASE WaitpidResume(c)
  <2> DEFINE r == [task[c] EXCEPT !.signal = @ \ {"SIGCHLD"}]
             t == [task EXCEPT ![c] = r]
             d == [r EXCEPT !.at = "ret", !.want = -1]
  <2>1. /\ r \in TaskRecord /\ r.pid = task[c].pid /\ r.father = task[c].father
        /\ r.state = task[c].state /\ r.log = task[c].log
        /\ r.alarm = task[c].alarm /\ r.signal \subseteq task[c].signal
        /\ r.at = task[c].at
    BY <1>3 DEF TaskRecord
  <2>2. IF t[c].signal = {} THEN WaitTurn(t, c, t[c].want, FALSE)
        ELSE /\ task' = [t EXCEPT ![c].at = "ret", ![c].want = -1]
             /\ UNCHANGED current
    BY <1>7 DEF WaitpidResume
  <2>3. t[c] = r
    BY <1>3 DEF TypeT
  <2> HIDE DEF r
  <2>4. Settled(t, c)  BY <1>1, <1>2, <2>1, RunsOn
  <2>5. TypeT(t) /\ Live(t) = Live(task) /\ Placed(t, proc_list)
    BY <1>1, <1>3, <2>1, OwnPlaced
  <2> HIDE DEF t
  <2>6. CASE r.signal = {}
    <3>1. r.want \in -1..MaxPid  BY <2>1 DEF TaskRecord
    <3>2. WaitTurn(t, c, r.want, FALSE)  BY <2>2, <2>3, <2>6
    <3>3. t[c].at # "tty"  BY <1>1, <2>1, <2>3
    <3> QED  BY <1>1, <1>2, <2>4, <2>5, <3>1, <3>2, <3>3, WaitTurnPlaced
  <2>7. CASE r.signal # {}
    <3>1. task' = [t EXCEPT ![c] = d]
      BY <2>2, <2>3, <2>5, <2>7 DEF TypeT
    <3>2. d \in TaskRecord
      <4>1. \A n \in -1..MaxPid : [r EXCEPT !.at = "ret", !.want = n] \in TaskRecord
        BY <2>1 DEF TaskRecord
      <4>2. -1 \in -1..MaxPid  OBVIOUS
      <4> QED  BY <4>1, <4>2
    <3>3. d.at = "ret"
      BY <2>1 DEF TaskRecord
    <3> HIDE DEF d
    <3>4. Placed([t EXCEPT ![c] = d], proc_list)
      BY <1>3, <2>5, <3>2, <3>3, OwnPlaced
    <3> QED  BY <3>1, <3>4
  <2> QED  BY <2>6, <2>7
<1> QED  BY <1>5, <1>6, <1>7

\* A reader wakes: a later one is in front of it, or the queue is empty after it.
LEMMA TtyPlaced ==
    ASSUME TasksInv, PlacedNow, NEW c \in Slot, TtyReadResume(c)
    PROVE  PlacedNow'
<1> USE TasksAssumption
<1>1. /\ current = c /\ Settled(task, c) /\ Placed(task, proc_list) /\ task[c].at = "tty"
      /\ proc_list \in Slot \cup {NULL}
    BY DEF TasksInv, TtyReadResume, PlacedNow
<1>2. c # 0
  <2>1. task[0].at = "user"  BY <1>1 DEF Settled, Kin, Roots
  <2> QED  BY <1>1, <2>1
<1>3. /\ TypeT(task) /\ c \in Live(task) /\ task[c] \in TaskRecord
    BY <1>1, <1>2, CurrentPlaced
<1>4. CASE proc_list \notin {NULL, c}
  <2> DEFINE t == SetRunning(task, proc_list)
             r == Logged([t[c] EXCEPT !.state = "interruptible"], "W")
  <2>1. Settled(t, c) /\ t[c] = task[c]
    BY <1>1, <1>4, SetRunningSettled
  <2>2. Placed(t, proc_list)
    BY <1>1, <1>3, SetRunningPlaced
  <2>3. Schedule([t EXCEPT ![c] = r]) /\ proc_list' = proc_list
    BY <1>4 DEF TtyReadResume
  <2> HIDE DEF t
  <2>4. r \in TaskRecord /\ r.at = "tty"
    BY <1>1, <1>3, <2>1 DEF Logged, TaskRecord
  <2> HIDE DEF r
  <2>5. Placed(task', proc_list)
    BY <1>1, <1>2, <2>1, <2>2, <2>3, <2>4, OwnThenSchedule
  <2> QED  BY <2>3, <2>5 DEF PlacedNow
<1>5. CASE proc_list \in {NULL, c}
  <2> DEFINE t == SetRunning(task, task[c].tmp)
             r == [t[c] EXCEPT !.at = "ret", !.tmp = NULL]
  <2>1. task[c].tmp \in Slot \cup {NULL}
    BY <1>3 DEF TaskRecord
  <2>2. Placed(t, proc_list) /\ TypeT(t) /\ Live(t) = Live(task)
    BY <1>1, <1>3, <2>1, SetRunningPlaced
  <2> HIDE DEF t
  <2>3. task' = [t EXCEPT ![c] = r] /\ proc_list' = NULL
    BY <1>3, <1>5, <2>2 DEF TtyReadResume, TypeT, t
  <2>4. r \in TaskRecord /\ r.at = "ret"
    <3>1. t[c] \in TaskRecord  BY <1>3, <2>2 DEF TypeT, Live
    <3> QED  BY <3>1 DEF TaskRecord
  <2> HIDE DEF r
  <2>5. Placed([t EXCEPT ![c] = r], NULL)
    BY DEF Placed
  <2> QED  BY <2>3, <2>5 DEF PlacedNow
<1> QED  BY <1>4, <1>5

LEMMA ReturnPlaced ==
    ASSUME TasksInv, PlacedNow, NEW c \in Slot, Return(c) \/ ReturnScheduled(c) \/ TickUser(c)
    PROVE  PlacedNow'
<1> USE TasksAssumption
<1>1. /\ current = c /\ c # 0 /\ Settled(task, c) /\ proc_list' = proc_list
      /\ Placed(task, proc_list) /\ task[c].at \in {"ret", "signals", "user"}
    BY DEF TasksInv, Return, ReturnScheduled, TickUser, UserMode, PlacedNow
<1>2. /\ TypeT(task) /\ c \in Live(task) /\ task[c] \in TaskRecord
      /\ proc_list # c
    BY <1>1, CurrentPlaced
<1>3. SUFFICES Placed(task', proc_list)
    BY <1>1 DEF PlacedNow
<1>4. CASE Deliver(task, c)
    BY <1>1, <1>4, DeliverPlaced
<1>5. CASE Schedule([task EXCEPT ![c].at = "signals"])
  <2> DEFINE r == [task[c] EXCEPT !.at = "signals"]
  <2>1. r \in TaskRecord /\ r.at = "signals"
    BY <1>2 DEF TaskRecord
  <2>2. Schedule([task EXCEPT ![c] = r])  BY <1>5
  <2> HIDE DEF r
  <2> QED  BY <1>1, <1>2, <2>1, <2>2, OwnThenSchedule
<1>6. CASE TickUser(c)
  <2> DEFINE n == Decremented(task[c].counter)
             r == [task[c] EXCEPT !.counter = n]
             t == [task EXCEPT ![c] = r]
             d == [r EXCEPT !.at = "signals"]
  <2>1. IF t[c].counter > 0 THEN Deliver(t, c) ELSE Schedule([t EXCEPT ![c].at = "signals"])
    BY <1>6 DEF TickUser
  <2>2. n \in 0..(2 * MaxPriority)
    <3>1. task[c].counter \in 0..(2 * MaxPriority)  BY <1>2 DEF TaskRecord
    <3> QED  BY <3>1 DEF Decremented
  <2> HIDE DEF n
  <2>3. /\ r \in TaskRecord /\ r.pid = task[c].pid /\ r.father = task[c].father
        /\ r.state = task[c].state /\ r.log = task[c].log
        /\ r.alarm = task[c].alarm /\ r.signal = task[c].signal
        /\ r.at = task[c].at
    BY <1>2, <2>2 DEF TaskRecord
  <2>4. t[c] = r  BY <1>2 DEF TypeT
  <2> HIDE DEF r
  <2>5. Settled(t, c)  BY <1>1, <2>3, RunsOn
  <2>6. TypeT(t) /\ Live(t) = Live(task) /\ Placed(t, proc_list)
    BY <1>1, <1>2, <2>3, OwnPlaced
  <2> HIDE DEF t
  <2>7. d \in TaskRecord /\ d.at = "signals"
    BY <2>3 DEF TaskRecord
  <2>8. t[c].at # "tty"  BY <1>1, <2>3, <2>4
  <2>9. CASE Deliver(t, c)
    BY <1>1, <2>5, <2>6, <2>8, <2>9, DeliverPlaced
  <2>10. CASE Schedule([t EXCEPT ![c].at = "signals"])
    <3>1. Schedule([t EXCEPT ![c] = d])  BY <2>4, <2>10
    <3> HIDE DEF d
    <3> QED  BY <1>1, <1>2, <2>5, <2>6, <2>7, <3>1, OwnThenSchedule
  <2> QED  BY <2>1, <2>9, <2>10
<1>7. CASE Return(c)
    BY <1>4, <1>5, <1>7 DEF Return
<1>8. CASE ReturnScheduled(c)
    BY <1>4, <1>8 DEF ReturnScheduled
<1> QED  BY <1>6, <1>7, <1>8

\* Every step keeps everybody in place.
LEMMA PlacedStep ==
    ASSUME TasksInv, PlacedNow, [TasksNext]_vars
    PROVE  PlacedNow'
<1> USE TasksAssumption
<1>1. CASE UNCHANGED vars
    BY <1>1 DEF PlacedNow, vars
<1>2. CASE Idle
  <2>1. TypeT(task) /\ task[0] # NULL  BY DEF TasksInv, Settled, Kin, Roots
  <2>2. Schedule(task) /\ proc_list' = proc_list  BY <1>2 DEF Idle
  <2>3. Placed(task', proc_list)
    BY <2>1, <2>2, ScheduleSpots DEF TasksInv, PlacedNow
  <2> QED  BY <2>2, <2>3 DEF PlacedNow
<1>3. CASE Keyboard
  <2>1. proc_list' = NULL  BY <1>3 DEF Keyboard
  <2> QED  BY <2>1 DEF PlacedNow, Placed
<1>4. ASSUME NEW c \in Slot, KernelStep(c) \/ SystemCall(c) \/ TickUser(c) \/ TickKernel(c)
      PROVE  PlacedNow'
    BY <1>4, ForkPlaced, KillPlaced, OwnStepPlaced, WaitPlaced, TtyPlaced, ReturnPlaced
    DEF KernelStep, SystemCall
<1> QED  BY <1>1, <1>2, <1>3, <1>4 DEF TasksNext

\* For any number of readers, signals and exits, proc_list leads to a task that reads:
\* wake_up and the test behind schedule() in interruptible_sleep_on never reach one that
\* has gone.
THEOREM HeadReads == TasksSpec => []HeadIsReading
<1> USE TasksAssumption
<1>1. TasksInit => PlacedNow
    BY DEF TasksInit, PlacedNow, Placed
<1>2. TasksInv /\ PlacedNow /\ [TasksNext]_vars => PlacedNow'
    BY PlacedStep
<1>3. TasksInv /\ PlacedNow => HeadIsReading
  <2> SUFFICES ASSUME TasksInv, PlacedNow, proc_list # NULL
               PROVE  /\ task[proc_list] # NULL /\ task[proc_list].at = "tty"
                      /\ task[proc_list].state # "zombie"
    BY DEF HeadIsReading
  <2>1. proc_list \in Live(task) /\ task[proc_list].at = "tty"
    BY DEF PlacedNow, Placed
  <2>2. task[proc_list].state = "zombie" => task[proc_list].at = "exit"
    BY <2>1 DEF TasksInv, Settled, Kin, Roots
  <2> QED  BY <2>1, <2>2 DEF Live
<1>4. TasksSpec => []PlacedNow
    BY <1>1, <1>2, TasksInvariant, PTL DEF TasksSpec
<1> QED  BY <1>3, <1>4, TasksInvariant, PTL
================================================================================
