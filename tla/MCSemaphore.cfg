\* Four processes: a chain of three sleepers and a process that posts; two
\* semaphores let a process sleep on one while the other is used.
SPECIFICATION Spec
CONSTANTS
  Proc = {p1, p2, p3, p4}
  Sem = {s1, s2}
  NULL = NULL
  MaxValue = 2
INVARIANTS
  TypeOK
  NoLostWakeup
  SleeperReferencedOnce
PROPERTIES
  NeverRevivesZombie
  SleepersDrain
  ImplementsCounting
\* Every process may be asleep, or have exited, with nobody left to post.
CHECK_DEADLOCK FALSE
