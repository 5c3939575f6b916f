CONSTANTS
  CPU = {c1, c2, c3}
  MaxPrio = 1
  Lock = {l1, l2}
  NoLock = NoLock
SPECIFICATION FairSpec
INVARIANTS MutualExclusion NotPreempted EventComes
PROPERTY SomeoneAcquires
