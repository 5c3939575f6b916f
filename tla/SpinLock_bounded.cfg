CONSTANTS
  CPU = {c1, c2}
  MaxPrio = 0
  Lock = {l1}
  NoLock = NoLock
SPECIFICATION FairSpec
PROPERTY LockingTimeEnds
