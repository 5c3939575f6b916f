CONSTANTS
  CPU = {c1, c2}
  MaxPrio = 2
  BellLevel <- LowBell
  Vector = {lo, hi}
  vect2prio <- Two_vect2prio
  prio2vect <- Two_prio2vect
  NoVector = NoVector
  Requester <- One_Requester
  c1 = c1
  c2 = c2
  lo = lo
  hi = hi
SPECIFICATION FairSpec
INVARIANTS TypeOK RequestKept
PROPERTY RequestServed
