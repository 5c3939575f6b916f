CONSTANTS
  Core = {0, 1}
  Half = 4
  CLK_PER_TICK = 3
  MaxTime = 13
  Word = {0, 1, 2, 3, 4}
  mtvec = 2
  stack = 3
  entry = 4
  Depth = 2
SPECIFICATION FairSpec
CHECK_DEADLOCK FALSE
INVARIANTS TypeOK TicksNotAhead NextTickNear StartedRight TickAfterInit
PROPERTIES NoEarlyMatch CoresTick
