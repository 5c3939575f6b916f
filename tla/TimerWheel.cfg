CONSTANTS
  Actor = {a1, a2, a3}
  Width = 4
  TimerqMax = 3
  NULL = NULL
SPECIFICATION FairSpec
INVARIANTS TypeOK RightBucket PortFindsBucket LastAhead
PROPERTIES ImplementsAlarms TickEnds SleeperWakes
