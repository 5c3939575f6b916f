CONSTANTS
  CPU <- OneCpu
  BootCpu <- Boot
  MaxPrio = 2
  Vector = {lo}
  vect2prio <- Yield_vect2prio
  Actor = {tmr}
  HomeCpu <- Yield_HomeCpu
  Moves <- Yield_Moves
  Vect <- Yield_Vect
  InitQueue <- Yield_InitQueue
  Queue = {q1, q2, pool}
  Pool = pool
  Message = {m1}
  NULL = NULL
  Subscribes <- Yield_Subscribes
  Targets <- Yield_Targets
  Suspends <- Yield_Suspends
  Producers <- Yield_Producers
  ProducerTargets = {q1}
  Tickers <- Yield_Tickers
  Rereads = FALSE
  MaxCalls = 1
  MaxInitCalls = 0
  lo = lo
  hi = hi
  top = top
  rcv = rcv
  wrk = wrk
  tmr = tmr
  q1 = q1
  q2 = q2
  pool = pool
SPECIFICATION FairSpec
CHECK_DEADLOCK FALSE
PROPERTY ReadyActorRuns
