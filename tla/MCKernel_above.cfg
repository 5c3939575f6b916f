CONSTANTS
  CPU <- OneCpu
  BootCpu <- Boot
  MaxPrio = 2
  Vector = {lo}
  vect2prio <- Above_vect2prio
  Actor = {rcv}
  HomeCpu <- Above_HomeCpu
  Moves <- Above_Moves
  Vect <- Above_Vect
  InitQueue <- Above_InitQueue
  Queue = {q1, q2, pool}
  Pool = pool
  Message = {m1, m2}
  NULL = NULL
  Subscribes <- Above_Subscribes
  Targets <- Above_Targets
  Suspends <- Above_Suspends
  Producers <- Above_Producers
  ProducerTargets = {q1}
  Tickers <- Above_Tickers
  Rereads = FALSE
  MaxCalls = 1
  MaxInitCalls = 0
  lo = lo
  hi = hi
  top = top
  rcv = rcv
  wrk = wrk
  tmr = tmr
  q1 = q1
  q2 = q2
  pool = pool
SPECIFICATION Spec
CHECK_DEADLOCK FALSE
INVARIANT CalledWithMessage
