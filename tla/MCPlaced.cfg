CONSTANTS
  CPU <- OneCpu
  BootCpu <- Boot
  MaxPrio = 2
  Vector = {lo, hi, top}
  vect2prio <- Placed_vect2prio
  Actor = {rcv, wrk, tmr}
  HomeCpu <- Placed_HomeCpu
  Moves <- Placed_Moves
  Vect <- Placed_Vect
  InitQueue <- Placed_InitQueue
  Queue = {q1, q2, pool}
  Pool = pool
  Message = {m1, m2}
  NULL = NULL
  Subscribes <- Placed_Subscribes
  Targets <- Placed_Targets
  Suspends <- Placed_Suspends
  Producers <- Placed_Producers
  ProducerTargets = {q1}
  Tickers <- Placed_Tickers
  Rereads = TRUE
  MaxCalls = 2
  MaxInitCalls = 0
  lo = lo
  hi = hi
  top = top
  rcv = rcv
  wrk = wrk
  tmr = tmr
  q1 = q1
  q2 = q2
  pool = pool
SPECIFICATION FairSpec
CHECK_DEADLOCK FALSE
INVARIANTS ActorCustody MessageConserved CalledWithMessage
PROPERTIES ImplementsChannels MessageDelivered ReadyActorRuns
