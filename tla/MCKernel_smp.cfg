CONSTANTS
  CPU <- TwoCpus
  BootCpu <- Boot
  MaxPrio = 1
  Vector = {lo}
  vect2prio <- Smp_vect2prio
  Actor = {rcv, wrk}
  HomeCpu <- Smp_HomeCpu
  Moves <- Smp_Moves
  Vect <- Smp_Vect
  InitQueue <- Smp_InitQueue
  Queue = {q1, q2, pool}
  Pool = pool
  Message = {m1, m2, m3}
  NULL = NULL
  Subscribes <- Smp_Subscribes
  Targets <- Smp_Targets
  Suspends <- Smp_Suspends
  Producers <- Smp_Producers
  ProducerTargets = {q1, q2}
  Tickers <- Smp_Tickers
  Rereads = FALSE
  MaxCalls = 2
  MaxInitCalls = 0
  lo = lo
  hi = hi
  top = top
  rcv = rcv
  wrk = wrk
  tmr = tmr
  q1 = q1
  q2 = q2
  pool = pool
SPECIFICATION Spec
SYMMETRY MessageSymmetry
CHECK_DEADLOCK FALSE
INVARIANTS ActorCustody MessageOwnedOnce NoLostWakeup ReadyAtHome
