CONSTANTS
  CPU <- OneCpu
  BootCpu <- Boot
  MaxPrio = 3
  Vector = {lo, hi}
  vect2prio <- Preempt_vect2prio
  Actor = {rcv, tmr}
  HomeCpu <- Preempt_HomeCpu
  Moves <- Preempt_Moves
  Vect <- Preempt_Vect
  InitQueue <- Preempt_InitQueue
  Queue = {q1, q2, pool}
  Pool = pool
  Message = {m1, m2, m3}
  NULL = NULL
  Subscribes <- Preempt_Subscribes
  Targets <- Preempt_Targets
  Suspends <- Preempt_Suspends
  Producers <- Preempt_Producers
  ProducerTargets = {q1}
  Tickers <- Preempt_Tickers
  Rereads = FALSE
  MaxCalls = 2
  MaxInitCalls = 2
  lo = lo
  hi = hi
  top = top
  rcv = rcv
  wrk = wrk
  tmr = tmr
  q1 = q1
  q2 = q2
  pool = pool
SPECIFICATION Spec
SYMMETRY MessageSymmetry
CHECK_DEADLOCK FALSE
INVARIANTS TypeOK QueueShape ActorCustody MessageOwnedOnce NoLostWakeup
