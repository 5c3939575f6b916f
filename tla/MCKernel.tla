------------------------------ MODULE MCKernel ------------------------------
(***************************************************************************)
(* Programs on top of the kernel, for TLC.                                 *)
(***************************************************************************)
EXTENDS Messaging, TLC

CONSTANTS lo, hi, top, rcv, wrk, tmr, q1, q2, pool

MessageSymmetry == Permutations(Message)

OneCpu == {0}
TwoCpus == {0, 1}
Boot == 0

(***************************************************************************)
(* "preempt": one processor, a receiver that yields at level 1, a periodic *)
(* actor called by mg_actor_init at level 2, a device and the tick at      *)
(* level 3.  The periodic actor waits for messages or for a free block.    *)
(***************************************************************************)
Preempt_vect2prio == lo :> 1 @@ hi :> 2
Preempt_HomeCpu == rcv :> 0 @@ tmr :> 0
Preempt_Moves == rcv :> {} @@ tmr :> {}
Preempt_Vect == rcv :> lo @@ tmr :> hi
Preempt_InitQueue == rcv :> q1 @@ tmr :> NULL
Preempt_Subscribes == rcv :> {q1} @@ tmr :> {q2, pool}
Preempt_Targets == rcv :> {pool, q2} @@ tmr :> {pool, q1}
Preempt_Suspends == rcv :> {"yield"} @@ tmr :> {"sleep"}
Preempt_Producers == {<<0, 3>>}
Preempt_Tickers == {<<0, 3>>}

(***************************************************************************)
(* "placed": one processor and no push from above.  A receiver at level 1  *)
(* passes messages on to a worker at level 2, or sends them to itself once *)
(* more.  The worker shares its level with a periodic actor that has a     *)
(* vector of its own.                                                      *)
(***************************************************************************)
Placed_vect2prio == lo :> 1 @@ hi :> 2 @@ top :> 2
Placed_HomeCpu == rcv :> 0 @@ wrk :> 0 @@ tmr :> 0
Placed_Moves == rcv :> {} @@ wrk :> {} @@ tmr :> {}
Placed_Vect == rcv :> lo @@ wrk :> hi @@ tmr :> top
Placed_InitQueue == rcv :> q1 @@ wrk :> q2 @@ tmr :> NULL
Placed_Subscribes == rcv :> {q1} @@ wrk :> {q2} @@ tmr :> {}
Placed_Targets == rcv :> {pool, q1, q2} @@ wrk :> {pool} @@ tmr :> {pool, q2}
Placed_Suspends == rcv :> {} @@ wrk :> {} @@ tmr :> {"sleep"}
Placed_Producers == {<<0, 0>>, <<0, 1>>}
Placed_Tickers == {<<0, 2>>}

(***************************************************************************)
(* "smp": two processors, an actor on each that sends to the other one, and*)
(* one of them moves from processor to processor and sleeps on either.     *)
(***************************************************************************)
Smp_vect2prio == lo :> 1
Smp_HomeCpu == rcv :> 0 @@ wrk :> 1
Smp_Moves == rcv :> {} @@ wrk :> {0, 1}
Smp_Vect == rcv :> lo @@ wrk :> lo
Smp_InitQueue == rcv :> q1 @@ wrk :> q2
Smp_Subscribes == rcv :> {q1} @@ wrk :> {q1, q2}
Smp_Targets == rcv :> {pool, q2} @@ wrk :> {pool, q1}
Smp_Suspends == rcv :> {"yield"} @@ wrk :> {"sleep"}
Smp_Producers == {<<0, 1>>}
Smp_Tickers == {<<0, 1>>, <<1, 1>>}

(***************************************************************************)
(* "above": an actor subscribed on init that returns only its queue, and a *)
(* device handler of a higher level that pushes to the queue.              *)
(***************************************************************************)
Above_vect2prio == lo :> 1
Above_HomeCpu == rcv :> 0
Above_Moves == rcv :> {}
Above_Vect == rcv :> lo
Above_InitQueue == rcv :> q1
Above_Subscribes == rcv :> {q1}
Above_Targets == rcv :> {pool}
Above_Suspends == rcv :> {}
Above_Producers == {<<0, 2>>}
Above_Tickers == {}

(***************************************************************************)
(* "yield": an actor that returns mg_sleep_for(0) from the activation made *)
(* by mg_actor_init.                                                       *)
(***************************************************************************)
Yield_vect2prio == lo :> 1
Yield_HomeCpu == tmr :> 0
Yield_Moves == tmr :> {}
Yield_Vect == tmr :> lo
Yield_InitQueue == tmr :> NULL
Yield_Subscribes == tmr :> {}
Yield_Targets == tmr :> {pool}
Yield_Suspends == tmr :> {"yield"}
Yield_Producers == {<<0, 2>>}
Yield_Tickers == {}
=============================================================================
