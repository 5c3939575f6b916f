----------------------------- MODULE TimerWheel -----------------------------
(***************************************************************************)
(* The timer queues of one processor: mg_context_tick and _mg_actor_timeout.*)
(*                                                                         *)
(* A sleeping actor is linked into the timer queue of the most significant *)
(* bit in which its due time differs from the tick counter.  A tick looks  *)
(* at the one queue of the highest bit it flips, and takes out one actor   *)
(* per critical section, so the actors that run above the tick may fall    *)
(* asleep in the middle of it.  A critical section is one step.  The tick  *)
(* counter has Width bits and wraps around.                                *)
(***************************************************************************)
EXTENDS Clz, FiniteSets

CONSTANTS
  Actor,
  Width,      \* bits of uint32_t ticks
  TimerqMax,  \* MG_TIMERQ_MAX
  NULL

ASSUME WheelAssumption ==
  /\ Width \in Nat \ {0}
  /\ TimerqMax \in 1..Width
  /\ NULL \notin Actor

\* The powers of two, as a function that proofs can unfold.
Pow2[k \in Nat] == IF k = 0 THEN 1 ELSE 2 * Pow2[k - 1]

Time == 0..(Pow2[Width] - 1)
Bucket == 0..(TimerqMax - 1)

\* assert(actor->timeout < INT32_MAX)
MaxDelay == Pow2[Width - 1] - 2

VARIABLES
  ticks,
  timerq,   \* timerq[i]: the actors linked in timer queue i
  timeout,  \* actor->timeout
  bucket,   \* the locals of mg_context_tick: i,
  last,     \* the node at the tail of the queue when the tick began,
  head,     \* the node it took out, NULL when no tick is in progress,
  waking    \* and actor_to_wake

tickLocals == <<bucket, last, head, waking>>
vars == <<ticks, timerq, timeout, tickLocals>>

Linked == {a \in Actor : \E i \in Bucket : \E k \in DOMAIN timerq[i] : timerq[i][k] = a}

\* An actor that was taken out and not activated yet sleeps on.
Sleeping == Linked \cup ({waking} \ {NULL})

Init ==
  /\ ticks = 0
  /\ timerq = [i \in Bucket |-> <<>>]
  /\ timeout = [a \in Actor |-> 0]
  /\ bucket = 0
  /\ last = NULL
  /\ head = NULL
  /\ waking = NULL

Wrap(t) == t % Pow2[Width]

\* The last timer queue stands for all higher bits.
Capped(msb) == IF msb < TimerqMax THEN msb ELSE TimerqMax - 1

\* _mg_diff_msb: the most significant bit of x ^ y.
DiffMsb(x, y) ==
  Capped(CHOOSE k \in 0..(Width - 1) :
           /\ x \div Pow2[k] # y \div Pow2[k]
           /\ x \div Pow2[k + 1] = y \div Pow2[k + 1])

\* What the ARMv6-M port finds, when x and y are the bits from p upwards of 32-bit
\* numbers that agree in all others, for every p.
PortMsb ==
  [x \in Time |-> [y \in Time |->
     LET differ == {k \in 0..(Width - 1) : (x \div Pow2[k]) % 2 # (y \div Pow2[k]) % 2}
     IN IF x = y THEN {}
        ELSE {31 - mg_port_clz({p + k : k \in differ}) - p : p \in 0..(32 - Width)}]]

\* Mutant: the queue is chosen by the delay and not by the due time.
MutantSleepByDelay(a, d) ==
  LET due == Wrap(ticks + d) IN
  /\ a \notin Sleeping
  /\ timeout' = [timeout EXCEPT ![a] = due]
  /\ timerq' = [timerq EXCEPT ![DiffMsb(0, d)] = Append(@, a)]
  /\ UNCHANGED <<ticks, tickLocals>>

\* Mutant: the due time does not wrap around.
MutantDueNoWrap(a, d) ==
  LET due == ticks + d IN
  /\ a \notin Sleeping
  /\ timeout' = [timeout EXCEPT ![a] = due]
  /\ timerq' = [timerq EXCEPT ![DiffMsb(ticks, Wrap(due))] = Append(@, a)]
  /\ UNCHANGED <<ticks, tickLocals>>

\* _mg_actor_timeout, for an actor that returned mg_sleep_for(d).
Sleep(a, d) ==
  LET due == Wrap(ticks + d) IN
  /\ a \notin Sleeping
  /\ timeout' = [timeout EXCEPT ![a] = due]
  /\ timerq' = [timerq EXCEPT ![DiffMsb(ticks, due)] = Append(@, a)]
  /\ UNCHANGED <<ticks, tickLocals>>

\* Mutant: an actor that is not due goes back to the queue it came from.
MutantTakeOutBack(i, now) ==
  LET a == Head(timerq[i])
      rest == [timerq EXCEPT ![i] = Tail(@)]
  IN /\ head' = a
     /\ IF timeout[a] = now
          THEN /\ timeout' = [timeout EXCEPT ![a] = 0]
               /\ timerq' = rest
               /\ waking' = a
          ELSE /\ timerq' = [rest EXCEPT ![i] = Append(@, a)]
               /\ waking' = NULL
               /\ UNCHANGED timeout

\* The body of the loop of mg_context_tick, in the critical section: the first
\* actor of queue i is to be woken, or moves to the queue of a lower bit.
TakeOut(i, now) ==
  LET a == Head(timerq[i])
      rest == [timerq EXCEPT ![i] = Tail(@)]
  IN /\ head' = a
     /\ \/ /\ timeout[a] = now
           /\ timeout' = [timeout EXCEPT ![a] = 0]
           /\ timerq' = rest
           /\ waking' = a
        \/ /\ timeout[a] # now
           /\ timerq' = [rest EXCEPT ![DiffMsb(timeout[a], now)] = Append(@, a)]
           /\ waking' = NULL
           /\ UNCHANGED timeout

\* mg_context_tick up to the first release of the lock.
TickEnter ==
  LET now == Wrap(ticks + 1)
      i == DiffMsb(ticks, now)
  IN /\ head = NULL
     /\ ticks' = now
     /\ \/ timerq[i] = <<>> /\ UNCHANGED <<timerq, timeout, tickLocals>>
        \/ /\ timerq[i] # <<>>
           /\ bucket' = i
           /\ last' = timerq[i][Len(timerq[i])]
           /\ TakeOut(i, now)

\* _mg_actor_activate(actor_to_wake), the lock released.
Activate ==
  /\ waking # NULL
  /\ waking' = NULL
  /\ UNCHANGED <<ticks, timerq, timeout, bucket, last, head>>

\* Mutant: the loop only stops at an empty queue.
MutantUntilEmpty ==
  /\ head # NULL /\ waking = NULL
  /\ \/ /\ timerq[bucket] # <<>>
        /\ TakeOut(bucket, ticks)
        /\ UNCHANGED <<ticks, bucket, last>>
     \/ /\ timerq[bucket] = <<>>
        /\ head' = NULL
        /\ last' = NULL
        /\ bucket' = 0
        /\ UNCHANGED <<ticks, timerq, timeout, waking>>

\* The lock taken again: the loop stops at the node that was the last one when
\* the tick began, or goes round.
TickNext ==
  LET done == head = last \/ timerq[bucket] = <<>> IN
  /\ head # NULL /\ waking = NULL
  /\ \/ /\ ~done
        /\ TakeOut(bucket, ticks)
        /\ UNCHANGED <<ticks, bucket, last>>
     \/ /\ done
        /\ head' = NULL
        /\ last' = NULL
        /\ bucket' = 0
        /\ UNCHANGED <<ticks, timerq, timeout, waking>>

Tick == TickEnter \/ Activate \/ TickNext

Next == Tick \/ \E a \in Actor, d \in 1..MaxDelay : Sleep(a, d)

Spec == Init /\ [][Next]_vars

\* The tick comes periodically, and its handler goes on to its end.
FairSpec == Spec /\ WF_vars(Tick)

-----------------------------------------------------------------------------
\* Every variable has its type.
TypeOK ==
  /\ ticks \in Time
  /\ timerq \in [Bucket -> Seq(Actor)]
  /\ timeout \in [Actor -> Time]
  /\ bucket \in Bucket
  /\ {last, head, waking} \subseteq Actor \cup {NULL}

\* Between ticks an actor is linked into the queue of the highest bit in which
\* its due time differs from the counter, however many ticks have passed since
\* it was linked there and though the counter wraps around.
RightBucket ==
  head = NULL =>
    \A i \in Bucket : \A k \in DOMAIN timerq[i] :
      timeout[timerq[i][k]] # ticks /\ DiffMsb(timeout[timerq[i][k]], ticks) = i

\* That is also the queue to which mg_port_clz leads on a processor that has no
\* instruction for it, in whichever bits of the 32-bit counter the ticks are: its
\* multiplication and its table fit together (nvic_m0/mg_port.h:37-49).
PortFindsBucket ==
  head = NULL =>
    \A i \in Bucket : \A k \in DOMAIN timerq[i] :
      {Capped(msb) : msb \in PortMsb[timeout[timerq[i][k]]][ticks]} = {i}

\* Until the loop has taken out the node that was the last one when the tick began,
\* that node is linked in the queue of the tick, whoever falls asleep behind it and
\* whoever goes back to the end: the loop does not miss its stop (magnesium.h:277-302).
LastAhead ==
  head # NULL /\ head # last =>
    \E k \in DOMAIN timerq[bucket] : timerq[bucket][k] = last

Alarms == INSTANCE Alarm WITH
  remaining <- [a \in Sleeping |-> IF a = waking THEN 0 ELSE Wrap(timeout[a] - ticks)]

\* The wheel implements the alarms: each sleeper is woken by the tick that is
\* its delay away, across any number of moves between the queues.
ImplementsAlarms == Alarms!Spec

\* The handler of the tick ends, though actors fall asleep while it runs.
TickEnds == head # NULL ~> head = NULL

\* Every sleeper is eventually woken.
SleeperWakes == \A a \in Actor : a \in Sleeping ~> a \notin Sleeping
=============================================================================
