------------------------------- MODULE Kernel -------------------------------
(***************************************************************************)
(* The scheduling core of magnesium: queues on which messages and actors   *)
(* meet, the message pool, the run queues, mg_actor_call, mg_actor_init    *)
(* and the interrupt controller that runs the actors.                      *)
(*                                                                         *)
(* mg_actor_call stores actor->mailbox and then tests it, with no lock     *)
(* held (magnesium.h:335 and 336).  Others write the field too, so the test*)
(* is a data race.  Rereads says what the compiler makes of it: a load of  *)
(* the field, or a test of the value it has just stored.                   *)
(*                                                                         *)
(* Code runs in contexts <<cpu, level>>.  Level 0 is the thread main() and *)
(* level n > 0 an interrupt of priority n; a higher level preempts a lower *)
(* one between any two steps, so at most one handler is unfinished at each *)
(* level and the one at the highest level is the one that runs.  A         *)
(* critical section (mg_smp_protect_acquire ... release) is one step, as   *)
(* it runs with interrupts disabled and the lock of its object held        *)
(* (module SpinLock); everything the code does outside one is a step of its*)
(* own.  Lists are sequences (module Fifo), and an interrupt request is one*)
(* step on any processor (module Doorbell).                                *)
(*                                                                         *)
(* The functions of the actors are user code.  One activation makes any    *)
(* kernel calls on the messages it holds, at most MaxCalls of them, and    *)
(* returns a queue, mg_sleep_for(0) ("yield") or mg_sleep_for(n) ("sleep").*)
(* The tick at which a sleeper is due is left open here: module TimerWheel *)
(* says which one it is.                                                   *)
(***************************************************************************)
EXTENDS Integers, Sequences, FiniteSets

CONSTANTS
  CPU,              \* the processors
  BootCpu,          \* the one that runs main()
  MaxPrio,          \* interrupt levels are 1..MaxPrio, MaxPrio the most urgent
  Vector,           \* interrupt vectors designated to actor execution
  vect2prio,        \* pic_vect2prio: the level of each vector
  Actor,
  HomeCpu,          \* actor->cpu of each actor, as main() leaves it
  Moves,            \* the processors each actor's function may move its actor to
  Vect,             \* actor->vect of each actor
  InitQueue,        \* q given to mg_actor_init, NULL to call the function instead
  Queue,
  Pool,             \* the queue embedded in the message pool
  Message,          \* the blocks of the pool
  NULL,
  Subscribes,       \* the queues each actor's function may return or poll
  Targets,          \* the queues it may push to (Pool: mg_message_free)
  Suspends,         \* subset of {"yield", "sleep"} it may return
  Producers,        \* contexts of device handlers, or of main(), that alloc and push
  ProducerTargets,  \* the queues those push to
  Tickers,          \* contexts whose handler calls mg_context_tick
  Rereads,          \* the loop test of mg_actor_call reads actor->mailbox again
  MaxCalls,         \* bound: kernel calls in one activation of an actor
  MaxInitCalls      \* bound: the same for the activation inside mg_actor_init

Level == 0..MaxPrio
Prio  == 1..MaxPrio
Ctx   == CPU \X Level
Main  == <<BootCpu, 0>>

ASSUME ContextAssumption ==
  /\ BootCpu \in CPU
  /\ MaxPrio \in Nat \ {0}
  /\ vect2prio \in [Vector -> Prio]
  /\ Producers \subseteq Ctx
  /\ Tickers \subseteq CPU \X Prio
  /\ \A x, y \in Tickers : x[1] = y[1] => x = y

ASSUME DataAssumption ==
  /\ Pool \in Queue
  /\ NULL \notin Actor \cup Message \cup Queue
  /\ Actor \cap Message = {}
  /\ ProducerTargets \subseteq Queue
  /\ Rereads \in BOOLEAN
  /\ MaxCalls \in Nat
  /\ MaxInitCalls \in Nat

\* An actor whose function is called by mg_actor_init runs there on the boot
\* processor; the demos move only actors subscribed on init to another one.
ASSUME ActorAssumption ==
  /\ HomeCpu \in [Actor -> CPU]
  /\ Moves \in [Actor -> SUBSET CPU]
  /\ Vect \in [Actor -> Vector]
  /\ InitQueue \in [Actor -> Queue \cup {NULL}]
  /\ Subscribes \in [Actor -> SUBSET Queue]
  /\ Targets \in [Actor -> SUBSET Queue]
  /\ Suspends \in [Actor -> SUBSET {"yield", "sleep"}]
  /\ \A a \in Actor : InitQueue[a] = NULL => HomeCpu[a] = BootCpu

VARIABLES
  pc,       \* pc[x]: what context x does next
  handler,  \* handler[x]: the handler x is executing
  self,     \* self[x]: the actor whose mg_actor_call x is executing
  msg,      \* msg[x]: a message in a local variable of x
  dest,     \* dest[x]: the actor x is activating
  due,      \* due[x]: the expired sleepers the tick of x has still to wake
  budget,   \* budget[x]: kernel calls left to the running activation
  held,     \* held[a]: messages owned by the function of a
  mailbox,  \* mailbox[a]: actor->mailbox
  items,    \* items[q]: the messages, or the actors, linked in q
  length,   \* length[q]: positive for messages, negative for actors
  fresh,    \* blocks of the pool's array not handed out yet
  runq,     \* runq[x]: actors ready to run in context x
  asleep,   \* asleep[c]: actors in the timer queues of processor c
  pending,  \* pending interrupts, <<cpu, vector>>
  uninit,   \* actors that main() has not initialised yet
  cpu       \* actor->cpu

frame == <<pc, handler, self, msg, dest, due, budget>>
queues == <<items, length, fresh>>
vars == <<frame, held, mailbox, queues, runq, asleep, pending, uninit, cpu>>

\* The run queue an actor is put on: runq[actor->prio] of actor->cpu.
Home(a) == <<cpu[a], vect2prio[Vect[a]]>>

-----------------------------------------------------------------------------
Init ==
  /\ pc = [x \in Ctx |-> "idle"]
  /\ handler = [x \in Ctx |-> "none"]
  /\ self = [x \in Ctx |-> NULL]
  /\ msg = [x \in Ctx |-> NULL]
  /\ dest = [x \in Ctx |-> NULL]
  /\ due = [x \in Ctx |-> {}]
  /\ budget = [x \in Ctx |-> 0]
  /\ held = [a \in Actor |-> {}]
  /\ mailbox = [a \in Actor |-> NULL]
  /\ items = [q \in Queue |-> <<>>]
  /\ length = [q \in Queue |-> 0]
  /\ fresh = Message
  /\ runq = [x \in Ctx |-> <<>>]
  /\ asleep = [c \in CPU |-> {}]
  /\ pending = {}
  /\ uninit = Actor
  /\ cpu = HomeCpu

(***************************************************************************)
(* Contexts.                                                               *)
(***************************************************************************)
\* Nothing on the processor of x runs at the level of x or above: a handler
\* of that level can start.
CanEnter(x) == \A l \in x[2]..MaxPrio : pc[<<x[1], l>>] = "idle"

\* x is the unfinished handler of the highest level: it is the one that runs.
At(x, label) ==
  /\ pc[x] = label
  /\ \A l \in (x[2] + 1)..MaxPrio : pc[<<x[1], l>>] = "idle"

Goto(x, label) == pc' = [pc EXCEPT ![x] = label]

Enter(x, h, label) ==
  /\ CanEnter(x)
  /\ handler' = [handler EXCEPT ![x] = h]
  /\ Goto(x, label)

Exit(x) ==
  /\ handler' = [handler EXCEPT ![x] = "none"]
  /\ Goto(x, "idle")

\* Devices and ticks are started once main() has initialised the actors.
Booted == uninit = {} /\ handler[Main] # "init"

\* Where a context resumes when mg_queue_push or _mg_actor_activate returns.
Return(x) ==
  CASE handler[x] = "producer" -> Exit(x)
    [] handler[x] = "tick" -> Goto(x, "tick") /\ UNCHANGED handler
    [] OTHER -> Goto(x, "run") /\ UNCHANGED handler

\* The end of mg_actor_call: the scheduler looks at its run queue again,
\* mg_actor_init returns to main().
EndActorCall(x) ==
  /\ self' = [self EXCEPT ![x] = NULL]
  /\ IF handler[x] = "sched" THEN Goto(x, "sched") /\ UNCHANGED handler
                             ELSE Exit(x)

(***************************************************************************)
(* Queue and pool operations: the critical sections.                       *)
(***************************************************************************)
Dequeue(q) == items' = [items EXCEPT ![q] = Tail(@)]

\* Mutant: a node is linked at the head.
MutantEnqueueFront(q, node) == items' = [items EXCEPT ![q] = <<node>> \o @]

Enqueue(q, node) == items' = [items EXCEPT ![q] = Append(@, node)]
Lengthen(q, n) == length' = [length EXCEPT ![q] = @ + n]

\* Mutant: the message is counted off and stays linked.
MutantPopPeeks(q, m) ==
  /\ length[q] > 0
  /\ m = Head(items[q])
  /\ UNCHANGED items
  /\ Lengthen(q, -1)

\* mg_queue_pop returns m, the oldest message.
PopMessage(q, m) ==
  /\ length[q] > 0
  /\ m = Head(items[q])
  /\ Dequeue(q)
  /\ Lengthen(q, -1)

\* mg_queue_pop finds no message and subscribes actor a.
Subscribe(q, a) ==
  /\ length[q] <= 0
  /\ Enqueue(q, a)
  /\ Lengthen(q, -1)

\* Mutant: pool->offset does not advance.
MutantAllocSameBlock(m) ==
  IF fresh # {} THEN m \in fresh /\ UNCHANGED <<fresh, items, length>>
                ELSE PopMessage(Pool, m) /\ UNCHANGED fresh

\* mg_message_alloc returns m.  The array is used up before the queue is looked
\* at, and never refills, so the whole call takes effect in one step (module
\* MessagePool).
mg_message_alloc(m) ==
  \/ /\ m \in fresh
     /\ fresh' = fresh \ {m}
     /\ UNCHANGED <<items, length>>
  \/ /\ fresh = {}
     /\ PopMessage(Pool, m)
     /\ UNCHANGED fresh

\* mg_queue_push links the message, or leaves the critical section with an
\* actor to activate.
PushLinks(x, q, m) ==
  /\ Enqueue(q, m)
  /\ Return(x)
  /\ UNCHANGED <<mailbox, dest>>

PushHandsOver(x, q) ==
  /\ dest' = [dest EXCEPT ![x] = Head(items[q])]
  /\ Goto(x, "insert")
  /\ UNCHANGED handler

\* Mutant: the length is tested after it was incremented.
MutantPushPreIncrement(x, q, m) ==
  /\ Lengthen(q, 1)
  /\ \/ length[q] >= -1 /\ PushLinks(x, q, m)
     \/ /\ length[q] < -1
        /\ Dequeue(q)
        /\ mailbox' = [mailbox EXCEPT ![Head(items[q])] = m]
        /\ PushHandsOver(x, q)
  /\ UNCHANGED fresh

\* Mutant: the actor is activated and stays linked.
MutantPushPeeks(x, q, m) ==
  /\ Lengthen(q, 1)
  /\ \/ length[q] >= 0 /\ PushLinks(x, q, m)
     \/ /\ length[q] < 0
        /\ UNCHANGED items
        /\ mailbox' = [mailbox EXCEPT ![Head(items[q])] = m]
        /\ PushHandsOver(x, q)
  /\ UNCHANGED fresh

\* Mutant: actor->mailbox is not assigned.
MutantPushForgetsMailbox(x, q, m) ==
  /\ Lengthen(q, 1)
  /\ \/ length[q] >= 0 /\ PushLinks(x, q, m)
     \/ /\ length[q] < 0
        /\ Dequeue(q)
        /\ UNCHANGED mailbox
        /\ PushHandsOver(x, q)
  /\ UNCHANGED fresh

\* The critical section of mg_queue_push: the message is linked, or handed to
\* the actor that waits longest, which x then has to activate.
mg_queue_push(x, q, m) ==
  /\ Lengthen(q, 1)
  /\ \/ length[q] >= 0 /\ PushLinks(x, q, m)
     \/ /\ length[q] < 0
        /\ Dequeue(q)
        /\ mailbox' = [mailbox EXCEPT ![Head(items[q])] = m]
        /\ PushHandsOver(x, q)
  /\ UNCHANGED fresh

\* _mg_actor_insert
mg_actor_insert(a) == runq' = [runq EXCEPT ![Home(a)] = Append(@, a)]

(***************************************************************************)
(* main(): mg_actor_init, once for each actor.                             *)
(***************************************************************************)
\* With a queue: the actor is subscribed, and assert(msg == 0) stops the
\* program when the queue holds a message already.
InitSubscribe(a) ==
  /\ a \in uninit /\ InitQueue[a] # NULL
  /\ CanEnter(Main)
  /\ uninit' = uninit \ {a}
  /\ \/ /\ Subscribe(InitQueue[a], a)
        /\ UNCHANGED frame
     \/ \E m \in Message :
          /\ PopMessage(InitQueue[a], m)
          /\ Enter(Main, "init", "assert")
          /\ self' = [self EXCEPT ![Main] = a]
          /\ msg' = [msg EXCEPT ![Main] = m]
          /\ UNCHANGED <<dest, due, budget>>
  /\ UNCHANGED <<held, mailbox, fresh, runq, asleep, pending, cpu>>

\* Without one: its function is called.
InitCall(a) ==
  /\ a \in uninit /\ InitQueue[a] = NULL
  /\ Enter(Main, "init", "call")
  /\ uninit' = uninit \ {a}
  /\ self' = [self EXCEPT ![Main] = a]
  /\ UNCHANGED <<msg, dest, due, budget, held, mailbox, queues, runq, asleep, pending, cpu>>

(***************************************************************************)
(* Device handlers, and main() itself, send messages.                      *)
(***************************************************************************)
ProduceAlloc(x) ==
  /\ x \in Producers /\ Booted
  /\ Enter(x, "producer", "push")
  /\ \E m \in Message :
       /\ mg_message_alloc(m)
       /\ msg' = [msg EXCEPT ![x] = m]
  /\ UNCHANGED <<self, dest, due, budget, held, mailbox, runq, asleep, pending, uninit, cpu>>

ProducePush(x) ==
  /\ At(x, "push")
  /\ \E q \in ProducerTargets : mg_queue_push(x, q, msg[x])
  /\ msg' = [msg EXCEPT ![x] = NULL]
  /\ UNCHANGED <<self, due, budget, held, runq, asleep, pending, uninit, cpu>>

(***************************************************************************)
(* mg_context_tick: wakes the sleepers that are due, one at a time, with   *)
(* the lock released while it activates one.  A tick with nobody due       *)
(* changes nothing here.                                                   *)
(***************************************************************************)
TickStart(x) ==
  /\ x \in Tickers /\ Booted
  /\ Enter(x, "tick", "tick")
  /\ \E d \in SUBSET asleep[x[1]] \ {{}} : due' = [due EXCEPT ![x] = d]
  /\ UNCHANGED <<self, msg, dest, budget, held, mailbox, queues, runq, asleep, pending, uninit, cpu>>

TickWake(x) ==
  /\ At(x, "tick")
  /\ \E a \in due[x] :
       /\ due' = [due EXCEPT ![x] = @ \ {a}]
       /\ asleep' = [asleep EXCEPT ![x[1]] = @ \ {a}]
       /\ dest' = [dest EXCEPT ![x] = a]
  /\ Goto(x, "insert")
  /\ UNCHANGED <<handler, self, msg, budget, held, mailbox, queues, runq, pending, uninit, cpu>>

TickEnd(x) ==
  /\ At(x, "tick") /\ due[x] = {}
  /\ Exit(x)
  /\ UNCHANGED <<self, msg, dest, due, budget, held, mailbox, queues, runq, asleep, pending, uninit, cpu>>

(***************************************************************************)
(* _mg_actor_activate: insert, then request the interrupt.                 *)
(***************************************************************************)
\* Mutant: the actor is put on a run queue of the processor of the caller.
MutantInsertHere(x) ==
  /\ At(x, "insert")
  /\ runq' = [runq EXCEPT ![<<x[1], Home(dest[x])[2]>>] = Append(@, dest[x])]
  /\ Goto(x, "request")
  /\ UNCHANGED <<handler, self, msg, dest, due, budget, held, mailbox, queues, asleep, pending, uninit, cpu>>

\* Mutant: the interrupt is not requested.
MutantInsertOnly(x) ==
  /\ At(x, "insert")
  /\ mg_actor_insert(dest[x])
  /\ dest' = [dest EXCEPT ![x] = NULL]
  /\ Return(x)
  /\ UNCHANGED <<self, msg, due, budget, held, mailbox, queues, asleep, pending, uninit, cpu>>

Insert(x) ==
  /\ At(x, "insert")
  /\ mg_actor_insert(dest[x])
  /\ Goto(x, "request")
  /\ UNCHANGED <<handler, self, msg, dest, due, budget, held, mailbox, queues, asleep, pending, uninit, cpu>>

\* Mutant: the interrupt is requested on the processor of the caller.
MutantRequestHere(x) ==
  /\ At(x, "request")
  /\ pending' = pending \cup {<<x[1], Vect[dest[x]]>>}
  /\ dest' = [dest EXCEPT ![x] = NULL]
  /\ Return(x)
  /\ UNCHANGED <<self, msg, due, budget, held, mailbox, queues, runq, asleep, uninit, cpu>>

Request(x) ==
  /\ At(x, "request")
  /\ pending' = pending \cup {<<cpu[dest[x]], Vect[dest[x]]>>}
  /\ dest' = [dest EXCEPT ![x] = NULL]
  /\ Return(x)
  /\ UNCHANGED <<self, msg, due, budget, held, mailbox, queues, runq, asleep, uninit, cpu>>

(***************************************************************************)
(* The vectors of the actors: mg_context_schedule.                         *)
(***************************************************************************)
\* The controller takes a pending interrupt and clears its pending bit.
EnterVector(c, v) ==
  /\ <<c, v>> \in pending
  /\ pending' = pending \ {<<c, v>>}
  /\ Enter(<<c, vect2prio[v]>>, "sched", "sched")
  /\ UNCHANGED <<self, msg, dest, due, budget, held, mailbox, queues, runq, asleep, uninit, cpu>>

\* Mutant: the actor stays on the run queue.
MutantPopHeadPeeks(x) ==
  /\ At(x, "sched")
  /\ runq[x] # <<>>
  /\ self' = [self EXCEPT ![x] = Head(runq[x])]
  /\ Goto(x, "call")
  /\ UNCHANGED <<handler, msg, dest, due, budget, held, mailbox, queues, runq, asleep, pending, uninit, cpu>>

\* _mg_context_pop_head
PopHead(x) ==
  /\ At(x, "sched")
  /\ runq[x] # <<>>
  /\ self' = [self EXCEPT ![x] = Head(runq[x])]
  /\ runq' = [runq EXCEPT ![x] = Tail(@)]
  /\ Goto(x, "call")
  /\ UNCHANGED <<handler, msg, dest, due, budget, held, mailbox, queues, asleep, pending, uninit, cpu>>

PopHeadEmpty(x) ==
  /\ At(x, "sched")
  /\ runq[x] = <<>>
  /\ Goto(x, "leave")
  /\ UNCHANGED <<handler, self, msg, dest, due, budget, held, mailbox, queues, runq, asleep, pending, uninit, cpu>>

\* Mutant: the pending bits are cleared when the interrupt ends, instead of when
\* it is taken.
MutantLeaveClears(x) ==
  /\ At(x, "leave")
  /\ Exit(x)
  /\ pending' = {p \in pending : <<p[1], vect2prio[p[2]]>> # x}
  /\ UNCHANGED <<self, msg, dest, due, budget, held, mailbox, queues, runq, asleep, uninit, cpu>>

\* mg_context_schedule returns, and the interrupt with it: whatever was put on
\* the run queue since it was found empty is left to another interrupt.
Leave(x) ==
  /\ At(x, "leave")
  /\ Exit(x)
  /\ UNCHANGED <<self, msg, dest, due, budget, held, mailbox, queues, runq, asleep, pending, uninit, cpu>>

(***************************************************************************)
(* mg_actor_call.                                                          *)
(***************************************************************************)
\* actor->func(actor, actor->mailbox): the function now owns the message.
Call(x) ==
  LET a == self[x] IN
  /\ At(x, "call")
  /\ msg' = [msg EXCEPT ![x] = mailbox[a]]
  /\ held' = [held EXCEPT ![a] = @ \cup ({mailbox[a]} \ {NULL})]
  /\ budget' = [budget EXCEPT ![x] = IF handler[x] = "init" THEN MaxInitCalls ELSE MaxCalls]
  /\ Goto(x, "run")
  /\ UNCHANGED <<handler, self, dest, due, mailbox, queues, runq, asleep, pending, uninit, cpu>>

\* A kernel call made by the function of the actor.
KernelCall(x) ==
  /\ At(x, "run")
  /\ budget[x] > 0
  /\ budget' = [budget EXCEPT ![x] = @ - 1]

FnAlloc(x) ==
  /\ KernelCall(x)
  /\ \E m \in Message :
       /\ mg_message_alloc(m)
       /\ held' = [held EXCEPT ![self[x]] = @ \cup {m}]
  /\ UNCHANGED <<pc, handler, self, msg, dest, due, mailbox, runq, asleep, pending, uninit, cpu>>

\* Mutant: mg_queue_pop does not test its subscriber.
MutantPollSubscribes(x) ==
  /\ KernelCall(x)
  /\ \E q \in Subscribes[self[x]] :
       \/ Subscribe(q, NULL) /\ UNCHANGED held
       \/ \E m \in Message : PopMessage(q, m) /\ held' = [held EXCEPT ![self[x]] = @ \cup {m}]
  /\ UNCHANGED <<pc, handler, self, msg, dest, due, mailbox, fresh, runq, asleep, pending, uninit, cpu>>

\* mg_queue_pop(q, 0)
FnPoll(x) ==
  /\ KernelCall(x)
  /\ \E q \in Subscribes[self[x]], m \in Message :
       /\ PopMessage(q, m)
       /\ held' = [held EXCEPT ![self[x]] = @ \cup {m}]
  /\ UNCHANGED <<pc, handler, self, msg, dest, due, mailbox, fresh, runq, asleep, pending, uninit, cpu>>

FnPush(x) ==
  /\ KernelCall(x)
  /\ \E q \in Targets[self[x]], m \in held[self[x]] :
       /\ mg_queue_push(x, q, m)
       /\ held' = [held EXCEPT ![self[x]] = @ \ {m}]
  /\ UNCHANGED <<self, msg, due, runq, asleep, pending, uninit, cpu>>

\* self->cpu = c: the actor is activated on another processor from now on.
FnMove(x) ==
  /\ KernelCall(x)
  /\ \E c \in Moves[self[x]] \ {cpu[self[x]]} : cpu' = [cpu EXCEPT ![self[x]] = c]
  /\ UNCHANGED <<pc, handler, self, msg, dest, due, held, mailbox, queues, runq, asleep, pending, uninit>>

\* The function returns a queue: mg_queue_pop(q, actor).
ReturnQueue(x) ==
  /\ At(x, "run")
  /\ \E q \in Subscribes[self[x]] :
       \/ /\ Subscribe(q, self[x])
          /\ msg' = [msg EXCEPT ![x] = NULL]
       \/ \E m \in Message :
            /\ PopMessage(q, m)
            /\ msg' = [msg EXCEPT ![x] = m]
  /\ Goto(x, "store")
  /\ budget' = [budget EXCEPT ![x] = 0]
  /\ UNCHANGED <<handler, self, dest, due, held, mailbox, fresh, runq, asleep, pending, uninit, cpu>>

\* Mutant: the result is stored only when it is a message.
MutantStoreMessagesOnly(x) ==
  /\ At(x, "store")
  /\ mailbox' = [mailbox EXCEPT ![self[x]] = IF msg[x] = NULL THEN @ ELSE msg[x]]
  /\ Goto(x, "test")
  /\ UNCHANGED <<handler, self, msg, dest, due, budget, held, queues, runq, asleep, pending, uninit, cpu>>

\* actor->mailbox = the result, after mg_queue_pop has left its critical section.
Store(x) ==
  /\ At(x, "store")
  /\ mailbox' = [mailbox EXCEPT ![self[x]] = msg[x]]
  /\ Goto(x, "test")
  /\ UNCHANGED <<handler, self, msg, dest, due, budget, held, queues, runq, asleep, pending, uninit, cpu>>

\* Mutant: mg_actor_call loops whatever the mailbox holds.
MutantAlwaysLoops(x) ==
  /\ At(x, "test")
  /\ Goto(x, "call")
  /\ msg' = [msg EXCEPT ![x] = NULL]
  /\ UNCHANGED <<handler, self, dest, due, budget, held, mailbox, queues, runq, asleep, pending, uninit, cpu>>

\* The value that "while (actor->mailbox != 0)" tests.
Tested(x) == IF Rereads THEN mailbox[self[x]] ELSE msg[x]

LoopTest(x) ==
  /\ At(x, "test")
  /\ \/ Tested(x) # NULL /\ Goto(x, "call") /\ UNCHANGED <<handler, self>>
     \/ Tested(x) = NULL /\ EndActorCall(x)
  /\ msg' = [msg EXCEPT ![x] = NULL]
  /\ UNCHANGED <<dest, due, budget, held, mailbox, queues, runq, asleep, pending, uninit, cpu>>

\* It returns MG_ACTOR_SUSPEND with timeout 0: back to the run queue, with no
\* interrupt requested.
ReturnYield(x) ==
  /\ At(x, "run")
  /\ "yield" \in Suspends[self[x]]
  /\ mailbox' = [mailbox EXCEPT ![self[x]] = NULL]
  /\ mg_actor_insert(self[x])
  /\ msg' = [msg EXCEPT ![x] = NULL]
  /\ EndActorCall(x)
  /\ budget' = [budget EXCEPT ![x] = 0]
  /\ UNCHANGED <<dest, due, held, queues, asleep, pending, uninit, cpu>>

\* With a timeout: _mg_actor_timeout, on the processor it runs on.
ReturnSleep(x) ==
  /\ At(x, "run")
  /\ "sleep" \in Suspends[self[x]]
  /\ mailbox' = [mailbox EXCEPT ![self[x]] = NULL]
  /\ asleep' = [asleep EXCEPT ![x[1]] = @ \cup {self[x]}]
  /\ msg' = [msg EXCEPT ![x] = NULL]
  /\ EndActorCall(x)
  /\ budget' = [budget EXCEPT ![x] = 0]
  /\ UNCHANGED <<dest, due, held, queues, runq, pending, uninit, cpu>>

-----------------------------------------------------------------------------
\* What the processor does next in context x.
Step(x) ==
  \/ ProducePush(x)
  \/ TickWake(x) \/ TickEnd(x)
  \/ Insert(x) \/ Request(x)
  \/ PopHead(x) \/ PopHeadEmpty(x) \/ Leave(x)
  \/ Call(x) \/ FnAlloc(x) \/ FnPoll(x) \/ FnPush(x) \/ FnMove(x)
  \/ ReturnQueue(x) \/ Store(x) \/ LoopTest(x) \/ ReturnYield(x) \/ ReturnSleep(x)

Next ==
  \/ \E a \in Actor : InitSubscribe(a) \/ InitCall(a)
  \/ \E x \in Ctx : ProduceAlloc(x) \/ TickStart(x) \/ Step(x)
  \/ \E c \in CPU, v \in Vector : EnterVector(c, v)

Spec == Init /\ [][Next]_vars

\* Every handler goes on when it is its turn, and a pending vector is taken.
\* Strong fairness: handlers above it may interrupt a context again and again,
\* but they leave the processor time for it.
Fairness ==
  /\ \A a \in Actor : WF_vars(InitSubscribe(a)) /\ WF_vars(InitCall(a))
  /\ \A x \in Ctx : SF_vars(Step(x))
  /\ \A c \in CPU, v \in Vector : SF_vars(EnterVector(c, v))

FairSpec == Spec /\ Fairness

-----------------------------------------------------------------------------
(***************************************************************************)
(* Which programs the properties are about.                                *)
(***************************************************************************)
\* The actors whose function may return q or poll it.
Consumers(q) == {a \in Actor : q \in Subscribes[a]}

\* The contexts in which the function of a may run.
RunsIn(a) ==
  (({HomeCpu[a]} \cup Moves[a]) \X {vect2prio[Vect[a]]})
    \cup (IF InitQueue[a] = NULL THEN {Main} ELSE {})

\* The contexts from which messages may be pushed to q.
PushesTo(q) ==
  (IF q \in ProducerTargets THEN Producers ELSE {})
    \cup UNION {RunsIn(a) : a \in {b \in Actor : q \in Targets[b]}}

\* Every queue is fed on the processor of its consumers and at no level above
\* theirs, as in the demos whose vectors all have the same priority.
NoPushFromAbove ==
  \A q \in Queue : \A a \in Consumers(q) : \A x \in RunsIn(a), y \in PushesTo(q) :
    y[1] = x[1] /\ y[2] <= x[2]

\* No push comes between the store of a mailbox and a load that tests it: there
\* is no such push, or no such load.  Otherwise the loop takes the message of an
\* actor that has been activated with it, and calls the function of an actor
\* that is on a run queue.
LoopTestSafe == NoPushFromAbove \/ ~Rereads

-----------------------------------------------------------------------------
(***************************************************************************)
(* Type invariant.                                                         *)
(***************************************************************************)
Labels ==
  {"idle", "push", "tick", "insert", "request", "sched", "leave", "call", "run", "store", "test",
   "assert"}

\* Every variable has its type.
TypeOK ==
  /\ pc \in [Ctx -> Labels]
  /\ handler \in [Ctx -> {"none", "init", "producer", "tick", "sched"}]
  /\ self \in [Ctx -> Actor \cup {NULL}]
  /\ msg \in [Ctx -> Message \cup {NULL}]
  /\ dest \in [Ctx -> Actor \cup {NULL}]
  /\ due \in [Ctx -> SUBSET Actor]
  /\ budget \in [Ctx -> Nat]
  /\ held \in [Actor -> SUBSET Message]
  /\ mailbox \in [Actor -> Message \cup {NULL}]
  /\ items \in [Queue -> Seq(Actor \cup Message)]
  /\ length \in [Queue -> Int]
  /\ fresh \subseteq Message
  /\ runq \in [Ctx -> Seq(Actor)]
  /\ asleep \in [CPU -> SUBSET Actor]
  /\ pending \subseteq CPU \X Vector
  /\ uninit \subseteq Actor
  /\ cpu \in [Actor -> CPU]

(***************************************************************************)
(* Safety.                                                                 *)
(***************************************************************************)
\* The list and the length of a queue agree (magnesium.h:98).
HasShape(list, n) ==
  \/ n >= 0 /\ list \in Seq(Message) /\ Len(list) = n
  \/ n < 0 /\ list \in Seq(Actor) /\ Len(list) = 0 - n

\* A queue never links messages and waiting actors at the same time, and its
\* length says which of them it links, and how many.
QueueShape == \A q \in Queue : HasShape(items[q], length[q])

\* The positions at which a node is linked into a list.
Positions(list, node) == {i \in DOMAIN list : list[i] = node}

\* mg_actor_call has subscribed its actor, and has still to write and to test its
\* mailbox.
Closing(x) == pc[x] \in {"store", "test"} /\ msg[x] = NULL

\* Context x has not given its actor away: a subscribed actor belongs to the
\* queue already.
Owns(x, a) == self[x] = a /\ ~Closing(x)

\* Where an actor is: its one link is in at most one list, and only one
\* context runs or activates it.
ActorPlaces(a) ==
  UNION {
    {<<"running", x>> : x \in {y \in Ctx : Owns(y, a)}},
    {<<"waking", x>> : x \in {y \in Ctx : pc[y] = "insert" /\ dest[y] = a}},
    UNION {{<<"ready", x, i>> : i \in Positions(runq[x], a)} : x \in Ctx},
    UNION {{<<"waiting", q, i>> : i \in Positions(items[q], a)} : q \in Queue},
    {<<"asleep", c>> : c \in {d \in CPU : a \in asleep[d]}},
    IF a \in uninit THEN {<<"uninit">>} ELSE {}}

\* An actor is in exactly one place: never lost, never linked twice, never run
\* twice at once, although contexts of all levels and processors pass it on.
\* The link of mg_actor_t (magnesium.h:129) is shared by all the lists.
ActorCustody == \A a \in Actor : Cardinality(ActorPlaces(a)) = 1

\* Actor a has been activated and not yet called: its mailbox is in use.
Activated(a) ==
  \/ \E x \in Ctx : pc[x] = "insert" /\ dest[x] = a
  \/ \E x \in Ctx : Positions(runq[x], a) # {}
  \/ \E x \in Ctx : pc[x] = "call" /\ self[x] = a

MessagePlaces(m) ==
  UNION {
    IF m \in fresh THEN {<<"fresh">>} ELSE {},
    UNION {{<<"queued", q, i>> : i \in Positions(items[q], m)} : q \in Queue},
    {<<"held", a>> : a \in {b \in Actor : m \in held[b]}},
    {<<"local", x>> : x \in {y \in Ctx : msg[y] = m /\ pc[y] \in {"push", "store", "test", "assert"}}},
    {<<"mailbox", a>> : a \in {b \in Actor : Activated(b) /\ mailbox[b] = m}}}

\* Zero-copy message passing: a message never has two owners.
MessageOwnedOnce == \A m \in Message : Cardinality(MessagePlaces(m)) <= 1

\* Sending cannot fail (README.md:97): no message is ever lost.
MessageConserved == \A m \in Message : MessagePlaces(m) # {}

\* An actor subscribed on init that returns only queues is always called with
\* a valid message (README.md:75).
CalledWithMessage ==
  \A x \in Ctx :
    (pc[x] = "run" /\ InitQueue[self[x]] # NULL /\ Suspends[self[x]] = {})
      => msg[x] # NULL

\* An actor waits on a run queue of the processor it was moved to and of its own
\* priority: "all actor activations will happen on that CPU" (README.md:82),
\* although actor->cpu is read with no lock held (magnesium.h:183 and 191).
ReadyAtHome ==
  \A x \in Ctx : \A i \in DOMAIN runq[x] : Home(runq[x][i]) = x

\* No wakeup is lost: an actor on a run queue has an interrupt pending, or
\* about to be requested, or the scheduler of its level is at work and looks
\* at the run queue again: having found it empty, it does not count any more.
NoLostWakeup ==
  \A x \in Ctx :
    runq[x] # <<>> =>
      \/ handler[x] = "sched" /\ pc[x] # "leave"
      \/ \E v \in Vector : <<x[1], v>> \in pending /\ vect2prio[v] = x[2]
      \/ \E y \in Ctx : pc[y] = "request" /\ Home(dest[y]) = x

(***************************************************************************)
(* Liveness.                                                               *)
(***************************************************************************)
\* An actor on a run queue is eventually called.
ReadyActorRuns ==
  \A a \in Actor :
    (\E x \in Ctx : Positions(runq[x], a) # {}) ~> (\E x \in Ctx : self[x] = a)
=============================================================================
