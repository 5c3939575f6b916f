# magnesium in TLA+

This directory specifies magnesium, an actor framework in one header
(`src/magnesium.h`) that uses the interrupt controller as its scheduler. The
specifications are checked with TLC on small instances, and the theorems
about them are proved with TLAPS for every value of the constants.

Contents: [the system](#the-system), [the modules](#the-modules-and-the-code),
[the runs](#the-runs), [what the runs found](#what-the-runs-found),
[fairness](#fairness), [the proofs](#the-proofs),
[what is not modelled](#what-is-not-modelled), [plan](#plan).

## The system

An actor is a function and an interrupt vector. Messages are blocks of a pool
that are passed by pointer through queues. When a message and a waiting actor
meet in a queue, the actor is put on the run queue of its priority and its
interrupt is requested; the handler of the interrupt calls the functions of all
the actors on the run queue. There is no other scheduler: preemption is what the
interrupt controller does.

| component | state | operations |
|---|---|---|
| intrusive lists, `magnesium.h:59-93` | a dummy node, a pointer to the tail, the links inside the members | `mg_fifo_init`, `empty`, `enqueue`, `dequeue` |
| queues, 95-99, 159-163, 194-234 | `items`, `length` (> 0 messages, < 0 waiting actors) | `mg_queue_pop`, `mg_queue_push` |
| message pool, 101-108, 165-179, 236-263 | `array`, `offset`, `array_space_available`, a queue | `mg_message_alloc`, `mg_message_free` |
| actors, 122-130, 318-368 | `mailbox`, `timeout`, `cpu`, `vect`, one link for all lists | `mg_actor_init`, `mg_actor_call`, `mg_sleep_for` |
| scheduling, 115-120, 181-192, 370-394 | `runq[prio]` of each processor, the pending bits of the controller | `_mg_actor_insert`, `_mg_actor_activate`, `mg_context_schedule` |
| timer queues, 265-316 | `ticks`, `timerq[]` of each processor | `mg_context_tick`, `_mg_actor_timeout` |
| critical sections, 17-57 | interrupt masks, the `spinlock` of each object, the event registers | `mg_smp_protect_acquire`, `release` |
| requests between processors, `examples/rp2350_*/` | `g_ipi_request`, the doorbells | `pic_interrupt_request`, the doorbell handler |
| ports, `nvic*/`, `examples/rp2350_riscv/` | controller registers | `pic_vect2prio`, `mg_port_clz`, interrupt dispatch |
| 64-bit timer, `examples/rp2350_riscv/mtimer.h` | `mtime`, a comparator of each core | `riscv_timer_get_mtime`, `set_mtime`, `set_mtimecmp` |
| protothread macros, 137-141 | a static resumption point in each function | `MG_ACTOR_START`, `MG_AWAIT`, `MG_ACTOR_END` |
| start of the second core, `examples/rp2350_*/core1.c` | the fifos between the cores, how far the handshake is | `core1_start` |
| demos and tests | | programs on top of the above |

How they interact. Handlers of devices, the tick and the functions of actors all
call the same kernel functions, from any interrupt level and any processor. They
share the queues, the pool, the run queues and the timer queues, each protected
by a critical section; they do *not* share a critical section across two of these
objects, so every operation that touches two (push and activate, pop and store
the mailbox, tick and activate) is several steps that others interleave with.

What is hard about it:

- **Preemption everywhere.** Any step outside a critical section may be followed
  by whole handlers of higher levels, and on another processor anything at all
  may happen. `mg_queue_push` hands an actor over in three steps (mailbox, run
  queue, interrupt), `mg_actor_call` takes a message in three (pop, store the
  mailbox, test it), and the last two hold no lock.
- **One link, one pending bit.** An actor has a single link for four kinds of
  lists. Several activations share a single pending bit, which is cleared before
  the run queue is emptied.
- **Sign of a counter.** `length` alone says whether a list holds messages or
  actors; the list nodes carry no tag.
- **Unlocking in a loop.** The tick releases the lock after each node and goes on
  with a remembered tail while actors that it woke fall asleep again.
- **Flags read without the lock** in `mg_message_alloc`, weak exchanges and WFE in
  the spinlock, a doorbell that may ring while its handler runs.
- **Wrap-around** of the tick counter, due times beyond the largest timer queue.
- **Actors that move.** `actor->cpu` may be changed by the function of the actor;
  it is read when the actor is put on a run queue and again when the interrupt is
  requested.
- **Half a register at a time.** The cores of the RISC-V demo read and write a
  64-bit timer in halves while it runs, and take ticks from it as soon as they are
  started, one of them while the other is still in `main()`.
- **A handshake that starts over.** `core1_start` talks to a boot ROM that may be
  in the middle of the sequence, through a fifo with old words in it.

What makes each component correct: lists represent sequences; queues hold only one
kind of node and the length counts it; a message is always in exactly one place, an
actor too; what is sent to a queue with one consumer is received once and in order;
an actor on a run queue has a scheduler that will look there; a pool gives out every
block once, none beyond the array, and fails only when it is empty; a sleeper is
woken by the tick that is its delay away; critical sections exclude each other and
never wait for a preempted holder; no interrupt request is lost; core 1 starts with
the arguments meant for it, after the kernel was initialised; ticks are neither
early nor a rollover late. `PROJECT.json` lists the hazards line by line, each with
the properties that would catch it going wrong or the reason why none does.

## The modules and the code

```
 Kernel  <- Messaging <- MCKernel <- MCPlaced        Channel  (abstract)
    ^
 KernelProofs <- MessageProofs (of Messaging)
 the abstractions of Kernel, each the subject of a module:
 Fifo         a list is a sequence                FifoProofs
 MessagePool  mg_message_alloc is one step        BlockPool (abstract), MessagePoolProofs
 TimerWheel   a sleeper is woken at some tick     Alarm (abstract), TimerWheelProofs
 SpinLock     a critical section is one step      SpinLockProofs
 Doorbell     an interrupt request is one step    DoorbellProofs, MCDoorbell
 Clz          the count of leading zeros is right (used by TimerWheel)
 the demo around it:
 Mtimer, Core1Start  <- RiscvDemo  <- RiscvProofs
```

**Kernel** is the core. A context is a pair `<<cpu, level>>`: level 0 is the
thread of that processor, level n an interrupt of priority n. A handler starts
in a context only when nothing runs on that processor at its level or above
(`CanEnter`), and the running context of a processor is the highest one that is
not idle (`At`), so every interleaving of nested handlers and of processors is a
behaviour. `pc[x]` is the place in the code; a step is one critical section or
one access to shared state outside of them:

| code | actions |
|---|---|
| `mg_actor_init` | `InitSubscribe` (with a queue, and the assertion), `InitCall` (without) |
| a device handler or `main()` that allocates and sends | `ProduceAlloc`, `ProducePush` |
| `mg_queue_push` | `mg_queue_push` (the section), then `Insert`, `Request` when an actor was waiting |
| `mg_queue_pop` | `PopMessage` and `Subscribe`, used by `FnPoll`, `ReturnQueue`, `InitSubscribe`, `mg_message_alloc` |
| `mg_message_alloc`, `mg_message_free` | `mg_message_alloc`; a push to `Pool` |
| `_mg_actor_activate` | `Insert` (`_mg_actor_insert`), `Request` (`pic_interrupt_request`) |
| the controller takes a vector | `EnterVector` |
| `mg_context_schedule` | `PopHead`, `PopHeadEmpty` (the run queue was found empty), `Leave` (the interrupt returns) |
| `mg_actor_call` | `Call`, then what the function does, then `ReturnQueue` (`mg_queue_pop`), `Store` (line 335) and `LoopTest` (336), or `ReturnYield`, or `ReturnSleep` |
| the body of an actor's function | `FnAlloc`, `FnPoll`, `FnPush`, `FnMove` (an assignment to `self->cpu`), in any order |
| `mg_context_tick` | `TickStart`, `TickWake`, `TickEnd` |

The loop of `mg_actor_call` stores `actor->mailbox` and tests it, with no lock held
and while a push may write the field: a data race, whose outcome depends on what the
compiler makes of `while (actor->mailbox != 0)`. The constant `Rereads` says which:

- `TRUE`: it loads the field again (`gcc -O0` does). `LoopTest` then tests what is in
  the mailbox at that time, which may have been pushed since `Store`.
- `FALSE`: it tests the value that it has just stored (`gcc` with `-Og`, `-O1`, `-O2` or
  `-Os` does). All Makefiles of the demos and `tests/run.sh:9` build with `-O2`; the SDK
  demo leaves the level to the SDK.

The next iteration passes the mailbox to the function, again a load or the stored value.
`Call` loads it in either case: a build that passes the value cannot see a store that
comes in between, and behaves as the model does when that store comes after `Call`.

`LoopTestSafe` (`NoPushFromAbove \/ ~Rereads`) says that the test cannot see another value
than the stored one. It is the condition of `ActorCustody`, `MessageOwnedOnce`,
`ReadyAtHome` and `NoLostWakeup`: the runs `preempt` and `smp` have pushes
from above and `Rereads = FALSE`, the run `placed` has none and `Rereads = TRUE`.

A list is a sequence in Kernel, which stands for pointers as long as no node is linked
twice. In a program outside `LoopTestSafe` an actor may be in two lists; the model then
says that it is, and no longer what becomes of the lists.

The functions of the actors are not code of the framework: the model lets them
make any sequence of kernel calls on the messages they own and return any queue
they subscribe to, a yield or a sleep, within the sets given as constants. The
user's side of the contract is that a function sends or frees only messages it
was given, and does not touch them afterwards. The variable `held` keeps track of
that. In Kernel the tick wakes any non-empty set of sleepers; which ones is the
subject of TimerWheel.

**Messaging** adds the refinement to **Channel**: a queue of `Fifos` has one reader,
the actor that subscribes to it or polls it, and that reads no other queue.
`Undelivered(q)` is what was sent to it and not received: the mailbox (`InMailbox`)
or what `mg_queue_pop` has returned and the loop has not tested yet (`Popped`), before the
messages the list links (`Linked`). `NoPushFromAbove` (in Kernel) is the condition on
programs under which this holds; see [what the runs found](#what-the-runs-found).

**Fifo** has the pointers (`next`, `tail`) and, as a history variable, the
sequence `list` they should represent. The links of nodes hold garbage at first
and after a node has been dequeued, as in C.

**MessagePool** has the two reads of `array_space_available`, one without the
lock. A block is its offset in the array. It implements **BlockPool**, in which
an allocation is one step, as Kernel has it. Actors that wait for the pool's
queue are a feature of queues and are covered by Kernel.

**TimerWheel** has the counter modulo `2^Width`, the timer queues, and the tick
as the code has it: `TickEnter` up to the first release of the lock, `Activate`,
`TickNext` for each further round. `DiffMsb` finds the
highest bit by definition; **Clz** has the shifts, the multiplication and the table
with which the ARMv6-M port finds it, over words that are sets of bit positions,
and `PortFindsBucket` compares them. Between the steps of a tick actors of any level
may fall asleep (`Sleep`). It implements **Alarm**, in which a sleeper counts down.

**SpinLock** has the exclusive load and store behind the weak exchange, with
reservations that any write to the lock ends, the event registers of WFE and SEV,
and the interrupt masks. The event registers are arbitrary at boot.

**Doorbell** has `g_ipi_request`, the doorbells and their handler, the same code
in the three RP2350 demos; `owed` is a history variable with the requests not yet
answered by a scheduler.

**Mtimer** has `mtime` and the comparators as numbers `high * Half + low`, and a
step for each access to one half: `ReadHigh`, `ReadLow`, `ReadHighAgain` (which
goes back when the high half has changed), `WriteOnes`, `WriteHigh`, `WriteLow`.
The counter advances between any two steps (`Advance`). `IsrEnter` to `Tick` is the
case `MTIMER_IRQ` of `isr_handler`, `per_cpu_init` the first programming of the
comparator; the last write of it is one step with `irq_enable`.

**Core1Start** is `core1_start` against the boot ROM of the other core:

| code | actions |
|---|---|
| `multicore_fifo_drain` before a zero | `Drain` |
| `multicore_fifo_push_blocking(cmd)` | `multicore_fifo_push_blocking` |
| `multicore_fifo_pop_blocking`, and `seq` | `multicore_fifo_pop_blocking` |
| boot ROM (external) | `RomAnswer` |

The ROM is modelled by what `core1_start` relies on: it wants 0, 0, 1 and three
words it does not look at, answers a word that fits with the same word, and any
other one with some different word, and then starts over. It may be one or two
words into the sequence and old answers to zeros and ones may be in the fifo when
`core1_start` begins. That the ROM is further in, waiting for an argument, is
excluded: it would take the first zero for a vector table, and no program on core
0 could tell.

**RiscvDemo** composes the two with `main()` and `core1_main()` of the RISC-V demo:
the kernel is initialised, the timer stopped, cleared and started, core 1 started,
the first tick of each core programmed. `running` is bit 0 of `mtime_ctrl`.

The operators named `Mutant...` are never part of a specification. Each is a
plausible mistake in one definition, and the property it is listed with in
`PROJECT.json` fails when it takes the place of that definition.

## The runs

Run one with `tlc -config X.cfg M`.

| run | module, configuration | states | properties | what it shows |
|---|---|---|---|---|
| `preempt` | MCKernel, `MCKernel_preempt.cfg` | 374,745 | `TypeOK`, `QueueShape`, `ActorCustody`, `MessageOwnedOnce`, `NoLostWakeup` | One processor with actors at two levels, one of them waiting for a block of an exhausted pool, under a device handler and the tick: the lists, actors and messages stay consistent and no wakeup is lost under every preemption, when the loop of mg_actor_call tests the value it has stored. |
| `smp` | MCKernel, `MCKernel_smp.cfg` | 817,171 | `ActorCustody`, `MessageOwnedOnce`, `NoLostWakeup`, `ReadyAtHome` | Two processors whose actors send to each other, while one of them consumes both queues and moves between the processors: custody, ownership and wakeups hold, and an actor is put on a run queue of the processor it has moved to, when the loop of mg_actor_call tests the value it has stored. |
| `placed` | MCPlaced, `MCPlaced.cfg` | 40,430 | `ActorCustody`, `MessageConserved`, `CalledWithMessage`, `ImplementsChannels`, `MessageDelivered`, `ReadyActorRuns` | When no queue is fed from above its consumer, the loop of mg_actor_call may read the mailbox again: an actor is in one place, no message is lost, no actor is called without one, queues with one consumer implement FIFO channels, and under strong fairness every message is received and every actor on a run queue is called. |
| `above` | MCKernel, `MCKernel_above.cfg` | violation | `CalledWithMessage` | A handler above the consumer pushes between the subscription of mg_queue_pop and the assignment of its result: the mailbox is overwritten with 0, the message is lost and the actor is called without one. |
| `yield` | MCKernel, `MCKernel_yield.cfg` | violation | `ReadyActorRuns` | An actor that returns mg_sleep_for(0) from the call made by mg_actor_init is put on its run queue with no interrupt requested and never runs again. |
| `fifo` | Fifo, `Fifo.cfg` | 256 | `Represents` | Nodes enqueued, dequeued and passed from one intrusive list to another: the pointers always represent the sequence of the nodes still linked. |
| `pool` | MessagePool, `MessagePool.cfg` | 1,796 | `BlocksInArray`, `NullWhenExhausted`, `ImplementsBlockPool` | Three threads race for the blocks of a pool: the flag read without the lock never gives out too much or too little, and the pool implements one that allocates in one step. |
| `timer` | TimerWheel, `TimerWheel.cfg` | 98,224 | `TypeOK`, `RightBucket`, `PortFindsBucket`, `LastAhead`, `ImplementsAlarms`, `TickEnds`, `SleeperWakes` | Three sleepers, three timer queues and a four-bit counter that wraps around: everyone is woken by the tick that is its delay away, though actors fall asleep in the middle of a tick, and the loop of every tick reaches its stop and ends. The table lookup that counts leading zeros on ARMv6-M leads to the same timer queue. |
| `lock` | SpinLock, `SpinLock.cfg` | 255,077 | `MutualExclusion`, `NotPreempted`, `EventComes`, `SomeoneAcquires` | Three processors with two levels and two locks: critical sections exclude each other and are not preempted, no processor sleeps on a free lock with no event to come, and somebody who wants a lock gets it. |
| `lock_bounded` | SpinLock, `SpinLock_bounded.cfg` | violation | `LockingTimeEnds` | One processor takes and releases a lock again and again; the other one finds it taken each time it looks and spins with interrupts disabled for ever. |
| `doorbell` | MCDoorbell, `MCDoorbell.cfg` | 9,468 | `TypeOK`, `RequestKept`, `RequestServed` | A thread requests interrupts of two levels on both processors while the doorbell handler is at work: no request is lost, and each one makes a scheduler of its level run after it. |
| `riscv` | RiscvDemo, `RiscvDemo.cfg` | 399,106 | `TypeOK`, `TicksNotAhead`, `NextTickNear`, `StartedRight`, `TickAfterInit`, `NoEarlyMatch`, `CoresTick` | main() of the RISC-V demo starts core 1 through its boot ROM, with words left in the fifo, and both cores take ticks from a 64-bit timer that they access in halves: core 1 starts as it was told and after the kernel was initialised, and no tick comes early or is missed for a rollover. |

Bounds, and why they are enough.

- *Messages, actors, queues* (2 or 3 messages, 2 or 3 actors, 3 queues). A hand-over
  involves one message, one actor and one queue; a second message is needed for
  order and for a list that is not empty, a third to have one in the mailbox, one
  linked and one on its way.
- *`MaxCalls`, `MaxInitCalls`*: kernel calls in one activation. Two calls let a
  function free what it got and send or allocate something else before it
  returns; more calls repeat these steps from states that are reached anyway, as
  an actor may be activated any number of times. Where the number is 0 or 1 the
  run is about something else.
- *Levels*: `preempt` has the thread, two levels of actors and a level of
  devices above, so there is a context below, at and above that of every
  activation. `smp` has two processors, an actor on each, one of
  which moves back and forth.
- *A pool that is waited for*: in `preempt` an actor subscribes to the queue of the
  pool when it finds it empty, so that a free hands a block over (`README.md:90`).
- *Blocks*: a `total_length` of three blocks, and three threads. The race is for
  the last block, and needs one thread more than blocks left.
- *`Width`, `TimerqMax`*: four bits and three queues. Every value of the counter
  and the wrap-around are reached, and delays of up to `2^(Width-1) - 2` are
  longer than what the queues distinguish, so that actors return to the last one.
- *Processors and locks*: three processors, as an event may be consumed by one
  waiter while another one takes the lock; two locks, as it may come from the
  other lock. The invariants are proved for any number.
- *Requesters*: one thread that requests on both processors is enough for the
  race of a ring with the handler it rings for. More requesters are covered by
  the proof of `RequestKept`.

- *`Half`, `CLK_PER_TICK`, `MaxTime`*: a half register has four values and a tick
  takes three of them, so that nearly every tick crosses a rollover of the low
  half, at every point of the code; `MaxTime` is four ticks after the reset.
- *`Word`, `Depth`*: a value for each word of the sequence; fifos of two words let
  a late answer wait behind an old one. The real ones are deeper, which only adds
  old words for `Drain` to remove.
- *`PortMsb`*: the four bits of the model's counter are put at each of the 29 places
  in a 32-bit word, so every entry of the table is read; the bits below the highest
  one do not matter once they are smeared.

States are distinct states, up to symmetry where it is used. Symmetry
(`MessageSymmetry`) is used only in runs without liveness, over
messages, which no definition tells apart.

Deadlock is not checked in the runs of MCKernel and MCPlaced: programs of
actors come to rest when every actor waits and the pool is empty because actors
keep their messages, and a failed assertion (`assert(msg == 0)` in
`mg_actor_init`) stops the program. Nor is it in `riscv`, where the clock stops at
`MaxTime` and with it the ticks. It is checked in all others.

## What the runs found

**A push between pop and store is lost** (run `above`, `magnesium.h:335`).
`actor->mailbox = mg_queue_pop(q, actor)` stores the result after `mg_queue_pop`
has subscribed the actor and left its critical section. When a handler of a
higher level, or another processor, pushes to the queue at this moment, it stores
its message in the mailbox and puts the actor on the run queue; the assignment
then overwrites the mailbox with 0. The message is lost, and the actor is called
with 0 although `README.md:75-76` promises a valid pointer to actors subscribed on
init. The demos whose vectors have one priority on one processor do not meet it.
`NoPushFromAbove` states the condition, and with it `placed` shows that nothing is lost.
How much worse it gets in the other programs depends on the next line.

**The loop test races with the same push** (`magnesium.h:336`). When the push comes after
the store, before the loop reads `actor->mailbox` again, the loop finds the pushed
message, and calls the function with it while the actor is on its run queue with that
message in its mailbox. When it returns a queue or sleeps, the one link of the actor is put in a second
list, and the actor will be called with the same message again. With `Rereads = TRUE` in
`MCKernel_smp.cfg`, TLC finds `ActorCustody`, `MessageOwnedOnce`, `ReadyAtHome` and
`NoLostWakeup` violated, the first of them in 15 states; in `MCKernel_preempt.cfg` it
finds the first two violated. A compiler that tests the value it has stored, as the
builds of the repository do, hides this, and then an overwritten mailbox loses a message
and corrupts nothing: that is what `preempt` and `smp` check. Nothing in the source asks
the compiler for it. A local variable for the result of `mg_queue_pop` would.

**A yield inside `mg_actor_init` may never resume** (run `yield`,
`magnesium.h:329`). A timeout of 0 puts the actor back on its run queue and
requests no interrupt, because the loop of `mg_context_schedule` will find it;
but `mg_actor_init` calls `mg_actor_call` without this loop. Unless another actor
of the same vector is activated, the actor stays there. `README.md:120` promises
its activation. The assumption `NoYieldOnInit` of the wakeup theorem excludes it.

The same insertion uses `actor->cpu`. When the function has changed it and yields,
the run queue is that of another processor, whose scheduler has no reason to look
there (`magnesium.h:330`). Moving works with a queue or a non-zero timeout, whose
wakeup requests an interrupt; `MoversDoNotYield` in the wakeup theorem says so.

**Interrupt locking time is not bounded on several processors** (run
`lock_bounded`, `magnesium.h:41`). The spinlock serves nobody in order, and
interrupts are disabled before it is waited for. `README.md:5` claims a constant
locking time for all functions. The single-processor build has no such loop.

## Fairness

Safety runs use `Spec`, without fairness. The liveness runs use `FairSpec`:

- Kernel and Doorbell: *strong* fairness of the steps of each context and of
  taking each pending vector. Handlers of higher levels disable a context's steps
  again and again, so weak fairness would say nothing of a context that is
  preempted infinitely often. Strong fairness says that they leave it time in
  between, the assumption under which any priority-based scheduler is used: it
  is a condition on the load, not on magnesium. Devices and ticks are under no
  obligation to come; `ProduceAlloc` and `TickStart` have no fairness. `main()`
  goes on to initialise the actors (weak fairness, nothing disables it for good).
- TimerWheel: weak fairness of the tick, which is periodic (`README.md:109`) and
  whose handler nothing above it blocks for ever. Falling asleep has none.
- SpinLock: weak fairness of each context in a critical section. Nothing can
  preempt it, so its processor executes it. WFE is enabled while the event
  register is set; that other wakeup sources exist is not assumed.
- RiscvDemo: weak fairness of `main()`, `core1_main()`, the ROM, the clock and the
  steps of each core. Nothing but the tick interrupts them here, and each core
  executes its one thread of control.

## The proofs

The proofs hold for every value of the constants that satisfies the `ASSUME`s,
which TLC evaluates in the runs. Each follows the same path: an inductive
invariant, an initial lemma, a lemma for each action or group of actions, and a
temporal step.

| theorem | module | property | what it establishes |
|---|---|---|---|
| `FifoRepresents` | FifoProofs | `Represents` | For any fifos and nodes, the pointers of every intrusive list represent the sequence of the nodes enqueued and not yet dequeued. |
| `LockExcludes` | SpinLockProofs | `MutualExclusion` | For any processors, levels and locks, no two contexts are in critical sections of one lock. |
| `SectionNotPreempted` | SpinLockProofs | `NotPreempted` | Nothing runs above a context from the moment it masks the interrupts until it has released its lock. |
| `NoEventMissed` | SpinLockProofs | `EventComes` | A processor that sleeps on a free lock has an event, or one is about to be sent. |
| `RequestsKept` | DoorbellProofs | `RequestKept` | For any processors, vectors, levels and requesters, an interrupt requested on another processor is never lost on its way. |
| `AllocInArray` | MessagePoolProofs | `BlocksInArray` | For any sizes and number of threads, no block handed out reaches beyond the array. |
| `AllocFailsWhenExhausted` | MessagePoolProofs | `NullWhenExhausted` | mg_message_alloc fails only when every block of the array has been handed out. |
| `TypeCorrect` | KernelProofs | `TypeOK` | Every variable of the kernel keeps its type, for any processors, levels, actors, queues, messages and user functions: in particular only actors are activated. |
| `QueueShapeInvariant` | KernelProofs | `QueueShape` | A queue links either messages or actors, and its length counts them with the sign that tells which, as long as no actor is linked twice (CustodyInvariant), for a sequence stands for a list only then. |
| `CustodyInvariant` | KernelProofs | `ActorCustody` | In every program that pushes to no queue from above its consumer, and in every other one when the loop test of mg_actor_call does not read the mailbox again (LoopTestSafe), an actor is in exactly one place: linked into one list, run or activated by one context, asleep, or not yet initialised. |
| `ReadyAtHomeInvariant` | KernelProofs | `ReadyAtHome` | Under LoopTestSafe, with functions that move their actors, an actor on a run queue is on the one of its own processor and priority. |
| `WakeupInvariant` | KernelProofs | `NoLostWakeup` | Under LoopTestSafe, in every program in which mg_actor_init calls no function that may yield and no actor that moves yields, an actor on a run queue has a scheduler at work on it, pending or about to be requested. |
| `MessageOwnedOnceInvariant` | MessageProofs | `MessageOwnedOnce` | Under LoopTestSafe a message is in at most one place: linked into one queue, in the mailbox of one activated actor, held by one function, in a local variable of one context, or not allocated. |
| `MessageConservedInvariant` | MessageProofs | `MessageConserved` | In every program that feeds no queue from above its consumer, no message is ever lost: each one is in some place the program can get it from. |
| `CalledWithMessageInvariant` | MessageProofs | `CalledWithMessage` | In every such program an actor subscribed on init that returns only queues is always called with a message. |
| `ChannelRefinement` | MessageProofs | `ImplementsChannels` | In every such program each queue with one consumer implements a FIFO channel: what is sent is received once and in order, whatever is preempted between mailbox, list and local variable. |
| `PoolRefinement` | MessagePoolProofs | `ImplementsBlockPool` | mg_message_alloc, which reads its flag twice, implements an allocation in one step, for any sizes and number of threads. |
| `DoorbellTypes` | DoorbellProofs | `TypeOK` | The request bits, the doorbells and the handlers keep their types, for any processors, vectors, levels and requesters. |
| `WheelTypes` | TimerWheelProofs | `TypeOK` | The counter, the due times and the timer queues keep their types, for every width of the counter and every MG_TIMERQ_MAX. |
| `RightBucketInvariant` | TimerWheelProofs | `RightBucket` | Between ticks every sleeper is in the timer queue of the highest bit in which its due time differs from the counter, though the counter wraps around and the last queue stands for many bits. |
| `LastAheadInvariant` | TimerWheelProofs | `LastAhead` | The loop of a tick does not miss the node at which it stops, whoever falls asleep or is put back while it runs. |
| `AlarmRefinement` | TimerWheelProofs | `ImplementsAlarms` | The timer queues implement the alarms: an actor that sleeps for d ticks is woken by the d-th tick and by no other. |
| `PortFindsBucketInvariant` | TimerWheelProofs | `PortFindsBucket` | With a counter of at most 32 bits, the count of leading zeros of the ARMv6-M port leads to that same timer queue. |
| `RiscvTypes` | RiscvProofs | `TypeOK` | cmd_sequence is read within its bounds and the fifos never hold more than they have room for, for any words, depth and width of the halves of the timer. |
| `StartedRightInvariant` | RiscvProofs | `StartedRight` | Core 1 starts with the words of core1_start and with nothing left over from before, from every state the boot ROM and the fifos may be in. |
| `TickAfterInitInvariant` | RiscvProofs | `TickAfterInit` | No core takes a tick before the kernel was initialised. |
| `TicksNotAheadInvariant` | RiscvProofs | `TicksNotAhead` | No core has counted more ticks than have passed, though it reads the timer in halves that roll over between the reads. |
| `NextTickNearInvariant` | RiscvProofs | `NextTickNear` | The comparator of a core that waits for its tick is never more than a tick ahead: no tick is missed for a rollover. |
| `NoEarlyMatchHolds` | RiscvProofs | `NoEarlyMatch` | No write to half of a comparator takes it below both what it was and what it will be, where it could match too early. |

- **KernelProofs** has three invariants, each resting on the one before it.
  `KernelInv` is `TypeOK`, `QueueShape` and `ControlOK`. Neither
  of the first two is inductive: that the head of a queue with negative length
  *is an actor* needs the shape, and that an activation has an actor in `dest` or
  `self`, that a push has a message in `msg`, needs `ControlOK`. The shape of
  one queue is preserved by lemmas about append and tail (`AppendShape`,
  `TailShape`), stated once and used for push, pop, subscribe and alloc.
- *Custody of actors.* `Custody` has, for each actor, six sets: the contexts that run
  it, those that wake it, the run queues and the queues that link it, the
  processors it sleeps on, and `uninit`. One set has one element and the
  others are empty (`OnePlace`); no list links an actor twice (`Distinct`). A
  step moves at most one actor (`OneMoves`): the place it leaves shows that it is
  nowhere else (`OnlyPlace`), so the list that it enters did not have it. `SelfOK`
  (no actor in `self` outside `mg_actor_call`) and `DueOK` (those a tick will wake are
  asleep on its processor, which has one tick) are needed for the steps that
  overwrite `self` and for the tick. The step `LoopTest` needs `TestSound`: what it tests
  is the value that was popped. That is so by definition when the loop does not read the
  mailbox again; when it does, it follows from `NoPushFromAbove`, with `WindowInv`:
  between `Store` and `LoopTest` nobody writes the mailbox (`TestAgrees`), because nobody
  who runs in between may push to a queue in which the actor waits. `TestSoundInvariant`
  joins the two. `ActorCustody` follows by counting.
- *Wakeups.* `ReadyAtHome` is inductive with custody: only the function of an
  actor changes `actor->cpu`, and then no run queue links the actor. For wakeups
  the invariant is said of each actor on a run queue (`Woken`): `NoLostWakeup`
  alone is not inductive when actors move, because the request that another actor
  counted on goes elsewhere when its target moves; a request for the actor itself
  follows it home. `CallerOK` gives a yield that the scheduler of its run queue is
  at work. `WakeupInvariant` assumes `NoYieldOnInit`, without which it is
  false, as the run `yield` shows, and `MoversDoNotYield`, for the same reason.
- **MessageProofs** builds on custody, in steps. `Ownership` has for each message
  the five kinds of place it may be in, and says that two of them are one; it needs
  `EmptyMailboxes` (an actor that is asleep or not initialised, which will be
  activated with no message, has none in its mailbox), for the steps that activate
  it, and `StoredMail`: a popped message that was stored is still in the mailbox, or has
  been overwritten with 0 by a context that was late with a store of its own. This holds under
  `LoopTestSafe` and gives `MessageOwnedOnce`. The other three theorems assume `NoPushFromAbove`, without which they are false, as the run
  `above` shows. What they add is the interval between the subscription in
  `mg_queue_pop` and the assignment of its result: under the assumption the actor
  still waits in the queue when its mailbox is written (`StillWaits`): who could
  push to the queue runs on the same processor at no higher level (`AtHome`,
  `PlacesOK`), so the store overwrites nothing. `PlacedInv` is that (`WindowInv`), and gives
  `Conserved`; `GivenInv` follows the message from the mailbox to the argument. For
  the channels `WaitsOK` says that an actor waits only in the queues it reads; an
  actor that waits in its queue has no message on the way (custody), so a push that
  goes past the list to the mailbox overtakes nothing, and each action is a send, a
  receive or a stutter.
- **FifoProofs.** `FifoInv` is `TypeOK`, `Represents`, `LinkedOnce`: writing the
  link of one node leaves the chains of the others alone only because no node is
  linked twice.
- **SpinLockProofs.** `MaskedRunsAlone` (a context in a section has its processor
  masked and idle above) gives that there is one such context on a processor
  (`OneMaskedContext`); `LocksTaken` ties the lock word to the holder and the
  reservations. `WaitsForEvent` strengthens `EventComes` to every context that has
  decided to wait.
- **DoorbellProofs.** `RequestKept` with `HasVector` and `BitsServed`.
- **MessagePoolProofs.** `FlagOK` says what the flag knows about the offset, from
  which both the bound and, as an action property, the exhaustion follow. The
  refinement to BlockPool needs in addition that the offset is a whole number of
  blocks (`WholeBlocks`), so that the blocks handed out are those below it.
- **TimerWheelProofs.** `Pow2` is a recursive function; that it is what its equation
  says, and the facts by induction on exponents, are proved from the least number
  principle, by way of sets of numbers (`Least`, `Steps`). `TickKeepsQueue` is the
  heart: when the counter goes from `t` to `t + 1`, the highest bit in which a due
  time differs from it stays the same, except for those in the queue of the highest
  bit that flips; for a due time that wraps around this uses the bound on delays.
  `WheelInv` has `TypeOK`, `Once` (no actor is linked twice), `TakenOut` (nor while
  it is being woken), `InTime` (what is left is at most `MaxDelay`, so no due time
  has gone by) and `StillToTake(p)`: in the middle of a tick the first `p` nodes of
  its queue, the last of which is `last`, are still to be taken out, and all others
  are where they belong. `RightBucket` alone says nothing of the middle of a tick and
  is not inductive. `LastAhead` and the refinement follow: `TickEnter`
  takes one tick from what is left to everyone (`NextTick`), and taking a node
  out changes neither who sleeps nor for how long (`TakenSleepOn`).
  `ClzCorrect` says of every 32-bit word but 0 that `mg_port_clz` counts its leading
  zeros: each shift doubles the bits that the highest one has reached (`ReachTwice`),
  and the five bits of the product are different for each of the 32 places
  (`Indexes`). `PortFindsBucketInvariant` asks for a counter of at most 32 bits, the
  words the function takes.
- **RiscvProofs.** For the start, `StartOK`: once core 0 has seen the one answered,
  the ROM has accepted exactly what was acknowledged (`InStep`), and one word at
  most is on its way (`AnswerOK`); so it starts with the words of the sequence,
  though it may have been further in than core 0 at first. For the timer, `TimeOK`
  says what a core knows of the time at each place in the code: `Passed` and `Due`
  are the times by which it has taken its ticks and takes the next one; the low half
  it has read is of a time when that one was due and no older than the high half
  (`LowRead`), so the comparison of the high halves makes a time of the two; and
  while the comparator is written, which half of it is already the new one. `MainOK`
  ties the two to `main()`: ticks are enabled after the kernel is initialised.

The assumptions. `NoPushFromAbove`, `NoYieldOnInit` and `MoversDoNotYield` are
conditions on programs, not on the kernel. `LoopTestSafe` is one on the program or on its
compiler; `CustodyInvariant`, `ReadyAtHomeInvariant`, `WakeupInvariant` and
`MessageOwnedOnceInvariant` have it. The runs `above` and `yield` show why they
are needed. `placed` is a program with the first one. The STM32 demos, which send on one
processor between vectors of one priority, meet it; a program that sends to an actor of
another processor does not.
`CoreAssumption` says that the cores 0 and 1 of the demo exist. `WheelAssumption` asks
for at least one timer queue and no more of them than the counter has bits.

Checked by TLC only:

- the liveness properties (`MessageDelivered`, `ReadyActorRuns`, `TickEnds`,
  `SleeperWakes`, `SomeoneAcquires`, `RequestServed`, `CoresTick`), because fairness
  and `ENABLED` are out of the prover's reach. `LastAhead` is the part of `TickEnds`
  that is proved, and `EventComes` that of `SomeoneAcquires`;
- that the three properties of the runs `above`, `yield` and `lock_bounded` fail,
  which takes one counterexample.

Every invariant, action property and refinement of a passing run has a theorem.

## What is not modelled

- What `main()` assigns to `actor->cpu` after `mg_actor_init`: Kernel has that
  processor from the start. The demos assign it before anything can be sent, so
  nothing reads the value in between. Assignments by the functions are modelled.
- Devices or ticks that start before `main()` is done. In Kernel they start once
  all actors are initialised (`Booted`), as in the demos.
- The protothread macros: a static integer in the body of a function, which the
  model leaves arbitrary. It is safe as long as no two activations of the function
  overlap, which is `ActorCustody` when each actor has a function of its own.
- The RISC-V context save and dispatch loop (`startup.s`): register code against
  the `meinext` and `meicontext` registers, whose meaning is not in the
  repository. Kernel assumes what it is for, preemption by higher levels only.
- Vendor headers, linker scripts, startup files: data with no state of the
  program. They are nearly all of the repository's lines; what is modelled is the
  framework and the code of the ports and demos that it depends on.
- The start of the RP2350 ARM demo, where core 1 runs before the kernel is
  initialised, see the hazards.
- The unit tests are single schedules with a mocked controller; the demos'
  clocks, pins and registers do not matter to any property.
- The memory model: a critical section is atomic and ordered. The acquire and
  release of the spinlock justify it on several processors; that a compiler keeps
  the accesses inside `mg_critical_section_enter` and `leave` is not checked.
- A failure of the weak exchange with the lock untouched, see the hazards.

## Plan

Done: Kernel with actors that move, Messaging, Fifo, MessagePool, TimerWheel, Clz,
SpinLock, Doorbell, Mtimer, Core1Start, RiscvDemo, with their abstract
specifications, and a theorem for every safety property and refinement of the runs.
In this order come:

1. *Kernel.* Devices that start during initialisation (`Booted` weakened), with the
   invariants above proved again.
2. *Locks.* An abstract lock that SpinLock implements.
3. *Interrupt requests.* That a request is served is liveness; a bound on the rounds
   of the doorbell handler would be its safety part, as `LastAhead` is for the tick.
