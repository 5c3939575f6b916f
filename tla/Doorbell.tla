------------------------------ MODULE Doorbell ------------------------------
(***************************************************************************)
(* pic_interrupt_request of the RP2350 ports, which cannot set an interrupt*)
(* pending on another processor.  The requester sets the bit of the        *)
(* priority in g_ipi_request of the target and rings its doorbell; the     *)
(* handler of the doorbell takes all the bits and sets a vector of each    *)
(* priority pending.  Module Kernel takes a request for one step.          *)
(*                                                                         *)
(* Contexts and levels are those of module Kernel; the doorbell interrupts *)
(* at BellLevel.  The scheduler of a vector is one step here.              *)
(***************************************************************************)
EXTENDS Naturals

CONSTANTS
  CPU,
  MaxPrio,     \* levels are 0..MaxPrio
  BellLevel,   \* the level of the doorbell interrupt
  Vector,
  vect2prio,   \* pic_vect2prio: the level of each vector
  prio2vect,   \* prio + SPAREIRQ_IRQ_0
  NoVector,
  Requester    \* the contexts that activate actors

Prio == 1..MaxPrio
Ctx == CPU \X (0..MaxPrio)
Bell(c) == <<c, BellLevel>>

\* The vectors reserved for actors have the priorities that the handler of the
\* doorbell takes for granted.
ASSUME DoorbellAssumption ==
  /\ MaxPrio \in Nat \ {0}
  /\ BellLevel \in Prio
  /\ NoVector \notin Vector
  /\ Requester \subseteq Ctx
  /\ vect2prio \in [Vector -> Prio]
  /\ prio2vect \in [Prio -> Vector]
  /\ \A p \in Prio : vect2prio[prio2vect[p]] = p

VARIABLES
  pc,       \* pc[x]: what context x does next
  cpu,      \* the arguments of pic_interrupt_request: cpu[x]
  vect,     \* and vect[x]
  ipi,      \* g_ipi_request[c]: a set of priorities
  bell,     \* processors whose doorbell is set
  prev,     \* prev[c]: the bits that the doorbell handler of c has still to serve
  pending,  \* pending interrupts, <<cpu, vector>>
  owed      \* owed[c]: priorities requested and not served since (history)

vars == <<pc, cpu, vect, ipi, bell, prev, pending, owed>>

Init ==
  /\ pc = [x \in Ctx |-> "idle"]
  /\ cpu = [x \in Ctx |-> x[1]]
  /\ vect = [x \in Ctx |-> NoVector]
  /\ ipi = [c \in CPU |-> {}]
  /\ bell = {}
  /\ prev = [c \in CPU |-> {}]
  /\ pending = {}
  /\ owed = [c \in CPU |-> {}]

CanEnter(x) == \A n \in x[2]..MaxPrio : pc[<<x[1], n>>] = "idle"

At(x, label) ==
  /\ pc[x] = label
  /\ \A n \in (x[2] + 1)..MaxPrio : pc[<<x[1], n>>] = "idle"

Goto(x, label) == pc' = [pc EXCEPT ![x] = label]

Owe(c, v) == owed' = [owed EXCEPT ![c] = @ \cup {vect2prio[v]}]

(***************************************************************************)
(* pic_interrupt_request(c, v), called by any handler.                     *)
(***************************************************************************)
Call(x, c, v) ==
  /\ x \in Requester /\ CanEnter(x)
  /\ cpu' = [cpu EXCEPT ![x] = c]
  /\ vect' = [vect EXCEPT ![x] = v]
  /\ Goto(x, "request")
  /\ UNCHANGED <<ipi, bell, prev, pending, owed>>

Return(x) ==
  /\ Goto(x, "idle")
  /\ cpu' = [cpu EXCEPT ![x] = x[1]]
  /\ vect' = [vect EXCEPT ![x] = NoVector]

RequestLocal(x) ==
  /\ At(x, "request") /\ cpu[x] = x[1]
  /\ pending' = pending \cup {<<x[1], vect[x]>>}
  /\ Owe(x[1], vect[x])
  /\ Return(x)
  /\ UNCHANGED <<ipi, bell, prev>>

RequestRemote(x) ==
  /\ At(x, "request") /\ cpu[x] # x[1]
  /\ ipi' = [ipi EXCEPT ![cpu[x]] = @ \cup {vect2prio[vect[x]]}]
  /\ Owe(cpu[x], vect[x])
  /\ Goto(x, "ring")
  /\ UNCHANGED <<cpu, vect, bell, prev, pending>>

Ring(x) ==
  /\ At(x, "ring")
  /\ bell' = bell \cup {cpu[x]}
  /\ Return(x)
  /\ UNCHANGED <<ipi, prev, pending, owed>>

(***************************************************************************)
(* doorbell_isr of processor c.                                            *)
(***************************************************************************)
BellEnter(c) ==
  /\ c \in bell /\ CanEnter(Bell(c))
  /\ Goto(Bell(c), "clear")
  /\ UNCHANGED <<cpu, vect, ipi, bell, prev, pending, owed>>

BellClear(c) ==
  /\ At(Bell(c), "clear")
  /\ bell' = bell \ {c}
  /\ Goto(Bell(c), "exchange")
  /\ UNCHANGED <<cpu, vect, ipi, prev, pending, owed>>

BellExchange(c) ==
  /\ At(Bell(c), "exchange")
  /\ prev' = [prev EXCEPT ![c] = ipi[c]]
  /\ ipi' = [ipi EXCEPT ![c] = {}]
  /\ Goto(Bell(c), "serve")
  /\ UNCHANGED <<cpu, vect, bell, pending, owed>>

\* Mutant: one bit is served for each ring of the doorbell.
MutantServeOne(c) ==
  /\ At(Bell(c), "serve")
  /\ \E p \in prev[c] :
       /\ \A q \in prev[c] : q <= p
       /\ prev' = [prev EXCEPT ![c] = {}]
       /\ pending' = pending \cup {<<c, prio2vect[p]>>}
  /\ UNCHANGED <<pc, cpu, vect, ipi, bell, owed>>

\* Mutant: the priority is taken for the vector.
MutantServePrio(c) ==
  /\ At(Bell(c), "serve")
  /\ \E p \in prev[c] :
       /\ \A q \in prev[c] : q <= p
       /\ prev' = [prev EXCEPT ![c] = @ \ {p}]
       /\ pending' = pending \cup {<<c, p>>}
  /\ UNCHANGED <<pc, cpu, vect, ipi, bell, owed>>

\* The highest bit left: mg_port_clz.
BellServe(c) ==
  /\ At(Bell(c), "serve")
  /\ \E p \in prev[c] :
       /\ \A q \in prev[c] : q <= p
       /\ prev' = [prev EXCEPT ![c] = @ \ {p}]
       /\ pending' = pending \cup {<<c, prio2vect[p]>>}
  /\ UNCHANGED <<pc, cpu, vect, ipi, bell, owed>>

\* Mutant: the doorbell is cleared when its handler ends.
MutantClearLate(c) ==
  /\ At(Bell(c), "serve") /\ prev[c] = {}
  /\ bell' = bell \ {c}
  /\ Goto(Bell(c), "idle")
  /\ UNCHANGED <<cpu, vect, ipi, prev, pending, owed>>

BellExit(c) ==
  /\ At(Bell(c), "serve") /\ prev[c] = {}
  /\ Goto(Bell(c), "idle")
  /\ UNCHANGED <<cpu, vect, ipi, bell, prev, pending, owed>>

\* The controller takes vector v: mg_context_schedule(v) looks at the run queue
\* of its priority.
Take(c, v) ==
  /\ <<c, v>> \in pending /\ CanEnter(<<c, vect2prio[v]>>)
  /\ pending' = pending \ {<<c, v>>}
  /\ owed' = [owed EXCEPT ![c] = @ \ {vect2prio[v]}]
  /\ UNCHANGED <<pc, cpu, vect, ipi, bell, prev>>

Request(x) == RequestLocal(x) \/ RequestRemote(x) \/ Ring(x)

BellStep(c) == BellClear(c) \/ BellExchange(c) \/ BellServe(c) \/ BellExit(c)

Next ==
  \/ \E x \in Ctx : Request(x) \/ \E c \in CPU, v \in Vector : Call(x, c, v)
  \/ \E c \in CPU : BellEnter(c) \/ BellStep(c) \/ \E v \in Vector : Take(c, v)

Spec == Init /\ [][Next]_vars

\* As in module Kernel: other handlers leave the processor time for each.
FairSpec ==
  /\ Spec
  /\ \A x \in Requester : SF_vars(Request(x))
  /\ \A c \in CPU : SF_vars(BellEnter(c)) /\ SF_vars(BellStep(c))
  /\ \A c \in CPU, v \in Vector : SF_vars(Take(c, v))

-----------------------------------------------------------------------------
\* Every variable has its type.
TypeOK ==
  /\ pc \in [Ctx -> {"idle", "request", "ring", "clear", "exchange", "serve"}]
  /\ cpu \in [Ctx -> CPU]
  /\ vect \in [Ctx -> Vector \cup {NoVector}]
  /\ ipi \in [CPU -> SUBSET Prio]
  /\ bell \subseteq CPU
  /\ prev \in [CPU -> SUBSET Prio]
  /\ pending \subseteq CPU \X Vector
  /\ owed \in [CPU -> SUBSET Prio]

\* The doorbell of c is set, or about to be, or its handler has still to take
\* the bits.
BellComes(c) ==
  \/ c \in bell
  \/ pc[Bell(c)] \in {"clear", "exchange"}
  \/ \E x \in Ctx : pc[x] = "ring" /\ cpu[x] = c

\* A request is never lost, when other requests come at any time from any
\* context and processor ("they would be preserved in the bitmask",
\* rp2350_arm_cmsis/main.c:31): a vector of its level is pending, or the
\* handler of the doorbell has its bit, or will.
RequestKept ==
  \A c \in CPU : \A p \in owed[c] :
    \/ \E v \in Vector : <<c, v>> \in pending /\ vect2prio[v] = p
    \/ p \in prev[c]
    \/ p \in ipi[c] /\ BellComes(c)

\* Every request makes the scheduler of its level look at the run queue.
RequestServed ==
  \A c \in CPU, p \in Prio : p \in owed[c] ~> p \notin owed[c]
=============================================================================
