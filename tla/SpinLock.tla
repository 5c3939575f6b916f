------------------------------ MODULE SpinLock ------------------------------
(***************************************************************************)
(* The critical sections of magnesium: mg_smp_protect_acquire and release  *)
(* of the multiprocessor build.  A section masks the interrupts of its     *)
(* processor and then spins on the lock of the object it works on; between *)
(* two attempts the processor sleeps in WFE until an event is sent to it.  *)
(* Module Kernel takes a section for one step, which is what this module   *)
(* shows.                                                                  *)
(*                                                                         *)
(* Contexts and levels are those of module Kernel.  Each processor has one *)
(* event register, which SEV sets on all of them and WFE clears.           *)
(***************************************************************************)
EXTENDS Naturals

CONSTANTS
  CPU,
  MaxPrio,    \* levels are 0..MaxPrio, 0 the thread
  Lock,       \* the locks of the queues and of the processors
  NoLock

ASSUME LockAssumption ==
  /\ MaxPrio \in Nat
  /\ NoLock \notin Lock

Ctx == CPU \X (0..MaxPrio)

VARIABLES
  pc,        \* pc[x]: what context x does next
  lock,      \* lock[x]: the lock given to mg_smp_protect_acquire
  spinlock,  \* spinlock[l]: 0 free, 1 taken
  reserved,  \* contexts whose exclusive access to their lock is still good
  masked,    \* processors with interrupts disabled
  event      \* processors whose event register is set

vars == <<pc, lock, spinlock, reserved, masked, event>>

\* The event registers are unknown at boot.
Init ==
  /\ pc = [x \in Ctx |-> "idle"]
  /\ lock = [x \in Ctx |-> NoLock]
  /\ spinlock = [l \in Lock |-> 0]
  /\ reserved = {}
  /\ masked = {}
  /\ event \in SUBSET CPU

\* x is the running context of its processor.
At(x, label) ==
  /\ pc[x] = label
  /\ \A n \in (x[2] + 1)..MaxPrio : pc[<<x[1], n>>] = "idle"

Goto(x, label) == pc' = [pc EXCEPT ![x] = label]

\* A handler starts, or the thread goes on.
Enter(x) ==
  /\ x[1] \notin masked
  /\ \A n \in x[2]..MaxPrio : pc[<<x[1], n>>] = "idle"
  /\ Goto(x, "run")
  /\ UNCHANGED <<lock, spinlock, reserved, masked, event>>

Exit(x) ==
  /\ At(x, "run")
  /\ Goto(x, "idle")
  /\ UNCHANGED <<lock, spinlock, reserved, masked, event>>

\* Mutant: interrupts stay enabled.
MutantStayEnabled(x, l) ==
  /\ At(x, "run")
  /\ lock' = [lock EXCEPT ![x] = l]
  /\ Goto(x, "spin")
  /\ UNCHANGED <<spinlock, reserved, masked, event>>

\* mg_critical_section_enter, the beginning of mg_smp_protect_acquire(l).
CriticalSectionEnter(x, l) ==
  /\ At(x, "run")
  /\ masked' = masked \cup {x[1]}
  /\ lock' = [lock EXCEPT ![x] = l]
  /\ Goto(x, "spin")
  /\ UNCHANGED <<spinlock, reserved, event>>

\* The compare-exchange loads the lock, exclusively, and finds it free or taken.
LoadExclusive(x) ==
  /\ At(x, "spin")
  /\ \/ /\ spinlock[lock[x]] = 0
        /\ reserved' = reserved \cup {x}
        /\ Goto(x, "store")
     \/ /\ spinlock[lock[x]] = 1
        /\ Goto(x, "wait")
        /\ UNCHANGED reserved
  /\ UNCHANGED <<lock, spinlock, masked, event>>

\* A write to lock l ends the reservations of it.
Write(l, value) ==
  /\ spinlock' = [spinlock EXCEPT ![l] = value]
  /\ reserved' = {y \in reserved : lock[y] # l}

\* Mutant: the store is not exclusive.
MutantStorePlain(x) ==
  /\ At(x, "store")
  /\ Write(lock[x], 1)
  /\ Goto(x, "section")
  /\ UNCHANGED <<lock, masked, event>>

\* Its store takes the lock, or fails when another processor wrote the lock
\* since the load: the exchange is a weak one.
StoreExclusive(x) ==
  /\ At(x, "store")
  /\ \/ /\ x \in reserved
        /\ Write(lock[x], 1)
        /\ Goto(x, "section")
     \/ /\ x \notin reserved
        /\ Goto(x, "wait")
        /\ UNCHANGED <<spinlock, reserved>>
  /\ UNCHANGED <<lock, masked, event>>

\* mg_port_wait_event: WFE returns when the event register is set.
WaitEvent(x) ==
  /\ At(x, "wait")
  /\ x[1] \in event
  /\ event' = event \ {x[1]}
  /\ Goto(x, "spin")
  /\ UNCHANGED <<lock, spinlock, reserved, masked>>

\* mg_smp_protect_release: the store.
Release(x) ==
  /\ At(x, "section")
  /\ Write(lock[x], 0)
  /\ lock' = [lock EXCEPT ![x] = NoLock]
  /\ Goto(x, "signal")
  /\ UNCHANGED <<masked, event>>

\* Mutant: the event reaches only the processor that sends it.
MutantSendLocal(x) ==
  /\ At(x, "signal")
  /\ event' = event \cup {x[1]}
  /\ Goto(x, "leave")
  /\ UNCHANGED <<lock, spinlock, reserved, masked>>

\* mg_port_send_event
SendEvent(x) ==
  /\ At(x, "signal")
  /\ event' = CPU
  /\ Goto(x, "leave")
  /\ UNCHANGED <<lock, spinlock, reserved, masked>>

\* mg_critical_section_leave
CriticalSectionLeave(x) ==
  /\ At(x, "leave")
  /\ masked' = masked \ {x[1]}
  /\ Goto(x, "run")
  /\ UNCHANGED <<lock, spinlock, reserved, event>>

\* What a context does inside a critical section.
Section(x) ==
  \/ LoadExclusive(x) \/ StoreExclusive(x) \/ WaitEvent(x)
  \/ Release(x) \/ SendEvent(x) \/ CriticalSectionLeave(x)

Next ==
  \E x \in Ctx :
    \/ Enter(x) \/ Exit(x) \/ Section(x)
    \/ \E l \in Lock : CriticalSectionEnter(x, l)

Spec == Init /\ [][Next]_vars

\* A context in a critical section cannot be preempted: it goes on.
FairSpec == Spec /\ \A x \in Ctx : WF_vars(Section(x))

-----------------------------------------------------------------------------
InSection == {"spin", "store", "wait", "section", "signal", "leave"}

\* Every variable has its type.
TypeOK ==
  /\ pc \in [Ctx -> {"idle", "run"} \cup InSection]
  /\ lock \in [Ctx -> Lock \cup {NoLock}]
  /\ spinlock \in [Lock -> 0..1]
  /\ reserved \subseteq Ctx
  /\ masked \subseteq CPU
  /\ event \subseteq CPU

\* No two contexts, of one processor or of two, are in critical sections of the
\* same lock (magnesium.h:38-56).
MutualExclusion ==
  \A x, y \in Ctx :
    pc[x] = "section" /\ pc[y] = "section" /\ lock[x] = lock[y] => x = y

\* No handler starts above a context that spins, waits or holds a lock: a
\* handler that wanted the same lock would wait for a context it preempted.
NotPreempted ==
  \A x \in Ctx : pc[x] \in InSection =>
    \A n \in (x[2] + 1)..MaxPrio : pc[<<x[1], n>>] = "idle"

\* No event is missed: a processor that sleeps though the lock it wants is free
\* has an event, or a context that released a lock is about to send it one.
EventComes ==
  \A x \in Ctx :
    pc[x] = "wait" /\ spinlock[lock[x]] = 0 =>
      x[1] \in event \/ \E y \in Ctx : pc[y] = "signal"

\* While somebody wants a lock, somebody gets it: spinning and sleeping never
\* bring all the processors to a halt.
SomeoneAcquires ==
  \A l \in Lock :
    (\E x \in Ctx : lock[x] = l) ~> (\E x \in Ctx : lock[x] = l /\ pc[x] = "section")

\* "All functions have constant interrupt locking time" (README.md:5): it is
\* bounded at least, so a processor that masks its interrupts enables them.
LockingTimeEnds == \A c \in CPU : c \in masked ~> c \notin masked
=============================================================================
