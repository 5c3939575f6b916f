--------------------------- MODULE SpinLockProofs ---------------------------
(***************************************************************************)
(* A critical section excludes the others of its lock and is not           *)
(* preempted, for any processors, levels and locks.                        *)
(***************************************************************************)
EXTENDS SpinLock, TLAPS

\* A context that masked the interrupts is the running one of its processor,
\* and is the only one there that did.
MaskedRunsAlone ==
  \A x \in Ctx : pc[x] \in InSection =>
    /\ x[1] \in masked
    /\ \A n \in (x[2] + 1)..MaxPrio : pc[<<x[1], n>>] = "idle"

\* A context in a section has a lock, which is taken while it holds it, and a
\* good reservation is of a free lock.
LocksTaken ==
  \A x \in Ctx :
    /\ pc[x] \in InSection \ {"signal", "leave"} => lock[x] \in Lock
    /\ pc[x] = "section" => spinlock[lock[x]] = 1
    /\ x \in reserved => pc[x] = "store" /\ spinlock[lock[x]] = 0

\* A context that is going to wait, or waits, does so because its lock is taken,
\* or has an event that ends the wait.
WaitsForEvent ==
  \A x \in Ctx :
    /\ pc[x] = "wait" \/ (pc[x] = "store" /\ x \notin reserved)
    /\ spinlock[lock[x]] = 0
    => x[1] \in event \/ \E y \in Ctx : pc[y] = "signal"

SpinLockInv == TypeOK /\ MaskedRunsAlone /\ LocksTaken /\ MutualExclusion

LEMMA InitSpinLockInv == Init => SpinLockInv
  BY LockAssumption DEF Init, SpinLockInv, TypeOK, MaskedRunsAlone, LocksTaken, MutualExclusion, InSection

\* Two contexts of one processor that masked the interrupts are one.
LEMMA OneMaskedContext ==
  ASSUME MaskedRunsAlone, NEW x \in Ctx, NEW y \in Ctx, x[1] = y[1],
         pc[x] \in InSection, pc[y] \in InSection
  PROVE  x = y
  <1>1. x = <<x[1], x[2]>> /\ y = <<x[1], y[2]>> /\ x[2] \in 0..MaxPrio /\ y[2] \in 0..MaxPrio
    BY DEF Ctx
  <1>2. pc[x] # "idle" /\ pc[y] # "idle"
    BY DEF InSection
  <1>3. x[2] = y[2]
    <2>1. CASE x[2] < y[2]
      <3>1. y[2] \in (x[2] + 1)..MaxPrio
        BY <1>1, <2>1, LockAssumption
      <3>2. pc[<<x[1], y[2]>>] = "idle"
        BY <3>1 DEF MaskedRunsAlone
      <3>3. QED  BY <1>1, <1>2, <3>2
    <2>2. CASE y[2] < x[2]
      <3>1. x[2] \in (y[2] + 1)..MaxPrio
        BY <1>1, <2>2, LockAssumption
      <3>2. pc[<<y[1], x[2]>>] = "idle"
        BY <3>1 DEF MaskedRunsAlone
      <3>3. QED  BY <1>1, <1>2, <3>2
    <2>3. QED  BY <1>1, <2>1, <2>2, LockAssumption
  <1>4. QED  BY <1>1, <1>3

\* The contexts keep their discipline of masking in every step.
LEMMA MaskedStep ==
  ASSUME SpinLockInv, [Next]_vars
  PROVE  MaskedRunsAlone'
  <1> USE DEF SpinLockInv
  <1> SUFFICES ASSUME NEW y \in Ctx, pc'[y] \in InSection
               PROVE  /\ y[1] \in masked'
                      /\ \A n \in (y[2] + 1)..MaxPrio : pc'[<<y[1], n>>] = "idle"
    BY DEF MaskedRunsAlone
  <1>0. \A n \in (y[2] + 1)..MaxPrio : <<y[1], n>> \in Ctx /\ <<y[1], n>> # y
    <2>1. y[1] \in CPU /\ y[2] \in 0..MaxPrio /\ y = <<y[1], y[2]>>
      BY DEF Ctx
    <2>2. QED  BY <2>1, LockAssumption DEF Ctx
  <1>1. ASSUME NEW x \in Ctx, Enter(x)
        PROVE  /\ y[1] \in masked'
               /\ \A n \in (y[2] + 1)..MaxPrio : pc'[<<y[1], n>>] = "idle"
    <2>1. y # x /\ pc[y] \in InSection /\ x[1] \notin masked /\ masked' = masked
      BY <1>1 DEF Enter, Goto, TypeOK, InSection
    <2>2. x[1] # y[1] /\ y[1] \in masked
      BY <2>1 DEF MaskedRunsAlone
    <2>3. \A n \in (y[2] + 1)..MaxPrio : pc'[<<y[1], n>>] = pc[<<y[1], n>>]
      BY <1>0, <1>1, <2>2 DEF Enter, Goto, TypeOK
    <2>4. QED  BY <2>1, <2>2, <2>3 DEF MaskedRunsAlone
  <1>2. ASSUME NEW x \in Ctx, Exit(x)
        PROVE  /\ y[1] \in masked'
               /\ \A n \in (y[2] + 1)..MaxPrio : pc'[<<y[1], n>>] = "idle"
    <2>1. y # x /\ pc[y] \in InSection /\ masked' = masked /\ pc' = [pc EXCEPT ![x] = "idle"]
      BY <1>2 DEF Exit, Goto, TypeOK, InSection
    <2>2. QED  BY <1>0, <2>1 DEF MaskedRunsAlone, TypeOK
  <1>3. ASSUME NEW x \in Ctx, NEW l \in Lock, CriticalSectionEnter(x, l)
        PROVE  /\ y[1] \in masked'
               /\ \A n \in (y[2] + 1)..MaxPrio : pc'[<<y[1], n>>] = "idle"
    <2>1. /\ pc[x] = "run" /\ pc' = [pc EXCEPT ![x] = "spin"] /\ masked' = masked \cup {x[1]}
          /\ \A n \in (x[2] + 1)..MaxPrio : pc[<<x[1], n>>] = "idle"
      BY <1>3 DEF CriticalSectionEnter, Goto, At
    <2>2. CASE y = x
      BY <1>0, <2>1, <2>2 DEF TypeOK
    <2>3. CASE y # x
      <3>1. pc[y] \in InSection
        BY <2>1, <2>3 DEF TypeOK
      <3>2. \A n \in (y[2] + 1)..MaxPrio : <<y[1], n>> # x
        BY <2>1, <3>1 DEF MaskedRunsAlone
      <3>3. QED  BY <1>0, <2>1, <3>1, <3>2 DEF MaskedRunsAlone, TypeOK
    <2>4. QED  BY <2>2, <2>3
  <1>4. ASSUME NEW x \in Ctx, NEW to \in InSection, pc[x] \in InSection,
               pc' = [pc EXCEPT ![x] = to], masked' = masked
        PROVE  /\ y[1] \in masked'
               /\ \A n \in (y[2] + 1)..MaxPrio : pc'[<<y[1], n>>] = "idle"
    <2>1. pc[y] \in InSection
      BY <1>4 DEF TypeOK
    <2>2. pc[x] # "idle"
      BY <1>4 DEF InSection
    <2>3. \A n \in (y[2] + 1)..MaxPrio : <<y[1], n>> # x
      BY <2>1, <2>2 DEF MaskedRunsAlone
    <2>4. QED  BY <1>0, <1>4, <2>1, <2>3 DEF MaskedRunsAlone, TypeOK
  <1>5. ASSUME NEW x \in Ctx, CriticalSectionLeave(x)
        PROVE  /\ y[1] \in masked'
               /\ \A n \in (y[2] + 1)..MaxPrio : pc'[<<y[1], n>>] = "idle"
    <2>1. /\ pc[x] \in InSection /\ pc[x] # "idle" /\ pc' = [pc EXCEPT ![x] = "run"]
          /\ masked' = masked \ {x[1]}
      BY <1>5 DEF CriticalSectionLeave, Goto, At, InSection
    <2>2. y # x /\ pc[y] \in InSection
      BY <2>1 DEF TypeOK, InSection
    <2>3. x[1] # y[1]
      BY <2>1, <2>2, OneMaskedContext
    <2>4. QED  BY <1>0, <2>1, <2>2, <2>3 DEF MaskedRunsAlone, TypeOK
  <1>6. ASSUME NEW x \in Ctx, Section(x)
        PROVE  /\ y[1] \in masked'
               /\ \A n \in (y[2] + 1)..MaxPrio : pc'[<<y[1], n>>] = "idle"
    <2>1. CASE CriticalSectionLeave(x)
      BY <1>5, <2>1
    <2>2. CASE ~CriticalSectionLeave(x)
      <3>1. /\ pc[x] \in InSection /\ masked' = masked
            /\ \E to \in InSection : pc' = [pc EXCEPT ![x] = to]
        BY <1>6, <2>2 DEF Section, LoadExclusive, StoreExclusive, WaitEvent, Release, SendEvent,
                          At, Goto, InSection
      <3>2. QED  BY <1>4, <3>1
    <2>3. QED  BY <2>1, <2>2
  <1>7. CASE UNCHANGED vars
    BY <1>0, <1>7 DEF vars, MaskedRunsAlone
  <1>8. QED  BY <1>1, <1>2, <1>3, <1>6, <1>7 DEF Next

\* So do the locks, the reservations and the types.
LEMMA LockStep ==
  ASSUME SpinLockInv, [Next]_vars
  PROVE  TypeOK' /\ LocksTaken' /\ MutualExclusion'
  <1> USE DEF SpinLockInv, InSection
  <1>1. ASSUME NEW x \in Ctx, Enter(x) \/ Exit(x)
        PROVE  TypeOK' /\ LocksTaken' /\ MutualExclusion'
    <2>1. x = <<x[1], x[2]>> /\ x[2] \in x[2]..MaxPrio
      BY LockAssumption DEF Ctx
    <2>2. /\ pc[x] \in {"idle", "run"}
          /\ \E to \in {"idle", "run"} : pc' = [pc EXCEPT ![x] = to]
          /\ UNCHANGED <<lock, spinlock, reserved, masked, event>>
      BY <1>1, <2>1 DEF Enter, Exit, At, Goto
    <2>3. QED  BY <2>2 DEF TypeOK, LocksTaken, MutualExclusion
  <1>2. ASSUME NEW x \in Ctx, NEW l \in Lock, CriticalSectionEnter(x, l)
        PROVE  TypeOK' /\ LocksTaken' /\ MutualExclusion'
    <2>1. x[1] \in CPU
      BY DEF Ctx
    <2>2. QED  BY <1>2, <2>1 DEF CriticalSectionEnter, At, Goto, TypeOK, LocksTaken, MutualExclusion
  <1>3. ASSUME NEW x \in Ctx, LoadExclusive(x)
        PROVE  TypeOK' /\ LocksTaken' /\ MutualExclusion'
    BY <1>3 DEF LoadExclusive, At, Goto, TypeOK, LocksTaken, MutualExclusion
  <1>4. ASSUME NEW x \in Ctx, StoreExclusive(x)
        PROVE  TypeOK' /\ LocksTaken' /\ MutualExclusion'
    <2>1. CASE x \in reserved
      <3>1. /\ pc[x] = "store" /\ lock[x] \in Lock /\ lock' = lock
            /\ pc' = [pc EXCEPT ![x] = "section"]
            /\ spinlock' = [spinlock EXCEPT ![lock[x]] = 1]
            /\ reserved' = {y \in reserved : lock[y] # lock[x]}
            /\ UNCHANGED <<masked, event>>
        BY <1>4, <2>1 DEF StoreExclusive, Write, At, Goto, LocksTaken
      <3>2. \A y \in Ctx : pc[y] = "section" => lock[y] # lock[x]
        BY <2>1 DEF LocksTaken
      <3>3. TypeOK'
        BY <3>1 DEF TypeOK
      <3>4. LocksTaken'
        BY <3>1 DEF TypeOK, LocksTaken
      <3>5. MutualExclusion'
        BY <3>1, <3>2 DEF TypeOK, MutualExclusion
      <3>6. QED  BY <3>3, <3>4, <3>5
    <2>2. CASE x \notin reserved
      BY <1>4, <2>2 DEF StoreExclusive, At, Goto, TypeOK, LocksTaken, MutualExclusion
    <2>3. QED  BY <2>1, <2>2
  <1>5. ASSUME NEW x \in Ctx, WaitEvent(x) \/ SendEvent(x) \/ CriticalSectionLeave(x)
        PROVE  TypeOK' /\ LocksTaken' /\ MutualExclusion'
    BY <1>5 DEF WaitEvent, SendEvent, CriticalSectionLeave, At, Goto, TypeOK, LocksTaken, MutualExclusion
  <1>6. ASSUME NEW x \in Ctx, Release(x)
        PROVE  TypeOK' /\ LocksTaken' /\ MutualExclusion'
    BY <1>6 DEF Release, Write, At, Goto, TypeOK, LocksTaken, MutualExclusion
  <1>7. CASE UNCHANGED vars
    BY <1>7 DEF vars, TypeOK, LocksTaken, MutualExclusion
  <1>8. QED  BY <1>1, <1>2, <1>3, <1>4, <1>5, <1>6, <1>7 DEF Next, Section

LEMMA EventStep ==
  ASSUME SpinLockInv, WaitsForEvent, [Next]_vars
  PROVE  WaitsForEvent'
  <1> USE DEF SpinLockInv
  <1> DEFINE Waits(x) == pc[x] = "wait" \/ (pc[x] = "store" /\ x \notin reserved)
             Comes(x) == x[1] \in event \/ \E y \in Ctx : pc[y] = "signal"
  <1> SUFFICES ASSUME NEW y \in Ctx, Waits(y)', (spinlock[lock[y]])' = 0
               PROVE  Comes(y)'
    BY DEF WaitsForEvent
  <1>1. ASSUME NEW x \in Ctx, NEW to \in {"idle", "run", "spin"}, pc[x] \notin {"signal"},
               pc' = [pc EXCEPT ![x] = to], spinlock' = spinlock, reserved' = reserved,
               event \subseteq event', \A z \in Ctx : z # x => lock'[z] = lock[z]
        PROVE  Comes(y)'
    <2>1. y # x /\ Waits(y) /\ spinlock[lock[y]] = 0
      BY <1>1 DEF TypeOK
    <2>2. \A z \in Ctx : pc[z] = "signal" => pc'[z] = "signal"
      BY <1>1 DEF TypeOK
    <2>3. QED  BY <1>1, <2>1, <2>2 DEF WaitsForEvent
  <1>2. ASSUME NEW x \in Ctx, Enter(x) \/ Exit(x)
        PROVE  Comes(y)'
    <2>1. x = <<x[1], x[2]>> /\ x[2] \in x[2]..MaxPrio
      BY LockAssumption DEF Ctx
    <2>2. /\ pc[x] # "signal" /\ \E to \in {"idle", "run"} : pc' = [pc EXCEPT ![x] = to]
          /\ UNCHANGED <<lock, spinlock, reserved, event>>
      BY <1>2, <2>1 DEF Enter, Exit, At, Goto
    <2>3. QED  BY <1>1, <2>2
  <1>3. ASSUME NEW x \in Ctx, NEW l \in Lock, CriticalSectionEnter(x, l)
        PROVE  Comes(y)'
    BY <1>1, <1>3 DEF CriticalSectionEnter, At, Goto, TypeOK
  <1>4. ASSUME NEW x \in Ctx, LoadExclusive(x) \/ StoreExclusive(x)
        PROVE  Comes(y)'
    <2>1. /\ pc[x] # "signal" /\ event' = event /\ lock' = lock
          /\ \E to \in InSection : pc' = [pc EXCEPT ![x] = to]
      BY <1>4 DEF LoadExclusive, StoreExclusive, At, Goto, InSection
    <2>2. \A z \in Ctx : pc[z] = "signal" => pc'[z] = "signal"
      BY <2>1 DEF TypeOK
    <2>3. lock[x] \in Lock
      BY <1>4 DEF LoadExclusive, StoreExclusive, At, LocksTaken, InSection
    <2>4. Waits(y) /\ spinlock[lock[y]] = 0
      <3>1. CASE LoadExclusive(x)
        BY <3>1 DEF LoadExclusive, At, Goto, TypeOK
      <3>2. CASE StoreExclusive(x) /\ x \in reserved
        <4>1. /\ pc' = [pc EXCEPT ![x] = "section"] /\ lock' = lock
              /\ spinlock' = [spinlock EXCEPT ![lock[x]] = 1]
              /\ reserved' = {z \in reserved : lock[z] # lock[x]}
          BY <3>2 DEF StoreExclusive, Write, Goto
        <4>2. y # x /\ (pc[y] = "wait" \/ pc[y] = "store")
          BY <4>1 DEF TypeOK
        <4>3. lock[y] \in Lock
          BY <4>2 DEF LocksTaken, InSection
        <4>4. lock[y] # lock[x] /\ spinlock[lock[y]] = 0
          BY <2>3, <4>1, <4>3 DEF TypeOK
        <4>5. QED  BY <4>1, <4>2, <4>4 DEF TypeOK
      <3>3. CASE StoreExclusive(x) /\ x \notin reserved
        BY <3>3 DEF StoreExclusive, At, Goto, TypeOK
      <3>4. QED  BY <1>4, <3>1, <3>2, <3>3
    <2>5. QED  BY <2>1, <2>2, <2>4 DEF WaitsForEvent
  <1>5. ASSUME NEW x \in Ctx, WaitEvent(x)
        PROVE  Comes(y)'
    <2>1. /\ pc[x] = "wait" /\ pc' = [pc EXCEPT ![x] = "spin"] /\ event' = event \ {x[1]}
          /\ UNCHANGED <<lock, spinlock, reserved>>
      BY <1>5 DEF WaitEvent, At, Goto
    <2>2. y # x /\ Waits(y)
      BY <2>1 DEF TypeOK
    <2>3. x[1] # y[1]
      BY <2>1, <2>2, OneMaskedContext DEF InSection
    <2>4. \A z \in Ctx : pc[z] = "signal" => pc'[z] = "signal"
      BY <2>1 DEF TypeOK
    <2>5. QED  BY <2>1, <2>2, <2>3, <2>4 DEF WaitsForEvent
  <1>6. ASSUME NEW x \in Ctx, Release(x)
        PROVE  Comes(y)'
    BY <1>6 DEF Release, Goto, TypeOK
  <1>7. ASSUME NEW x \in Ctx, SendEvent(x)
        PROVE  Comes(y)'
    <2>1. y[1] \in CPU
      BY DEF Ctx
    <2>2. QED  BY <1>7, <2>1 DEF SendEvent
  <1>8. ASSUME NEW x \in Ctx, CriticalSectionLeave(x)
        PROVE  Comes(y)'
    BY <1>1, <1>8 DEF CriticalSectionLeave, At, Goto
  <1>9. CASE UNCHANGED vars
    BY <1>9 DEF vars, WaitsForEvent
  <1>10. QED  BY <1>2, <1>3, <1>4, <1>5, <1>6, <1>7, <1>8, <1>9 DEF Next, Section

LEMMA SpinLockInvariant == Spec => []SpinLockInv
  <1>1. SpinLockInv /\ [Next]_vars => SpinLockInv'
    BY MaskedStep, LockStep DEF SpinLockInv
  <1>2. QED  BY InitSpinLockInv, <1>1, PTL DEF Spec

\* Two contexts never hold the same lock (magnesium.h:38-56).
THEOREM LockExcludes == Spec => []MutualExclusion
  <1>1. SpinLockInv => MutualExclusion
    BY DEF SpinLockInv
  <1>2. QED  BY SpinLockInvariant, <1>1, PTL

\* Nothing starts above a context in a critical section, from the masking of
\* interrupts at magnesium.h:39 to the one that enables them at magnesium.h:55.
THEOREM SectionNotPreempted == Spec => []NotPreempted
  <1>1. SpinLockInv => NotPreempted
    BY DEF SpinLockInv, MaskedRunsAlone, NotPreempted
  <1>2. QED  BY SpinLockInvariant, <1>1, PTL

\* A processor never sleeps on a free lock with no event sent or about to be
\* sent to it, even when its exchange failed on a lock that was free again
\* (magnesium.h:41-48).
THEOREM NoEventMissed == Spec => []EventComes
  <1>1. Init => WaitsForEvent
    BY DEF Init, WaitsForEvent
  <1>2. SpinLockInv /\ WaitsForEvent /\ [Next]_vars => WaitsForEvent'
    BY EventStep
  <1>3. WaitsForEvent => EventComes
    BY DEF WaitsForEvent, EventComes
  <1>4. QED  BY SpinLockInvariant, <1>1, <1>2, <1>3, PTL DEF Spec
=============================================================================
