------------------------------- MODULE Mtimer -------------------------------
(***************************************************************************)
(* The RISC-V timer of the RP2350 and the tick it makes: riscv_timer_*     *)
(* of mtimer.h and the case MTIMER_IRQ of isr_handler.  The 64-bit counter *)
(* mtime is shared by the cores, each core has a comparator of its own, and*)
(* a core can read or write one half of a register at a time while the     *)
(* counter runs.  Each access is a step.                                   *)
(***************************************************************************)
EXTENDS Naturals

CONSTANTS
  Core,
  Half,          \* 2^32, the number of values of half a register
  CLK_PER_TICK,
  MaxTime        \* bound: where the counter stops

ASSUME TimerAssumption ==
  /\ Half \in Nat \ {0, 1}
  /\ CLK_PER_TICK \in 1..(Half - 1)
  /\ MaxTime \in Nat

VARIABLES
  mtime,
  running,    \* bit 0 of mtime_ctrl
  mtimecmp,   \* the comparator of each core
  pc,         \* pc[c]: what core c does next
  h0,         \* the locals of riscv_timer_get_mtime
  l,
  target,     \* the argument of riscv_timer_set_mtimecmp
  enabled,    \* cores that have enabled their interrupts
  ticks       \* per_cpu_data[c].ticks, not wrapped

registers == <<mtime, running, mtimecmp>>
locals == <<h0, l, target>>
timer == <<registers, locals, pc, enabled, ticks>>

High(t) == t \div Half
Low(t) == t % Half
SetHigh(t, h) == h * Half + Low(t)
SetLow(t, lo) == High(t) * Half + lo

Goto(c, label) == pc' = [pc EXCEPT ![c] = label]
At(c, label) == pc[c] = label

\* The counter runs on, whatever the cores do.
Advance ==
  /\ running /\ mtime < MaxTime
  /\ mtime' = mtime + 1
  /\ UNCHANGED <<running, mtimecmp, locals, pc, enabled, ticks>>

(***************************************************************************)
(* isr_handler(MTIMER_IRQ): the line is up while mtime >= mtimecmp.        *)
(***************************************************************************)
IsrEnter(c) ==
  /\ At(c, "idle") /\ c \in enabled
  /\ mtime >= mtimecmp[c]
  /\ Goto(c, "h0")
  /\ UNCHANGED <<registers, locals, enabled, ticks>>

ReadHigh(c) ==
  /\ At(c, "h0")
  /\ h0' = [h0 EXCEPT ![c] = High(mtime)]
  /\ Goto(c, "l")
  /\ UNCHANGED <<registers, l, target, enabled, ticks>>

ReadLow(c) ==
  /\ At(c, "l")
  /\ l' = [l EXCEPT ![c] = Low(mtime)]
  /\ Goto(c, "h1")
  /\ UNCHANGED <<registers, h0, target, enabled, ticks>>

\* next = current + CLK_PER_TICK
SetNext(c, current) ==
  /\ target' = [target EXCEPT ![c] = current + CLK_PER_TICK]
  /\ h0' = [h0 EXCEPT ![c] = 0]
  /\ l' = [l EXCEPT ![c] = 0]
  /\ Goto(c, "cmp")

\* Mutant: the high half is read once, before the low one.
MutantReadOnce(c) ==
  /\ At(c, "h1")
  /\ SetNext(c, SetHigh(l[c], h0[c]))
  /\ UNCHANGED <<registers, enabled, ticks>>

\* Mutant: the high half is read once, after the low one.
MutantReadAfter(c) ==
  /\ At(c, "h1")
  /\ SetNext(c, SetHigh(l[c], High(mtime)))
  /\ UNCHANGED <<registers, enabled, ticks>>

ReadHighAgain(c) ==
  /\ At(c, "h1")
  /\ \/ /\ High(mtime) # h0[c]
        /\ Goto(c, "h0")
        /\ UNCHANGED locals
     \/ /\ High(mtime) = h0[c]
        /\ SetNext(c, SetHigh(l[c], High(mtime)))
  /\ UNCHANGED <<registers, enabled, ticks>>

(***************************************************************************)
(* riscv_timer_set_mtimecmp(target).                                       *)
(***************************************************************************)
\* Mutant: the low half is written at once.
MutantWriteLowFirst(c) ==
  /\ At(c, "cmp")
  /\ mtimecmp' = [mtimecmp EXCEPT ![c] = SetLow(@, Low(target[c]))]
  /\ Goto(c, "cmph")
  /\ UNCHANGED <<mtime, running, locals, enabled, ticks>>

WriteOnes(c) ==
  /\ At(c, "cmp")
  /\ mtimecmp' = [mtimecmp EXCEPT ![c] = SetLow(@, Half - 1)]
  /\ Goto(c, "cmph")
  /\ UNCHANGED <<mtime, running, locals, enabled, ticks>>

WriteHigh(c) ==
  /\ At(c, "cmph")
  /\ mtimecmp' = [mtimecmp EXCEPT ![c] = SetHigh(@, High(target[c]))]
  /\ Goto(c, "cmpl")
  /\ UNCHANGED <<mtime, running, locals, enabled, ticks>>

\* The last write.  The handler goes on to mg_context_tick, and per_cpu_init
\* enables the interrupts.
WriteLow(c) ==
  /\ At(c, "cmpl")
  /\ mtimecmp' = [mtimecmp EXCEPT ![c] = SetLow(@, Low(target[c]))]
  /\ target' = [target EXCEPT ![c] = 0]
  /\ Goto(c, IF c \in enabled THEN "tick" ELSE "idle")
  /\ enabled' = enabled \cup {c}
  /\ UNCHANGED <<mtime, running, h0, l, ticks>>

\* mg_context_tick
Tick(c) ==
  /\ At(c, "tick")
  /\ ticks' = [ticks EXCEPT ![c] = @ + 1]
  /\ Goto(c, "idle")
  /\ UNCHANGED <<registers, locals, enabled>>

\* per_cpu_init: the first tick is due CLK_PER_TICK after the counter was 0.
per_cpu_init(c) ==
  /\ At(c, "init")
  /\ target' = [target EXCEPT ![c] = CLK_PER_TICK]
  /\ Goto(c, "cmp")
  /\ UNCHANGED <<registers, h0, l, enabled, ticks>>

TimerStep(c) ==
  \/ IsrEnter(c) \/ ReadHigh(c) \/ ReadLow(c) \/ ReadHighAgain(c)
  \/ WriteOnes(c) \/ WriteHigh(c) \/ WriteLow(c) \/ Tick(c) \/ per_cpu_init(c)

-----------------------------------------------------------------------------
\* Time as the kernel counts it never runs ahead of the timer: no torn read of
\* the counter and no comparator written in two halves makes a tick too many.
TicksNotAhead == \A c \in Core : ticks[c] * CLK_PER_TICK <= mtime

\* A core that waits for its next tick waits for CLK_PER_TICK at most, never for
\* the next rollover of the low half (mtimer.h:14-16).
NextTickNear ==
  \A c \in enabled : pc[c] = "idle" => mtimecmp[c] <= mtime + CLK_PER_TICK

\* No write to half of a comparator takes it below both what it was and what it
\* will be, where it could match too early (mtimer.h:41-48).
NoEarlyMatch ==
  [][\A c \in Core :
       mtimecmp'[c] >= mtimecmp[c] \/ mtimecmp'[c] >= target[c]]_timer
=============================================================================
