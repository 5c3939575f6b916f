----------------------------- MODULE RiscvDemo -----------------------------
(***************************************************************************)
(* The start of the RISC-V demo: main() on core 0 initialises the kernel,  *)
(* resets the timer, starts core 1 and then takes interrupts; core 1 takes *)
(* them as soon as it has been started.  The timer runs all the time but   *)
(* while it is reset, and the kernel counts the ticks of each core.        *)
(***************************************************************************)
EXTENDS Mtimer, Core1Start

ASSUME CoreAssumption == {0, 1} \subseteq Core

VARIABLE initialised   \* mg_context_init, and what main() makes of the kernel

vars == <<timer, start, initialised>>

\* The counter runs since the last reset, and the comparators are all ones.
Init ==
  /\ mtime \in 0..Half
  /\ running = TRUE
  /\ mtimecmp = [c \in Core |-> Half * Half - 1]
  /\ pc = [c \in Core |-> IF c = 0 THEN "main" ELSE "rom"]
  /\ h0 = [c \in Core |-> 0]
  /\ l = [c \in Core |-> 0]
  /\ target = [c \in Core |-> 0]
  /\ enabled = {}
  /\ ticks = [c \in Core |-> 0]
  /\ StartInit
  /\ initialised = FALSE

(***************************************************************************)
(* main(): each part leads from one label to the next.                     *)
(***************************************************************************)
InitKernel(from, to) ==
  /\ At(0, from) /\ Goto(0, to)
  /\ initialised' = TRUE
  /\ UNCHANGED <<registers, locals, enabled, ticks, start>>

RunTimer(from, to, on) ==
  /\ At(0, from) /\ Goto(0, to)
  /\ running' = on
  /\ UNCHANGED <<mtime, mtimecmp, locals, enabled, ticks, start, initialised>>

\* One of the writes of riscv_timer_set_mtime(0).
SetMtime(from, to, t) ==
  /\ At(0, from) /\ Goto(0, to)
  /\ mtime' = t
  /\ UNCHANGED <<running, mtimecmp, locals, enabled, ticks, start, initialised>>

StartCore1(from, to) ==
  /\ At(0, from)
  /\ \/ core1_start /\ UNCHANGED pc
     \/ step = "return" /\ Goto(0, to) /\ UNCHANGED start
  /\ UNCHANGED <<registers, locals, enabled, ticks, initialised>>

ResetTimer(from, to) ==
  \/ RunTimer(from, "mtime", FALSE)
  \/ SetMtime("mtime", "mtimeh", SetLow(mtime, 0))
  \/ SetMtime("mtimeh", "mtimel", SetHigh(mtime, 0))
  \/ SetMtime("mtimel", "run", SetLow(mtime, 0))
  \/ RunTimer("run", to, TRUE)

\* Mutant: core 1 is started first, as in rp2350_arm_cmsis/main.c:161.
MutantMain ==
  \/ StartCore1("main", "timer")
  \/ ResetTimer("timer", "kernel")
  \/ InitKernel("kernel", "init")

main ==
  \/ InitKernel("main", "timer")
  \/ ResetTimer("timer", "core1")
  \/ StartCore1("core1", "init")

\* core1_main, which the ROM calls.
core1_main ==
  /\ At(1, "rom") /\ Launched
  /\ Goto(1, "init")
  /\ UNCHANGED <<registers, locals, enabled, ticks, start, initialised>>

CoreStep(c) == TimerStep(c) /\ UNCHANGED <<start, initialised>>

Rom == RomAnswer /\ UNCHANGED <<timer, initialised>>

Clock == Advance /\ UNCHANGED <<start, initialised>>

Next ==
  \/ main \/ core1_main \/ Rom \/ Clock
  \/ \E c \in Core : CoreStep(c)

Spec == Init /\ [][Next]_vars

\* The cores, the ROM and the counter never stop for good.
Fairness ==
  /\ WF_vars(main) /\ WF_vars(core1_main) /\ WF_vars(Rom) /\ WF_vars(Clock)
  /\ \A c \in Core : WF_vars(CoreStep(c))

FairSpec == Spec /\ Fairness

-----------------------------------------------------------------------------
\* Every variable has its type, and cmd_sequence is read within its bounds.
TypeOK ==
  /\ {mtime} \cup UNION {{mtimecmp[c], h0[c], l[c], target[c]} : c \in Core} \subseteq Nat
  /\ enabled \subseteq Core
  /\ ticks \in [Core -> Nat]
  /\ seq \in DOMAIN cmd_sequence \cup {0}
  /\ step # "return" => seq + 1 \in DOMAIN cmd_sequence
  /\ {toCore0, toCore1} \subseteq UNION {[1..n -> Word] : n \in 0..Depth}
  /\ rom \in DOMAIN cmd_sequence \cup {0}

\* No tick comes before mg_context_init has made the timer queues that
\* mg_context_tick walks (magnesium.h:272-279), although core 1 takes interrupts
\* while core 0 is still in main().
TickAfterInit == \A c \in Core : pc[c] = "tick" => initialised

\* main() gets through: both cores run and their time goes by.
CoresTick == <>(\A c \in Core : ticks[c] > 0)
=============================================================================
