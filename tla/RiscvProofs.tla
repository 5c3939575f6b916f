---------------------------- MODULE RiscvProofs ----------------------------
(***************************************************************************)
(* The start of the RISC-V demo and its timer, for every width of half a   *)
(* register, every CLK_PER_TICK and every depth of the fifos: core 1 is    *)
(* started with its arguments, no torn read or write of a 64-bit register  *)
(* makes a tick too many or one that comes too late, and none comes before *)
(* the kernel is initialised.                                              *)
(***************************************************************************)
EXTENDS RiscvDemo, SequenceTheorems, TLAPS

(***************************************************************************)
(* core1_start and the ROM.                                                *)
(***************************************************************************)
\* The ROM has accepted the words that core 0 has seen acknowledged, or, before
\* core 0 has sent a zero and the one, what it had accepted before.
InStep(s, r) ==
  /\ s = 0 => r \in 0..2
  /\ s = 1 => r \in 1..2
  /\ s >= 2 => r = s

\* The words that follow the one are the arguments.
GivenOK ==
  /\ given \in Seq(Word)
  /\ Len(given) = IF rom < 3 THEN 0 ELSE rom - 3
  /\ \A i \in 1..Len(given) : given[i] = cmd_sequence[i + 3]

\* One word at most is on its way, or its answer, which is the word itself or
\* the sign that the ROM has started over.
AnswerOK ==
  \/ toCore1 = <<cmd>> /\ toCore0 = <<>> /\ InStep(seq, rom)
  \/ /\ toCore1 = <<>>
     /\ \E word \in Word :
          /\ toCore0 = <<word>>
          /\ IF word = cmd THEN InStep(seq + 1, rom) ELSE rom = 0

StartOK ==
  /\ rom \in 0..6 /\ seq \in 0..6
  /\ step \in {"command", "push", "pop", "return"}
  /\ toCore0 \in UNION {[1..n -> Word] : n \in 0..Depth}
  /\ step # "return" => seq \in 0..5
  /\ step # "pop" => toCore1 = <<>> /\ InStep(seq, rom)
  /\ step = "command" /\ seq # 0 => toCore0 = <<>>
  /\ step = "push" => toCore0 = <<>>
  /\ step = "pop" => AnswerOK
  /\ step = "return" => seq = 6
  /\ GivenOK

(***************************************************************************)
(* main() and core1_main.                                                  *)
(***************************************************************************)
\* Where main() still has to reset the timer, and where it is before it takes
\* interrupts.
Resetting == {"main", "timer", "mtime", "mtimeh", "mtimel", "run"}
Main == Resetting \cup {"core1"}
Handling == {"h0", "l", "h1"}
Setting == {"cmp", "cmph", "cmpl"}
Running == {"init", "idle", "tick"} \cup Handling \cup Setting

MainOK ==
  /\ pc[0] \in Main \cup Running
  /\ \A c \in Core \ {0} : pc[c] \in {"rom"} \cup (IF Launched THEN Running ELSE {})
  /\ pc[0] \in Resetting => seq = 0 /\ step = "command"
  /\ pc[0] # "main" => initialised

(***************************************************************************)
(* The timer.                                                              *)
(***************************************************************************)
TimerTypes ==
  /\ mtime \in Nat /\ mtimecmp \in [Core -> Nat]
  /\ h0 \in [Core -> Nat] /\ l \in [Core -> Nat] /\ target \in [Core -> Nat]
  /\ enabled \subseteq Core /\ ticks \in [Core -> Nat]
  /\ pc \in [Core -> Main \cup Running \cup {"rom"}]

\* The time by which c has taken its ticks, and the next one is due.
Passed(c) == ticks[c] * CLK_PER_TICK
Due(c) == Passed(c) + CLK_PER_TICK

\* The low half that c has read is one of a time that was due, not before the
\* high half that it read first.
LowRead(c) ==
  \E t \in 0..mtime : Due(c) <= t /\ Low(t) = l[c] /\ h0[c] <= High(t)

\* What c knows of the time, by what it does.
TimeOK(c) ==
  /\ c \in enabled => pc[c] \notin {"init", "rom"} \cup Main
  /\ pc[c] \in {"idle", "tick"} \cup Handling => c \in enabled
  /\ c \notin enabled => ticks[c] = 0
  /\ Passed(c) <= mtime
  /\ pc[c] = "idle" => Due(c) <= mtimecmp[c] /\ mtimecmp[c] <= mtime + CLK_PER_TICK
  /\ pc[c] \in Handling => Due(c) <= mtime
  /\ pc[c] = "l" => h0[c] <= High(mtime)
  /\ pc[c] = "h1" => LowRead(c)
  /\ pc[c] \in Setting => target[c] <= mtime + CLK_PER_TICK
  /\ pc[c] \in Setting /\ c \in enabled =>
       Due(c) <= mtime /\ Due(c) + CLK_PER_TICK <= target[c]
  /\ pc[c] \in Setting /\ c \notin enabled => target[c] = CLK_PER_TICK
  /\ pc[c] = "cmph" => Low(mtimecmp[c]) = Half - 1
  /\ pc[c] = "cmpl" => High(mtimecmp[c]) = High(target[c])
  /\ pc[c] = "tick" =>
       /\ Due(c) <= mtime /\ Due(c) + CLK_PER_TICK <= mtimecmp[c]
       /\ mtimecmp[c] <= mtime + CLK_PER_TICK

RiscvInv == StartOK /\ MainOK /\ TimerTypes /\ \A c \in Core : TimeOK(c)

-----------------------------------------------------------------------------
(***************************************************************************)
(* Halves of registers.                                                    *)
(***************************************************************************)
LEMMA Products ==
  ASSUME NEW a \in Nat, NEW b \in Nat, a < b
  PROVE  a * Half + Half <= b * Half
  <1>1. Half \in Nat
    BY TimerAssumption
  <1>2. PICK d \in Nat : b = a + 1 + d
    <2>1. b - a - 1 \in Nat /\ b = a + 1 + (b - a - 1)
      OBVIOUS
    <2>2. QED  BY <2>1
  <1>3. (a + 1 + d) * Half = a * Half + Half + d * Half
    BY <1>1, <1>2
  <1>4. d * Half \in Nat /\ a * Half \in Nat
    BY <1>1, <1>2
  <1>5. QED  BY <1>1, <1>2, <1>3, <1>4

LEMMA Halves ==
  ASSUME NEW t \in Nat
  PROVE  /\ High(t) \in Nat /\ Low(t) \in 0..(Half - 1)
         /\ t = High(t) * Half + Low(t)
  <1>1. Half \in Nat /\ Half > 0
    BY TimerAssumption
  <1>2. /\ t \div Half \in Nat /\ t % Half \in 0..(Half - 1)
        /\ t = (Half * (t \div Half)) + (t % Half)
    BY <1>1
  <1>3. Half * (t \div Half) = (t \div Half) * Half
    BY <1>1, <1>2
  <1>4. QED  BY <1>2, <1>3 DEF High, Low

LEMMA HalvesUnique ==
  ASSUME NEW hi \in Nat, NEW lo \in 0..(Half - 1)
  PROVE  /\ hi * Half + lo \in Nat
         /\ High(hi * Half + lo) = hi /\ Low(hi * Half + lo) = lo
  <1>1. Half \in Nat /\ Half > 0
    BY TimerAssumption
  <1>2. hi * Half \in Nat
    BY <1>1
  <1>3. PICK t \in Nat : t = hi * Half + lo
    BY <1>1, <1>2
  <1>4. PICK q \in Nat, r \in 0..(Half - 1) :
          q = High(t) /\ r = Low(t) /\ t = q * Half + r
    BY Halves
  <1>5. q * Half \in Nat
    BY <1>1
  <1>6. ~(q < hi)
    <2>1. q < hi => q * Half + Half <= hi * Half
      BY Products
    <2>2. QED  BY <1>1, <1>2, <1>3, <1>4, <1>5, <2>1
  <1>7. ~(hi < q)
    <2>1. hi < q => hi * Half + Half <= q * Half
      BY Products
    <2>2. QED  BY <1>1, <1>2, <1>3, <1>4, <1>5, <2>1
  <1>8. q = hi
    BY <1>6, <1>7
  <1>9. r = lo
    <2>1. PICK p \in Nat : p = hi * Half
      BY <1>2
    <2>2. t = p + lo /\ t = p + r
      BY <1>3, <1>4, <1>8, <2>1
    <2>3. QED  BY <1>1, <2>2
  <1>10. QED  BY <1>3, <1>4, <1>8, <1>9

LEMMA HighMonotone ==
  ASSUME NEW t \in Nat, NEW u \in Nat, t <= u
  PROVE  High(t) <= High(u)
  <1>1. Half \in Nat /\ Half > 0
    BY TimerAssumption
  <1>2. PICK a \in Nat, b \in Nat, c \in Nat, d \in Nat :
          /\ a = High(t) /\ c = Low(t) /\ t = a * Half + c
          /\ b = High(u) /\ d = Low(u) /\ u = b * Half + d /\ d < Half
    <2>1. /\ High(t) \in Nat /\ Low(t) \in Nat /\ t = High(t) * Half + Low(t)
      BY Halves, <1>1
    <2>2. /\ High(u) \in Nat /\ Low(u) \in Nat /\ u = High(u) * Half + Low(u)
          /\ Low(u) < Half
      BY Halves, <1>1
    <2>3. QED  BY <2>1, <2>2
  <1>3. b < a => b * Half + Half <= a * Half
    BY <1>2, Products
  <1>4. a * Half \in Nat /\ b * Half \in Nat
    BY <1>1, <1>2
  <1>5. QED  BY <1>1, <1>2, <1>3, <1>4

\* What the writes of half a register make of it.
LEMMA SetHalves ==
  ASSUME NEW t \in Nat, NEW hi \in Nat, NEW lo \in 0..(Half - 1)
  PROVE  /\ SetHigh(t, hi) \in Nat /\ High(SetHigh(t, hi)) = hi
         /\ Low(SetHigh(t, hi)) = Low(t)
         /\ SetLow(t, lo) \in Nat /\ High(SetLow(t, lo)) = High(t)
         /\ Low(SetLow(t, lo)) = lo
  <1>1. High(t) \in Nat /\ Low(t) \in 0..(Half - 1)
    BY Halves
  <1>2. QED  BY <1>1, HalvesUnique DEF SetHigh, SetLow

LEMMA SameHalves ==
  ASSUME NEW t \in Nat, NEW u \in Nat, High(t) = High(u), Low(t) = Low(u)
  PROVE  t = u
  BY Halves

\* A time that was read in two halves.
LEMMA BothHalves ==
  ASSUME NEW t \in Nat, NEW u \in Nat, Low(u) = Low(t)
  PROVE  SetHigh(u, High(t)) = t
  BY Halves DEF SetHigh

LEMMA LowOfLow ==
  ASSUME NEW t \in Nat
  PROVE  Low(t) \in Nat /\ Low(Low(t)) = Low(t)
  <1>1. Low(t) \in 0..(Half - 1) /\ Half \in Nat
    BY Halves, TimerAssumption
  <1>2. Low(0 * Half + Low(t)) = Low(t)
    BY <1>1, HalvesUnique
  <1>3. 0 * Half + Low(t) = Low(t)
    BY <1>1
  <1>4. QED  BY <1>1, <1>2, <1>3

\* A register is at most what it is with its low half all ones.
LEMMA OnesAreMore ==
  ASSUME NEW t \in Nat, NEW u \in Nat, High(u) = High(t), Low(u) = Half - 1
  PROVE  t <= u
  <1>1. Half \in Nat
    BY TimerAssumption
  <1>2. PICK p \in Nat : p = High(t) * Half
    BY <1>1, Halves
  <1>3. t = p + Low(t) /\ Low(t) \in 0..(Half - 1) /\ u = p + (Half - 1)
    BY <1>2, Halves
  <1>4. QED  BY <1>1, <1>2, <1>3

-----------------------------------------------------------------------------
(***************************************************************************)
(* core1_start: core 0 and the ROM stay in step.                           *)
(***************************************************************************)
LEMMA Commands ==
  /\ Len(cmd_sequence) = 6
  /\ cmd_sequence[1] = 0 /\ cmd_sequence[2] = 0 /\ cmd_sequence[3] = 1
  /\ cmd_sequence[4] = mtvec /\ cmd_sequence[5] = stack /\ cmd_sequence[6] = entry
  /\ \A i \in 1..6 : cmd_sequence[i] \in Word
  /\ DOMAIN cmd_sequence = 1..6
  BY WordAssumption DEF cmd_sequence

FifoContents == UNION {[1..n -> Word] : n \in 0..Depth}

LEMMA ShortFifos ==
  /\ <<>> \in FifoContents
  /\ \A word \in Word : <<word>> \in FifoContents
  /\ \A fifo \in FifoContents :
       fifo \in Seq(Word) /\ (fifo # <<>> => Tail(fifo) \in FifoContents)
  <1>1. 0 \in 0..Depth /\ 1 \in 0..Depth
    BY WordAssumption
  <1>2. <<>> \in [1..0 -> Word]
    OBVIOUS
  <1>3. \A word \in Word : <<word>> \in [1..1 -> Word]
    OBVIOUS
  <1>4. ASSUME NEW fifo \in FifoContents
        PROVE  fifo \in Seq(Word) /\ (fifo # <<>> => Tail(fifo) \in FifoContents)
    <2>1. PICK n \in 0..Depth : fifo \in [1..n -> Word]
      BY DEF FifoContents
    <2>2. n \in Nat /\ Depth \in Nat
      BY WordAssumption
    <2>3. fifo \in Seq(Word) /\ Len(fifo) = n
      BY <2>1, <2>2
    <2>4. ASSUME fifo # <<>>
          PROVE  Tail(fifo) \in FifoContents
      <3>1. Tail(fifo) \in Seq(Word) /\ Len(Tail(fifo)) = n - 1
        BY <2>3, <2>4, HeadTailProperties
      <3>2. n - 1 \in 0..Depth
        BY <2>1, <2>2, <2>3, <3>1, <2>4, LenProperties
      <3>3. Tail(fifo) \in [1..(n - 1) -> Word]
        BY <3>1, LenProperties
      <3>4. QED  BY <3>2, <3>3 DEF FifoContents
    <2>5. QED  BY <2>3, <2>4
  <1>5. QED  BY <1>1, <1>2, <1>3, <1>4 DEF FifoContents

LEMMA InitStart == StartInit => StartOK
  <1> SUFFICES ASSUME StartInit PROVE StartOK
    OBVIOUS
  <1>1. /\ seq = 0 /\ step = "command" /\ toCore1 = <<>>
        /\ rom \in 0..2 /\ given = <<>>
    BY DEF StartInit
  <1>2. toCore0 \in UNION {[1..n -> Word] : n \in 0..Depth}
    <2>1. PICK n \in 0..Depth : toCore0 \in [1..n -> {0, 1}]
      BY DEF StartInit
    <2>2. toCore0 \in [1..n -> Word]
      BY <2>1, WordAssumption
    <2>3. QED  BY <2>2
  <1>3. GivenOK
    BY <1>1, EmptySeq DEF GivenOK
  <1>4. QED  BY <1>1, <1>2, <1>3 DEF StartOK, InStep

LEMMA DrainStep ==
  ASSUME StartOK, Drain
  PROVE  StartOK'
  <1>1. /\ step = "command" /\ step' \in {"command", "push"}
        /\ UNCHANGED <<seq, toCore1, rom, given>>
        /\ \/ cmd = 0 /\ toCore0 # <<>> /\ toCore0' = Tail(toCore0) /\ step' = step
           \/ (cmd # 0 \/ toCore0 = <<>>) /\ toCore0' = toCore0 /\ step' = "push"
    BY DEF Drain
  <1>2. toCore0 \in FifoContents /\ seq \in 0..5
    BY <1>1 DEF StartOK, FifoContents
  <1>3. toCore0' \in FifoContents
    BY <1>1, <1>2, ShortFifos
  <1>4. seq = 0 => cmd = 0
    BY <1>2, Commands DEF cmd
  <1>5. step' = "push" => toCore0' = <<>>
    BY <1>1, <1>4 DEF StartOK
  <1>6. step' = "command" => toCore0 # <<>>
    BY <1>1
  <1>7. GivenOK'
    BY <1>1 DEF StartOK, GivenOK
  <1>8. QED  BY <1>1, <1>3, <1>5, <1>6, <1>7 DEF StartOK, InStep, FifoContents

LEMMA PushStep ==
  ASSUME StartOK, multicore_fifo_push_blocking
  PROVE  StartOK'
  <1>1. /\ step = "push" /\ step' = "pop"
        /\ toCore1' = Append(toCore1, cmd)
        /\ UNCHANGED <<seq, toCore0, rom, given>>
    BY DEF multicore_fifo_push_blocking
  <1>2. toCore1 = <<>> /\ toCore0 = <<>> /\ InStep(seq, rom)
    BY <1>1 DEF StartOK
  <1>3. toCore1' = <<cmd>>
    BY <1>1, <1>2
  <1>4. AnswerOK' /\ GivenOK'
    BY <1>1, <1>2, <1>3 DEF AnswerOK, InStep, StartOK, GivenOK, cmd
  <1>5. QED  BY <1>1, <1>4 DEF StartOK

LEMMA PopStep ==
  ASSUME StartOK, multicore_fifo_pop_blocking
  PROVE  StartOK'
  <1>1. /\ step = "pop" /\ toCore0 # <<>>
        /\ seq' = IF Head(toCore0) = cmd THEN seq + 1 ELSE 0
        /\ step' = IF seq' = 6 THEN "return" ELSE "command"
        /\ toCore0' = Tail(toCore0)
        /\ UNCHANGED <<toCore1, rom, given>>
    BY Commands DEF multicore_fifo_pop_blocking
  <1>2. PICK word \in Word :
          /\ toCore1 = <<>> /\ toCore0 = <<word>>
          /\ IF word = cmd THEN InStep(seq + 1, rom) ELSE rom = 0
    BY <1>1 DEF StartOK, AnswerOK
  <1>3. Head(toCore0) = word /\ Tail(toCore0) = <<>>
    BY <1>2
  <1>4. seq \in 0..5 /\ rom \in 0..6
    BY <1>1 DEF StartOK
  <1>5. InStep(seq', rom)
    <2>1. CASE word = cmd
      BY <1>1, <1>2, <1>3, <2>1
    <2>2. CASE word # cmd
      BY <1>1, <1>2, <1>3, <2>2 DEF InStep
    <2>3. QED  BY <2>1, <2>2
  <1>6. seq' \in 0..6 /\ (step' = "command" => seq' \in 0..5) /\ (step' = "return" => seq' = 6)
    BY <1>1, <1>4
  <1>7. toCore0' = <<>> /\ toCore0' \in FifoContents
    BY <1>1, <1>3, ShortFifos
  <1>8. GivenOK'
    BY <1>1 DEF StartOK, GivenOK
  <1>9. QED
    BY <1>1, <1>2, <1>4, <1>5, <1>6, <1>7, <1>8 DEF StartOK, InStep, FifoContents

LEMMA RomStep ==
  ASSUME StartOK, RomAnswer
  PROVE  StartOK'
  <1>1. /\ rom # 6 /\ toCore1 # <<>> /\ toCore1' = Tail(toCore1)
        /\ UNCHANGED <<seq, step>>
    BY Commands DEF RomAnswer, Launched
  <1>2. /\ step = "pop" /\ toCore1 = <<cmd>> /\ toCore0 = <<>> /\ InStep(seq, rom)
        /\ seq \in 0..5 /\ rom \in 0..5
    BY <1>1 DEF StartOK, AnswerOK
  <1>3. cmd \in Word /\ cmd = cmd_sequence[seq + 1] /\ cmd' = cmd
    BY <1>1, <1>2, Commands DEF cmd
  <1>4. Head(toCore1) = cmd /\ toCore1' = <<>>
    BY <1>1, <1>2
  <1>5. CASE /\ rom >= 3 \/ cmd = cmd_sequence[rom + 1]
             /\ rom' = rom + 1
             /\ given' = IF rom >= 3 THEN Append(given, cmd) ELSE <<>>
             /\ toCore0' = Append(toCore0, cmd)
    <2>1. toCore0' = <<cmd>> /\ toCore0' \in FifoContents
      BY <1>2, <1>3, <1>5, ShortFifos
    <2>2. InStep(seq + 1, rom + 1)
      <3>1. CASE seq = 0
        <4>1. rom # 2 \/ cmd = cmd_sequence[3]
          BY <1>5
        <4>2. QED  BY <1>2, <1>3, <1>5, <3>1, <4>1, Commands DEF InStep
      <3>2. CASE seq = 1
        BY <1>2, <1>3, <1>5, <3>2, Commands DEF InStep
      <3>3. CASE seq >= 2
        BY <1>2, <3>3 DEF InStep
      <3>4. QED  BY <1>2, <3>1, <3>2, <3>3
    <2>3. rom >= 3 => cmd = cmd_sequence[rom + 1]
      BY <1>2, <1>3 DEF InStep
    <2>4. GivenOK'
      <3>1. CASE rom \in 0..2
        BY <1>5, <3>1 DEF GivenOK
      <3>2. CASE rom \in 3..5
        <4>1. /\ given \in Seq(Word) /\ Len(given) = rom - 3
              /\ \A i \in 1..Len(given) : given[i] = cmd_sequence[i + 3]
          BY <3>2 DEF StartOK, GivenOK
        <4>2. PICK n \in 0..2 : n = Len(given) /\ rom = n + 3
          BY <3>2, <4>1
        <4>3. given' = Append(given, cmd) /\ cmd = cmd_sequence[n + 4] /\ rom' = n + 4
          BY <1>5, <2>3, <3>2, <4>2
        <4>4. /\ Append(given, cmd) \in Seq(Word)
              /\ Len(Append(given, cmd)) = n + 1
              /\ Append(given, cmd)[n + 1] = cmd
              /\ \A i \in 1..n : Append(given, cmd)[i] = given[i]
          BY <1>3, <4>1, <4>2, AppendProperties
        <4>5. /\ given' \in Seq(Word) /\ Len(given') = n + 1
              /\ given'[n + 1] = cmd_sequence[n + 4]
              /\ \A i \in 1..n : given'[i] = cmd_sequence[i + 3]
          BY <4>1, <4>2, <4>3, <4>4
        <4>6. \A i \in 1..(n + 1) : given'[i] = cmd_sequence[i + 3]
          <5>1. \A i \in 1..(n + 1) : i \in 1..n \/ (i = n + 1 /\ i + 3 = n + 4)
            OBVIOUS
          <5>2. QED  BY <4>5, <5>1
        <4>7. QED  BY <4>3, <4>5, <4>6 DEF GivenOK
      <3>3. QED  BY <1>2, <3>1, <3>2
    <2>5. AnswerOK'
      BY <1>1, <1>3, <1>4, <1>5, <2>1, <2>2 DEF AnswerOK
    <2>6. QED
      BY <1>1, <1>2, <1>5, <2>1, <2>4, <2>5 DEF StartOK, FifoContents
  <1>6. ASSUME rom' = 0, given' = <<>>,
               NEW other \in Word \ {cmd}, toCore0' = Append(toCore0, other)
        PROVE  StartOK'
    <2>1. toCore0' = <<other>> /\ toCore0' \in FifoContents
      BY <1>2, <1>6, ShortFifos
    <2>2. AnswerOK' /\ GivenOK'
      BY <1>1, <1>3, <1>4, <1>6, <2>1 DEF AnswerOK, GivenOK
    <2>3. QED
      BY <1>1, <1>2, <1>6, <2>1, <2>2 DEF StartOK, FifoContents
  <1>7. QED  BY <1>4, <1>5, <1>6 DEF RomAnswer

LEMMA StartedRightHolds == StartOK => StartedRight
  <1> SUFFICES ASSUME StartOK PROVE StartedRight
    OBVIOUS
  <1>1. step = "return" => rom = 6
    BY DEF StartOK, InStep
  <1>2. ASSUME rom = 6 PROVE given = <<mtvec, stack, entry>>
    <2>1. given \in Seq(Word) /\ Len(given) = 3
      BY <1>2 DEF StartOK, GivenOK
    <2>2. given[1] = mtvec /\ given[2] = stack /\ given[3] = entry
      <3>1. \A i \in 1..3 : given[i] = cmd_sequence[i + 3]
        BY <2>1 DEF StartOK, GivenOK
      <3>2. given[1] = cmd_sequence[4] /\ given[2] = cmd_sequence[5] /\ given[3] = cmd_sequence[6]
        BY <3>1
      <3>3. QED  BY <3>2, Commands
    <2>3. PICK t \in Seq(Word) :
            /\ t = <<mtvec, stack, entry>>
            /\ Len(t) = 3 /\ t[1] = mtvec /\ t[2] = stack /\ t[3] = entry
      <3>1. mtvec \in Word /\ stack \in Word /\ entry \in Word
        BY WordAssumption
      <3>2. <<mtvec, stack, entry>> \in Seq(Word)
        BY <3>1
      <3>3. /\ Len(<<mtvec, stack, entry>>) = 3
            /\ <<mtvec, stack, entry>>[1] = mtvec
            /\ <<mtvec, stack, entry>>[2] = stack
            /\ <<mtvec, stack, entry>>[3] = entry
        OBVIOUS
      <3>4. QED  BY <3>2, <3>3
    <2>4. \A i \in 1..3 : given[i] = t[i]
      <3>1. \A i \in 1..3 : i = 1 \/ i = 2 \/ i = 3
        OBVIOUS
      <3>2. QED  BY <2>2, <2>3, <3>1
    <2>5. given = t
      BY <2>1, <2>3, <2>4, SeqEqual
    <2>6. QED  BY <2>3, <2>5
  <1>3. QED  BY <1>1, <1>2, Commands DEF StartedRight, Launched

LEMMA StartStep ==
  ASSUME StartOK, [Next]_vars
  PROVE  StartOK'
  <1>1. ASSUME UNCHANGED start PROVE StartOK'
    BY <1>1 DEF start, StartOK, GivenOK, AnswerOK, InStep, cmd
  <1>2. ASSUME core1_start PROVE StartOK'
    BY <1>2, DrainStep, PushStep, PopStep DEF core1_start
  <1>3. CASE main
    BY <1>1, <1>2, <1>3 DEF main, InitKernel, ResetTimer, RunTimer, SetMtime, StartCore1
  <1>4. CASE core1_main
    BY <1>1, <1>4 DEF core1_main
  <1>5. CASE Rom
    BY <1>5, RomStep DEF Rom
  <1>6. CASE Clock
    BY <1>1, <1>6 DEF Clock
  <1>7. CASE \E c \in Core : CoreStep(c)
    BY <1>1, <1>7 DEF CoreStep
  <1>8. CASE UNCHANGED vars
    BY <1>1, <1>8 DEF vars
  <1>9. QED  BY <1>3, <1>4, <1>5, <1>6, <1>7, <1>8 DEF Next

-----------------------------------------------------------------------------
(***************************************************************************)
(* Where the cores are.                                                    *)
(***************************************************************************)
LEMMA BothCores == 0 \in Core /\ 1 \in Core \ {0}
  BY CoreAssumption

\* A step of a core that takes interrupts.
LEMMA TimerLabels ==
  ASSUME NEW c \in Core, TimerStep(c)
  PROVE  pc[c] \in Running /\ \E to \in Running : pc' = [pc EXCEPT ![c] = to]
  BY DEF TimerStep, IsrEnter, ReadHigh, ReadLow, ReadHighAgain, SetNext, WriteOnes,
         WriteHigh, WriteLow, Tick, per_cpu_init, At, Goto, Running, Handling, Setting

\* A step of main(), by its label.
LEMMA MainLabels ==
  ASSUME main
  PROVE  \/ /\ pc[0] = "main" /\ pc' = [pc EXCEPT ![0] = "timer"]
            /\ initialised' = TRUE
            /\ UNCHANGED <<registers, locals, enabled, ticks, start>>
         \/ /\ pc[0] \in Resetting \ {"main"}
            /\ \E to \in Main \ {"main"} : pc' = [pc EXCEPT ![0] = to]
            /\ mtime' # mtime => mtime' \in {SetLow(mtime, 0), SetHigh(mtime, 0)}
            /\ UNCHANGED <<mtimecmp, locals, enabled, ticks, start, initialised>>
         \/ /\ pc[0] = "core1"
            /\ core1_start
            /\ UNCHANGED <<registers, locals, pc, enabled, ticks, initialised>>
         \/ /\ pc[0] = "core1" /\ pc' = [pc EXCEPT ![0] = "init"]
            /\ step = "return"
            /\ UNCHANGED <<registers, locals, enabled, ticks, start, initialised>>
  <1>1. CASE InitKernel("main", "timer")
    BY <1>1 DEF InitKernel, At, Goto
  <1>2. CASE ResetTimer("timer", "core1")
    <2>1. CASE RunTimer("timer", "mtime", FALSE)
      BY <2>1 DEF RunTimer, At, Goto, Resetting, Main
    <2>2. CASE SetMtime("mtime", "mtimeh", SetLow(mtime, 0))
      BY <2>2 DEF SetMtime, At, Goto, Resetting, Main
    <2>3. CASE SetMtime("mtimeh", "mtimel", SetHigh(mtime, 0))
      BY <2>3 DEF SetMtime, At, Goto, Resetting, Main
    <2>4. CASE SetMtime("mtimel", "run", SetLow(mtime, 0))
      BY <2>4 DEF SetMtime, At, Goto, Resetting, Main
    <2>5. CASE RunTimer("run", "core1", TRUE)
      BY <2>5 DEF RunTimer, At, Goto, Resetting, Main
    <2>6. QED  BY <1>2, <2>1, <2>2, <2>3, <2>4, <2>5 DEF ResetTimer
  <1>3. CASE StartCore1("core1", "init")
    BY <1>3 DEF StartCore1, At, Goto
  <1>4. QED  BY <1>1, <1>2, <1>3 DEF main

LEMMA MainStep ==
  ASSUME StartOK, MainOK, TimerTypes, [Next]_vars
  PROVE  MainOK'
  <1> USE BothCores
  <1>1. UNCHANGED rom => Launched' = Launched
    BY DEF Launched, cmd_sequence
  <1>2. CASE main
    <2>1. CASE /\ pc[0] = "main" /\ pc' = [pc EXCEPT ![0] = "timer"]
               /\ initialised' = TRUE /\ UNCHANGED start
      BY <1>1, <2>1 DEF MainOK, TimerTypes, start, Main, Resetting, Running
    <2>2. CASE /\ pc[0] \in Resetting \ {"main"}
               /\ \E to \in Main \ {"main"} : pc' = [pc EXCEPT ![0] = to]
               /\ UNCHANGED <<start, initialised>>
      BY <1>1, <2>2 DEF MainOK, TimerTypes, start, Main, Resetting, Running
    <2>3. CASE /\ pc[0] = "core1" /\ core1_start
               /\ UNCHANGED <<pc, initialised>>
      <3>1. UNCHANGED rom
        BY <2>3 DEF core1_start, Drain, multicore_fifo_push_blocking,
                    multicore_fifo_pop_blocking
      <3>2. QED  BY <1>1, <2>3, <3>1 DEF MainOK, Main, Resetting, Running
    <2>4. CASE /\ pc[0] = "core1" /\ pc' = [pc EXCEPT ![0] = "init"]
               /\ UNCHANGED <<start, initialised>>
      BY <1>1, <2>4 DEF MainOK, TimerTypes, start, Main, Resetting, Running
    <2>5. QED  BY <1>2, <2>1, <2>2, <2>3, <2>4, MainLabels
  <1>3. CASE core1_main
    <2>1. /\ Launched /\ pc' = [pc EXCEPT ![1] = "init"]
          /\ UNCHANGED <<start, initialised>>
      BY <1>3 DEF core1_main, Goto
    <2>2. QED  BY <1>1, <2>1 DEF MainOK, TimerTypes, start, Running
  <1>4. CASE Rom
    <2>1. ~Launched /\ UNCHANGED <<pc, initialised, seq, step>>
      BY <1>4 DEF Rom, RomAnswer, timer
    <2>2. QED  BY <2>1 DEF MainOK
  <1>5. CASE Clock
    <2>1. UNCHANGED <<pc, initialised, seq, step, rom>>
      BY <1>5 DEF Clock, Advance, start
    <2>2. QED  BY <1>1, <2>1 DEF MainOK
  <1>6. ASSUME NEW c \in Core, CoreStep(c) PROVE MainOK'
    <2>1. pc[c] \in Running /\ \E to \in Running : pc' = [pc EXCEPT ![c] = to]
      BY <1>6, TimerLabels DEF CoreStep
    <2>2. UNCHANGED <<initialised, seq, step, rom>>
      BY <1>6 DEF CoreStep, start
    <2>3. c # 0 => Launched
      BY <2>1 DEF MainOK, Running, Handling, Setting
    <2>4. QED
      BY <1>1, <2>1, <2>2, <2>3
         DEF MainOK, TimerTypes, Main, Resetting, Running, Handling, Setting
  <1>7. CASE UNCHANGED vars
    <2>1. UNCHANGED <<pc, initialised, seq, step, rom>>
      BY <1>7 DEF vars, timer, start
    <2>2. QED  BY <1>1, <2>1 DEF MainOK
  <1>8. QED  BY <1>2, <1>3, <1>4, <1>5, <1>6, <1>7 DEF Next

-----------------------------------------------------------------------------
(***************************************************************************)
(* The timer.                                                              *)
(***************************************************************************)
LEMMA TickTimes ==
  ASSUME TimerTypes, NEW c \in Core
  PROVE  /\ CLK_PER_TICK \in Nat /\ CLK_PER_TICK > 0
         /\ Passed(c) \in Nat /\ Due(c) \in Nat /\ Due(c) = Passed(c) + CLK_PER_TICK
         /\ ticks[c] = 0 => Passed(c) = 0 /\ Due(c) = CLK_PER_TICK
  <1>1. CLK_PER_TICK \in Nat /\ CLK_PER_TICK > 0 /\ ticks[c] \in Nat
    BY TimerAssumption DEF TimerTypes
  <1>2. Passed(c) \in Nat
    BY <1>1 DEF Passed
  <1>3. ticks[c] = 0 => Passed(c) = 0
    BY <1>1 DEF Passed
  <1>4. QED  BY <1>1, <1>2, <1>3 DEF Due

\* A tick takes the time on by CLK_PER_TICK.
LEMMA TickPasses ==
  ASSUME TimerTypes, NEW c \in Core, ticks'[c] = ticks[c] + 1
  PROVE  Passed(c)' = Due(c) /\ Due(c)' = Due(c) + CLK_PER_TICK
  <1>1. CLK_PER_TICK \in Nat /\ ticks[c] \in Nat
    BY TimerAssumption DEF TimerTypes
  <1>2. (ticks[c] + 1) * CLK_PER_TICK = ticks[c] * CLK_PER_TICK + CLK_PER_TICK
    BY <1>1
  <1>3. QED  BY <1>2 DEF Passed, Due

\* A core that does not use the time yet.
LEMMA TimeNotUsed ==
  ASSUME TimerTypes', NEW c \in Core,
         pc'[c] \in {"init", "rom"} \cup Main, c \notin enabled', ticks'[c] = 0
  PROVE  TimeOK(c)'
  <1>1. /\ pc'[c] \notin {"idle", "tick", "cmp", "cmph", "cmpl"}
        /\ pc'[c] \notin {"h0", "l", "h1"}
    BY DEF Main, Resetting
  <1>2. Passed(c)' = 0 /\ mtime' \in Nat
    <2>1. CLK_PER_TICK \in Nat
      BY TimerAssumption
    <2>2. QED  BY <2>1 DEF Passed, TimerTypes
  <1>3. (Passed(c) <= mtime)'
    BY <1>2
  <1>4. QED  BY <1>1, <1>3 DEF TimeOK, Handling, Setting

\* A core that does nothing, while the time goes on.
LEMMA TimeGoesOn ==
  ASSUME TimerTypes, NEW c \in Core, TimeOK(c),
         mtime' \in Nat, mtime <= mtime',
         pc'[c] = pc[c], mtimecmp'[c] = mtimecmp[c], h0'[c] = h0[c], l'[c] = l[c],
         target'[c] = target[c], ticks'[c] = ticks[c], c \in enabled' <=> c \in enabled
  PROVE  TimeOK(c)'
  <1>1. Passed(c)' = Passed(c) /\ Due(c)' = Due(c)
    BY DEF Passed, Due
  <1>2. /\ mtime \in Nat /\ mtimecmp[c] \in Nat /\ target[c] \in Nat /\ h0[c] \in Nat
        /\ High(mtime) \in Nat /\ High(mtime') \in Nat /\ High(mtime) <= High(mtime')
    BY HighMonotone, Halves DEF TimerTypes
  <1>3. CLK_PER_TICK \in Nat /\ Passed(c) \in Nat /\ Due(c) \in Nat
    BY TickTimes
  <1>4. High(mtime)' = High(mtime') /\ High(mtimecmp[c])' = High(mtimecmp[c])
        /\ High(target[c])' = High(target[c]) /\ Low(mtimecmp[c])' = Low(mtimecmp[c])
    BY DEF High, Low
  <1>5. LowRead(c) => LowRead(c)'
    <2>1. ASSUME NEW t \in 0..mtime, Due(c) <= t, Low(t) = l[c], h0[c] <= High(t)
          PROVE  LowRead(c)'
      <3>1. t \in 0..mtime'
        BY <1>2
      <3>2. QED  BY <1>1, <2>1, <3>1 DEF LowRead, High, Low
    <2>2. QED  BY <2>1 DEF LowRead
  <1>6. QED  BY <1>1, <1>2, <1>3, <1>4, <1>5 DEF TimeOK, Handling, Setting

\* What the registers and the locals are after a step of c alone.
OwnStep(c) ==
  /\ TimerTypes' /\ TimeOK(c)'
  /\ mtime' = mtime
  /\ \A d \in Core \ {c} :
       /\ pc'[d] = pc[d] /\ mtimecmp'[d] = mtimecmp[d] /\ h0'[d] = h0[d] /\ l'[d] = l[d]
       /\ target'[d] = target[d] /\ ticks'[d] = ticks[d]
       /\ d \in enabled' <=> d \in enabled

LEMMA IsrEnterStep ==
  ASSUME TimerTypes, NEW c \in Core, TimeOK(c), IsrEnter(c)
  PROVE  OwnStep(c)
  <1>1. /\ pc[c] = "idle" /\ pc' = [pc EXCEPT ![c] = "h0"]
        /\ mtime >= mtimecmp[c] /\ c \in enabled
        /\ UNCHANGED <<mtime, mtimecmp, h0, l, target, enabled, ticks>>
    BY DEF IsrEnter, At, Goto, registers, locals
  <1>2. TimerTypes' /\ pc'[c] = "h0"
    BY <1>1 DEF TimerTypes, Running, Handling
  <1>3. mtime \in Nat /\ mtimecmp[c] \in Nat /\ Due(c) \in Nat
    BY TickTimes DEF TimerTypes
  <1>4. Passed(c)' = Passed(c) /\ Due(c)' = Due(c)
    BY <1>1 DEF Passed, Due
  <1>5. Due(c) <= mtime /\ Passed(c) <= mtime
    BY <1>1, <1>3 DEF TimeOK
  <1>6. TimeOK(c)'
    BY <1>1, <1>2, <1>4, <1>5 DEF TimeOK, Main, Resetting, Handling, Setting
  <1>7. QED  BY <1>1, <1>2, <1>6 DEF OwnStep, TimerTypes

LEMMA ReadHighStep ==
  ASSUME TimerTypes, NEW c \in Core, TimeOK(c), ReadHigh(c)
  PROVE  OwnStep(c)
  <1>1. /\ pc[c] = "h0" /\ pc' = [pc EXCEPT ![c] = "l"]
        /\ h0' = [h0 EXCEPT ![c] = High(mtime)]
        /\ UNCHANGED <<mtime, mtimecmp, l, target, enabled, ticks>>
    BY DEF ReadHigh, At, Goto, registers
  <1>2. High(mtime) \in Nat
    BY Halves DEF TimerTypes
  <1>3. TimerTypes' /\ pc'[c] = "l" /\ h0'[c] = High(mtime)
    BY <1>1, <1>2 DEF TimerTypes, Running, Handling
  <1>4. Passed(c)' = Passed(c) /\ Due(c)' = Due(c) /\ High(mtime)' = High(mtime)
    BY <1>1 DEF Passed, Due, High
  <1>5. TimeOK(c)'
    BY <1>1, <1>2, <1>3, <1>4 DEF TimeOK, Main, Resetting, Handling, Setting
  <1>6. QED  BY <1>1, <1>3, <1>5 DEF OwnStep, TimerTypes

LEMMA ReadLowStep ==
  ASSUME TimerTypes, NEW c \in Core, TimeOK(c), ReadLow(c)
  PROVE  OwnStep(c)
  <1>1. /\ pc[c] = "l" /\ pc' = [pc EXCEPT ![c] = "h1"]
        /\ l' = [l EXCEPT ![c] = Low(mtime)]
        /\ UNCHANGED <<mtime, mtimecmp, h0, target, enabled, ticks>>
    BY DEF ReadLow, At, Goto, registers
  <1>2. Low(mtime) \in Nat /\ mtime \in Nat
    BY LowOfLow DEF TimerTypes
  <1>3. TimerTypes' /\ pc'[c] = "h1" /\ l'[c] = Low(mtime)
    BY <1>1, <1>2 DEF TimerTypes, Running, Handling
  <1>4. Passed(c)' = Passed(c) /\ Due(c)' = Due(c) /\ High(mtime)' = High(mtime)
    BY <1>1 DEF Passed, Due, High
  <1>5. LowRead(c)'
    <2>1. Due(c) <= mtime /\ h0[c] <= High(mtime) /\ mtime \in 0..mtime
      BY <1>1, <1>2 DEF TimeOK, Handling
    <2>2. QED  BY <1>1, <1>3, <1>4, <2>1 DEF LowRead, High, Low
  <1>6. TimeOK(c)'
    BY <1>1, <1>3, <1>4, <1>5 DEF TimeOK, Main, Resetting, Handling, Setting
  <1>7. QED  BY <1>1, <1>3, <1>6 DEF OwnStep, TimerTypes

\* The high half has not changed between the two reads: the low one is of the
\* same time.
LEMMA ReadHighAgainStep ==
  ASSUME TimerTypes, NEW c \in Core, TimeOK(c), ReadHighAgain(c)
  PROVE  OwnStep(c)
  <1>1. /\ pc[c] = "h1"
        /\ UNCHANGED <<mtime, mtimecmp, enabled, ticks>>
    BY DEF ReadHighAgain, At, registers
  <1>2. Passed(c)' = Passed(c) /\ Due(c)' = Due(c) /\ High(mtime)' = High(mtime)
    BY <1>1 DEF Passed, Due, High
  <1>3. /\ mtime \in Nat /\ Passed(c) \in Nat /\ Due(c) \in Nat /\ CLK_PER_TICK \in Nat
        /\ h0[c] \in Nat /\ l[c] \in Nat
    BY TickTimes DEF TimerTypes
  <1>4. c \in enabled /\ Due(c) <= mtime /\ Passed(c) <= mtime /\ LowRead(c)
    BY <1>1 DEF TimeOK, Handling
  <1>5. CASE pc' = [pc EXCEPT ![c] = "h0"] /\ UNCHANGED <<h0, l, target>>
    <2>1. TimerTypes' /\ pc'[c] = "h0"
      BY <1>1, <1>5 DEF TimerTypes, Running, Handling
    <2>2. TimeOK(c)'
      BY <1>1, <1>2, <1>4, <2>1 DEF TimeOK, Main, Resetting, Handling, Setting
    <2>3. QED  BY <1>1, <1>5, <2>1, <2>2 DEF OwnStep, TimerTypes
  <1>6. CASE High(mtime) = h0[c] /\ SetNext(c, SetHigh(l[c], High(mtime)))
    <2>1. PICK t \in 0..mtime : Due(c) <= t /\ Low(t) = l[c] /\ h0[c] <= High(t)
      BY <1>4 DEF LowRead
    <2>2. t \in Nat /\ t <= mtime
      BY <1>3, <2>1
    <2>3. High(t) = High(mtime)
      <3>1. High(t) <= High(mtime) /\ High(t) \in Nat /\ High(mtime) \in Nat
        BY <1>3, <2>2, HighMonotone, Halves
      <3>2. QED  BY <1>6, <2>1, <3>1
    <2>4. SetHigh(l[c], High(mtime)) = t
      <3>1. Low(l[c]) = Low(t)
        BY <2>1, <2>2, LowOfLow
      <3>2. SetHigh(l[c], High(t)) = t
        BY <1>3, <2>2, <3>1, BothHalves
      <3>3. QED  BY <2>3, <3>2
    <2>5. /\ target' = [target EXCEPT ![c] = t + CLK_PER_TICK]
          /\ h0' = [h0 EXCEPT ![c] = 0] /\ l' = [l EXCEPT ![c] = 0]
          /\ pc' = [pc EXCEPT ![c] = "cmp"]
      BY <1>6, <2>4 DEF SetNext, Goto
    <2>6. TimerTypes' /\ pc'[c] = "cmp" /\ target'[c] = t + CLK_PER_TICK
      BY <1>1, <1>3, <2>2, <2>5 DEF TimerTypes, Running, Setting
    <2>7. target'[c] <= mtime + CLK_PER_TICK /\ Due(c) + CLK_PER_TICK <= target'[c]
      BY <1>3, <2>1, <2>2, <2>6
    <2>8. TimeOK(c)'
      BY <1>1, <1>2, <1>4, <2>6, <2>7 DEF TimeOK, Main, Resetting, Handling, Setting
    <2>9. QED  BY <1>1, <2>5, <2>6, <2>8 DEF OwnStep, TimerTypes
  <1>7. QED  BY <1>5, <1>6 DEF ReadHighAgain, Goto, locals

LEMMA WriteOnesStep ==
  ASSUME TimerTypes, NEW c \in Core, TimeOK(c), WriteOnes(c)
  PROVE  OwnStep(c) /\ mtimecmp'[c] >= mtimecmp[c]
  <1>1. /\ pc[c] = "cmp" /\ pc' = [pc EXCEPT ![c] = "cmph"]
        /\ mtimecmp' = [mtimecmp EXCEPT ![c] = SetLow(mtimecmp[c], Half - 1)]
        /\ UNCHANGED <<mtime, h0, l, target, enabled, ticks>>
    BY DEF WriteOnes, At, Goto, locals
  <1>2. PICK t \in Nat : t = SetLow(mtimecmp[c], Half - 1) /\ Low(t) = Half - 1
                         /\ High(t) = High(mtimecmp[c])
    <2>1. 0 \in Nat /\ Half - 1 \in 0..(Half - 1) /\ mtimecmp[c] \in Nat
      BY TimerAssumption DEF TimerTypes
    <2>2. QED  BY <2>1, SetHalves
  <1>3. TimerTypes' /\ pc'[c] = "cmph" /\ mtimecmp'[c] = t
    BY <1>1, <1>2 DEF TimerTypes, Running, Setting
  <1>4. t >= mtimecmp[c]
    BY <1>2, OnesAreMore DEF TimerTypes
  <1>5. Passed(c)' = Passed(c) /\ Due(c)' = Due(c) /\ Low(mtimecmp[c])' = Half - 1
    BY <1>1, <1>2, <1>3 DEF Passed, Due, Low
  <1>6. TimeOK(c)'
    BY <1>1, <1>3, <1>5 DEF TimeOK, Main, Resetting, Handling, Setting
  <1>7. QED  BY <1>1, <1>3, <1>4, <1>6 DEF OwnStep, TimerTypes

LEMMA WriteHighStep ==
  ASSUME TimerTypes, NEW c \in Core, TimeOK(c), WriteHigh(c)
  PROVE  OwnStep(c) /\ mtimecmp'[c] >= target[c]
  <1>1. /\ pc[c] = "cmph" /\ pc' = [pc EXCEPT ![c] = "cmpl"]
        /\ mtimecmp' = [mtimecmp EXCEPT ![c] = SetHigh(mtimecmp[c], High(target[c]))]
        /\ UNCHANGED <<mtime, h0, l, target, enabled, ticks>>
    BY DEF WriteHigh, At, Goto, locals
  <1>2. PICK t \in Nat : t = SetHigh(mtimecmp[c], High(target[c]))
                         /\ Low(t) = Low(mtimecmp[c]) /\ High(t) = High(target[c])
    <2>1. High(target[c]) \in Nat /\ 0 \in 0..(Half - 1) /\ mtimecmp[c] \in Nat
      BY TimerAssumption, Halves DEF TimerTypes
    <2>2. QED  BY <2>1, SetHalves
  <1>3. TimerTypes' /\ pc'[c] = "cmpl" /\ mtimecmp'[c] = t
    BY <1>1, <1>2 DEF TimerTypes, Running, Setting
  <1>4. Low(t) = Half - 1
    BY <1>1, <1>2 DEF TimeOK
  <1>5. t >= target[c]
    BY <1>2, <1>4, OnesAreMore DEF TimerTypes
  <1>6. Passed(c)' = Passed(c) /\ Due(c)' = Due(c)
        /\ High(mtimecmp[c])' = High(target[c])'
    BY <1>1, <1>2, <1>3 DEF Passed, Due, High
  <1>7. TimeOK(c)'
    BY <1>1, <1>3, <1>6 DEF TimeOK, Main, Resetting, Handling, Setting
  <1>8. QED  BY <1>1, <1>3, <1>5, <1>7 DEF OwnStep, TimerTypes

LEMMA WriteLowStep ==
  ASSUME TimerTypes, NEW c \in Core, TimeOK(c), WriteLow(c)
  PROVE  OwnStep(c) /\ mtimecmp'[c] >= target[c]
  <1>1. /\ pc[c] = "cmpl"
        /\ pc' = [pc EXCEPT ![c] = IF c \in enabled THEN "tick" ELSE "idle"]
        /\ mtimecmp' = [mtimecmp EXCEPT ![c] = SetLow(mtimecmp[c], Low(target[c]))]
        /\ target' = [target EXCEPT ![c] = 0]
        /\ enabled' = enabled \cup {c}
        /\ UNCHANGED <<mtime, h0, l, ticks>>
    BY DEF WriteLow, At, Goto
  <1>2. /\ mtimecmp[c] \in Nat /\ target[c] \in Nat /\ mtime \in Nat
        /\ Low(target[c]) \in 0..(Half - 1)
    BY Halves DEF TimerTypes
  <1>3. SetLow(mtimecmp[c], Low(target[c])) = target[c]
    <2>1. High(mtimecmp[c]) = High(target[c])
      BY <1>1 DEF TimeOK
    <2>2. QED  BY <1>2, <2>1, Halves DEF SetLow
  <1>4. /\ TimerTypes' /\ mtimecmp'[c] = target[c] /\ c \in enabled'
        /\ pc'[c] = IF c \in enabled THEN "tick" ELSE "idle"
    BY <1>1, <1>2, <1>3 DEF TimerTypes, Running
  <1>5. Passed(c)' = Passed(c) /\ Due(c)' = Due(c)
    BY <1>1 DEF Passed, Due
  <1>6. target[c] <= mtime + CLK_PER_TICK /\ Passed(c) <= mtime
    BY <1>1 DEF TimeOK, Setting
  <1>7. CASE c \in enabled
    <2>1. Due(c) <= mtime /\ Due(c) + CLK_PER_TICK <= target[c]
      BY <1>1, <1>7 DEF TimeOK, Setting
    <2>2. pc'[c] = "tick"
      BY <1>4, <1>7
    <2>3. TimeOK(c)'
      BY <1>1, <1>4, <1>5, <1>6, <2>1, <2>2
         DEF TimeOK, Main, Resetting, Handling, Setting
    <2>4. QED  BY <1>1, <1>2, <1>4, <2>3 DEF OwnStep, TimerTypes
  <1>8. CASE c \notin enabled
    <2>1. ticks[c] = 0 /\ target[c] = CLK_PER_TICK
      BY <1>1, <1>8 DEF TimeOK, Setting
    <2>2. Due(c) <= target[c]
      BY <1>2, <2>1, TickTimes
    <2>3. pc'[c] = "idle"
      BY <1>4, <1>8
    <2>4. TimeOK(c)'
      BY <1>1, <1>4, <1>5, <1>6, <2>2, <2>3
         DEF TimeOK, Main, Resetting, Handling, Setting
    <2>5. QED  BY <1>1, <1>2, <1>4, <2>4 DEF OwnStep, TimerTypes
  <1>9. QED  BY <1>7, <1>8

LEMMA TickStep ==
  ASSUME TimerTypes, NEW c \in Core, TimeOK(c), Tick(c)
  PROVE  OwnStep(c)
  <1>1. /\ pc[c] = "tick" /\ pc' = [pc EXCEPT ![c] = "idle"]
        /\ ticks' = [ticks EXCEPT ![c] = ticks[c] + 1]
        /\ UNCHANGED <<mtime, mtimecmp, h0, l, target, enabled>>
    BY DEF Tick, At, Goto, registers, locals
  <1>2. TimerTypes' /\ pc'[c] = "idle" /\ ticks'[c] = ticks[c] + 1
    BY <1>1 DEF TimerTypes, Running
  <1>3. Passed(c)' = Due(c) /\ Due(c)' = Due(c) + CLK_PER_TICK
    BY <1>2, TickPasses
  <1>4. /\ Due(c) <= mtime /\ Due(c) + CLK_PER_TICK <= mtimecmp[c] /\ c \in enabled
        /\ mtimecmp[c] <= mtime + CLK_PER_TICK
    BY <1>1 DEF TimeOK
  <1>5. TimeOK(c)'
    BY <1>1, <1>2, <1>3, <1>4 DEF TimeOK, Main, Resetting, Handling, Setting
  <1>6. QED  BY <1>1, <1>2, <1>5 DEF OwnStep, TimerTypes

LEMMA per_cpu_initStep ==
  ASSUME TimerTypes, NEW c \in Core, TimeOK(c), per_cpu_init(c)
  PROVE  OwnStep(c)
  <1>1. /\ pc[c] = "init" /\ pc' = [pc EXCEPT ![c] = "cmp"]
        /\ target' = [target EXCEPT ![c] = CLK_PER_TICK]
        /\ UNCHANGED <<mtime, mtimecmp, h0, l, enabled, ticks>>
    BY DEF per_cpu_init, At, Goto, registers
  <1>2. mtime \in Nat /\ CLK_PER_TICK \in Nat
    BY TickTimes DEF TimerTypes
  <1>3. TimerTypes' /\ pc'[c] = "cmp" /\ target'[c] = CLK_PER_TICK
    BY <1>1, <1>2 DEF TimerTypes, Running, Setting
  <1>4. Passed(c)' = Passed(c)
    BY <1>1 DEF Passed
  <1>5. c \notin enabled /\ CLK_PER_TICK <= mtime + CLK_PER_TICK
    BY <1>1, <1>2 DEF TimeOK
  <1>6. TimeOK(c)'
    BY <1>1, <1>3, <1>4, <1>5 DEF TimeOK, Main, Resetting, Handling, Setting
  <1>7. QED  BY <1>1, <1>3, <1>6 DEF OwnStep, TimerTypes

-----------------------------------------------------------------------------
\* The cores and the counter together.
LEMMA TimerStepOK ==
  ASSUME TimerTypes, NEW c \in Core, TimeOK(c), TimerStep(c)
  PROVE  OwnStep(c)
  BY IsrEnterStep, ReadHighStep, ReadLowStep, ReadHighAgainStep, WriteOnesStep,
     WriteHighStep, WriteLowStep, TickStep, per_cpu_initStep DEF TimerStep

LEMMA InitTimer == Init => MainOK /\ TimerTypes /\ \A c \in Core : TimeOK(c)
  <1> SUFFICES ASSUME Init PROVE MainOK /\ TimerTypes /\ \A c \in Core : TimeOK(c)
    OBVIOUS
  <1>1. Half \in Nat /\ Half > 1 /\ Half * Half \in Nat /\ Half * Half > 0
    BY TimerAssumption
  <1>2. mtime \in Nat /\ Half * Half - 1 \in Nat
    BY <1>1 DEF Init
  <1>3. \A c \in Core : pc[c] = IF c = 0 THEN "main" ELSE "rom"
    BY DEF Init
  <1>4. MainOK
    BY <1>3, BothCores DEF Init, StartInit, MainOK, Main, Resetting
  <1>5. TimerTypes
    BY <1>1, <1>2 DEF Init, TimerTypes, Main, Resetting
  <1>6. ASSUME NEW c \in Core PROVE TimeOK(c)
    <2>1. pc[c] \in {"main", "rom"} /\ c \notin enabled /\ ticks[c] = 0
      BY <1>3 DEF Init
    <2>2. Passed(c) <= mtime
      BY <1>2, <1>5, <2>1, TickTimes
    <2>3. QED  BY <2>1, <2>2 DEF TimeOK, Handling, Setting
  <1>7. QED  BY <1>4, <1>5, <1>6

LEMMA TimerSteps ==
  ASSUME RiscvInv, [Next]_vars
  PROVE  TimerTypes' /\ \A c \in Core : TimeOK(c)'
  <1> USE BothCores
  <1>1. StartOK /\ MainOK /\ TimerTypes /\ (\A c \in Core : TimeOK(c)) /\ mtime \in Nat
    BY DEF RiscvInv, TimerTypes
  <1>2. ASSUME UNCHANGED timer PROVE TimerTypes' /\ \A c \in Core : TimeOK(c)'
    <2>1. UNCHANGED <<mtime, mtimecmp, pc, h0, l, target, enabled, ticks>>
      BY <1>2 DEF timer, registers, locals
    <2>2. TimerTypes'
      BY <1>1, <2>1 DEF TimerTypes
    <2>3. ASSUME NEW c \in Core PROVE TimeOK(c)'
      BY <1>1, <2>1, <2>2, TimeGoesOn
    <2>4. QED  BY <2>2, <2>3
  <1>3. ASSUME NEW k \in Core, NEW to \in {"init"} \cup Main, pc[k] \in {"rom"} \cup Main,
               pc' = [pc EXCEPT ![k] = to],
               UNCHANGED <<mtime, mtimecmp, h0, l, target, enabled, ticks>>
        PROVE  TimerTypes' /\ \A c \in Core : TimeOK(c)'
    <2>1. TimerTypes'
      BY <1>1, <1>3 DEF TimerTypes, Running
    <2>2. k \notin enabled /\ ticks[k] = 0
      BY <1>1, <1>3 DEF TimeOK
    <2>3. pc'[k] \in {"init", "rom"} \cup Main
      BY <1>1, <1>3 DEF TimerTypes
    <2>4. TimeOK(k)'
      BY <1>3, <2>1, <2>2, <2>3, TimeNotUsed
    <2>5. ASSUME NEW c \in Core \ {k} PROVE TimeOK(c)'
      <3>1. pc'[c] = pc[c] /\ TimeOK(c)
        BY <1>1, <1>3 DEF TimerTypes
      <3>2. QED  BY <1>1, <1>3, <3>1, TimeGoesOn
    <2>6. QED  BY <2>1, <2>4, <2>5
  <1>4. CASE main
    <2>1. CASE /\ pc[0] = "main" /\ pc' = [pc EXCEPT ![0] = "timer"]
               /\ UNCHANGED <<registers, locals, enabled, ticks>>
      BY <1>3, <2>1 DEF Main, Resetting, registers, locals
    <2>2. CASE /\ pc[0] \in Resetting \ {"main"}
               /\ \E to \in Main \ {"main"} : pc' = [pc EXCEPT ![0] = to]
               /\ mtime' # mtime => mtime' \in {SetLow(mtime, 0), SetHigh(mtime, 0)}
               /\ UNCHANGED <<mtimecmp, locals, enabled, ticks>>
      <3>1. mtime' \in Nat
        <4>1. 0 \in Nat /\ 0 \in 0..(Half - 1)
          BY TimerAssumption
        <4>2. SetLow(mtime, 0) \in Nat /\ SetHigh(mtime, 0) \in Nat
          BY <1>1, <4>1, SetHalves
        <4>3. QED  BY <1>1, <2>2, <4>2
      <3>2. TimerTypes'
        BY <1>1, <2>2, <3>1 DEF TimerTypes, locals
      <3>3. \A c \in Core : pc[c] \in {"rom"} \cup Main
        <4>1. ~Launched
          <5>1. rom # 6
            BY <1>1, <2>2 DEF MainOK, StartOK, InStep
          <5>2. QED  BY <5>1, Commands DEF Launched
        <4>2. QED  BY <1>1, <2>2, <4>1 DEF MainOK, Main
      <3>4. \A c \in Core : c \notin enabled /\ ticks[c] = 0
        BY <1>1, <3>3 DEF TimeOK
      <3>5. \A c \in Core : pc'[c] \in {"init", "rom"} \cup Main
        BY <1>1, <2>2, <3>3 DEF TimerTypes
      <3>6. QED  BY <2>2, <3>2, <3>4, <3>5, TimeNotUsed
    <2>3. CASE UNCHANGED <<registers, locals, pc, enabled, ticks>>
      BY <1>2, <2>3 DEF timer
    <2>4. CASE /\ pc[0] = "core1" /\ pc' = [pc EXCEPT ![0] = "init"]
               /\ UNCHANGED <<registers, locals, enabled, ticks>>
      BY <1>3, <2>4 DEF Main, registers, locals
    <2>5. QED  BY <1>4, <2>1, <2>2, <2>3, <2>4, MainLabels
  <1>5. CASE core1_main
    BY <1>3, <1>5 DEF core1_main, At, Goto, registers, locals
  <1>6. CASE Rom
    BY <1>2, <1>6 DEF Rom
  <1>7. CASE Clock
    <2>1. /\ mtime' = mtime + 1
          /\ UNCHANGED <<mtimecmp, pc, h0, l, target, enabled, ticks>>
      BY <1>7 DEF Clock, Advance, locals
    <2>2. TimerTypes' /\ mtime' \in Nat /\ mtime <= mtime'
      BY <1>1, <2>1 DEF TimerTypes
    <2>3. ASSUME NEW c \in Core PROVE TimeOK(c)'
      BY <1>1, <2>1, <2>2, TimeGoesOn
    <2>4. QED  BY <2>2, <2>3
  <1>8. ASSUME NEW k \in Core, CoreStep(k)
        PROVE  TimerTypes' /\ \A c \in Core : TimeOK(c)'
    <2>1. OwnStep(k)
      BY <1>1, <1>8, TimerStepOK DEF CoreStep
    <2>2. ASSUME NEW c \in Core \ {k} PROVE TimeOK(c)'
      <3>1. /\ pc'[c] = pc[c] /\ mtimecmp'[c] = mtimecmp[c] /\ h0'[c] = h0[c]
            /\ l'[c] = l[c] /\ target'[c] = target[c] /\ ticks'[c] = ticks[c]
            /\ (c \in enabled' <=> c \in enabled)
            /\ mtime' = mtime /\ TimeOK(c)
        BY <1>1, <2>1 DEF OwnStep
      <3>2. mtime' \in Nat /\ mtime <= mtime'
        BY <1>1, <3>1
      <3>3. QED  BY <1>1, <3>1, <3>2, TimeGoesOn
    <2>3. QED  BY <2>1, <2>2 DEF OwnStep
  <1>9. CASE UNCHANGED vars
    BY <1>2, <1>9 DEF vars
  <1>10. QED  BY <1>4, <1>5, <1>6, <1>7, <1>8, <1>9 DEF Next

LEMMA InvTypes == RiscvInv => TypeOK
  <1> SUFFICES ASSUME RiscvInv PROVE TypeOK
    OBVIOUS
  <1>1. StartOK /\ TimerTypes
    BY DEF RiscvInv
  <1>2. {mtime} \cup UNION {{mtimecmp[c], h0[c], l[c], target[c]} : c \in Core} \subseteq Nat
    BY <1>1 DEF TimerTypes
  <1>3. /\ seq \in DOMAIN cmd_sequence \cup {0} /\ rom \in DOMAIN cmd_sequence \cup {0}
        /\ step # "return" => seq + 1 \in DOMAIN cmd_sequence
    BY <1>1, Commands DEF StartOK
  <1>4. toCore1 \in FifoContents
    <2>1. CASE step # "pop"
      BY <1>1, <2>1, ShortFifos DEF StartOK
    <2>2. CASE step = "pop"
      <3>1. toCore1 = <<>> \/ (toCore1 = <<cmd>> /\ cmd \in Word)
        BY <1>1, <2>2, Commands DEF StartOK, AnswerOK, cmd
      <3>2. QED  BY <3>1, ShortFifos
    <2>3. QED  BY <2>1, <2>2
  <1>5. toCore0 \in FifoContents
    BY <1>1 DEF StartOK, FifoContents
  <1>6. enabled \subseteq Core /\ ticks \in [Core -> Nat]
    BY <1>1 DEF TimerTypes
  <1>7. QED  BY <1>2, <1>3, <1>4, <1>5, <1>6 DEF TypeOK, FifoContents

\* The start of the demo in one invariant: core 0 and the ROM are in step, no
\* core takes interrupts before it may, and each knows a time that was there.
THEOREM RiscvInvariant == Spec => []RiscvInv
  <1>1. Init => RiscvInv
    BY InitTimer, InitStart DEF Init, RiscvInv
  <1>2. RiscvInv /\ [Next]_vars => RiscvInv'
    BY StartStep, MainStep, TimerSteps DEF RiscvInv
  <1>3. QED  BY <1>1, <1>2, PTL DEF Spec

\* cmd_sequence is read within its bounds, and the fifos between the cores never
\* hold more than they have room for (core1.c:61-84).
THEOREM RiscvTypes == Spec => []TypeOK
  BY RiscvInvariant, InvTypes, PTL

\* core1_start returns when core 1 runs, with the vector table, the stack and the
\* function meant for it, whatever words and state are left from an earlier try.
THEOREM StartedRightInvariant == Spec => []StartedRight
  <1>1. RiscvInv => StartedRight
    BY StartedRightHolds DEF RiscvInv
  <1>2. QED  BY RiscvInvariant, <1>1, PTL

\* No core takes a tick before mg_context_init has made the timer queues.
THEOREM TickAfterInitInvariant == Spec => []TickAfterInit
  <1>1. ASSUME RiscvInv PROVE TickAfterInit
    <2>1. MainOK /\ StartOK /\ Launched => pc[0] # "main"
      <3>1. MainOK /\ pc[0] = "main" => seq = 0 /\ step = "command"
        BY DEF MainOK, Resetting
      <3>2. StartOK /\ step = "command" /\ seq = 0 => rom # 6
        BY DEF StartOK, InStep
      <3>3. QED  BY <3>1, <3>2, Commands DEF Launched
    <2>2. ASSUME NEW c \in Core, pc[c] = "tick" PROVE initialised
      <3>1. MainOK /\ StartOK
        BY <1>1 DEF RiscvInv
      <3>2. c # 0 => Launched
        BY <2>2, <3>1 DEF MainOK
      <3>3. pc[0] # "main"
        BY <2>1, <2>2, <3>1, <3>2
      <3>4. QED  BY <3>1, <3>3 DEF MainOK
    <2>3. QED  BY <2>2 DEF TickAfterInit
  <1>2. QED  BY RiscvInvariant, <1>1, PTL

\* No torn read of mtime and no comparator written in two halves makes a tick too
\* many, whatever runs between two accesses (mtimer.h:14-48).
THEOREM TicksNotAheadInvariant == Spec => []TicksNotAhead
  <1>1. RiscvInv => TicksNotAhead
    BY DEF RiscvInv, TimeOK, Passed, TicksNotAhead
  <1>2. QED  BY RiscvInvariant, <1>1, PTL

\* A core that waits for its next tick waits for CLK_PER_TICK at most.
THEOREM NextTickNearInvariant == Spec => []NextTickNear
  <1>1. ASSUME RiscvInv PROVE NextTickNear
    BY <1>1 DEF RiscvInv, TimeOK, NextTickNear, TimerTypes
  <1>2. QED  BY RiscvInvariant, <1>1, PTL

\* A comparator is never written, half by half, below both what it was and what it
\* will be (mtimer.h:41-48).
THEOREM NoEarlyMatchHolds == Spec => NoEarlyMatch
  <1>1. ASSUME RiscvInv, [Next]_vars
        PROVE  [\A c \in Core :
                  mtimecmp'[c] >= mtimecmp[c] \/ mtimecmp'[c] >= target[c]]_timer
    <2>1. TimerTypes /\ (\A c \in Core : TimeOK(c))
      BY <1>1 DEF RiscvInv
    <2>2. ASSUME UNCHANGED mtimecmp, NEW c \in Core PROVE mtimecmp'[c] >= mtimecmp[c]
      BY <2>1, <2>2 DEF TimerTypes
    <2>3. CASE main
      <3>1. UNCHANGED mtimecmp
        BY <2>3, MainLabels DEF registers
      <3>2. QED  BY <2>2, <3>1
    <2>4. CASE core1_main
      BY <2>2, <2>4 DEF core1_main, registers
    <2>5. CASE Rom
      BY <2>5 DEF Rom
    <2>6. CASE Clock
      BY <2>2, <2>6 DEF Clock, Advance
    <2>7. ASSUME NEW k \in Core, CoreStep(k), NEW c \in Core
          PROVE  mtimecmp'[c] >= mtimecmp[c] \/ mtimecmp'[c] >= target[c]
      <3>1. CASE c # k
        <4>1. OwnStep(k)
          BY <2>1, <2>7, TimerStepOK DEF CoreStep
        <4>2. mtimecmp'[c] = mtimecmp[c]
          BY <3>1, <4>1 DEF OwnStep
        <4>3. QED  BY <2>1, <4>2 DEF TimerTypes
      <3>2. CASE c = k /\ (WriteOnes(k) \/ WriteHigh(k) \/ WriteLow(k))
        BY <2>1, <3>2, WriteOnesStep, WriteHighStep, WriteLowStep
      <3>3. CASE ~(WriteOnes(k) \/ WriteHigh(k) \/ WriteLow(k))
        <4>1. UNCHANGED mtimecmp
          BY <2>7, <3>3
             DEF CoreStep, TimerStep, IsrEnter, ReadHigh, ReadLow, ReadHighAgain, Tick,
                 per_cpu_init, registers
        <4>2. QED  BY <2>2, <4>1
      <3>4. QED  BY <3>1, <3>2, <3>3
    <2>8. CASE UNCHANGED vars
      BY <2>8 DEF vars
    <2>9. QED  BY <1>1, <2>3, <2>4, <2>5, <2>6, <2>7, <2>8 DEF Next
  <1>2. QED  BY RiscvInvariant, <1>1, PTL DEF Spec, NoEarlyMatch
=============================================================================
