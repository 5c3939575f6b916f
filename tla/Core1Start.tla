----------------------------- MODULE Core1Start -----------------------------
(***************************************************************************)
(* core1_start: core 0 sends six words to the boot ROM of core 1 over the  *)
(* fifos between the cores.  The ROM answers each word with the same word, *)
(* or, when it does not fit, with another one, and then both start over.   *)
(*                                                                         *)
(* Core 0 may find words in its fifo that were sent before, and the ROM    *)
(* one or two words into the sequence.                                     *)
(***************************************************************************)
EXTENDS Naturals, Sequences

CONSTANTS
  Word,   \* 0, 1, the three words below and what the ROM may answer instead
  mtvec, stack, entry,
  Depth   \* of a fifo

ASSUME WordAssumption ==
  /\ {0, 1, mtvec, stack, entry} \subseteq Word
  /\ Depth \in Nat \ {0}

cmd_sequence == <<0, 0, 1, mtvec, stack, entry>>

VARIABLES
  seq,        \* words of cmd_sequence that were acknowledged
  step,       \* what core1_start does next
  toCore1,    \* the words in the fifo that core 1 reads
  toCore0,    \* and in the one that core 0 reads
  rom,        \* words of the sequence that the ROM has accepted
  given       \* the words it has accepted as arguments

start == <<seq, step, toCore1, toCore0, rom, given>>

StartInit ==
  /\ seq = 0
  /\ step = "command"
  /\ toCore1 = <<>>
  /\ \E n \in 0..Depth : toCore0 \in [1..n -> {0, 1}]
  /\ rom \in 0..2
  /\ given = <<>>

cmd == cmd_sequence[seq + 1]

\* Mutant: what is left in the fifo stays there.
MutantNoDrain ==
  /\ step = "command"
  /\ step' = "push"
  /\ UNCHANGED <<seq, toCore1, toCore0, rom, given>>

\* multicore_fifo_drain before a zero: until the fifo is found empty.
Drain ==
  /\ step = "command"
  /\ \/ /\ cmd = 0 /\ toCore0 # <<>>
        /\ toCore0' = Tail(toCore0)
        /\ UNCHANGED step
     \/ /\ cmd # 0 \/ toCore0 = <<>>
        /\ step' = "push"
        /\ UNCHANGED toCore0
  /\ UNCHANGED <<seq, toCore1, rom, given>>

multicore_fifo_push_blocking ==
  /\ step = "push" /\ Len(toCore1) < Depth
  /\ toCore1' = Append(toCore1, cmd)
  /\ step' = "pop"
  /\ UNCHANGED <<seq, toCore0, rom, given>>

\* Mutant: the loop goes on while seq <= n.
MutantPopPastEnd ==
  /\ step = "pop" /\ toCore0 # <<>>
  /\ seq' = IF Head(toCore0) = cmd THEN seq + 1 ELSE 0
  /\ step' = IF seq' > Len(cmd_sequence) THEN "return" ELSE "command"
  /\ toCore0' = Tail(toCore0)
  /\ UNCHANGED <<toCore1, rom, given>>

\* Mutant: the answer is not looked at.
MutantPopAny ==
  /\ step = "pop" /\ toCore0 # <<>>
  /\ seq' = seq + 1
  /\ step' = IF seq' = Len(cmd_sequence) THEN "return" ELSE "command"
  /\ toCore0' = Tail(toCore0)
  /\ UNCHANGED <<toCore1, rom, given>>

\* multicore_fifo_pop_blocking, and the next word or the first one again.
multicore_fifo_pop_blocking ==
  /\ step = "pop" /\ toCore0 # <<>>
  /\ seq' = IF Head(toCore0) = cmd THEN seq + 1 ELSE 0
  /\ step' = IF seq' = Len(cmd_sequence) THEN "return" ELSE "command"
  /\ toCore0' = Tail(toCore0)
  /\ UNCHANGED <<toCore1, rom, given>>

core1_start == Drain \/ multicore_fifo_push_blocking \/ multicore_fifo_pop_blocking

\* The ROM has started the program.
Launched == rom = Len(cmd_sequence)

\* The ROM takes a word and answers it.  It wants 0, 0, 1 and any three words.
RomAnswer ==
  LET word == Head(toCore1)
      argument == rom >= 3
  IN /\ ~Launched
     /\ toCore1 # <<>> /\ Len(toCore0) < Depth
     /\ toCore1' = Tail(toCore1)
     /\ \/ /\ argument \/ word = cmd_sequence[rom + 1]
           /\ rom' = rom + 1
           /\ given' = IF argument THEN Append(given, word) ELSE <<>>
           /\ toCore0' = Append(toCore0, word)
        \/ /\ ~argument /\ word # cmd_sequence[rom + 1]
           /\ rom' = 0
           /\ given' = <<>>
           /\ \E other \in Word \ {word} : toCore0' = Append(toCore0, other)
     /\ UNCHANGED <<seq, step>>

-----------------------------------------------------------------------------
\* core1_start returns when core 1 runs, and it runs with the vector table, the
\* stack and the function that were meant for it, whatever was left in the fifo
\* (core1.c:61-72).
StartedRight ==
  /\ step = "return" => Launched
  /\ Launched => given = <<mtvec, stack, entry>>
=============================================================================
