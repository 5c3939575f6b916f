---------------------------- MODULE MessagePool ----------------------------
(***************************************************************************)
(* The message pool: mg_message_alloc cuts blocks off an array until it is *)
(* used up and then takes those that were freed.  It looks at the flag     *)
(* array_space_available without the lock, and again with it.              *)
(*                                                                         *)
(* A block is named by its offset in the array.  Actors that wait for the  *)
(* queue of the pool are left to module Kernel.                            *)
(***************************************************************************)
EXTENDS Naturals, Sequences

CONSTANTS
  Thread,       \* contexts that allocate, on any processors
  total_length,
  block_sz

\* The assertions of mg_message_pool_init.
ASSUME PoolAssumption ==
  /\ block_sz \in Nat \ {0}
  /\ total_length \in Nat
  /\ total_length >= block_sz

\* The blocks that fit into the array; what is left over is not used.
Block == {b \in 0..(total_length - block_sz) : b % block_sz = 0}

VARIABLES
  pc,      \* pc[t]: what thread t does next in mg_message_alloc
  offset,
  array_space_available,
  queue,   \* the freed blocks linked in pool->queue
  owned    \* owned[t]: the blocks that thread t was given

vars == <<pc, offset, array_space_available, queue, owned>>

\* mg_message_pool_init
Init ==
  /\ pc = [t \in Thread |-> "idle"]
  /\ offset = 0
  /\ array_space_available = TRUE
  /\ queue = <<>>
  /\ owned = [t \in Thread |-> {}]

Goto(t, label) == pc' = [pc EXCEPT ![t] = label]

Own(t, b) == owned' = [owned EXCEPT ![t] = @ \cup {b}]

\* The flag is read without the lock.
AllocStart(t) ==
  /\ pc[t] = "idle"
  /\ Goto(t, IF array_space_available THEN "array" ELSE "pop")
  /\ UNCHANGED <<offset, array_space_available, queue, owned>>

\* Mutant: the flag is not read again.
MutantNoRecheck(t) ==
  /\ pc[t] = "array"
  /\ Own(t, offset)
  /\ offset' = offset + block_sz
  /\ array_space_available' = (offset + 2 * block_sz <= total_length)
  /\ Goto(t, "idle")
  /\ UNCHANGED queue

\* Mutant: the offset stays.
MutantSameBlock(t) ==
  /\ pc[t] = "array"
  /\ \/ /\ array_space_available
        /\ Own(t, offset)
        /\ array_space_available' = (offset + 2 * block_sz <= total_length)
        /\ Goto(t, "idle")
     \/ /\ ~array_space_available
        /\ Goto(t, "pop")
        /\ UNCHANGED <<array_space_available, owned>>
  /\ UNCHANGED <<offset, queue>>

\* Mutant: a block that ends where the array ends does not count.
MutantLastBlock(t) ==
  /\ pc[t] = "array"
  /\ \/ /\ array_space_available
        /\ Own(t, offset)
        /\ offset' = offset + block_sz
        /\ array_space_available' = (offset + 2 * block_sz < total_length)
        /\ Goto(t, "idle")
     \/ /\ ~array_space_available
        /\ Goto(t, "pop")
        /\ UNCHANGED <<offset, array_space_available, owned>>
  /\ UNCHANGED queue

\* The critical section, which reads the flag again.
AllocArray(t) ==
  /\ pc[t] = "array"
  /\ \/ /\ array_space_available
        /\ Own(t, offset)
        /\ offset' = offset + block_sz
        /\ array_space_available' = (offset' + block_sz <= total_length)
        /\ Goto(t, "idle")
     \/ /\ ~array_space_available
        /\ Goto(t, "pop")
        /\ UNCHANGED <<offset, array_space_available, owned>>
  /\ UNCHANGED queue

\* mg_queue_pop(&pool->queue, 0)
AllocPop(t) ==
  /\ pc[t] = "pop" /\ queue # <<>>
  /\ Own(t, Head(queue))
  /\ queue' = Tail(queue)
  /\ Goto(t, "idle")
  /\ UNCHANGED <<offset, array_space_available>>

AllocFails(t) ==
  /\ pc[t] = "pop" /\ queue = <<>>
  /\ Goto(t, "idle")
  /\ UNCHANGED <<offset, array_space_available, queue, owned>>

mg_message_free(t, b) ==
  /\ pc[t] = "idle" /\ b \in owned[t]
  /\ queue' = Append(queue, b)
  /\ owned' = [owned EXCEPT ![t] = @ \ {b}]
  /\ UNCHANGED <<pc, offset, array_space_available>>

Next ==
  \E t \in Thread :
    \/ AllocStart(t) \/ AllocArray(t) \/ AllocPop(t) \/ AllocFails(t)
    \/ \E b \in owned[t] : mg_message_free(t, b)

Spec == Init /\ [][Next]_vars

-----------------------------------------------------------------------------
\* Every variable has its type.
TypeOK ==
  /\ pc \in [Thread -> {"idle", "array", "pop"}]
  /\ offset \in Nat
  /\ array_space_available \in BOOLEAN
  /\ queue \in Seq(Nat)
  /\ owned \in [Thread -> SUBSET Nat]

\* No thread is given memory beyond the array, though several may find the flag
\* set when there is one block left (magnesium.h:239-251).
BlocksInArray ==
  \A t \in Thread : \A b \in owned[t] : b + block_sz <= total_length

\* The blocks of the array that nobody was given.
Fresh == {b \in Block : b >= offset}

\* mg_message_alloc returns NULL only when every block has been given out
\* (README.md:87-88): the flag never gives up the last block.
NullWhenExhausted == [][\A t \in Thread : AllocFails(t) => Fresh = {}]_vars

Pools == INSTANCE BlockPool WITH fresh <- Fresh, freed <- queue

\* The pool implements the one that allocates in one step: no block is given
\* out twice, and none is taken from the queue while the array has one.
ImplementsBlockPool == Pools!Spec
=============================================================================
