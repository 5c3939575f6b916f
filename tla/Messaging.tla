------------------------------ MODULE Messaging ------------------------------
(***************************************************************************)
(* Sending and receiving on top of the kernel: the queues that have one    *)
(* consumer implement the channels of module Channel, in programs that     *)
(* never push to a queue from a context above the one its consumer runs in.*)
(***************************************************************************)
EXTENDS Kernel

\* The queues actor a may wait in or poll, the one given to mg_actor_init included.
Reads(a) == Subscribes[a] \cup ({InitQueue[a]} \ {NULL})

\* The queues that have one reader, which reads no other queue.  The queue of
\* the pool is read by mg_message_alloc as well.
Fifos ==
  {q \in Queue \ {Pool} :
     \E a \in Actor : Reads(a) = {q} /\ \A b \in Actor \ {a} : q \notin Reads(b)}

Reader(q) == CHOOSE a \in Actor : q \in Reads(a)

\* The message that a has been activated with, and has not been called with yet.
InMailbox(a) == IF Activated(a) /\ mailbox[a] # NULL THEN <<mailbox[a]>> ELSE <<>>

\* The message that mg_actor_call has just popped for a.
Popping(x, a) == self[x] = a /\ pc[x] \in {"store", "test"} /\ msg[x] # NULL

Popped(a) ==
  IF \E x \in Ctx : Popping(x, a) THEN <<msg[CHOOSE x \in Ctx : Popping(x, a)]>> ELSE <<>>

Linked(q) == IF length[q] > 0 THEN items[q] ELSE <<>>

\* The messages sent to q and not received yet, the oldest first.
Undelivered(q) == InMailbox(Reader(q)) \o Popped(Reader(q)) \o Linked(q)

Channels == INSTANCE Channel WITH
  Chan <- Fifos,
  chan <- [q \in Fifos |-> Undelivered(q)]

\* The kernel implements the channels: what a queue with one consumer delivers
\* is what was sent, once and in order, though a message passes through the
\* list, the mailbox and a local variable on its way (README.md:97).
ImplementsChannels == Channels!Spec

\* A message that was sent is eventually received by the consumer.
MessageDelivered == Channels!Delivery
=============================================================================
