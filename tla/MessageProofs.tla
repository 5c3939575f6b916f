---------------------------- MODULE MessageProofs ----------------------------
(***************************************************************************)
(* Zero-copy messages: a message has one owner at most, if the loop test of*)
(* mg_actor_call is safe (LoopTestSafe).  In the programs that push to no  *)
(* queue from above it has exactly one, and the queues with one reader are *)
(* channels.                                                               *)
(***************************************************************************)
EXTENDS Messaging, KernelProofs, SequenceTheorems

MessagesIn(list) == NodesIn(list, Message)

\* The message m is in a local variable of x, or in the mailbox of an activated
\* actor.
Local(x, m) == msg[x] = m /\ pc[x] \in {"push", "store", "test", "assert"}
Mailed(a, m) == Activated(a) /\ mailbox[a] = m

\* What owns message m: the array of the pool, a queue, the function of an
\* actor, a context or a mailbox.
OwnedBy(m, k, o) ==
  \/ k = "fresh" /\ o = NULL /\ m \in fresh
  \/ k = "queued" /\ o \in Queue /\ m \in MessagesIn(items[o])
  \/ k = "held" /\ o \in Actor /\ m \in held[o]
  \/ k = "local" /\ o \in Ctx /\ Local(o, m)
  \/ k = "mailbox" /\ o \in Actor /\ Mailed(o, m)

Single(m) ==
  \A k, l, o, p : OwnedBy(m, k, o) /\ OwnedBy(m, l, p) => k = l /\ o = p

\* An actor that will be activated without a message has none in its mailbox.
EmptyMailboxes ==
  \A a \in Actor : a \in uninit \/ (\E c \in CPU : a \in asleep[c]) => mailbox[a] = NULL

\* A popped message that was stored stays in the mailbox, or a context that is late
\* with a store of its own has overwritten it.
StoredMail ==
  \A x \in Ctx : pc[x] = "test" /\ msg[x] # NULL => mailbox[self[x]] \in {NULL, msg[x]}

Ownership ==
  /\ \A m \in Message : Single(m)
  /\ \A q \in Queue : DistinctNodes(items[q], Message)

MessageInv == CustodyInv /\ EmptyMailboxes /\ StoredMail /\ Ownership

(***************************************************************************)
(* A message that stays, and one that moves from owner to owner.           *)
(***************************************************************************)
Gains(m, l, p) ==
  \A k, o : OwnedBy(m, k, o)' => OwnedBy(m, k, o) \/ (k = l /\ o = p)

LEMMA KeepsSingle ==
  ASSUME NEW m, Single(m), Gains(m, "none", NULL) PROVE Single(m)'
  <1>1. \A k, o : OwnedBy(m, k, o)' => OwnedBy(m, k, o)
    BY DEF Gains, OwnedBy
  <1>2. QED  BY <1>1 DEF Single

LEMMA MovesSingle ==
  ASSUME NEW m, Single(m), NEW k, NEW o, NEW l, NEW p,
         OwnedBy(m, k, o), ~OwnedBy(m, k, o)', Gains(m, l, p)
  PROVE  Single(m)'
  BY DEF Single, Gains

\* A step of context x.
LEMMA StepGains ==
  ASSUME NEW x \in Ctx, OthersKept(x), NEW m, NEW l, NEW p,
         m \in fresh' => m \in fresh,
         \A q \in Queue : m \in MessagesIn(items'[q]) =>
           m \in MessagesIn(items[q]) \/ (l = "queued" /\ p = q),
         \A a \in Actor : m \in held'[a] => m \in held[a] \/ (l = "held" /\ p = a),
         Local(x, m)' => Local(x, m) \/ (l = "local" /\ p = x),
         \A a \in Actor : Mailed(a, m)' => Mailed(a, m) \/ (l = "mailbox" /\ p = a)
  PROVE  Gains(m, l, p)
  <1> SUFFICES ASSUME NEW k, NEW o, OwnedBy(m, k, o)'
               PROVE  OwnedBy(m, k, o) \/ (k = l /\ o = p)
    BY DEF Gains
  <1>1. CASE k = "fresh" /\ o = NULL /\ m \in fresh'
    BY <1>1 DEF OwnedBy
  <1>2. CASE k = "queued" /\ o \in Queue /\ m \in MessagesIn(items'[o])
    BY <1>2 DEF OwnedBy
  <1>3. CASE k = "held" /\ o \in Actor /\ m \in held'[o]
    BY <1>3 DEF OwnedBy
  <1>4. CASE k = "local" /\ o \in Ctx /\ Local(o, m)'
    <2>1. CASE o = x  BY <1>4, <2>1 DEF OwnedBy
    <2>2. CASE o # x
      <3>1. Local(o, m)
        BY <1>4, <2>2 DEF OthersKept, Local
      <3>2. QED  BY <1>4, <3>1 DEF OwnedBy
    <2>3. QED  BY <2>1, <2>2
  <1>5. CASE k = "mailbox" /\ o \in Actor /\ Mailed(o, m)'
    BY <1>5 DEF OwnedBy
  <1>6. QED  BY <1>1, <1>2, <1>3, <1>4, <1>5 DEF OwnedBy, MessagesIn, NodesIn

\* An actor becomes activated only when x wakes it or is about to call it, or by
\* being put on a run queue.
Calls(x, a) == pc[x] = "call" /\ self[x] = a

LEMMA ActivatedWhere ==
  ASSUME NEW a \in Actor
  PROVE  /\ Activated(a) <=> \/ Waking(a) # {} \/ Ready(a) # {} \/ \E x \in Ctx : Calls(x, a)
         /\ Activated(a)' <=>
              \/ Waking(a)' # {} \/ Ready(a)' # {} \/ \E x \in Ctx : Calls(x, a)'
  BY DEF Activated, Waking, Ready, Calls, ActorsIn, NodesIn, Positions

LEMMA ActivatedChanges ==
  ASSUME NEW x \in Ctx, OthersKept(x), NEW a \in Actor,
         Ready(a)' # {} => Activated(a), Activated(a)'
  PROVE  Activated(a) \/ Wakes(x, a)' \/ Calls(x, a)'
  <1>1. CASE Waking(a)' # {}
    <2>1. PICK y \in Ctx : Wakes(y, a)'
      BY <1>1 DEF Waking, Wakes
    <2>2. y # x => Wakes(y, a)
      BY <2>1 DEF OthersKept, Wakes
    <2>3. QED  BY <2>1, <2>2, ActivatedWhere DEF Waking, Wakes
  <1>2. CASE \E y \in Ctx : Calls(y, a)'
    BY <1>2, ActivatedWhere DEF OthersKept, Calls
  <1>3. QED  BY <1>1, <1>2, ActivatedWhere

(***************************************************************************)
(* Queue operations.                                                       *)
(***************************************************************************)
LEMMA ActorsOnly ==
  ASSUME NEW s \in Seq(Actor) PROVE MessagesIn(s) = {} /\ DistinctNodes(s, Message)
  <1>1. \A i \in DOMAIN s : s[i] \notin Message
    BY DataAssumption
  <1>2. QED  BY <1>1 DEF MessagesIn, NodesIn, DistinctNodes

\* A queue in which only actors are linked, before and after.
LEMMA SameMessages ==
  ASSUME TypeOK, Ownership, NEW q \in Queue, NEW list, items' = [items EXCEPT ![q] = list],
         items[q] \in Seq(Actor), list \in Seq(Actor)
  PROVE  /\ \A r \in Queue : MessagesIn(items'[r]) = MessagesIn(items[r])
         /\ \A r \in Queue : DistinctNodes(items'[r], Message)
  <1>1. \A r \in Queue : items'[r] = IF r = q THEN list ELSE items[r]
    BY DEF TypeOK
  <1>2. MessagesIn(items[q]) = {} /\ MessagesIn(list) = {} /\ DistinctNodes(list, Message)
    BY ActorsOnly
  <1>3. QED  BY <1>1, <1>2 DEF Ownership

LEMMA PopMessages ==
  ASSUME TypeOK, QueueShape, Ownership, NEW q \in Queue, NEW m, PopMessage(q, m)
  PROVE  /\ m \in Message /\ m \in MessagesIn(items[q])
         /\ \A r \in Queue : MessagesIn(items'[r]) =
              IF r = q THEN MessagesIn(items[q]) \ {m} ELSE MessagesIn(items[r])
         /\ \A r \in Queue : DistinctNodes(items'[r], Message)
  <1>1. length[q] \in Int /\ length[q] > 0
    BY DEF PopMessage, TypeOK
  <1>2. items[q] \in Seq(Message) /\ Len(items[q]) > 0 /\ DistinctNodes(items[q], Message)
    BY <1>1 DEF QueueShape, HasShape, Ownership
  <1>3. m = Head(items[q]) /\ m \in Message
    BY <1>2, TailShape DEF PopMessage
  <1>4. /\ MessagesIn(Tail(items[q])) = MessagesIn(items[q]) \ {m}
        /\ DistinctNodes(Tail(items[q]), Message)
        /\ m \in MessagesIn(items[q])
    BY <1>2, <1>3, TailNodes DEF MessagesIn
  <1>5. \A r \in Queue : items'[r] = IF r = q THEN Tail(items[q]) ELSE items[r]
    BY DEF PopMessage, Dequeue, TypeOK
  <1>6. QED  BY <1>3, <1>4, <1>5 DEF Ownership

LEMMA SubscribeMessages ==
  ASSUME TypeOK, QueueShape, Ownership, NEW q \in Queue, NEW a \in Actor, Subscribe(q, a)
  PROVE  /\ \A r \in Queue : MessagesIn(items'[r]) = MessagesIn(items[r])
         /\ \A r \in Queue : DistinctNodes(items'[r], Message)
  <1>1. length[q] \in Int /\ length[q] <= 0
    BY DEF Subscribe, TypeOK
  <1>2. items[q] \in Seq(Actor)
    <2>1. CASE length[q] < 0  BY <2>1 DEF QueueShape, HasShape
    <2>2. CASE length[q] = 0
      BY <2>2, EmptyList DEF QueueShape, HasShape
    <2>3. QED  BY <1>1, <2>1, <2>2
  <1>3. PICK list : list = Append(items[q], a)
    OBVIOUS
  <1>4. list \in Seq(Actor) /\ items' = [items EXCEPT ![q] = list]
    BY <1>2, <1>3, AppendShape DEF Subscribe, Enqueue, TypeOK
  <1>5. QED  BY <1>2, <1>4, SameMessages

\* mg_queue_push links the message, or puts it in the mailbox of an actor that
\* was waiting.
Handed(x, q, m, b) ==
  /\ q \in Waiting(b)
  /\ mailbox' = [mailbox EXCEPT ![b] = m]
  /\ dest' = [dest EXCEPT ![x] = b]
  /\ pc' = [pc EXCEPT ![x] = "insert"]

LEMMA PushMessages ==
  ASSUME TypeOK, QueueShape, Ownership, NEW x \in Ctx, NEW q \in Queue, NEW m \in Message,
         m \notin MessagesIn(items[q]), mg_queue_push(x, q, m)
  PROVE  /\ \A r \in Queue : DistinctNodes(items'[r], Message)
         /\ \/ /\ Return(x) /\ UNCHANGED <<mailbox, dest>>
               /\ m \in MessagesIn(items'[q])
               /\ \A r \in Queue : MessagesIn(items'[r]) =
                    IF r = q THEN MessagesIn(items[q]) \cup {m} ELSE MessagesIn(items[r])
            \/ /\ \A r \in Queue : MessagesIn(items'[r]) = MessagesIn(items[r])
               /\ \E b \in Actor : Handed(x, q, m, b)
  <1>0. length[q] \in Int
    BY DEF TypeOK
  <1>1. CASE length[q] >= 0 /\ PushLinks(x, q, m)
    <2>1. items[q] \in Seq(Message) /\ DistinctNodes(items[q], Message)
      BY <1>0, <1>1 DEF QueueShape, HasShape, Ownership
    <2>2. /\ MessagesIn(Append(items[q], m)) = MessagesIn(items[q]) \cup {m}
          /\ DistinctNodes(Append(items[q], m), Message)
      BY <2>1, AppendNodes, {m} \cap Message = {m} DEF MessagesIn
    <2>3. \A r \in Queue : items'[r] = IF r = q THEN Append(items[q], m) ELSE items[r]
      BY <1>1 DEF PushLinks, Enqueue, TypeOK
    <2>4. QED  BY <1>1, <2>2, <2>3 DEF PushLinks, Ownership
  <1>2. CASE /\ length[q] < 0
             /\ Dequeue(q)
             /\ mailbox' = [mailbox EXCEPT ![Head(items[q])] = m]
             /\ PushHandsOver(x, q)
    <2>1. items[q] \in Seq(Actor) /\ Len(items[q]) > 0
      BY <1>0, <1>2 DEF QueueShape, HasShape
    <2>2. PICK b \in Actor : b = Head(items[q])
      BY <2>1, TailShape
    <2>3. PICK list : list = Tail(items[q])
      OBVIOUS
    <2>4. list \in Seq(Actor) /\ items' = [items EXCEPT ![q] = list]
      BY <1>2, <2>1, <2>3, TailShape DEF Dequeue
    <2>5. /\ \A r \in Queue : MessagesIn(items'[r]) = MessagesIn(items[r])
          /\ \A r \in Queue : DistinctNodes(items'[r], Message)
      BY <2>1, <2>4, SameMessages
    <2>6. q \in Waiting(b)
      BY <2>1, <2>2 DEF Waiting, ActorsIn, NodesIn
    <2>7. Handed(x, q, m, b)
      BY <1>2, <2>2, <2>6 DEF Handed, PushHandsOver, Goto
    <2>8. QED  BY <2>5, <2>7
  <1>3. QED  BY <1>1, <1>2 DEF mg_queue_push

\* mg_message_alloc takes the message from the array or from the queue.
LEMMA AllocMessages ==
  ASSUME TypeOK, QueueShape, Ownership, NEW m \in Message, mg_message_alloc(m)
  PROVE  /\ \A r \in Queue : DistinctNodes(items'[r], Message)
         /\ fresh' \subseteq fresh
         /\ \A r \in Queue : MessagesIn(items'[r]) \subseteq MessagesIn(items[r])
         /\ \/ OwnedBy(m, "fresh", NULL) /\ ~OwnedBy(m, "fresh", NULL)'
            \/ OwnedBy(m, "queued", Pool) /\ ~OwnedBy(m, "queued", Pool)'
  <1>1. CASE m \in fresh /\ fresh' = fresh \ {m} /\ UNCHANGED <<items, length>>
    BY <1>1 DEF Ownership, OwnedBy
  <1>2. CASE PopMessage(Pool, m) /\ UNCHANGED fresh
    <2>1. /\ m \in MessagesIn(items[Pool]) /\ m \notin MessagesIn(items'[Pool])
          /\ \A r \in Queue : MessagesIn(items'[r]) \subseteq MessagesIn(items[r])
          /\ \A r \in Queue : DistinctNodes(items'[r], Message)
      BY <1>2, PopMessages, DataAssumption
    <2>2. OwnedBy(m, "queued", Pool) /\ ~OwnedBy(m, "queued", Pool)'
      BY <2>1, DataAssumption DEF OwnedBy, MessagesIn, NodesIn
    <2>3. QED  BY <1>2, <2>1, <2>2
  <1>3. QED  BY <1>1, <1>2 DEF mg_message_alloc

(***************************************************************************)
(* Steps that pass no message on.                                          *)
(***************************************************************************)
LEMMA QuietStep ==
  ASSUME MessageInv, NEW x \in Ctx, OthersKept(x), UNCHANGED <<fresh, held>>,
         \A r \in Queue : MessagesIn(items'[r]) \subseteq MessagesIn(items[r]),
         \A r \in Queue : DistinctNodes(items'[r], Message),
         \A m \in Message : Local(x, m)' => Local(x, m),
         \A a \in Actor : Activated(a)' =>
           \/ Activated(a) /\ mailbox'[a] = mailbox[a]
           \/ mailbox'[a] = NULL
  PROVE  Ownership'
  <1>1. ASSUME NEW m \in Message PROVE Single(m)'
    <2>1. \A a \in Actor : Mailed(a, m)' => Mailed(a, m)
      BY DataAssumption DEF Mailed
    <2>2. Gains(m, "none", NULL)
      BY <2>1, StepGains
    <2>3. QED  BY <2>2, KeepsSingle DEF MessageInv, Ownership
  <1>2. QED  BY <1>1 DEF Ownership

\* The common case: the lists and the mailboxes stay as they are.
LEMMA IdleStep ==
  ASSUME MessageInv, NEW x \in Ctx, OthersKept(x), UNCHANGED <<fresh, held, items, mailbox>>,
         \A a \in Actor : Ready(a)' # {} => Activated(a),
         \A a \in Actor : Wakes(x, a)' \/ Calls(x, a)' => Activated(a) \/ mailbox[a] = NULL,
         pc'[x] \notin {"push", "store", "test", "assert"}
  PROVE  Ownership'
  <1>1. \A a \in Actor : Activated(a)' => Activated(a) \/ mailbox[a] = NULL
    BY ActivatedChanges
  <1>2. \A m \in Message : ~Local(x, m)'
    BY DEF Local
  <1>3. \A r \in Queue : DistinctNodes(items'[r], Message)
    BY DEF MessageInv, Ownership
  <1>4. QED  BY <1>1, <1>2, <1>3, QuietStep

LEMMA ReadyKept ==
  ASSUME UNCHANGED runq, NEW a \in Actor PROVE Ready(a)' = Ready(a) /\ (Ready(a)' # {} => Activated(a))
  BY ActivatedWhere DEF Ready, ActorsIn, NodesIn

LEMMA TickMessages ==
  ASSUME MessageInv, NEW x \in Ctx, TickStart(x) \/ TickWake(x) \/ TickEnd(x)
  PROVE  Ownership'
  <1> USE DEF MessageInv, CustodyInv, KernelInv
  <1>1. OthersKept(x) /\ UNCHANGED <<fresh, held, items, mailbox, runq>>
    BY DEF OthersKept, TypeOK, TickStart, TickWake, TickEnd, Enter, Exit, Goto, queues
  <1>2. CASE TickStart(x) \/ TickEnd(x)
    <2>1. pc'[x] \in {"tick", "idle"}
      BY <1>2 DEF TypeOK, TickStart, TickEnd, Enter, Exit, Goto
    <2>2. QED  BY <1>1, <2>1, ReadyKept, IdleStep DEF Wakes, Calls
  <1>3. CASE TickWake(x)
    <2>1. PICK a \in due[x] : dest' = [dest EXCEPT ![x] = a]
      BY <1>3 DEF TickWake
    <2>2. a \in Actor /\ x[1] \in CPU /\ a \in asleep[x[1]] /\ mailbox[a] = NULL
      BY <2>1 DEF TypeOK, DueOK, EmptyMailboxes, Ctx
    <2>3. pc'[x] = "insert" /\ dest'[x] = a
      BY <1>3, <2>1 DEF TickWake, TypeOK, Goto
    <2>4. QED  BY <1>1, <2>2, <2>3, ReadyKept, IdleStep DEF Wakes, Calls
  <1>4. QED  BY <1>2, <1>3

LEMMA ActivateMessages ==
  ASSUME MessageInv, NEW x \in Ctx, Insert(x) \/ Request(x) PROVE Ownership'
  <1> USE DEF MessageInv, CustodyInv, KernelInv
  <1>1. CASE Insert(x)
    <2>1. OthersKept(x) /\ UNCHANGED <<fresh, held, items, mailbox>> /\ pc'[x] = "request"
      BY <1>1 DEF OthersKept, TypeOK, Insert, Goto, queues
    <2>2. PICK b \in Actor : b = dest[x]
      BY <1>1 DEF Insert, At, ControlOK
    <2>3. Ready(b) = {} /\ mg_actor_insert(b) /\ Activated(b)
      BY <1>1, <2>2, NotReady DEF Insert, At, Activated
    <2>4. \A a \in Actor \ {b} : Ready(a)' = Ready(a)
      BY <2>3, InsertPlaces
    <2>5. \A a \in Actor : Ready(a)' # {} => Activated(a)
      BY <2>3, <2>4, ActivatedWhere
    <2>6. QED  BY <2>1, <2>5, IdleStep DEF Wakes, Calls
  <1>2. CASE Request(x)
    <2>1. OthersKept(x) /\ UNCHANGED <<fresh, held, items, mailbox, runq>>
      BY <1>2 DEF OthersKept, TypeOK, Request, Return, Exit, Goto, queues
    <2>2. pc'[x] \in {"idle", "tick", "run"}
      BY <1>2 DEF TypeOK, Request, Return, Exit, Goto
    <2>3. QED  BY <2>1, <2>2, ReadyKept, IdleStep DEF Wakes, Calls
  <1>3. QED  BY <1>1, <1>2

LEMMA ScheduleMessages ==
  ASSUME MessageInv, NEW x \in Ctx, PopHead(x) \/ PopHeadEmpty(x) \/ Leave(x)
  PROVE  Ownership'
  <1> USE DEF MessageInv, CustodyInv, KernelInv
  <1>1. CASE PopHead(x)
    <2>1. OthersKept(x) /\ UNCHANGED <<fresh, held, items, mailbox>>
      BY <1>1 DEF OthersKept, TypeOK, PopHead, Goto, queues
    <2>2. PICK b \in Actor : b = Head(runq[x]) /\ x \in Ready(b)
      BY <1>1, PopHeadReady
    <2>3. Activated(b) /\ \A a \in Actor : Ready(a)' # {} => Activated(a)
      BY <1>1, <2>2, PopHeadReady, ActivatedWhere
    <2>4. pc'[x] = "call" /\ self'[x] = b
      BY <1>1, <2>2 DEF PopHead, TypeOK, Goto
    <2>5. QED  BY <2>1, <2>3, <2>4, IdleStep DEF Wakes, Calls
  <1>2. CASE PopHeadEmpty(x) \/ Leave(x)
    <2>1. /\ OthersKept(x) /\ UNCHANGED <<fresh, held, items, mailbox, runq>>
          /\ pc'[x] \in {"leave", "idle"}
      BY <1>2 DEF OthersKept, TypeOK, PopHeadEmpty, Leave, Exit, Goto, queues
    <2>2. QED  BY <2>1, ReadyKept, IdleStep DEF Wakes, Calls
  <1>3. QED  BY <1>1, <1>2

LEMMA EnterVectorMessages ==
  ASSUME MessageInv, NEW c \in CPU, NEW v \in Vector, EnterVector(c, v) PROVE Ownership'
  <1> USE DEF MessageInv, CustodyInv, KernelInv
  <1>0. <<c, vect2prio[v]>> \in Ctx
    BY ContextAssumption DEF Ctx, Level, Prio
  <1>1. PICK x \in Ctx : x = <<c, vect2prio[v]>>
    BY <1>0
  <1>2. OthersKept(x) /\ UNCHANGED <<fresh, held, items, mailbox, runq>> /\ pc'[x] = "sched"
    BY <1>1 DEF EnterVector, OthersKept, TypeOK, Enter, Goto, queues
  <1>3. QED  BY <1>2, ReadyKept, IdleStep DEF Wakes, Calls

LEMMA InitCallMessages ==
  ASSUME MessageInv, NEW a \in Actor, InitCall(a) PROVE Ownership'
  <1> USE MainIsContext DEF MessageInv, CustodyInv, KernelInv
  <1>1. OthersKept(Main) /\ UNCHANGED <<fresh, held, items, mailbox, runq>>
    BY DEF InitCall, OthersKept, TypeOK, Enter, Goto, queues
  <1>2. pc'[Main] = "call" /\ self'[Main] = a /\ mailbox[a] = NULL
    BY DEF InitCall, TypeOK, Enter, Goto, EmptyMailboxes
  <1>3. QED  BY <1>1, <1>2, ReadyKept, IdleStep DEF Wakes, Calls

LEMMA FnMoveMessages ==
  ASSUME MessageInv, NEW x \in Ctx, FnMove(x) PROVE Ownership'
  <1> USE DEF MessageInv, CustodyInv, KernelInv
  <1>1. OthersKept(x) /\ UNCHANGED <<fresh, held, items, mailbox, runq>> /\ pc'[x] = "run"
    BY DEF FnMove, KernelCall, At, OthersKept, queues
  <1>2. QED  BY <1>1, ReadyKept, IdleStep DEF Wakes, Calls

\* An actor that suspends itself leaves its mailbox empty.
LEMMA SuspendMessages ==
  ASSUME MessageInv, NEW x \in Ctx, ReturnYield(x) \/ ReturnSleep(x) PROVE Ownership'
  <1> USE DEF MessageInv, CustodyInv, KernelInv
  <1>1. PICK b \in Actor : b = self[x] /\ Ready(b) = {}
    BY NotReady DEF ReturnYield, ReturnSleep
  <1>2. /\ OthersKept(x) /\ UNCHANGED <<fresh, held, items>>
        /\ pc'[x] \in {"idle", "sched"} /\ mailbox' = [mailbox EXCEPT ![b] = NULL]
    BY <1>1 DEF ReturnYield, ReturnSleep, EndActorCall, Exit, Goto, OthersKept, TypeOK, queues
  <1>3. \A a \in Actor \ {b} : Ready(a)' = Ready(a)
    <2>1. CASE ReturnYield(x)
      BY <1>1, <2>1, InsertPlaces DEF ReturnYield
    <2>2. CASE ReturnSleep(x)
      BY <2>2, ReadyKept DEF ReturnSleep
    <2>3. QED  BY <2>1, <2>2
  <1>4. \A a \in Actor \ {b} : Activated(a)' => Activated(a)
    <2>1. ASSUME NEW a \in Actor \ {b}, Activated(a)' PROVE Activated(a)
      <3>1. Ready(a)' # {} => Activated(a)
        BY <1>3, ActivatedWhere
      <3>2. QED  BY <1>2, <2>1, <3>1, ActivatedChanges DEF Wakes, Calls
    <2>2. QED  BY <2>1
  <1>5. mailbox'[b] = NULL /\ \A a \in Actor \ {b} : mailbox'[a] = mailbox[a]
    BY <1>2 DEF TypeOK
  <1>6. \A m \in Message : ~Local(x, m)'
    BY <1>2 DEF Local
  <1>7. \A r \in Queue : DistinctNodes(items'[r], Message)
    BY <1>2 DEF Ownership
  <1>8. QED  BY <1>2, <1>4, <1>5, <1>6, <1>7, QuietStep

(***************************************************************************)
(* Steps that pass a message on.                                           *)
(***************************************************************************)
LEMMA MoveStep ==
  ASSUME MessageInv, NEW x \in Ctx, OthersKept(x),
         NEW m \in Message, NEW k, NEW o, NEW l, NEW p,
         OwnedBy(m, k, o), ~OwnedBy(m, k, o)', fresh' \subseteq fresh,
         \A n \in Message, q \in Queue : n \in MessagesIn(items'[q]) =>
           n \in MessagesIn(items[q]) \/ (n = m /\ l = "queued" /\ p = q),
         \A n \in Message, a \in Actor : n \in held'[a] =>
           n \in held[a] \/ (n = m /\ l = "held" /\ p = a),
         \A n \in Message : Local(x, n)' =>
           Local(x, n) \/ (n = m /\ l = "local" /\ p = x),
         \A n \in Message, a \in Actor : Mailed(a, n)' =>
           Mailed(a, n) \/ (n = m /\ l = "mailbox" /\ p = a),
         \A r \in Queue : DistinctNodes(items'[r], Message)
  PROVE  Ownership'
  <1>1. Gains(m, l, p)
    BY StepGains
  <1>2. Single(m)'
    BY <1>1, MovesSingle DEF MessageInv, Ownership
  <1>3. ASSUME NEW n \in Message \ {m} PROVE Single(n)'
    <2>1. Gains(n, "none", NULL)
      BY StepGains
    <2>2. QED  BY <2>1, KeepsSingle DEF MessageInv, Ownership
  <1>4. QED  BY <1>2, <1>3 DEF Ownership

\* No actor is activated and no mailbox changes.
LEMMA MailKept ==
  ASSUME NEW x \in Ctx, OthersKept(x), UNCHANGED <<runq, mailbox>>, pc'[x] \notin {"insert", "call"},
         NEW a \in Actor
  PROVE  \A n : Mailed(a, n)' => Mailed(a, n)
  BY ReadyKept, ActivatedChanges DEF Mailed, Wakes, Calls

LEMMA ProduceAllocMessages ==
  ASSUME MessageInv, NEW x \in Ctx, ProduceAlloc(x) PROVE Ownership'
  <1> USE DEF MessageInv, CustodyInv, KernelInv
  <1>1. PICK m \in Message : mg_message_alloc(m) /\ msg' = [msg EXCEPT ![x] = m]
    BY DEF ProduceAlloc
  <1>2. /\ OthersKept(x) /\ UNCHANGED <<held, mailbox, runq>>
        /\ pc'[x] = "push" /\ msg'[x] = m
    BY <1>1 DEF ProduceAlloc, OthersKept, TypeOK, Enter, Goto
  <1>3. \A n \in Message : Local(x, n)' => n = m
    BY <1>2 DEF Local
  <1>4. \A n \in Message, a \in Actor : Mailed(a, n)' => Mailed(a, n)
    BY <1>2, MailKept
  <1>5. PICK k, o : OwnedBy(m, k, o) /\ ~OwnedBy(m, k, o)'
    BY <1>1, AllocMessages
  <1>6. QED  BY <1>1, <1>2, <1>3, <1>4, <1>5, AllocMessages, MoveStep

LEMMA InitSubscribeMessages ==
  ASSUME MessageInv, NEW a \in Actor, InitSubscribe(a) PROVE Ownership'
  <1> USE MainIsContext, ActorAssumption, DataAssumption DEF MessageInv, CustodyInv, KernelInv
  <1>1. PICK q \in Queue : q = InitQueue[a]
    BY DEF InitSubscribe
  <1>2. UNCHANGED <<fresh, held, mailbox, runq>>
    BY DEF InitSubscribe
  <1>3. CASE Subscribe(q, a) /\ UNCHANGED frame
    <2>1. /\ OthersKept(Main) /\ \A m \in Message : Local(Main, m)' => Local(Main, m)
      BY <1>3 DEF frame, OthersKept, Local
    <2>2. \A b \in Actor : Activated(b)' => Activated(b)
      BY <1>2, <1>3 DEF frame, Activated
    <2>3. QED  BY <1>2, <1>3, <2>1, <2>2, SubscribeMessages, QuietStep
  <1>4. CASE \E m \in Message :
               /\ PopMessage(q, m)
               /\ Enter(Main, "init", "assert")
               /\ self' = [self EXCEPT ![Main] = a]
               /\ msg' = [msg EXCEPT ![Main] = m]
               /\ UNCHANGED <<dest, due, budget>>
    <2>1. PICK m \in Message :
               /\ PopMessage(q, m)
               /\ Enter(Main, "init", "assert")
               /\ self' = [self EXCEPT ![Main] = a]
               /\ msg' = [msg EXCEPT ![Main] = m]
               /\ UNCHANGED <<dest, due, budget>>
      BY <1>4
    <2>2. OthersKept(Main) /\ pc'[Main] = "assert" /\ msg'[Main] = m
      BY <2>1 DEF OthersKept, TypeOK, Enter, Goto
    <2>3. \A n \in Message : Local(Main, n)' => n = m
      BY <2>2 DEF Local
    <2>4. \A n \in Message, b \in Actor : Mailed(b, n)' => Mailed(b, n)
      BY <1>2, <2>2, MailKept
    <2>5. /\ \A r \in Queue : MessagesIn(items'[r]) \subseteq MessagesIn(items[r])
          /\ \A r \in Queue : DistinctNodes(items'[r], Message)
          /\ m \in MessagesIn(items[q]) /\ m \notin MessagesIn(items'[q])
      <3>1. /\ m \in MessagesIn(items[q])
            /\ \A r \in Queue : MessagesIn(items'[r]) =
                 IF r = q THEN MessagesIn(items[q]) \ {m} ELSE MessagesIn(items[r])
            /\ \A r \in Queue : DistinctNodes(items'[r], Message)
        BY <2>1, PopMessages
      <3>2. QED  BY <3>1
    <2>6. OwnedBy(m, "queued", q) /\ ~OwnedBy(m, "queued", q)'
      BY <2>5 DEF OwnedBy, MessagesIn, NodesIn
    <2>7. QED  BY <1>2, <2>2, <2>3, <2>4, <2>5, <2>6, MoveStep
  <1>5. QED  BY <1>1, <1>3, <1>4 DEF InitSubscribe

\* mg_queue_push, called with a message that x owns and then owns no more.
LEMMA PushOwnership ==
  ASSUME MessageInv, NEW x \in Ctx, NEW q \in Queue, NEW m \in Message,
         mg_queue_push(x, q, m), OthersKept(x), UNCHANGED <<runq, fresh>>,
         pc[x] \in {"push", "run"},
         \/ /\ Local(x, m) /\ msg'[x] = NULL /\ UNCHANGED held
         \/ /\ UNCHANGED msg
            /\ \E b \in Actor : m \in held[b] /\ held' = [held EXCEPT ![b] = @ \ {m}]
  PROVE  Ownership'
  <1> USE DEF MessageInv, CustodyInv, KernelInv
  <1>1. PICK k, o : OwnedBy(m, k, o) /\ ~OwnedBy(m, k, o)' /\ k # "queued"
    <2>1. CASE Local(x, m) /\ msg'[x] = NULL
      <3>1. OwnedBy(m, "local", x) /\ ~OwnedBy(m, "local", x)'
        BY <2>1, DataAssumption DEF OwnedBy, Local
      <3>2. QED  BY <3>1
    <2>2. CASE \E b \in Actor : m \in held[b] /\ held' = [held EXCEPT ![b] = @ \ {m}]
      <3>1. PICK b \in Actor : m \in held[b] /\ held' = [held EXCEPT ![b] = @ \ {m}]
        BY <2>2
      <3>2. OwnedBy(m, "held", b) /\ ~OwnedBy(m, "held", b)'
        BY <3>1 DEF OwnedBy, TypeOK
      <3>3. QED  BY <3>2
    <2>3. QED  BY <2>1, <2>2
  <1>2. m \notin MessagesIn(items[q])
    BY <1>1 DEF Ownership, Single, OwnedBy
  <1>3. \A n \in Message, a \in Actor : n \in held'[a] => n \in held[a]
    <2>1. CASE UNCHANGED held
      BY <2>1
    <2>2. CASE \E b \in Actor : held' = [held EXCEPT ![b] = @ \ {m}]
      BY <2>2 DEF TypeOK
    <2>3. QED  BY <2>1, <2>2
  <1>4. pc'[x] \in {"idle", "run", "insert"} /\ \A n \in Message : ~Local(x, n)'
    BY PushControl DEF Local
  <1>5. CASE /\ Return(x) /\ UNCHANGED <<mailbox, dest>>
             /\ \A r \in Queue : MessagesIn(items'[r]) =
                  IF r = q THEN MessagesIn(items[q]) \cup {m} ELSE MessagesIn(items[r])
    <2>1. pc'[x] # "insert"
      BY <1>5 DEF Return, Exit, Goto, TypeOK
    <2>2. \A n \in Message, a \in Actor : Mailed(a, n)' => Mailed(a, n)
      BY <1>4, <1>5, <2>1, MailKept
    <2>3. \A n \in Message, r \in Queue :
            n \in MessagesIn(items'[r]) => n \in MessagesIn(items[r]) \/ (n = m /\ q = r)
      BY <1>5
    <2> DEFINE l == "queued"
    <2>4. /\ \A n \in Message, r \in Queue : n \in MessagesIn(items'[r]) =>
               n \in MessagesIn(items[r]) \/ (n = m /\ l = "queued" /\ q = r)
          /\ \A r \in Queue : DistinctNodes(items'[r], Message)
      BY <1>2, <2>3, PushMessages
    <2> HIDE DEF l
    <2>5. QED  BY <1>1, <1>3, <1>4, <2>2, <2>4, MoveStep
  <1>6. CASE /\ \A r \in Queue : MessagesIn(items'[r]) = MessagesIn(items[r])
             /\ \E b \in Actor : Handed(x, q, m, b)
    <2>1. PICK b \in Actor : Handed(x, q, m, b)
      BY <1>6
    <2>2. /\ pc'[x] = "insert" /\ dest'[x] = b
          /\ \A a \in Actor : mailbox'[a] = IF a = b THEN m ELSE mailbox[a]
      BY <2>1 DEF Handed, TypeOK
    <2> DEFINE l == "mailbox"
    <2>3. \A n \in Message, a \in Actor : Mailed(a, n)' =>
            Mailed(a, n) \/ (n = m /\ l = "mailbox" /\ b = a)
      <3>1. SUFFICES ASSUME NEW n \in Message, NEW a \in Actor, Mailed(a, n)'
                     PROVE  Mailed(a, n) \/ (n = m /\ b = a)
        OBVIOUS
      <3>2. CASE a = b
        BY <2>2, <3>1, <3>2 DEF Mailed
      <3>3. CASE a # b
        <4>1. Activated(a)
          BY <2>2, <3>1, <3>3, ReadyKept, ActivatedChanges DEF Mailed, Wakes, Calls
        <4>2. QED  BY <2>2, <3>1, <3>3, <4>1 DEF Mailed
      <3>4. QED  BY <3>2, <3>3
    <2> HIDE DEF l
    <2>4. \A r \in Queue : DistinctNodes(items'[r], Message)
      BY <1>2, PushMessages
    <2>5. QED  BY <1>1, <1>3, <1>4, <1>6, <2>3, <2>4, MoveStep
  <1>7. QED  BY <1>2, <1>5, <1>6, PushMessages

LEMMA ProducePushMessages ==
  ASSUME MessageInv, NEW x \in Ctx, ProducePush(x) PROVE Ownership'
  <1> USE DEF MessageInv, CustodyInv, KernelInv
  <1>1. PICK q \in ProducerTargets : mg_queue_push(x, q, msg[x])
    BY DEF ProducePush
  <1>2. q \in Queue /\ pc[x] = "push" /\ msg[x] \in Message /\ Local(x, msg[x])
    BY DataAssumption DEF ProducePush, At, ControlOK, Local
  <1>3. msg'[x] = NULL /\ UNCHANGED <<held, runq, fresh>>
    BY <1>1 DEF ProducePush, TypeOK, mg_queue_push
  <1>4. OthersKept(x)
    BY <1>1, <1>2, PushControl DEF ProducePush, OthersKept, TypeOK
  <1>5. QED  BY <1>1, <1>2, <1>3, <1>4, PushOwnership

LEMMA FnPushMessages ==
  ASSUME MessageInv, NEW x \in Ctx, FnPush(x) PROVE Ownership'
  <1> USE DEF MessageInv, CustodyInv, KernelInv
  <1>1. pc[x] = "run" /\ self[x] \in Actor
    BY DEF FnPush, KernelCall, At, ControlOK
  <1>2. PICK q \in Targets[self[x]], m \in held[self[x]] :
          mg_queue_push(x, q, m) /\ held' = [held EXCEPT ![self[x]] = @ \ {m}]
    BY DEF FnPush
  <1>3. q \in Queue /\ m \in Message
    BY <1>1, <1>2, ActorAssumption DEF TypeOK
  <1>4. UNCHANGED <<msg, runq, fresh>>
    BY <1>2 DEF FnPush, mg_queue_push
  <1>5. OthersKept(x)
    BY <1>1, <1>2, <1>3, PushControl DEF FnPush, OthersKept
  <1>6. QED  BY <1>1, <1>2, <1>3, <1>4, <1>5, PushOwnership

\* An actor whose function has been called is not activated any more.
LEMMA Deactivated ==
  ASSUME CustodyInv, NEW x \in Ctx, OthersKept(x), NEW a \in Actor, Owns(x, a),
         UNCHANGED runq, pc'[x] \notin {"insert", "call"}
  PROVE  ~Activated(a)'
  <1>1. IsIn(a, {x}, {}, {}, {}, {}, {})
    BY OnlyPlace DEF CustodyInv, Custody, Running
  <1>2. Waking(a)' = {}
    BY <1>1 DEF IsIn, OthersKept, Waking
  <1>3. Ready(a)' = {}
    BY <1>1, ReadyKept DEF IsIn
  <1>4. \A y \in Ctx : ~Calls(y, a)'
    <2>1. \A y \in Ctx \ {x} : ~Calls(y, a)
      BY <1>1 DEF IsIn, Running, Owns, Closing, Calls
    <2>2. QED  BY <2>1 DEF OthersKept, Calls
  <1>5. QED  BY <1>2, <1>3, <1>4, ActivatedWhere

LEMMA CallMessages ==
  ASSUME MessageInv, NEW x \in Ctx, Call(x) PROVE Ownership'
  <1> USE DEF MessageInv, CustodyInv, KernelInv
  <1>1. PICK a \in Actor : a = self[x] /\ pc[x] = "call"
    BY DEF Call, At, ControlOK
  <1>2. /\ OthersKept(x) /\ UNCHANGED <<fresh, items, mailbox, runq>> /\ pc'[x] = "run"
        /\ held' = [held EXCEPT ![a] = @ \cup ({mailbox[a]} \ {NULL})]
    BY <1>1 DEF Call, OthersKept, TypeOK, Goto, queues
  <1>3. \A n \in Message, b \in Actor : Mailed(b, n)' => Mailed(b, n)
    BY <1>2, MailKept
  <1>4. \A n \in Message : ~Local(x, n)'
    BY <1>2 DEF Local
  <1>5. \A r \in Queue : DistinctNodes(items'[r], Message)
    BY <1>2 DEF Ownership
  <1>6. CASE mailbox[a] = NULL
    <2>1. held' = held
      BY <1>2, <1>6 DEF TypeOK
    <2>2. \A b \in Actor : Activated(b)' => Activated(b)
      BY <1>2, ReadyKept, ActivatedChanges DEF Wakes, Calls
    <2>3. QED  BY <1>2, <1>4, <1>5, <2>1, <2>2, QuietStep
  <1>7. CASE mailbox[a] # NULL
    <2>1. PICK m \in Message : m = mailbox[a]
      BY <1>7 DEF TypeOK
    <2>2. Mailed(a, m)
      BY <1>1, <2>1, ActivatedWhere DEF Mailed, Calls
    <2>3. ~Mailed(a, m)'
      BY <1>1, <1>2, Deactivated DEF Mailed, Owns, Closing
    <2>4. OwnedBy(m, "mailbox", a) /\ ~OwnedBy(m, "mailbox", a)'
      BY <2>2, <2>3 DEF OwnedBy
    <2> DEFINE l == "held"
    <2>5. \A n \in Message, b \in Actor : n \in held'[b] =>
            n \in held[b] \/ (n = m /\ l = "held" /\ b = a)
      BY <1>2, <2>1 DEF TypeOK
    <2> HIDE DEF l
    <2>6. QED  BY <1>2, <1>3, <1>4, <1>5, <2>4, <2>5, MoveStep
  <1>8. QED  BY <1>6, <1>7

\* The function of the actor obtains a message from the pool or from a queue.
LEMMA FnGetMessages ==
  ASSUME MessageInv, NEW x \in Ctx, FnAlloc(x) \/ FnPoll(x) PROVE Ownership'
  <1> USE DEF MessageInv, CustodyInv, KernelInv
  <1>1. PICK a \in Actor : a = self[x] /\ pc[x] = "run"
    BY DEF FnAlloc, FnPoll, KernelCall, At, ControlOK
  <1>2. OthersKept(x) /\ UNCHANGED <<mailbox, runq>> /\ pc'[x] = "run"
    BY <1>1 DEF FnAlloc, FnPoll, OthersKept
  <1>3. PICK m \in Message : /\ held' = [held EXCEPT ![a] = @ \cup {m}]
                             /\ \/ mg_message_alloc(m)
                                \/ \E q \in Queue : PopMessage(q, m) /\ UNCHANGED fresh
    <2>1. Subscribes[a] \subseteq Queue
      BY ActorAssumption
    <2>2. QED  BY <1>1, <2>1 DEF FnAlloc, FnPoll
  <1>4. /\ \A r \in Queue : DistinctNodes(items'[r], Message)
        /\ fresh' \subseteq fresh
        /\ \A r \in Queue : MessagesIn(items'[r]) \subseteq MessagesIn(items[r])
        /\ \E k, o : OwnedBy(m, k, o) /\ ~OwnedBy(m, k, o)'
    <2>1. CASE mg_message_alloc(m)
      BY <2>1, AllocMessages
    <2>2. CASE \E q \in Queue : PopMessage(q, m) /\ UNCHANGED fresh
      <3>1. PICK q \in Queue : PopMessage(q, m) /\ UNCHANGED fresh
        BY <2>2
      <3>2. /\ m \in MessagesIn(items[q])
            /\ \A r \in Queue : MessagesIn(items'[r]) =
                 IF r = q THEN MessagesIn(items[q]) \ {m} ELSE MessagesIn(items[r])
            /\ \A r \in Queue : DistinctNodes(items'[r], Message)
        BY <3>1, PopMessages
      <3>3. OwnedBy(m, "queued", q) /\ ~OwnedBy(m, "queued", q)'
        BY <3>2 DEF OwnedBy, MessagesIn, NodesIn
      <3>4. QED  BY <3>1, <3>2, <3>3
    <2>3. QED  BY <1>3, <2>1, <2>2
  <1>5. PICK k, o : OwnedBy(m, k, o) /\ ~OwnedBy(m, k, o)'
    BY <1>4
  <1>6. \A n \in Message, b \in Actor : Mailed(b, n)' => Mailed(b, n)
    BY <1>2, MailKept
  <1>7. \A n \in Message : ~Local(x, n)'
    BY <1>2 DEF Local
  <1> DEFINE l == "held"
  <1>8. \A n \in Message, b \in Actor : n \in held'[b] =>
          n \in held[b] \/ (n = m /\ l = "held" /\ b = a)
    BY <1>3 DEF TypeOK
  <1> HIDE DEF l
  <1>9. QED  BY <1>2, <1>4, <1>5, <1>6, <1>7, <1>8, MoveStep

LEMMA ReturnQueueMessages ==
  ASSUME MessageInv, NEW x \in Ctx, ReturnQueue(x) PROVE Ownership'
  <1> USE DEF MessageInv, CustodyInv, KernelInv
  <1>1. PICK a \in Actor : a = self[x] /\ pc[x] = "run"
    BY DEF ReturnQueue, At, ControlOK
  <1>2. PICK q \in Queue :
          \/ Subscribe(q, a) /\ msg' = [msg EXCEPT ![x] = NULL]
          \/ \E m \in Message : PopMessage(q, m) /\ msg' = [msg EXCEPT ![x] = m]
    <2>1. Subscribes[a] \subseteq Queue
      BY ActorAssumption
    <2>2. QED  BY <1>1, <2>1 DEF ReturnQueue
  <1>3. OthersKept(x) /\ UNCHANGED <<fresh, held, mailbox, runq>> /\ pc'[x] = "store"
    <2>1. \A y \in Ctx \ {x} : msg'[y] = msg[y]
      BY <1>2 DEF TypeOK
    <2>2. QED  BY <2>1 DEF ReturnQueue, OthersKept, TypeOK, Goto
  <1>4. \A n \in Message, b \in Actor : Mailed(b, n)' => Mailed(b, n)
    BY <1>3, MailKept
  <1>5. CASE Subscribe(q, a) /\ msg' = [msg EXCEPT ![x] = NULL]
    <2>1. \A n \in Message : ~Local(x, n)'
      BY <1>5, DataAssumption DEF Local, TypeOK
    <2>2. \A b \in Actor : Activated(b)' => Activated(b)
      BY <1>3, ReadyKept, ActivatedChanges DEF Wakes, Calls
    <2>3. QED  BY <1>3, <1>5, <2>1, <2>2, SubscribeMessages, QuietStep
  <1>6. CASE \E m \in Message : PopMessage(q, m) /\ msg' = [msg EXCEPT ![x] = m]
    <2>1. PICK m \in Message : PopMessage(q, m) /\ msg' = [msg EXCEPT ![x] = m]
      BY <1>6
    <2>2. \A n \in Message : Local(x, n)' => n = m
      BY <2>1 DEF Local, TypeOK
    <2>3. /\ m \in MessagesIn(items[q])
          /\ \A r \in Queue : MessagesIn(items'[r]) =
               IF r = q THEN MessagesIn(items[q]) \ {m} ELSE MessagesIn(items[r])
          /\ \A r \in Queue : DistinctNodes(items'[r], Message)
      BY <2>1, PopMessages
    <2>4. OwnedBy(m, "queued", q) /\ ~OwnedBy(m, "queued", q)'
      BY <2>3 DEF OwnedBy, MessagesIn, NodesIn
    <2>5. \A r \in Queue : MessagesIn(items'[r]) \subseteq MessagesIn(items[r])
      BY <2>3
    <2>6. QED  BY <1>3, <1>4, <2>2, <2>3, <2>4, <2>5, MoveStep
  <1>7. QED  BY <1>2, <1>5, <1>6

\* The message that is stored is still the one in the local variable.
LEMMA StoreMessages ==
  ASSUME MessageInv, NEW x \in Ctx, Store(x) PROVE Ownership'
  <1> USE DEF MessageInv, CustodyInv, KernelInv
  <1>1. PICK a \in Actor : a = self[x] /\ pc[x] = "store"
    BY DEF Store, At, ControlOK
  <1>2. /\ OthersKept(x) /\ UNCHANGED <<fresh, held, items, runq, msg>>
        /\ \A b \in Actor : mailbox'[b] = IF b = a THEN msg[x] ELSE mailbox[b]
        /\ pc'[x] = "test"
    BY <1>1 DEF Store, Goto, OthersKept, TypeOK, queues
  <1>3. \A n \in Message : Local(x, n)' => Local(x, n)
    BY <1>1, <1>2 DEF Local
  <1>4. \A r \in Queue : DistinctNodes(items'[r], Message)
    BY <1>2 DEF Ownership
  <1>5. \A b \in Actor : Activated(b)' => Activated(b)
    BY <1>2, ReadyKept, ActivatedChanges DEF Wakes, Calls
  <1>6. msg[x] # NULL => ~Activated(a)'
    BY <1>1, <1>2, Deactivated DEF Owns, Closing
  <1>7. QED  BY <1>1, <1>2, <1>3, <1>4, <1>5, <1>6, QuietStep

\* The function is called with it next, unless the mailbox has been overwritten.
LEMMA LoopTestMessages ==
  ASSUME MessageInv, TestSound, NEW x \in Ctx, LoopTest(x) PROVE Ownership'
  <1> USE DEF MessageInv, CustodyInv, KernelInv
  <1>1. PICK a \in Actor : a = self[x] /\ pc[x] = "test"
    BY DEF LoopTest, At, ControlOK
  <1>2. OthersKept(x) /\ UNCHANGED <<fresh, held, items, runq, mailbox>>
    BY <1>1 DEF LoopTest, EndActorCall, Exit, Goto, OthersKept, TypeOK, queues
  <1>3. /\ msg[x] # NULL => pc'[x] = "call" /\ self'[x] = a
        /\ msg[x] = NULL => pc'[x] \in {"sched", "idle"}
    BY <1>1, TestsResult DEF EndActorCall, Exit, Goto, TypeOK
  <1>4. \A n \in Message : ~Local(x, n)'
    BY <1>3 DEF Local
  <1>5. \A r \in Queue : DistinctNodes(items'[r], Message)
    BY <1>2 DEF Ownership
  <1>6. \A b \in Actor : Activated(b)' => Activated(b) \/ (b = a /\ msg[x] # NULL)
    BY <1>2, <1>3, ReadyKept, ActivatedChanges DEF Wakes, Calls
  <1>7. CASE msg[x] = NULL \/ mailbox[a] = NULL
    BY <1>2, <1>4, <1>5, <1>6, <1>7, QuietStep
  <1>8. CASE msg[x] # NULL /\ mailbox[a] # NULL
    <2>1. PICK m \in Message : m = msg[x] /\ m = mailbox[a]
      BY <1>1, <1>8 DEF TypeOK, StoredMail
    <2>2. OwnedBy(m, "local", x) /\ ~OwnedBy(m, "local", x)'
      BY <1>1, <1>4, <2>1 DEF OwnedBy, Local
    <2> DEFINE l == "mailbox"
    <2>3. \A n \in Message, b \in Actor : Mailed(b, n)' =>
            Mailed(b, n) \/ (n = m /\ l = "mailbox" /\ a = b)
      BY <1>2, <1>6, <2>1 DEF Mailed
    <2> HIDE DEF l
    <2>4. QED  BY <1>2, <1>4, <1>5, <2>2, <2>3, MoveStep
  <1>9. QED  BY <1>7, <1>8

(***************************************************************************)
(* The mailboxes of the actors that will be activated without a message.   *)
(***************************************************************************)
LEMMA MailboxesKept ==
  ASSUME EmptyMailboxes, uninit' \subseteq uninit, NEW b,
         \A c \in CPU : asleep'[c] \subseteq asleep[c] \cup {b},
         \A a \in Actor \ {b} : mailbox'[a] = mailbox[a],
         b \in Actor => \/ mailbox'[b] = NULL
                        \/ b \notin uninit /\ \A c \in CPU : b \notin asleep'[c]
  PROVE  EmptyMailboxes'
  BY DEF EmptyMailboxes

LEMMA PushMailboxes ==
  ASSUME MessageInv, NEW x \in Ctx, NEW q \in Queue, NEW m \in Message,
         m \notin MessagesIn(items[q]), mg_queue_push(x, q, m), UNCHANGED <<uninit, asleep>>
  PROVE  EmptyMailboxes'
  <1> USE DEF MessageInv, CustodyInv, KernelInv
  <1>1. CASE UNCHANGED mailbox
    BY <1>1 DEF EmptyMailboxes
  <1>2. CASE \E b \in Actor : Handed(x, q, m, b)
    <2>1. PICK b \in Actor : Handed(x, q, m, b)
      BY <1>2
    <2>2. IsIn(b, {}, {}, {}, {q}, {}, {})
      BY <2>1, OnlyPlace DEF Handed, Custody
    <2>3. b \notin uninit /\ \A c \in CPU : b \notin asleep[c]
      BY <2>2 DEF IsIn, Asleep, Unborn
    <2>4. \A a \in Actor \ {b} : mailbox'[a] = mailbox[a]
      BY <2>1 DEF Handed, TypeOK
    <2>5. QED  BY <2>3, <2>4, MailboxesKept
  <1>3. QED  BY <1>1, <1>2, PushMessages

LEMMA NextMailboxes == ASSUME MessageInv, [Next]_vars PROVE EmptyMailboxes'
  <1> USE DEF MessageInv, CustodyInv, KernelInv
  <1>1. CASE /\ UNCHANGED mailbox /\ uninit' \subseteq uninit
             /\ \A c \in CPU : asleep'[c] \subseteq asleep[c]
    BY <1>1 DEF EmptyMailboxes
  <1>2. CASE \E a \in Actor : InitSubscribe(a) \/ InitCall(a)
    BY <1>1, <1>2 DEF InitSubscribe, InitCall
  <1>3. ASSUME NEW x \in Ctx, ProducePush(x) PROVE EmptyMailboxes'
    <2>1. PICK q \in ProducerTargets : mg_queue_push(x, q, msg[x])
      BY <1>3 DEF ProducePush
    <2>2. q \in Queue /\ msg[x] \in Message /\ Local(x, msg[x])
      BY <1>3, DataAssumption DEF ProducePush, At, ControlOK, Local
    <2>3. PICK m \in Message : m = msg[x]
      BY <2>2
    <2>4. m \notin MessagesIn(items[q])
      <3>1. OwnedBy(m, "local", x)
        BY <2>2, <2>3 DEF OwnedBy
      <3>2. QED  BY <2>2, <3>1 DEF Ownership, Single, OwnedBy
    <2>5. QED  BY <1>3, <2>1, <2>2, <2>3, <2>4, PushMailboxes DEF ProducePush
  <1>4. ASSUME NEW x \in Ctx, FnPush(x) PROVE EmptyMailboxes'
    <2>1. PICK a \in Actor : a = self[x]
      BY <1>4 DEF FnPush, KernelCall, At, ControlOK
    <2>2. PICK q \in Targets[a], m \in held[a] : mg_queue_push(x, q, m)
      BY <1>4, <2>1 DEF FnPush
    <2>3. q \in Queue /\ m \in Message
      BY <2>1, <2>2, ActorAssumption DEF TypeOK
    <2>4. m \notin MessagesIn(items[q])
      <3>1. OwnedBy(m, "held", a)
        BY <2>1, <2>2 DEF OwnedBy
      <3>2. QED  BY <2>3, <3>1 DEF Ownership, Single, OwnedBy
    <2>5. QED  BY <1>4, <2>2, <2>3, <2>4, PushMailboxes DEF FnPush
  <1>5. ASSUME NEW x \in Ctx, Store(x) PROVE EmptyMailboxes'
    <2>1. PICK a \in Actor : a = self[x] /\ pc[x] = "store"
      BY <1>5 DEF Store, At, ControlOK
    <2>2. \A b \in Actor : mailbox'[b] = IF b = a THEN msg[x] ELSE mailbox[b]
      BY <1>5, <2>1 DEF Store, TypeOK
    <2>3. msg[x] # NULL => a \notin uninit /\ \A c \in CPU : a \notin asleep[c]
      <3>1. msg[x] # NULL => IsIn(a, {x}, {}, {}, {}, {}, {})
        BY <2>1, OnlyPlace DEF Custody, Running, Owns, Closing
      <3>2. QED  BY <3>1 DEF IsIn, Asleep, Unborn
    <2>4. QED  BY <1>5, <2>2, <2>3, MailboxesKept DEF Store
  <1>6. ASSUME NEW x \in Ctx, ReturnYield(x) \/ ReturnSleep(x) PROVE EmptyMailboxes'
    <2>1. PICK a \in Actor : a = self[x]
      BY <1>6 DEF ReturnYield, ReturnSleep, At, ControlOK
    <2>2. /\ mailbox'[a] = NULL
          /\ \A b \in Actor \ {a} : mailbox'[b] = mailbox[b]
      BY <1>6, <2>1 DEF ReturnYield, ReturnSleep, TypeOK
    <2>3. \A c \in CPU : asleep'[c] \subseteq asleep[c] \cup {a}
      <3>1. CASE ReturnYield(x)
        BY <3>1 DEF ReturnYield
      <3>2. CASE ReturnSleep(x)
        BY <2>1, <3>2 DEF ReturnSleep, TypeOK
      <3>3. QED  BY <1>6, <3>1, <3>2
    <2>4. QED  BY <1>6, <2>2, <2>3, MailboxesKept DEF ReturnYield, ReturnSleep
  <1>7. CASE \E c \in CPU, v \in Vector : EnterVector(c, v)
    BY <1>1, <1>7 DEF EnterVector
  <1>8. CASE \E x \in Ctx : ProduceAlloc(x) \/ TickStart(x) \/ Step(x)
    <2>1. PICK x \in Ctx : ProduceAlloc(x) \/ TickStart(x) \/ Step(x)
      BY <1>8
    <2>2. CASE ProduceAlloc(x) \/ TickStart(x) \/ TickEnd(x) \/ Insert(x) \/ Request(x)
      BY <1>1, <2>2 DEF ProduceAlloc, TickStart, TickEnd, Insert, Request
    <2>3. CASE TickWake(x)
      BY <1>1, <2>3 DEF TickWake, TypeOK
    <2>4. CASE PopHead(x) \/ PopHeadEmpty(x) \/ Leave(x) \/ Call(x) \/ FnAlloc(x) \/ FnPoll(x)
      BY <1>1, <2>4 DEF PopHead, PopHeadEmpty, Leave, Call, FnAlloc, FnPoll
    <2>5. CASE FnMove(x) \/ ReturnQueue(x) \/ LoopTest(x)
      BY <1>1, <2>5 DEF FnMove, ReturnQueue, LoopTest
    <2>6. QED  BY <1>3, <1>4, <1>5, <1>6, <2>1, <2>2, <2>3, <2>4, <2>5 DEF Step
  <1>9. CASE UNCHANGED vars
    BY <1>1, <1>9 DEF vars
  <1>10. QED  BY <1>2, <1>7, <1>8, <1>9 DEF Next

(***************************************************************************)
(* The mailboxes that are about to be tested.                              *)
(***************************************************************************)
LEMMA StoredKept ==
  ASSUME StoredMail, NEW x \in Ctx, OthersKept(x),
         pc'[x] = "test" => mailbox'[self'[x]] = msg'[x],
         \A y \in Ctx \ {x} : pc[y] = "test" /\ msg[y] # NULL =>
           mailbox'[self[y]] \in {NULL, mailbox[self[y]]}
  PROVE  StoredMail'
  BY DEF StoredMail, OthersKept

\* The actor of a context that will call it again.
LEMMA Rerun ==
  ASSUME CustodyInv, NEW y \in Ctx, pc[y] = "test", msg[y] # NULL
  PROVE  self[y] \in Actor /\ IsIn(self[y], {y}, {}, {}, {}, {}, {})
  <1>1. PICK a \in Actor : a = self[y]
    BY DEF CustodyInv, KernelInv, ControlOK
  <1>2. y \in Running(a)
    BY <1>1 DEF Running, Owns, Closing
  <1>3. QED  BY <1>1, <1>2, OnlyPlace DEF CustodyInv, Custody

LEMMA NextStored == ASSUME MessageInv, [Next]_vars PROVE StoredMail'
  <1> USE DEF MessageInv, CustodyInv, KernelInv
  <1>1. ASSUME NEW x \in Ctx, ProduceAlloc(x) \/ TickStart(x) \/ Step(x) PROVE StoredMail'
    <2>1. OthersKept(x)
      BY <1>1, StepOthers
    <2>2. CASE UNCHANGED mailbox /\ pc'[x] # "test"
      BY <2>1, <2>2, StoredKept
    <2>3. CASE ProducePush(x) \/ FnPush(x)
      <3>1. PICK q \in Queue, m \in Message : mg_queue_push(x, q, m)
        BY <2>3, DataAssumption, ActorAssumption
           DEF ProducePush, FnPush, KernelCall, At, ControlOK, TypeOK
      <3>2. pc'[x] # "test"
        BY <2>3, <3>1, PushControl DEF ProducePush, FnPush, KernelCall, At
      <3>3. CASE UNCHANGED mailbox
        BY <2>2, <3>2, <3>3
      <3>4. CASE length[q] < 0 /\ mailbox' = [mailbox EXCEPT ![Head(items[q])] = m]
        <4>1. PICK b \in Actor : b = Head(items[q]) /\ q \in Waiting(b)
          BY <3>4, HeadWaits
        <4>2. \A y \in Ctx : pc[y] = "test" /\ msg[y] # NULL => self[y] \in Actor \ {b}
          BY <4>1, Rerun DEF IsIn
        <4>3. \A a \in Actor \ {b} : mailbox'[a] = mailbox[a]
          BY <3>4, <4>1 DEF TypeOK
        <4>4. QED  BY <2>1, <3>2, <4>2, <4>3, StoredKept
      <3>5. QED  BY <3>1, <3>3, <3>4 DEF mg_queue_push, PushLinks
    <2>4. CASE Store(x)
      <3>1. PICK b \in Actor : b = self[x] /\ pc[x] = "store"
        BY <2>4 DEF Store, At, ControlOK
      <3>2. /\ UNCHANGED <<self, msg>>
            /\ \A a \in Actor : mailbox'[a] = IF a = b THEN msg[x] ELSE mailbox[a]
        BY <2>4, <3>1 DEF Store, TypeOK
      <3>3. ASSUME NEW y \in Ctx \ {x}, pc[y] = "test", msg[y] # NULL
            PROVE  mailbox'[self[y]] \in {NULL, mailbox[self[y]]}
        <4>1. self[y] \in Actor /\ IsIn(self[y], {y}, {}, {}, {}, {}, {})
          BY <3>3, Rerun
        <4>2. msg[x] # NULL => self[y] # b
          BY <3>1, <4>1 DEF IsIn, Running, Owns, Closing
        <4>3. QED  BY <3>2, <4>1, <4>2
      <3>4. QED  BY <2>1, <3>1, <3>2, <3>3, StoredKept
    <2>5. CASE ReturnYield(x) \/ ReturnSleep(x)
      <3>1. PICK b \in Actor : b = self[x]
        BY <2>5 DEF ReturnYield, ReturnSleep, At, ControlOK
      <3>2. /\ pc'[x] # "test"
            /\ \A a \in Actor : mailbox'[a] = IF a = b THEN NULL ELSE mailbox[a]
        BY <2>5, <3>1 DEF ReturnYield, ReturnSleep, EndActorCall, Exit, Goto, TypeOK
      <3>3. \A y \in Ctx : pc[y] = "test" => self[y] \in Actor
        BY DEF ControlOK
      <3>4. QED  BY <2>1, <3>2, <3>3, StoredKept
    <2>6. CASE ProduceAlloc(x) \/ TickStart(x) \/ TickWake(x) \/ TickEnd(x)
      BY <2>2, <2>6 DEF ProduceAlloc, TickStart, TickWake, TickEnd, Enter, Exit, Goto, TypeOK
    <2>7. CASE Insert(x) \/ Request(x) \/ PopHead(x) \/ PopHeadEmpty(x) \/ Leave(x)
      BY <2>2, <2>7 DEF Insert, Request, PopHead, PopHeadEmpty, Leave, Return, Exit, Goto, TypeOK
    <2>8. CASE Call(x) \/ FnAlloc(x) \/ FnPoll(x) \/ FnMove(x) \/ ReturnQueue(x)
      BY <2>2, <2>8 DEF Call, FnAlloc, FnPoll, FnMove, KernelCall, At, ReturnQueue, Goto, TypeOK
    <2>9. CASE LoopTest(x)
      BY <2>2, <2>9 DEF LoopTest, EndActorCall, Exit, Goto, TypeOK
    <2>10. QED
      BY <1>1, <2>3, <2>4, <2>5, <2>6, <2>7, <2>8, <2>9 DEF Step
  <1>2. ASSUME NEW a \in Actor, InitSubscribe(a) \/ InitCall(a) PROVE StoredMail'
    <2>1. UNCHANGED mailbox
      BY <1>2 DEF InitSubscribe, InitCall
    <2>2. CASE UNCHANGED frame
      BY <2>1, <2>2 DEF frame, StoredMail
    <2>3. CASE /\ \E label \in {"assert", "call"} : Enter(Main, "init", label)
               /\ self' = [self EXCEPT ![Main] = a]
               /\ UNCHANGED msg \/ \E m : msg' = [msg EXCEPT ![Main] = m]
               /\ UNCHANGED dest
      <3>1. \A y \in Ctx \ {Main} : msg'[y] = msg[y]
        BY <2>3 DEF TypeOK
      <3>2. OthersKept(Main) /\ pc'[Main] # "test"
        BY <2>3, <3>1, MainIsContext DEF OthersKept, Enter, Goto, TypeOK
      <3>3. QED  BY <2>1, <3>2, MainIsContext, StoredKept
    <2>4. QED  BY <1>2, <2>2, <2>3 DEF InitSubscribe, InitCall
  <1>3. ASSUME NEW c \in CPU, NEW v \in Vector, EnterVector(c, v) PROVE StoredMail'
    <2>1. vect2prio[v] \in 0..MaxPrio
      BY ContextAssumption DEF Prio
    <2>2. PICK x \in Ctx : x = <<c, vect2prio[v]>>
      BY <2>1 DEF Ctx, Level
    <2>3. OthersKept(x) /\ pc'[x] # "test" /\ UNCHANGED mailbox
      BY <1>3, <2>2 DEF EnterVector, OthersKept, TypeOK, Enter, Goto
    <2>4. QED  BY <2>3, StoredKept
  <1>4. CASE UNCHANGED vars
    BY <1>4 DEF vars, frame, StoredMail
  <1>5. QED  BY <1>1, <1>2, <1>3, <1>4 DEF Next

(***************************************************************************)
(* The invariant.                                                          *)
(***************************************************************************)
LEMMA InitMessageInv == Init => MessageInv
  <1> SUFFICES ASSUME Init PROVE EmptyMailboxes /\ StoredMail /\ Ownership
    BY InitCustodyInv DEF MessageInv
  <1>1. EmptyMailboxes /\ StoredMail
    BY DEF Init, EmptyMailboxes, StoredMail
  <1>2. ASSUME NEW m \in Message PROVE Single(m)
    <2>1. \A k, o : OwnedBy(m, k, o) => k = "fresh" /\ o = NULL
      BY DataAssumption DEF Init, OwnedBy, Local, Mailed, MessagesIn, NodesIn
    <2>2. QED  BY <2>1 DEF Single
  <1>3. \A q \in Queue : DistinctNodes(items[q], Message)
    BY DEF Init, DistinctNodes
  <1>4. QED  BY <1>1, <1>2, <1>3 DEF Ownership

LEMMA NextMessageInv == TestSound /\ MessageInv /\ [Next]_vars => MessageInv'
  <1> SUFFICES ASSUME TestSound, MessageInv, [Next]_vars PROVE Ownership'
    BY NextCustodyInv, NextMailboxes, NextStored DEF MessageInv
  <1>1. CASE \E a \in Actor : InitSubscribe(a) \/ InitCall(a)
    BY <1>1, InitSubscribeMessages, InitCallMessages
  <1>2. CASE \E x \in Ctx : ProduceAlloc(x) \/ TickStart(x) \/ Step(x)
    BY <1>2, ProduceAllocMessages, TickMessages, ProducePushMessages, ActivateMessages,
       ScheduleMessages, CallMessages, FnGetMessages, FnPushMessages, FnMoveMessages,
       ReturnQueueMessages, StoreMessages, LoopTestMessages, SuspendMessages DEF Step
  <1>3. CASE \E c \in CPU, v \in Vector : EnterVector(c, v)
    BY <1>3, EnterVectorMessages
  <1>4. CASE UNCHANGED vars
    <2>1. ASSUME NEW m PROVE Gains(m, "none", NULL)
      BY <1>4 DEF Gains, OwnedBy, Local, Mailed, Activated, MessagesIn, NodesIn,
         vars, frame, queues
    <2>2. QED  BY <1>4, <2>1, KeepsSingle DEF MessageInv, Ownership, vars, queues
  <1>5. QED  BY <1>1, <1>2, <1>3, <1>4 DEF Next

\* Every place of a message is an owner of it, and one position in a list is
\* all that an owner gives it.
LEMMA SingleHolds == MessageInv => MessageOwnedOnce
  <1> SUFFICES ASSUME MessageInv, NEW m \in Message PROVE Cardinality(MessagePlaces(m)) <= 1
    BY DEF MessageOwnedOnce
  <1>1. ASSUME NEW p \in MessagePlaces(m), NEW r \in MessagePlaces(m) PROVE p = r
    <2>1. ASSUME NEW s \in MessagePlaces(m)
          PROVE  \/ s = <<"fresh">> /\ OwnedBy(m, "fresh", NULL)
                 \/ \E q \in Queue : \E i \in Positions(items[q], m) :
                      s = <<"queued", q, i>> /\ OwnedBy(m, "queued", q)
                 \/ \E a \in Actor : s = <<"held", a>> /\ OwnedBy(m, "held", a)
                 \/ \E x \in Ctx : s = <<"local", x>> /\ OwnedBy(m, "local", x)
                 \/ \E a \in Actor : s = <<"mailbox", a>> /\ OwnedBy(m, "mailbox", a)
      <3>1. CASE m \in fresh /\ s = <<"fresh">>
        BY <3>1 DEF OwnedBy
      <3>2. CASE \E q \in Queue : \E i \in Positions(items[q], m) : s = <<"queued", q, i>>
        BY <3>2 DEF OwnedBy, MessagesIn, NodesIn, Positions
      <3>3. CASE \E a \in Actor : m \in held[a] /\ s = <<"held", a>>
        BY <3>3 DEF OwnedBy
      <3>4. CASE \E x \in Ctx : Local(x, m) /\ s = <<"local", x>>
        BY <3>4 DEF OwnedBy
      <3>5. CASE \E a \in Actor : Mailed(a, m) /\ s = <<"mailbox", a>>
        BY <3>5 DEF OwnedBy
      <3>6. QED  BY <2>1, <3>1, <3>2, <3>3, <3>4, <3>5 DEF MessagePlaces, Local, Mailed
    <2>2. ASSUME NEW q \in Queue, NEW i \in Positions(items[q], m), NEW j \in Positions(items[q], m)
          PROVE  i = j
      BY <2>2 DEF MessageInv, Ownership, DistinctNodes, Positions
    <2>3. Single(m)
      BY DEF MessageInv, Ownership
    <2>4. QED  BY <1>1, <2>1, <2>2, <2>3 DEF Single
  <1>2. CASE MessagePlaces(m) = {}
    BY <1>2, FS_EmptySet
  <1>3. CASE MessagePlaces(m) # {}
    <2>1. PICK p : MessagePlaces(m) = {p}
      BY <1>1, <1>3
    <2>2. QED  BY <2>1, FS_Singleton
  <1>4. QED  BY <1>2, <1>3

\* Zero-copy message passing is safe: whatever contexts of whatever levels and
\* processors allocate, push, pop and activate, a message never has two owners.
\* The condition is that of CustodyInvariant: a loop that reads the mailbox again
\* (magnesium.h:336) may call the function with a message that was pushed since,
\* and that is in the mailbox of the activated actor too.
THEOREM MessageOwnedOnceInvariant == LoopTestSafe => (Spec => []MessageOwnedOnce)
  <1> SUFFICES ASSUME LoopTestSafe PROVE Spec => []MessageOwnedOnce
    OBVIOUS
  <1>1. Spec => []TestSound
    BY TestSoundInvariant
  <1>2. QED  BY <1>1, InitMessageInv, NextMessageInv, SingleHolds, PTL DEF Spec

\* What holds besides in the programs that push to no queue from above.
PlacedInv == MessageInv /\ WindowInv

LEMMA InitPlacedInv == Init => PlacedInv
  BY InitMessageInv, InitWindowInv DEF PlacedInv

LEMMA NextPlacedInv == NoPushFromAbove /\ PlacedInv /\ [Next]_vars => PlacedInv'
  BY NextMessageInv, NextWindowInv DEF PlacedInv, WindowInv, TestSound

(***************************************************************************)
(* No message is lost.                                                     *)
(***************************************************************************)
Owned(m) == \E k, o : OwnedBy(m, k, o)

Conserved == \A m \in Message : Owned(m)

\* All messages but m keep their owner, and m has one after the step.
LEMMA OwnedKept ==
  ASSUME Conserved, NEW x \in Ctx, OthersKept(x), NEW m, m \in Message => Owned(m)',
         fresh \ {m} \subseteq fresh',
         \A q \in Queue : MessagesIn(items[q]) \ {m} \subseteq MessagesIn(items'[q]),
         \A a \in Actor : held[a] \ {m} \subseteq held'[a],
         \A n \in Message \ {m} : ~Local(x, n),
         \A n \in Message \ {m}, a \in Actor : Mailed(a, n) => Mailed(a, n)'
  PROVE  Conserved'
  <1> SUFFICES ASSUME NEW n \in Message \ {m} PROVE Owned(n)'
    BY DEF Conserved
  <1>1. PICK k, o : OwnedBy(n, k, o)
    BY DEF Conserved, Owned
  <1>2. CASE k = "fresh" /\ o = NULL /\ n \in fresh
    BY <1>2 DEF Owned, OwnedBy
  <1>3. CASE k = "queued" /\ o \in Queue /\ n \in MessagesIn(items[o])
    <2>1. n \in MessagesIn(items'[o])
      BY <1>3
    <2>2. OwnedBy(n, k, o)'
      BY <1>3, <2>1 DEF OwnedBy, MessagesIn, NodesIn
    <2>3. QED  BY <2>2 DEF Owned
  <1>4. CASE k = "held" /\ o \in Actor /\ n \in held[o]
    BY <1>4 DEF Owned, OwnedBy
  <1>5. CASE k = "local" /\ o \in Ctx /\ Local(o, n)
    <2>1. Local(o, n)'
      BY <1>5 DEF OthersKept, Local
    <2>2. OwnedBy(n, k, o)'
      BY <1>5, <2>1 DEF OwnedBy
    <2>3. QED  BY <2>2 DEF Owned
  <1>6. CASE k = "mailbox" /\ o \in Actor /\ Mailed(o, n)
    <2>1. OwnedBy(n, k, o)'
      BY <1>6 DEF OwnedBy
    <2>2. QED  BY <2>1 DEF Owned
  <1>7. QED  BY <1>1, <1>2, <1>3, <1>4, <1>5, <1>6 DEF OwnedBy

\* An actor that waits, or whose function is running, is not activated.
LEMMA NotActivated ==
  ASSUME CustodyInv, NEW a \in Actor
  PROVE  /\ Waiting(a) # {} => ~Activated(a)
         /\ \A x \in Ctx : Owns(x, a) /\ pc[x] # "call" => ~Activated(a)
  <1>1. OnePlace(a)
    BY DEF CustodyInv, Custody
  <1>2. ASSUME Waiting(a) # {} PROVE ~Activated(a)
    <2>1. Running(a) = {} /\ Waking(a) = {} /\ Ready(a) = {}
      BY <1>1, <1>2, OnlyPlace DEF IsIn
    <2>2. QED  BY <2>1, ActivatedWhere DEF Running, Owns, Closing, Calls
  <1>3. ASSUME NEW x \in Ctx, Owns(x, a), pc[x] # "call" PROVE ~Activated(a)
    <2>1. IsIn(a, {x}, {}, {}, {}, {}, {})
      BY <1>1, <1>3, OnlyPlace DEF Running
    <2>2. QED  BY <1>3, <2>1, ActivatedWhere DEF IsIn, Running, Owns, Closing, Calls
  <1>4. QED  BY <1>2, <1>3

LEMMA ActivatedStays ==
  ASSUME NEW x \in Ctx, OthersKept(x), NEW a \in Actor, Activated(a),
         Ready(a) # {} => Activated(a)', Wakes(x, a) \/ Calls(x, a) => Activated(a)'
  PROVE  Activated(a)'
  <1>1. CASE Waking(a) # {}
    <2>1. PICK y \in Ctx : Wakes(y, a)
      BY <1>1 DEF Waking, Wakes
    <2>2. y # x => Wakes(y, a)'
      BY <2>1 DEF OthersKept, Wakes
    <2>3. QED  BY <2>1, <2>2, ActivatedWhere DEF Waking, Wakes
  <1>2. CASE \E y \in Ctx : Calls(y, a)
    BY <1>2, ActivatedWhere DEF OthersKept, Calls
  <1>3. QED  BY <1>1, <1>2, ActivatedWhere

\* A step that passes no message on keeps every owner.
LEMMA QuietConserved ==
  ASSUME Conserved, NEW x \in Ctx, OthersKept(x), UNCHANGED <<fresh, held>>,
         \A q \in Queue : MessagesIn(items'[q]) = MessagesIn(items[q]),
         pc[x] \notin {"push", "store", "test", "assert"},
         \A a \in Actor : Activated(a) => Activated(a)' /\ mailbox'[a] = mailbox[a]
  PROVE  Conserved'
  <1>1. \A n \in Message \ {NULL} : ~Local(x, n)
    BY DEF Local
  <1>2. \A n \in Message \ {NULL}, a \in Actor : Mailed(a, n) => Mailed(a, n)'
    BY DEF Mailed
  <1>3. QED  BY <1>1, <1>2, DataAssumption, OwnedKept

LEMMA AllocKeeps ==
  ASSUME TypeOK, QueueShape, Ownership, NEW m \in Message, mg_message_alloc(m)
  PROVE  /\ fresh \ {m} \subseteq fresh'
         /\ \A q \in Queue : MessagesIn(items[q]) \ {m} \subseteq MessagesIn(items'[q])
  <1>1. CASE m \in fresh /\ fresh' = fresh \ {m} /\ UNCHANGED <<items, length>>
    BY <1>1
  <1>2. CASE PopMessage(Pool, m) /\ UNCHANGED fresh
    <2>1. \A r \in Queue : MessagesIn(items'[r]) =
              IF r = Pool THEN MessagesIn(items[Pool]) \ {m} ELSE MessagesIn(items[r])
      BY <1>2, PopMessages, DataAssumption
    <2>2. QED  BY <1>2, <2>1
  <1>3. QED  BY <1>1, <1>2 DEF mg_message_alloc

LEMMA PushConserved ==
  ASSUME PlacedInv, Conserved, NEW x \in Ctx, ProducePush(x) \/ FnPush(x) PROVE Conserved'
  <1> USE DEF PlacedInv, MessageInv, WindowInv, CustodyInv, KernelInv
  <1>1. PICK q \in Queue, m \in Message :
          /\ mg_queue_push(x, q, m) /\ (\E k, o : OwnedBy(m, k, o) /\ k # "queued")
          /\ pc[x] \in {"push", "run"} /\ UNCHANGED fresh
          /\ \A a \in Actor : held[a] \ {m} \subseteq held'[a]
          /\ \A n \in Message \ {m} : ~Local(x, n)
    <2>1. CASE ProducePush(x)
      <3>1. PICK q \in ProducerTargets : mg_queue_push(x, q, msg[x])
        BY <2>1 DEF ProducePush
      <3>2. q \in Queue /\ pc[x] = "push" /\ msg[x] \in Message
        BY <2>1, DataAssumption DEF ProducePush, At, ControlOK
      <3>3. OwnedBy(msg[x], "local", x) /\ \A n \in Message \ {msg[x]} : ~Local(x, n)
        BY <3>2 DEF OwnedBy, Local
      <3>4. UNCHANGED <<held, fresh>>
        BY <2>1, <3>1 DEF ProducePush, mg_queue_push
      <3>5. QED  BY <3>1, <3>2, <3>3, <3>4
    <2>2. CASE FnPush(x)
      <3>1. PICK b \in Actor : b = self[x] /\ pc[x] = "run"
        BY <2>2 DEF FnPush, KernelCall, At, ControlOK
      <3>2. PICK q \in Targets[b], m \in held[b] :
              mg_queue_push(x, q, m) /\ held' = [held EXCEPT ![b] = @ \ {m}]
        BY <2>2, <3>1 DEF FnPush
      <3>3. q \in Queue /\ m \in Message
        BY <3>1, <3>2, ActorAssumption DEF TypeOK
      <3>4. OwnedBy(m, "held", b) /\ \A n : ~Local(x, n)
        BY <3>1, <3>2 DEF OwnedBy, Local
      <3>5. \A a \in Actor : held[a] \ {m} \subseteq held'[a]
        BY <3>2 DEF TypeOK
      <3>6. UNCHANGED fresh
        BY <3>2 DEF mg_queue_push
      <3>7. QED  BY <3>1, <3>2, <3>3, <3>4, <3>5, <3>6
    <2>3. QED  BY <2>1, <2>2
  <1>2. m \notin MessagesIn(items[q])
    BY <1>1 DEF Ownership, Single, OwnedBy
  <1>3. OthersKept(x) /\ UNCHANGED runq
    BY StepsThatPush
  <1>4. \A a \in Actor : Activated(a) => Activated(a)'
    BY <1>1, <1>3, ReadyKept, ActivatedStays, ActivatedWhere DEF Wakes, Calls
  <1>5. CASE /\ UNCHANGED mailbox /\ m \in MessagesIn(items'[q])
             /\ \A r \in Queue : MessagesIn(items'[r]) =
                  IF r = q THEN MessagesIn(items[q]) \cup {m} ELSE MessagesIn(items[r])
    <2>1. OwnedBy(m, "queued", q)'
      BY <1>5 DEF OwnedBy, MessagesIn, NodesIn
    <2>2. Owned(m)'
      BY <2>1 DEF Owned
    <2>3. \A n \in Message, a \in Actor : Mailed(a, n) => Mailed(a, n)'
      BY <1>4, <1>5 DEF Mailed
    <2>4. \A r \in Queue : MessagesIn(items[r]) \ {m} \subseteq MessagesIn(items'[r])
      BY <1>5
    <2>5. QED  BY <1>1, <1>3, <2>2, <2>3, <2>4, OwnedKept
  <1>6. CASE /\ \A r \in Queue : MessagesIn(items'[r]) = MessagesIn(items[r])
             /\ \E b \in Actor : Handed(x, q, m, b)
    <2>1. PICK b \in Actor : Handed(x, q, m, b)
      BY <1>6
    <2>2. ~Activated(b)
      BY <2>1, NotActivated DEF Handed
    <2>3. /\ \A a \in Actor : mailbox'[a] = IF a = b THEN m ELSE mailbox[a]
          /\ Wakes(x, b)'
      BY <2>1 DEF Handed, TypeOK, Wakes
    <2>4. Mailed(b, m)'
      BY <2>3, ActivatedWhere DEF Mailed, Waking, Wakes
    <2>5. OwnedBy(m, "mailbox", b)'
      BY <2>4 DEF OwnedBy
    <2>6. Owned(m)'
      BY <2>5 DEF Owned
    <2>7. \A n \in Message, a \in Actor : Mailed(a, n) => Mailed(a, n)'
      BY <1>4, <2>2, <2>3 DEF Mailed
    <2>8. QED  BY <1>1, <1>3, <1>6, <2>6, <2>7, OwnedKept
  <1>7. QED  BY <1>1, <1>2, <1>5, <1>6, PushMessages

\* A step that takes message m into a local variable, a queue or a function, and
\* activates nobody.
LEMMA GivenConserved ==
  ASSUME Conserved, NEW x \in Ctx, OthersKept(x), UNCHANGED <<runq, mailbox>>,
         pc[x] \notin {"insert", "call", "push", "store", "test", "assert"},
         NEW m, m \in Message => Owned(m)',
         fresh \ {m} \subseteq fresh',
         \A q \in Queue : MessagesIn(items[q]) \ {m} \subseteq MessagesIn(items'[q]),
         \A a \in Actor : held[a] \subseteq held'[a]
  PROVE  Conserved'
  <1>1. \A a \in Actor : Activated(a) => Activated(a)'
    BY ReadyKept, ActivatedStays, ActivatedWhere DEF Wakes, Calls
  <1>2. \A n \in Message, a \in Actor : Mailed(a, n) => Mailed(a, n)'
    BY <1>1 DEF Mailed
  <1>3. \A n \in Message \ {m} : ~Local(x, n)
    BY DEF Local
  <1>4. QED  BY <1>2, <1>3, OwnedKept

LEMMA LocalOwned == ASSUME NEW x \in Ctx, NEW m, Local(x, m)' PROVE Owned(m)'
  <1>1. OwnedBy(m, "local", x)'
    BY DEF OwnedBy
  <1>2. QED  BY <1>1 DEF Owned

LEMMA HeldOwned == ASSUME NEW a \in Actor, NEW m, m \in held'[a] PROVE Owned(m)'
  <1>1. OwnedBy(m, "held", a)'
    BY DEF OwnedBy
  <1>2. QED  BY <1>1 DEF Owned

LEMMA MailOwned == ASSUME NEW a \in Actor, NEW m, Mailed(a, m)' PROVE Owned(m)'
  <1>1. OwnedBy(m, "mailbox", a)'
    BY DEF OwnedBy
  <1>2. QED  BY <1>1 DEF Owned

LEMMA InitConservedStep ==
  ASSUME PlacedInv, Conserved, NEW a \in Actor, InitSubscribe(a) \/ InitCall(a) PROVE Conserved'
  <1> USE MainIsContext, ActorAssumption, DataAssumption
      DEF PlacedInv, MessageInv, WindowInv, CustodyInv, KernelInv
  <1>1. pc[Main] = "idle"
    BY EnterIdle DEF InitSubscribe, InitCall, Enter
  <1>2. CASE InitCall(a)
    <2>1. OthersKept(Main) /\ UNCHANGED <<runq, mailbox, fresh, held, items>>
      BY <1>2 DEF InitCall, OthersKept, Enter, Goto, TypeOK, queues
    <2>2. QED  BY <1>1, <2>1, GivenConserved
  <1>3. CASE InitSubscribe(a)
    <2>1. PICK q \in Queue : q = InitQueue[a]
      BY <1>3 DEF InitSubscribe
    <2>2. UNCHANGED <<fresh, held, mailbox, runq>>
      BY <1>3 DEF InitSubscribe
    <2>3. CASE Subscribe(q, a) /\ UNCHANGED frame
      <3>1. OthersKept(Main)
        BY <2>3 DEF frame, OthersKept
      <3>2. \A r \in Queue : MessagesIn(items'[r]) = MessagesIn(items[r])
        BY <2>3, SubscribeMessages
      <3>3. QED  BY <1>1, <2>2, <3>1, <3>2, GivenConserved
    <2>4. CASE \E m \in Message :
                 /\ PopMessage(q, m)
                 /\ Enter(Main, "init", "assert")
                 /\ self' = [self EXCEPT ![Main] = a]
                 /\ msg' = [msg EXCEPT ![Main] = m]
                 /\ UNCHANGED <<dest, due, budget>>
      <3>1. PICK m \in Message :
                 /\ PopMessage(q, m)
                 /\ Enter(Main, "init", "assert")
                 /\ self' = [self EXCEPT ![Main] = a]
                 /\ msg' = [msg EXCEPT ![Main] = m]
                 /\ UNCHANGED <<dest, due, budget>>
        BY <2>4
      <3>2. OthersKept(Main) /\ Local(Main, m)'
        BY <3>1 DEF OthersKept, TypeOK, Enter, Goto, Local
      <3>3. \A r \in Queue : MessagesIn(items'[r]) =
              IF r = q THEN MessagesIn(items[q]) \ {m} ELSE MessagesIn(items[r])
        BY <3>1, PopMessages
      <3>4. \A r \in Queue : MessagesIn(items[r]) \ {m} \subseteq MessagesIn(items'[r])
        BY <3>3
      <3>5. Owned(m)'
        BY <3>2, LocalOwned
      <3>6. QED  BY <1>1, <2>2, <3>2, <3>4, <3>5, GivenConserved
    <2>5. QED  BY <1>3, <2>1, <2>3, <2>4 DEF InitSubscribe
  <1>4. QED  BY <1>2, <1>3

LEMMA EnterVectorConserved ==
  ASSUME PlacedInv, Conserved, NEW c \in CPU, NEW v \in Vector, EnterVector(c, v)
  PROVE  Conserved'
  <1> USE DEF PlacedInv, MessageInv, WindowInv, CustodyInv, KernelInv
  <1>1. <<c, vect2prio[v]>> \in Ctx
    BY ContextAssumption DEF Ctx, Level, Prio
  <1>2. PICK x \in Ctx : x = <<c, vect2prio[v]>>
    BY <1>1
  <1>3. OthersKept(x) /\ pc[x] = "idle" /\ UNCHANGED <<runq, mailbox, fresh, held, items>>
    BY <1>2, EnterIdle DEF EnterVector, OthersKept, TypeOK, Enter, Goto, queues
  <1>4. QED  BY <1>3, DataAssumption, GivenConserved

LEMMA ProduceAllocConserved ==
  ASSUME PlacedInv, Conserved, NEW x \in Ctx, ProduceAlloc(x) PROVE Conserved'
  <1> USE DEF PlacedInv, MessageInv, WindowInv, CustodyInv, KernelInv
  <1>1. PICK m \in Message : mg_message_alloc(m) /\ msg' = [msg EXCEPT ![x] = m]
    BY DEF ProduceAlloc
  <1>2. OthersKept(x) /\ UNCHANGED <<held, mailbox, runq>> /\ Local(x, m)'
    BY <1>1 DEF ProduceAlloc, OthersKept, TypeOK, Enter, Goto, Local
  <1>3. pc[x] = "idle"
    BY EnterIdle DEF ProduceAlloc, Enter
  <1>4. Owned(m)'
    BY <1>2, LocalOwned
  <1>5. QED  BY <1>1, <1>2, <1>3, <1>4, AllocKeeps, GivenConserved

LEMMA FnGetConserved ==
  ASSUME PlacedInv, Conserved, NEW x \in Ctx, FnAlloc(x) \/ FnPoll(x) PROVE Conserved'
  <1> USE DEF PlacedInv, MessageInv, WindowInv, CustodyInv, KernelInv
  <1>1. PICK a \in Actor : a = self[x] /\ pc[x] = "run"
    BY DEF FnAlloc, FnPoll, KernelCall, At, ControlOK
  <1>2. OthersKept(x) /\ UNCHANGED <<mailbox, runq>>
    BY StepOthers DEF FnAlloc, FnPoll, Step
  <1>3. PICK m \in Message : /\ held' = [held EXCEPT ![a] = @ \cup {m}]
                             /\ \/ mg_message_alloc(m)
                                \/ \E q \in Queue : PopMessage(q, m) /\ UNCHANGED fresh
    <2>1. Subscribes[a] \subseteq Queue
      BY ActorAssumption
    <2>2. QED  BY <1>1, <2>1 DEF FnAlloc, FnPoll
  <1>4. m \in held'[a] /\ \A b \in Actor : held[b] \subseteq held'[b]
    BY <1>3 DEF TypeOK
  <1>5. Owned(m)'
    BY <1>4, HeldOwned
  <1>6. /\ fresh \ {m} \subseteq fresh'
        /\ \A q \in Queue : MessagesIn(items[q]) \ {m} \subseteq MessagesIn(items'[q])
    <2>1. CASE mg_message_alloc(m)
      BY <2>1, AllocKeeps
    <2>2. CASE \E q \in Queue : PopMessage(q, m) /\ UNCHANGED fresh
      <3>1. PICK q \in Queue : PopMessage(q, m) /\ UNCHANGED fresh
        BY <2>2
      <3>2. \A r \in Queue : MessagesIn(items'[r]) =
              IF r = q THEN MessagesIn(items[q]) \ {m} ELSE MessagesIn(items[r])
        BY <3>1, PopMessages
      <3>3. QED  BY <3>1, <3>2
    <2>3. QED  BY <1>3, <2>1, <2>2
  <1>7. QED  BY <1>1, <1>2, <1>4, <1>5, <1>6, GivenConserved

LEMMA ReturnQueueConserved ==
  ASSUME PlacedInv, Conserved, NEW x \in Ctx, ReturnQueue(x) PROVE Conserved'
  <1> USE DEF PlacedInv, MessageInv, WindowInv, CustodyInv, KernelInv
  <1>1. PICK a \in Actor : a = self[x] /\ pc[x] = "run"
    BY DEF ReturnQueue, At, ControlOK
  <1>2. PICK q \in Queue :
          \/ Subscribe(q, a) /\ msg' = [msg EXCEPT ![x] = NULL]
          \/ \E m \in Message : PopMessage(q, m) /\ msg' = [msg EXCEPT ![x] = m]
    <2>1. Subscribes[a] \subseteq Queue
      BY ActorAssumption
    <2>2. QED  BY <1>1, <2>1 DEF ReturnQueue
  <1>3. OthersKept(x)
    BY StepOthers DEF Step
  <1>4. UNCHANGED <<fresh, held, mailbox, runq>> /\ pc'[x] = "store"
    BY DEF ReturnQueue, TypeOK, Goto
  <1>5. CASE Subscribe(q, a)
    <2>1. \A r \in Queue : MessagesIn(items'[r]) = MessagesIn(items[r])
      BY <1>5, SubscribeMessages
    <2>2. QED  BY <1>1, <1>3, <1>4, <2>1, DataAssumption, GivenConserved
  <1>6. CASE \E m \in Message : PopMessage(q, m) /\ msg' = [msg EXCEPT ![x] = m]
    <2>1. PICK m \in Message : PopMessage(q, m) /\ msg' = [msg EXCEPT ![x] = m]
      BY <1>6
    <2>2. Local(x, m)'
      BY <1>4, <2>1 DEF Local, TypeOK
    <2>3. \A r \in Queue : MessagesIn(items'[r]) =
            IF r = q THEN MessagesIn(items[q]) \ {m} ELSE MessagesIn(items[r])
      BY <2>1, PopMessages
    <2>4. \A r \in Queue : MessagesIn(items[r]) \ {m} \subseteq MessagesIn(items'[r])
      BY <2>3
    <2>5. Owned(m)'
      BY <2>2, LocalOwned
    <2>6. QED  BY <1>1, <1>3, <1>4, <2>4, <2>5, GivenConserved
  <1>7. QED  BY <1>2, <1>5, <1>6

LEMMA CallConserved ==
  ASSUME PlacedInv, Conserved, NEW x \in Ctx, Call(x) PROVE Conserved'
  <1> USE DEF PlacedInv, MessageInv, WindowInv, CustodyInv, KernelInv
  <1>1. PICK a \in Actor : a = self[x] /\ pc[x] = "call"
    BY DEF Call, At, ControlOK
  <1>2. PICK m \in Message \cup {NULL} : m = mailbox[a]
    BY DEF TypeOK
  <1>3. /\ OthersKept(x) /\ UNCHANGED <<fresh, items, mailbox, runq>>
        /\ held' = [held EXCEPT ![a] = @ \cup ({m} \ {NULL})]
    BY <1>1, <1>2 DEF Call, OthersKept, TypeOK, Goto, queues
  <1>4. (m \in Message => m \in held'[a]) /\ \A b \in Actor : held[b] \subseteq held'[b]
    BY <1>3, DataAssumption DEF TypeOK
  <1>5. m \in Message => Owned(m)'
    BY <1>4, HeldOwned
  <1>6. \A b \in Actor \ {a} : Activated(b) => Activated(b)'
    BY <1>1, <1>3, ReadyKept, ActivatedStays, ActivatedWhere DEF Wakes, Calls
  <1>7. \A n \in Message \ {m}, b \in Actor : Mailed(b, n) => Mailed(b, n)'
    BY <1>2, <1>3, <1>6 DEF Mailed
  <1>8. \A n \in Message \ {m} : ~Local(x, n)
    BY <1>1 DEF Local
  <1>9. QED  BY <1>3, <1>4, <1>5, <1>7, <1>8, OwnedKept

\* The mailbox that mg_actor_call writes is in use by nobody: if the actor waits
\* in a queue it still waits there.
LEMMA StoreConserved ==
  ASSUME PlacedInv, Conserved, NEW x \in Ctx, Store(x) PROVE Conserved'
  <1> USE DEF PlacedInv, MessageInv, WindowInv, CustodyInv, KernelInv
  <1>1. PICK a \in Actor : a = self[x] /\ pc[x] = "store"
    BY DEF Store, At, ControlOK
  <1>2. PICK m \in Message \cup {NULL} : m = msg[x]
    BY DEF TypeOK
  <1>3. /\ OthersKept(x) /\ UNCHANGED <<fresh, held, items, runq>>
        /\ \A b \in Actor : mailbox'[b] = IF b = a THEN m ELSE mailbox[b]
        /\ Local(x, m)'
    BY <1>1, <1>2 DEF Store, Goto, Local, OthersKept, TypeOK, queues
  <1>4. ~Activated(a)
    <2>1. CASE m = NULL
      <3>1. Waiting(a) # {}
        BY <1>1, <1>2, <2>1 DEF StillWaits, Closing
      <3>2. QED  BY <3>1, NotActivated
    <2>2. CASE m # NULL
      BY <1>1, <1>2, <2>2, NotActivated DEF Owns, Closing
    <2>3. QED  BY <2>1, <2>2
  <1>5. \A b \in Actor : Activated(b) => Activated(b)'
    BY <1>1, <1>3, ReadyKept, ActivatedStays, ActivatedWhere DEF Wakes, Calls
  <1>6. m \in Message => Owned(m)'
    BY <1>3, LocalOwned
  <1>7. \A n \in Message, b \in Actor : Mailed(b, n) => Mailed(b, n)'
    BY <1>3, <1>4, <1>5 DEF Mailed
  <1>8. \A n \in Message \ {m} : ~Local(x, n)
    BY <1>2 DEF Local
  <1>9. QED  BY <1>3, <1>6, <1>7, <1>8, OwnedKept

\* The function is called with the message that was popped.
LEMMA LoopTestConserved ==
  ASSUME PlacedInv, Conserved, NEW x \in Ctx, LoopTest(x) PROVE Conserved'
  <1> USE DEF PlacedInv, MessageInv, WindowInv, CustodyInv, KernelInv
  <1>1. PICK a \in Actor : a = self[x] /\ pc[x] = "test"
    BY DEF LoopTest, At, ControlOK
  <1>2. PICK m \in Message \cup {NULL} : m = msg[x] /\ m = mailbox[a]
    BY <1>1 DEF TypeOK, TestAgrees
  <1>3. OthersKept(x) /\ UNCHANGED <<fresh, held, items, runq, mailbox>>
    BY StepOthers DEF LoopTest, Step, queues
  <1>4. \A b \in Actor : Activated(b) => Activated(b)'
    BY <1>1, <1>3, ReadyKept, ActivatedStays, ActivatedWhere DEF Wakes, Calls
  <1>5. m \in Message => Mailed(a, m)'
    <2>1. m \in Message => Calls(x, a)'
      BY <1>1, <1>2, DataAssumption, TestsResult DEF TestSound, Goto, Calls, TypeOK
    <2>2. QED  BY <1>2, <1>3, <2>1, ActivatedWhere DEF Mailed
  <1>6. m \in Message => Owned(m)'
    BY <1>5, MailOwned
  <1>7. \A n \in Message, b \in Actor : Mailed(b, n) => Mailed(b, n)'
    BY <1>3, <1>4 DEF Mailed
  <1>8. \A n \in Message \ {m} : ~Local(x, n)
    BY <1>2 DEF Local
  <1>9. QED  BY <1>3, <1>6, <1>7, <1>8, OwnedKept

LEMMA SuspendConserved ==
  ASSUME PlacedInv, Conserved, NEW x \in Ctx, ReturnYield(x) \/ ReturnSleep(x) PROVE Conserved'
  <1> USE DEF PlacedInv, MessageInv, WindowInv, CustodyInv, KernelInv
  <1>1. PICK b \in Actor : b = self[x] /\ Ready(b) = {} /\ pc[x] = "run"
    BY NotReady DEF ReturnYield, ReturnSleep, At
  <1>2. OthersKept(x) /\ UNCHANGED <<fresh, held, items>>
    BY StepOthers DEF ReturnYield, ReturnSleep, Step, queues
  <1>3. ~Activated(b) /\ \A a \in Actor \ {b} : mailbox'[a] = mailbox[a]
    BY <1>1, NotActivated DEF ReturnYield, ReturnSleep, Owns, Closing, TypeOK
  <1>4. \A a \in Actor \ {b} : Ready(a)' = Ready(a)
    <2>1. CASE ReturnYield(x)
      BY <1>1, <2>1, InsertPlaces DEF ReturnYield
    <2>2. CASE ReturnSleep(x)
      BY <2>2, ReadyKept DEF ReturnSleep
    <2>3. QED  BY <2>1, <2>2
  <1>5. ASSUME NEW a \in Actor, Activated(a) PROVE Activated(a)' /\ mailbox'[a] = mailbox[a]
    <2>1. a # b
      BY <1>3, <1>5
    <2>2. Ready(a) # {} => Activated(a)'
      BY <1>4, <2>1, ActivatedWhere
    <2>3. QED  BY <1>1, <1>2, <1>3, <1>5, <2>1, <2>2, ActivatedStays DEF Wakes, Calls
  <1>6. QED  BY <1>1, <1>2, <1>5, QuietConserved

LEMMA ActivateConserved ==
  ASSUME PlacedInv, Conserved, NEW x \in Ctx, Insert(x) \/ Request(x) PROVE Conserved'
  <1> USE DEF PlacedInv, MessageInv, WindowInv, CustodyInv, KernelInv
  <1>1. /\ OthersKept(x) /\ UNCHANGED <<fresh, held, items, mailbox>>
        /\ pc[x] \in {"insert", "request"}
    BY StepOthers DEF Insert, Request, Step, At, queues
  <1>2. \A a \in Actor : Activated(a) => Activated(a)'
    <2>1. CASE Request(x)
      BY <1>1, <2>1, ReadyKept, ActivatedStays, ActivatedWhere DEF Request, At, Wakes, Calls
    <2>2. CASE Insert(x)
      <3>1. PICK b \in Actor : b = dest[x] /\ Ready(b) = {} /\ mg_actor_insert(b) /\ pc[x] = "insert"
        BY <2>2, NotReady DEF Insert, At
      <3>2. Ready(b)' # {} /\ \A a \in Actor \ {b} : Ready(a)' = Ready(a)
        BY <3>1, InsertPlaces
      <3>3. Activated(b)'
        BY <3>2, ActivatedWhere
      <3>4. \A a \in Actor \ {b} : Activated(a) => Activated(a)'
        BY <1>1, <3>1, <3>2, ActivatedStays, ActivatedWhere DEF Wakes, Calls
      <3>5. QED  BY <3>3, <3>4
    <2>3. QED  BY <2>1, <2>2
  <1>3. QED  BY <1>1, <1>2, QuietConserved

LEMMA PopHeadConserved ==
  ASSUME PlacedInv, Conserved, NEW x \in Ctx, PopHead(x) PROVE Conserved'
  <1> USE DEF PlacedInv, MessageInv, WindowInv, CustodyInv, KernelInv
  <1>1. PICK b \in Actor : b = Head(runq[x])
    BY PopHeadReady
  <1>2. /\ OthersKept(x) /\ UNCHANGED <<fresh, held, items, mailbox>>
        /\ pc[x] = "sched" /\ Calls(x, b)' /\ runq' = [runq EXCEPT ![x] = Tail(runq[x])]
    BY <1>1, StepOthers DEF PopHead, Step, At, Goto, Calls, TypeOK, queues
  <1>3. \A a \in Actor \ {b} : Ready(a)' = Ready(a)
    <2>1. runq[x] \in Seq(Actor) /\ Len(runq[x]) > 0 /\ Distinct(runq[x])
      BY DEF PopHead, TypeOK, Custody
    <2>2. ActorsIn(Tail(runq[x])) = ActorsIn(runq[x]) \ {b}
      BY <1>1, <2>1, TailActors
    <2>3. \A y \in Ctx : ActorsIn(runq'[y]) =
            IF y = x THEN ActorsIn(runq[y]) \ {b} ELSE ActorsIn(runq[y])
      BY <1>2, <2>2 DEF TypeOK
    <2>4. QED  BY <2>3 DEF Ready, ActorsIn, NodesIn
  <1>4. Activated(b)'
    BY <1>2, ActivatedWhere
  <1>5. \A a \in Actor \ {b} : Activated(a) => Activated(a)'
    BY <1>2, <1>3, ActivatedStays, ActivatedWhere DEF Wakes, Calls
  <1>6. QED  BY <1>2, <1>4, <1>5, QuietConserved

\* The other steps of a context change no list, mailbox or set of messages.
LEMMA IdleConserved ==
  ASSUME PlacedInv, Conserved, NEW x \in Ctx,
         \/ TickStart(x) \/ TickWake(x) \/ TickEnd(x) \/ PopHeadEmpty(x) \/ Leave(x) \/ FnMove(x)
  PROVE  Conserved'
  <1> USE DEF PlacedInv, MessageInv, WindowInv, CustodyInv, KernelInv
  <1>1. OthersKept(x)
    BY StepOthers DEF Step
  <1>2. /\ UNCHANGED <<fresh, held, items, mailbox, runq>>
        /\ pc[x] \in {"idle", "tick", "sched", "leave", "run"}
    BY EnterIdle DEF TickStart, TickWake, TickEnd, PopHeadEmpty, Leave, FnMove, KernelCall, Enter,
                     At, queues
  <1>3. QED  BY <1>1, <1>2, DataAssumption, GivenConserved

LEMMA NextConserved == ASSUME PlacedInv, Conserved, [Next]_vars PROVE Conserved'
  <1>1. CASE UNCHANGED vars
    <2>1. \A m \in Message : Owned(m) => Owned(m)'
      BY <1>1 DEF vars, frame, queues, Owned, OwnedBy, MessagesIn, NodesIn, Local, Mailed, Activated
    <2>2. QED  BY <2>1 DEF Conserved
  <1>2. QED
    BY <1>1, InitConservedStep, EnterVectorConserved, ProduceAllocConserved, PushConserved,
       IdleConserved, ActivateConserved, PopHeadConserved, CallConserved, FnGetConserved,
       ReturnQueueConserved, StoreConserved, LoopTestConserved, SuspendConserved DEF Next, Step

LEMMA InitConserved == Init => Conserved
  BY DEF Init, Conserved, Owned, OwnedBy

LEMMA ConservedHolds == Conserved => MessageConserved
  <1> SUFFICES ASSUME Conserved, NEW m \in Message PROVE MessagePlaces(m) # {}
    BY DEF MessageConserved
  <1>1. PICK k, o : OwnedBy(m, k, o)
    BY DEF Conserved, Owned
  <1>2. CASE m \in fresh
    BY <1>2 DEF MessagePlaces
  <1>3. CASE o \in Queue /\ m \in MessagesIn(items[o])
    <2>1. PICK i \in Positions(items[o], m) : TRUE
      BY <1>3 DEF MessagesIn, NodesIn, Positions
    <2>2. <<"queued", o, i>> \in MessagePlaces(m)
      BY <1>3, <2>1 DEF MessagePlaces
    <2>3. QED  BY <2>2
  <1>4. CASE o \in Actor /\ m \in held[o]
    <2>1. <<"held", o>> \in MessagePlaces(m)
      BY <1>4 DEF MessagePlaces
    <2>2. QED  BY <2>1
  <1>5. CASE o \in Ctx /\ Local(o, m)
    <2>1. <<"local", o>> \in MessagePlaces(m)
      BY <1>5 DEF MessagePlaces, Local
    <2>2. QED  BY <2>1
  <1>6. CASE o \in Actor /\ Mailed(o, m)
    <2>1. <<"mailbox", o>> \in MessagePlaces(m)
      BY <1>6 DEF MessagePlaces, Mailed
    <2>2. QED  BY <2>1
  <1>7. QED  BY <1>1, <1>2, <1>3, <1>4, <1>5, <1>6 DEF OwnedBy

\* Sending cannot fail: in a program that pushes to no queue from above the
\* context of its consumers, every message of the pool keeps an owner.
THEOREM MessageConservedInvariant == NoPushFromAbove => (Spec => []MessageConserved)
  <1> SUFFICES ASSUME NoPushFromAbove PROVE Spec => []MessageConserved
    OBVIOUS
  <1>1. Init => PlacedInv /\ Conserved
    BY InitPlacedInv, InitConserved
  <1>2. PlacedInv /\ Conserved /\ [Next]_vars => (PlacedInv /\ Conserved)'
    BY NextPlacedInv, NextConserved
  <1>3. QED  BY <1>1, <1>2, ConservedHolds, PTL DEF Spec

(***************************************************************************)
(* An actor that is subscribed on init and returns only queues.            *)
(***************************************************************************)
Given(a) == InitQueue[a] # NULL /\ Suspends[a] = {}

InCall(x) == pc[x] \in {"run", "insert", "request"} /\ handler[x] \in {"init", "sched"}

MailOK == \A a \in Actor : Given(a) /\ Activated(a) => mailbox[a] # NULL
ArgumentOK == \A x \in Ctx, a \in Actor : InCall(x) /\ self[x] = a /\ Given(a) => msg[x] # NULL
SleepersOK == \A a \in Actor : Asleep(a) # {} => "sleep" \in Suspends[a]

GivenInv == MailOK /\ ArgumentOK /\ SleepersOK

LEMMA ArgumentKept ==
  ASSUME ArgumentOK, NEW x \in Ctx, OthersKept(x),
         InCall(x)' => InCall(x) /\ self'[x] = self[x] /\ msg'[x] = msg[x]
  PROVE  ArgumentOK'
  <1> SUFFICES ASSUME NEW y \in Ctx, NEW a \in Actor, InCall(y)', self'[y] = a, Given(a)
               PROVE  msg'[y] # NULL
    BY DEF ArgumentOK, Given
  <1>1. CASE y = x
    BY <1>1 DEF ArgumentOK
  <1>2. CASE y # x
    <2>1. InCall(y) /\ self[y] = a /\ msg'[y] = msg[y]
      BY <1>2 DEF OthersKept, InCall
    <2>2. QED  BY <2>1 DEF ArgumentOK
  <1>3. QED  BY <1>1, <1>2

LEMMA MailOKKept ==
  ASSUME MailOK, NEW x \in Ctx, OthersKept(x), UNCHANGED <<runq, mailbox>>,
         \A a \in Actor : Given(a) => ~Wakes(x, a)' /\ ~Calls(x, a)'
  PROVE  MailOK'
  <1> SUFFICES ASSUME NEW a \in Actor, Given(a), Activated(a)' PROVE mailbox[a] # NULL
    BY DEF MailOK, Given
  <1>1. Activated(a)
    BY ReadyKept, ActivatedChanges
  <1>2. QED  BY <1>1 DEF MailOK

\* The steps that change no mailbox and activate nobody.
LEMMA EasyGiven ==
  ASSUME PlacedInv, GivenInv, NEW x \in Ctx,
         \/ ProduceAlloc(x) \/ TickStart(x) \/ TickWake(x) \/ TickEnd(x) \/ Request(x)
         \/ PopHeadEmpty(x) \/ Leave(x) \/ FnAlloc(x) \/ FnPoll(x) \/ FnMove(x) \/ ReturnQueue(x)
  PROVE  GivenInv'
  <1> USE DEF PlacedInv, MessageInv, WindowInv, CustodyInv, KernelInv
  <1>1. OthersKept(x)
    BY StepOthers DEF Step
  <1>2. UNCHANGED <<runq, mailbox>>
    BY DEF ProduceAlloc, TickStart, TickWake, TickEnd, Request, PopHeadEmpty, Leave, FnAlloc,
       FnPoll, FnMove, ReturnQueue
  <1>3. InCall(x)' => InCall(x) /\ self'[x] = self[x] /\ msg'[x] = msg[x]
    <2>1. CASE \/ ProduceAlloc(x) \/ TickStart(x) \/ TickWake(x) \/ TickEnd(x)
               \/ PopHeadEmpty(x) \/ Leave(x)
      BY <2>1 DEF ProduceAlloc, TickStart, TickWake, TickEnd, PopHeadEmpty, Leave, Enter, Exit, At,
         Goto, ControlOK, TypeOK, InCall
    <2>2. CASE Request(x)
      BY <2>2 DEF Request, Return, Exit, At, Goto, TypeOK, InCall
    <2>3. CASE FnAlloc(x) \/ FnPoll(x) \/ FnMove(x)
      BY <2>3 DEF FnAlloc, FnPoll, FnMove, InCall
    <2>4. CASE ReturnQueue(x)
      BY <2>4 DEF ReturnQueue, Goto, TypeOK, InCall
    <2>5. QED  BY <2>1, <2>2, <2>3, <2>4
  <1>4. \A a \in Actor : Given(a) => ~Wakes(x, a)' /\ ~Calls(x, a)'
    <2>1. CASE TickWake(x)
      <3>1. PICK b \in due[x] : dest' = [dest EXCEPT ![x] = b]
        BY <2>1 DEF TickWake
      <3>2. b \in Actor /\ x[1] \in Asleep(b)
        BY <3>1 DEF TypeOK, DueOK, Asleep, Ctx
      <3>3. pc'[x] = "insert" /\ dest'[x] = b
        BY <2>1, <3>1 DEF TickWake, TypeOK, Goto
      <3>4. QED  BY <3>2, <3>3 DEF SleepersOK, GivenInv, Given, Wakes, Calls
    <2>2. CASE ~TickWake(x)
      <3>1. pc'[x] \notin {"insert", "call"}
        <4>1. CASE \/ ProduceAlloc(x) \/ TickStart(x) \/ TickEnd(x) \/ Request(x)
                   \/ PopHeadEmpty(x) \/ Leave(x)
          BY <4>1 DEF ProduceAlloc, TickStart, TickEnd, Request, PopHeadEmpty, Leave, Return, Enter,
             Exit, Goto, TypeOK
        <4>2. CASE FnAlloc(x) \/ FnPoll(x) \/ FnMove(x) \/ ReturnQueue(x)
          BY <4>2 DEF FnAlloc, FnPoll, FnMove, ReturnQueue, KernelCall, At, Goto, TypeOK
        <4>3. QED  BY <2>2, <4>1, <4>2
      <3>2. QED  BY <3>1 DEF Wakes, Calls
    <2>3. QED  BY <2>1, <2>2
  <1>5. SleepersOK'
    <2>1. CASE TickWake(x)
      <3>1. \A a \in Actor : Asleep(a)' \subseteq Asleep(a)
        BY <2>1 DEF TickWake, TypeOK, Asleep
      <3>2. QED  BY <3>1 DEF GivenInv, SleepersOK
    <2>2. CASE UNCHANGED asleep
      BY <2>2 DEF GivenInv, SleepersOK, Asleep
    <2>3. QED
      BY <2>1, <2>2 DEF ProduceAlloc, TickStart, TickEnd, Request, PopHeadEmpty, Leave, FnAlloc,
         FnPoll, FnMove, ReturnQueue
  <1>6. QED  BY <1>1, <1>2, <1>3, <1>4, <1>5, ArgumentKept, MailOKKept DEF GivenInv

LEMMA InitGiven ==
  ASSUME PlacedInv, GivenInv, NEW a \in Actor, InitSubscribe(a) \/ InitCall(a) PROVE GivenInv'
  <1> USE MainIsContext DEF PlacedInv, MessageInv, WindowInv, CustodyInv, KernelInv
  <1>1. UNCHANGED <<runq, mailbox, asleep>>
    BY DEF InitSubscribe, InitCall
  <1>2. SleepersOK'
    BY <1>1 DEF GivenInv, SleepersOK, Asleep
  <1>3. CASE UNCHANGED frame
    <2>1. \A b \in Actor : Activated(b)' => Activated(b)
      BY <1>1, <1>3 DEF frame, Activated
    <2>2. MailOK'
      BY <1>1, <2>1 DEF GivenInv, MailOK, Given
    <2>3. ArgumentOK'
      BY <1>3 DEF frame, GivenInv, ArgumentOK, InCall, Given
    <2>4. QED  BY <1>2, <2>2, <2>3 DEF GivenInv
  <1>4. CASE /\ OthersKept(Main)
             /\ \/ pc'[Main] = "assert"
                \/ pc'[Main] = "call" /\ self'[Main] = a /\ InitQueue[a] = NULL
    BY <1>1, <1>2, <1>4, ArgumentKept, MailOKKept DEF GivenInv, Given, InCall, Wakes, Calls
  <1>5. CASE InitCall(a)
    BY <1>4, <1>5 DEF InitCall, OthersKept, Enter, Goto, TypeOK
  <1>6. CASE InitSubscribe(a) /\ ~(UNCHANGED frame)
    <2>1. PICK m : /\ Enter(Main, "init", "assert")
                   /\ self' = [self EXCEPT ![Main] = a]
                   /\ msg' = [msg EXCEPT ![Main] = m]
                   /\ UNCHANGED <<dest, due, budget>>
      BY <1>6 DEF InitSubscribe
    <2>2. OthersKept(Main) /\ pc'[Main] = "assert"
      BY <2>1 DEF OthersKept, TypeOK, Enter, Goto
    <2>3. QED  BY <1>4, <2>2
  <1>7. QED  BY <1>3, <1>5, <1>6

LEMMA EnterVectorGiven ==
  ASSUME PlacedInv, GivenInv, NEW c \in CPU, NEW v \in Vector, EnterVector(c, v) PROVE GivenInv'
  <1> USE DEF PlacedInv, MessageInv, WindowInv, CustodyInv, KernelInv
  <1>1. <<c, vect2prio[v]>> \in Ctx
    BY ContextAssumption DEF Ctx, Level, Prio
  <1>2. PICK x \in Ctx : x = <<c, vect2prio[v]>>
    BY <1>1
  <1>3. OthersKept(x) /\ pc'[x] = "sched" /\ UNCHANGED <<runq, mailbox, asleep>>
    BY <1>2 DEF EnterVector, OthersKept, TypeOK, Enter, Goto
  <1>4. SleepersOK'
    BY <1>3 DEF GivenInv, SleepersOK, Asleep
  <1>5. QED  BY <1>3, <1>4, ArgumentKept, MailOKKept DEF GivenInv, InCall, Wakes, Calls

LEMMA PushGiven ==
  ASSUME PlacedInv, GivenInv, NEW x \in Ctx, ProducePush(x) \/ FnPush(x) PROVE GivenInv'
  <1> USE DEF PlacedInv, MessageInv, WindowInv, CustodyInv, KernelInv
  <1>1. OthersKept(x) /\ UNCHANGED <<self, runq, asleep>>
    BY StepsThatPush
  <1>2. SleepersOK'
    BY <1>1 DEF GivenInv, SleepersOK, Asleep
  <1>3. PICK q \in Queue, m \in Message :
          /\ mg_queue_push(x, q, m) /\ pc[x] \in {"push", "run"} /\ m \notin MessagesIn(items[q])
          /\ pc[x] = "run" => UNCHANGED msg
    <2>1. CASE ProducePush(x)
      <3>1. PICK q \in ProducerTargets : mg_queue_push(x, q, msg[x])
        BY <2>1 DEF ProducePush
      <3>2. q \in Queue /\ pc[x] = "push" /\ msg[x] \in Message
        BY <2>1, DataAssumption DEF ProducePush, At, ControlOK
      <3>3. OwnedBy(msg[x], "local", x)
        BY <3>2 DEF OwnedBy, Local
      <3>4. msg[x] \notin MessagesIn(items[q])
        BY <3>2, <3>3 DEF Ownership, Single, OwnedBy
      <3>5. QED  BY <3>1, <3>2, <3>4
    <2>2. CASE FnPush(x)
      <3>1. PICK b \in Actor : b = self[x] /\ pc[x] = "run"
        BY <2>2 DEF FnPush, KernelCall, At, ControlOK
      <3>2. PICK q \in Targets[b], m \in held[b] : mg_queue_push(x, q, m) /\ UNCHANGED msg
        BY <2>2, <3>1 DEF FnPush
      <3>3. q \in Queue /\ m \in Message
        BY <3>1, <3>2, ActorAssumption DEF TypeOK
      <3>4. OwnedBy(m, "held", b)
        BY <3>2 DEF OwnedBy
      <3>5. m \notin MessagesIn(items[q])
        BY <3>3, <3>4 DEF Ownership, Single, OwnedBy
      <3>6. QED  BY <3>1, <3>2, <3>3, <3>5
    <2>3. QED  BY <2>1, <2>2
  <1>4. InCall(x)' => pc[x] = "run"
    BY <1>3, PushControl DEF InCall, ControlOK
  <1>5. handler[x] = handler'[x] \/ handler'[x] = "none"
    BY <1>3 DEF mg_queue_push, PushLinks, PushHandsOver, Return, Exit, Goto, TypeOK
  <1>6. ArgumentOK'
    BY <1>1, <1>3, <1>4, <1>5, ArgumentKept DEF GivenInv, InCall
  <1>7. CASE Return(x) /\ UNCHANGED <<mailbox, dest>>
    <2>1. pc'[x] \notin {"insert", "call"}
      BY <1>7 DEF Return, Exit, Goto, TypeOK
    <2>2. QED  BY <1>1, <1>2, <1>6, <1>7, <2>1, MailOKKept DEF GivenInv, Wakes, Calls
  <1>8. CASE \E b \in Actor : Handed(x, q, m, b)
    <2>1. PICK b \in Actor : Handed(x, q, m, b)
      BY <1>8
    <2>2. /\ pc'[x] = "insert" /\ dest'[x] = b
          /\ \A a \in Actor : mailbox'[a] = IF a = b THEN m ELSE mailbox[a]
      BY <2>1 DEF Handed, TypeOK
    <2>3. ASSUME NEW a \in Actor, Given(a), Activated(a)' PROVE mailbox'[a] # NULL
      <3>1. a = b \/ Activated(a)
        BY <1>1, <2>2, <2>3, ReadyKept, ActivatedChanges DEF Wakes, Calls
      <3>2. QED  BY <2>2, <2>3, <3>1, DataAssumption DEF GivenInv, MailOK
    <2>4. MailOK'
      BY <2>3 DEF MailOK, Given
    <2>5. QED  BY <1>2, <1>6, <2>4 DEF GivenInv
  <1>9. QED  BY <1>3, <1>7, <1>8, PushMessages

LEMMA InsertGiven ==
  ASSUME PlacedInv, GivenInv, NEW x \in Ctx, Insert(x) \/ PopHead(x) PROVE GivenInv'
  <1> USE DEF PlacedInv, MessageInv, WindowInv, CustodyInv, KernelInv
  <1>1. OthersKept(x) /\ UNCHANGED <<handler, msg, mailbox, asleep>>
    BY StepOthers DEF Insert, PopHead, Step
  <1>2. SleepersOK'
    BY <1>1 DEF GivenInv, SleepersOK, Asleep
  <1>3. PICK b \in Actor : /\ Activated(b)
                           /\ \A a \in Actor \ {b} : Ready(a)' \subseteq Ready(a)
                           /\ \A a \in Actor \ {b} : ~Wakes(x, a)' /\ ~Calls(x, a)'
    <2>1. CASE Insert(x)
      <3>1. PICK b \in Actor : b = dest[x] /\ Ready(b) = {} /\ mg_actor_insert(b)
        BY <2>1, NotReady DEF Insert
      <3>2. Activated(b)
        BY <2>1, <3>1 DEF Insert, At, Activated
      <3>3. \A a \in Actor \ {b} : Ready(a)' = Ready(a)
        BY <3>1, InsertPlaces
      <3>4. pc'[x] = "request"
        BY <2>1 DEF Insert, Goto, TypeOK
      <3>5. QED  BY <3>2, <3>3, <3>4 DEF Wakes, Calls
    <2>2. CASE PopHead(x)
      <3>1. PICK b \in Actor : b = Head(runq[x]) /\ x \in Ready(b)
        BY <2>2, PopHeadReady
      <3>2. \A a \in Actor : Ready(a)' \subseteq Ready(a)
        BY <2>2, PopHeadReady
      <3>3. pc'[x] = "call" /\ self'[x] = b
        BY <2>2, <3>1 DEF PopHead, Goto, TypeOK
      <3>4. Activated(b)
        BY <3>1, ActivatedWhere
      <3>5. QED  BY <3>2, <3>3, <3>4 DEF Wakes, Calls
    <2>3. QED  BY <2>1, <2>2
  <1>4. ASSUME NEW a \in Actor, Activated(a)' PROVE Activated(a)
    <2>1. CASE a = b  BY <1>3, <2>1
    <2>2. CASE a # b
      <3>1. Ready(a)' # {} => Activated(a)
        BY <1>3, <2>2, ActivatedWhere
      <3>2. QED  BY <1>1, <1>3, <1>4, <2>2, <3>1, ActivatedChanges
    <2>3. QED  BY <2>1, <2>2
  <1>5. MailOK'
    BY <1>1, <1>4 DEF GivenInv, MailOK, Given
  <1>6. ArgumentOK'
    <2>1. CASE Insert(x)
      <3>1. InCall(x)' => InCall(x) /\ self'[x] = self[x] /\ msg'[x] = msg[x]
        BY <2>1 DEF Insert, At, InCall
      <3>2. QED  BY <1>1, <3>1, ArgumentKept DEF GivenInv
    <2>2. CASE PopHead(x)
      <3>1. ~InCall(x)'
        BY <2>2 DEF PopHead, Goto, TypeOK, InCall
      <3>2. QED  BY <1>1, <3>1, ArgumentKept DEF GivenInv
    <2>3. QED  BY <2>1, <2>2
  <1>7. QED  BY <1>2, <1>5, <1>6 DEF GivenInv

LEMMA CallGiven == ASSUME PlacedInv, GivenInv, NEW x \in Ctx, Call(x) PROVE GivenInv'
  <1> USE DEF PlacedInv, MessageInv, WindowInv, CustodyInv, KernelInv
  <1>1. PICK a \in Actor : a = self[x] /\ pc[x] = "call"
    BY DEF Call, At, ControlOK
  <1>2. OthersKept(x) /\ UNCHANGED <<self, mailbox, asleep, runq>>
    BY StepOthers DEF Call, Step
  <1>3. pc'[x] = "run" /\ msg'[x] = mailbox[a]
    BY <1>1 DEF Call, Goto, TypeOK
  <1>4. SleepersOK'
    BY <1>2 DEF GivenInv, SleepersOK, Asleep
  <1>5. MailOK'
    BY <1>2, <1>3, MailOKKept DEF GivenInv, Wakes, Calls
  <1>6. Given(a) => mailbox[a] # NULL
    BY <1>1, ActivatedWhere DEF Calls, GivenInv, MailOK
  <1>7. ASSUME NEW y \in Ctx, NEW b \in Actor, InCall(y)', self'[y] = b, Given(b)
        PROVE  msg'[y] # NULL
    <2>1. CASE y = x
      BY <1>1, <1>2, <1>3, <1>6, <1>7, <2>1
    <2>2. CASE y # x
      <3>1. InCall(y) /\ self[y] = b /\ msg'[y] = msg[y]
        BY <1>2, <1>7, <2>2 DEF OthersKept, InCall
      <3>2. QED  BY <1>7, <3>1 DEF GivenInv, ArgumentOK
    <2>3. QED  BY <2>1, <2>2
  <1>8. ArgumentOK'
    BY <1>7 DEF ArgumentOK, Given
  <1>9. QED  BY <1>4, <1>5, <1>8 DEF GivenInv

LEMMA StoreGiven == ASSUME PlacedInv, GivenInv, NEW x \in Ctx, Store(x) PROVE GivenInv'
  <1> USE DEF PlacedInv, MessageInv, WindowInv, CustodyInv, KernelInv
  <1>1. PICK a \in Actor : a = self[x] /\ pc[x] = "store"
    BY DEF Store, At, ControlOK
  <1>2. /\ OthersKept(x) /\ UNCHANGED <<asleep, runq>> /\ pc'[x] = "test"
        /\ \A b \in Actor : mailbox'[b] = IF b = a THEN msg[x] ELSE mailbox[b]
    BY <1>1, StepOthers DEF Store, Goto, TypeOK, Step
  <1>3. SleepersOK'
    BY <1>2 DEF GivenInv, SleepersOK, Asleep
  <1>4. ArgumentOK'
    BY <1>2, ArgumentKept DEF GivenInv, InCall
  <1>5. ~Activated(a)
    <2>1. CASE msg[x] = NULL
      <3>1. Waiting(a) # {}
        BY <1>1, <2>1 DEF StillWaits, Closing
      <3>2. QED  BY <3>1, NotActivated
    <2>2. CASE msg[x] # NULL
      BY <1>1, <2>2, NotActivated DEF Owns, Closing
    <2>3. QED  BY <2>1, <2>2
  <1>6. \A b \in Actor : Activated(b)' => Activated(b)
    BY <1>2, ReadyKept, ActivatedChanges DEF Wakes, Calls
  <1>7. MailOK'
    BY <1>2, <1>5, <1>6 DEF GivenInv, MailOK, Given
  <1>8. QED  BY <1>3, <1>4, <1>7 DEF GivenInv

LEMMA LoopTestGiven == ASSUME PlacedInv, GivenInv, NEW x \in Ctx, LoopTest(x) PROVE GivenInv'
  <1> USE DEF PlacedInv, MessageInv, WindowInv, CustodyInv, KernelInv
  <1>1. PICK a \in Actor : a = self[x] /\ pc[x] = "test" /\ mailbox[a] = msg[x]
    BY DEF LoopTest, At, ControlOK, TestAgrees
  <1>2. OthersKept(x) /\ UNCHANGED <<asleep, runq, mailbox>>
    BY StepOthers DEF LoopTest, Step
  <1>3. /\ msg[x] # NULL => pc'[x] = "call" /\ self'[x] = a
        /\ msg[x] = NULL => pc'[x] \in {"sched", "idle"}
    BY <1>1, TestsResult DEF TestSound, EndActorCall, Exit, Goto, TypeOK
  <1>4. SleepersOK'
    BY <1>2 DEF GivenInv, SleepersOK, Asleep
  <1>5. ArgumentOK'
    BY <1>2, <1>3, ArgumentKept DEF GivenInv, InCall
  <1>6. \A b \in Actor : Activated(b)' => Activated(b) \/ (b = a /\ mailbox[b] # NULL)
    BY <1>1, <1>2, <1>3, ReadyKept, ActivatedChanges DEF Wakes, Calls
  <1>7. MailOK'
    BY <1>2, <1>6 DEF GivenInv, MailOK, Given
  <1>8. QED  BY <1>4, <1>5, <1>7 DEF GivenInv

LEMMA SuspendGiven ==
  ASSUME PlacedInv, GivenInv, NEW x \in Ctx, ReturnYield(x) \/ ReturnSleep(x) PROVE GivenInv'
  <1> USE DEF PlacedInv, MessageInv, WindowInv, CustodyInv, KernelInv
  <1>1. PICK b \in Actor : b = self[x] /\ Ready(b) = {} /\ pc[x] = "run"
    BY NotReady DEF ReturnYield, ReturnSleep, At
  <1>2. OthersKept(x) /\ pc'[x] \in {"idle", "sched"}
    <2>1. OthersKept(x)
      BY StepOthers DEF Step
    <2>2. pc'[x] \in {"idle", "sched"}
      BY DEF ReturnYield, ReturnSleep, EndActorCall, Exit, Goto, TypeOK
    <2>3. QED  BY <2>1, <2>2
  <1>3. \A a \in Actor \ {b} : mailbox'[a] = mailbox[a]
    BY <1>1 DEF ReturnYield, ReturnSleep, TypeOK
  <1>4. \A a \in Actor \ {b} : Ready(a)' = Ready(a)
    <2>1. CASE ReturnYield(x)
      BY <1>1, <2>1, InsertPlaces DEF ReturnYield
    <2>2. CASE ReturnSleep(x)
      BY <2>2, ReadyKept DEF ReturnSleep
    <2>3. QED  BY <2>1, <2>2
  <1>5. ~Given(b)
    BY <1>1 DEF ReturnYield, ReturnSleep, Given
  <1>6. ASSUME NEW a \in Actor, Given(a), Activated(a)' PROVE mailbox'[a] # NULL
    <2>1. a # b
      BY <1>5, <1>6
    <2>2. Ready(a)' # {} => Activated(a)
      BY <1>4, <2>1, ActivatedWhere
    <2>3. Activated(a)
      BY <1>2, <1>6, <2>2, ActivatedChanges DEF Wakes, Calls
    <2>4. QED  BY <1>3, <1>6, <2>1, <2>3 DEF GivenInv, MailOK
  <1>7. MailOK'
    BY <1>6 DEF MailOK, Given
  <1>8. ArgumentOK'
    BY <1>2, ArgumentKept DEF GivenInv, InCall
  <1>9. SleepersOK'
    <2>1. CASE ReturnYield(x)
      BY <2>1 DEF ReturnYield, GivenInv, SleepersOK, Asleep
    <2>2. CASE ReturnSleep(x)
      <3>1. x[1] \in CPU /\ "sleep" \in Suspends[b]
        BY <1>1, <2>2 DEF Ctx, ReturnSleep
      <3>2. \A a \in Actor \ {b} : Asleep(a)' = Asleep(a)
        BY <1>1, <2>2, <3>1, FallsAsleep DEF ReturnSleep
      <3>3. QED  BY <3>1, <3>2 DEF GivenInv, SleepersOK
    <2>3. QED  BY <2>1, <2>2
  <1>10. QED  BY <1>7, <1>8, <1>9 DEF GivenInv

LEMMA NextGiven == ASSUME PlacedInv, GivenInv, [Next]_vars PROVE GivenInv'
  <1>1. CASE UNCHANGED vars
    <2>1. UNCHANGED <<pc, handler, self, msg, dest, mailbox, runq, asleep>>
      BY <1>1 DEF vars, frame
    <2>2. \A a \in Actor : (Activated(a)' <=> Activated(a)) /\ Asleep(a)' = Asleep(a)
      BY <2>1 DEF Activated, Asleep
    <2>3. QED  BY <2>1, <2>2 DEF GivenInv, MailOK, ArgumentOK, SleepersOK, InCall, Given
  <1>2. QED
    BY <1>1, InitGiven, EnterVectorGiven, EasyGiven, PushGiven, InsertGiven, CallGiven,
       StoreGiven, LoopTestGiven, SuspendGiven DEF Next, Step

LEMMA InitGivenInv == Init => GivenInv
  <1> SUFFICES ASSUME Init PROVE GivenInv
    OBVIOUS
  <1>1. \A a \in Actor : ~Activated(a)
    BY DEF Init, Activated, Positions
  <1>2. \A a \in Actor : Asleep(a) = {}
    BY DEF Init, Asleep
  <1>3. \A x \in Ctx : ~InCall(x)
    BY DEF Init, InCall
  <1>4. QED  BY <1>1, <1>2, <1>3 DEF GivenInv, MailOK, ArgumentOK, SleepersOK

\* An actor subscribed on init that returns only queues is called with a message,
\* in a program that pushes to no queue from above the context of its consumers.
THEOREM CalledWithMessageInvariant == NoPushFromAbove => (Spec => []CalledWithMessage)
  <1> SUFFICES ASSUME NoPushFromAbove PROVE Spec => []CalledWithMessage
    OBVIOUS
  <1>1. Init => PlacedInv /\ GivenInv
    BY InitPlacedInv, InitGivenInv
  <1>2. PlacedInv /\ GivenInv /\ [Next]_vars => (PlacedInv /\ GivenInv)'
    BY NextPlacedInv, NextGiven
  <1>3. PlacedInv /\ GivenInv => CalledWithMessage
    BY DEF PlacedInv, MessageInv, WindowInv, CustodyInv, KernelInv, ControlOK, GivenInv, ArgumentOK,
       InCall, Given, CalledWithMessage
  <1>4. QED  BY <1>1, <1>2, <1>3, PTL DEF Spec

-----------------------------------------------------------------------------
(***************************************************************************)
(* The queues with one reader implement the channels, in every program     *)
(* that pushes to no queue from above.                                     *)
(***************************************************************************)
\* An actor waits in no queue but those it reads.
WaitsOK == \A a \in Actor : Waiting(a) \subseteq Reads(a)

ChannelInv == PlacedInv /\ WaitsOK

(***************************************************************************)
(* Where actors wait.                                                      *)
(***************************************************************************)
LEMMA QueueStep ==
  ASSUME PlacedInv, [Next]_vars
  PROVE  \/ UNCHANGED items
         \/ \E m \in Message : mg_message_alloc(m)
         \/ \E q \in Queue, m \in Message : PopMessage(q, m)
         \/ \E x \in Ctx, q \in Queue, m \in Message : mg_queue_push(x, q, m)
         \/ \E a \in Actor : \E q \in Queue \cap Reads(a) : Subscribe(q, a) /\ Waiting(a) = {}
  <1> USE DEF PlacedInv, MessageInv, WindowInv, CustodyInv, KernelInv
  <1>1. ASSUME NEW a \in Actor, InitSubscribe(a)
        PROVE  \/ \E q \in Queue, m \in Message : PopMessage(q, m)
               \/ \E q \in Queue \cap Reads(a) : Subscribe(q, a) /\ Waiting(a) = {}
    <2>1. InitQueue[a] \in Queue \cap Reads(a)
      BY <1>1, ActorAssumption DEF InitSubscribe, Reads
    <2>2. a \in Unborn(a)
      BY <1>1 DEF InitSubscribe, Unborn
    <2>3. Waiting(a) = {}
      BY <2>2, OnlyPlace DEF Custody, IsIn
    <2>4. QED  BY <1>1, <2>1, <2>3 DEF InitSubscribe
  <1>2. ASSUME NEW x \in Ctx, ReturnQueue(x)
        PROVE  \/ \E q \in Queue, m \in Message : PopMessage(q, m)
               \/ \E a \in Actor : \E q \in Queue \cap Reads(a) : Subscribe(q, a) /\ Waiting(a) = {}
    <2>1. PICK a \in Actor : a = self[x] /\ pc[x] = "run"
      BY <1>2 DEF ReturnQueue, At, ControlOK
    <2>2. Waiting(a) = {}
      <3>1. x \in Running(a)
        BY <2>1 DEF Running, Owns, Closing
      <3>2. QED  BY <3>1, OnlyPlace DEF Custody, IsIn
    <2>3. Subscribes[a] \subseteq Queue \cap Reads(a)
      BY ActorAssumption DEF Reads
    <2>4. QED  BY <1>2, <2>1, <2>2, <2>3 DEF ReturnQueue
  <1>3. ASSUME NEW x \in Ctx, FnPoll(x) PROVE \E q \in Queue, m \in Message : PopMessage(q, m)
    <2>1. self[x] \in Actor
      BY <1>3 DEF FnPoll, KernelCall, At, ControlOK
    <2>2. QED  BY <1>3, <2>1, ActorAssumption DEF FnPoll
  <1>4. ASSUME NEW x \in Ctx, ProducePush(x) \/ FnPush(x)
        PROVE  \E q \in Queue, m \in Message : mg_queue_push(x, q, m)
    BY <1>4, StepsThatPush DEF Pushes
  <1>5. ASSUME NEW x \in Ctx, ProduceAlloc(x) \/ FnAlloc(x) PROVE \E m \in Message : mg_message_alloc(m)
    BY <1>5 DEF ProduceAlloc, FnAlloc
  <1>6. ASSUME NEW x \in Ctx,
               \/ TickStart(x) \/ TickWake(x) \/ TickEnd(x) \/ Insert(x) \/ Request(x)
               \/ PopHead(x) \/ PopHeadEmpty(x) \/ Leave(x) \/ Call(x) \/ FnMove(x)
               \/ Store(x) \/ LoopTest(x) \/ ReturnYield(x) \/ ReturnSleep(x)
        PROVE  UNCHANGED items
    BY <1>6 DEF TickStart, TickWake, TickEnd, Insert, Request, PopHead, PopHeadEmpty, Leave, Call,
       FnMove, Store, LoopTest, ReturnYield, ReturnSleep, queues
  <1>7. ASSUME NEW c \in CPU, NEW v \in Vector, EnterVector(c, v) PROVE UNCHANGED items
    BY <1>7 DEF EnterVector, queues
  <1>8. ASSUME NEW a \in Actor, InitCall(a) PROVE UNCHANGED items
    BY <1>8 DEF InitCall, queues
  <1>9. CASE UNCHANGED vars
    BY <1>9 DEF vars, queues
  <1>10. QED
    BY <1>1, <1>2, <1>3, <1>4, <1>5, <1>6, <1>7, <1>8, <1>9 DEF Next, Step

LEMMA NextWaits == ASSUME ChannelInv, [Next]_vars PROVE WaitsOK'
  <1> USE DEF ChannelInv, PlacedInv, MessageInv, WindowInv, CustodyInv, KernelInv
  <1>0. ASSUME \A a \in Actor : Waiting(a)' \subseteq Waiting(a) PROVE WaitsOK'
    BY <1>0 DEF WaitsOK, Reads
  <1>1. CASE UNCHANGED items
    BY <1>0, <1>1, RestKept
  <1>2. CASE \E m \in Message : mg_message_alloc(m)
    BY <1>0, <1>2, AllocPlaces
  <1>3. CASE \E q \in Queue, m \in Message : PopMessage(q, m)
    BY <1>0, <1>3, PopPlaces
  <1>4. CASE \E x \in Ctx, q \in Queue, m \in Message : mg_queue_push(x, q, m)
    <2>1. \A a \in Actor : Waiting(a)' \subseteq Waiting(a)
      BY <1>4, PushPlaces
    <2>2. QED  BY <1>0, <2>1
  <1>5. CASE \E a \in Actor : \E q \in Queue \cap Reads(a) : Subscribe(q, a) /\ Waiting(a) = {}
    <2>1. PICK a \in Actor : \E q \in Queue \cap Reads(a) : Subscribe(q, a) /\ Waiting(a) = {}
      BY <1>5
    <2>2. PICK q \in Queue \cap Reads(a) : Subscribe(q, a) /\ Waiting(a) = {}
      BY <2>1
    <2>3. Waiting(a)' = {q} /\ \A b \in Actor \ {a} : Waiting(b)' = Waiting(b)
      BY <2>2, SubscribePlaces
    <2>4. QED  BY <2>3 DEF WaitsOK, Reads
  <1>6. QED  BY <1>1, <1>2, <1>3, <1>4, <1>5, QueueStep

LEMMA InitChannelInv == Init => ChannelInv
  <1> SUFFICES ASSUME Init PROVE WaitsOK
    BY InitPlacedInv DEF ChannelInv
  <1>1. \A a \in Actor : Waiting(a) = {}
    BY DEF Init, Waiting, ActorsIn, NodesIn
  <1>2. QED  BY <1>1 DEF WaitsOK

LEMMA NextChannelInv == NoPushFromAbove /\ ChannelInv /\ [Next]_vars => ChannelInv'
  BY NextPlacedInv, NextWaits DEF ChannelInv

(***************************************************************************)
(* The three parts of the content of a channel.                            *)
(***************************************************************************)
LEMMA ReaderIs ==
  ASSUME NEW q \in Fifos
  PROVE  /\ q \in Queue /\ q # Pool
         /\ Reader(q) \in Actor /\ Reads(Reader(q)) = {q}
         /\ \A b \in Actor \ {Reader(q)} : q \notin Reads(b)
  <1>1. PICK a \in Actor : Reads(a) = {q} /\ \A b \in Actor \ {a} : q \notin Reads(b)
    BY DEF Fifos
  <1>2. Reader(q) \in Actor /\ q \in Reads(Reader(q))
    BY <1>1 DEF Reader
  <1>3. Reader(q) = a
    BY <1>1, <1>2
  <1>4. QED  BY <1>1, <1>3 DEF Fifos

LEMMA OneReader ==
  ASSUME NEW q \in Fifos, NEW r \in Fifos, Reader(q) = Reader(r) PROVE q = r
  BY ReaderIs

LEMMA OnePopping ==
  ASSUME CustodyInv, NEW a \in Actor, NEW x \in Ctx
  PROVE  /\ Popping(x, a) => Popped(a) = <<msg[x]>>
         /\ Owns(x, a) /\ ~Popping(x, a) => Popped(a) = <<>>
         /\ Running(a) = {} => Popped(a) = <<>>
  <1>1. ASSUME NEW y \in Ctx, NEW z \in Ctx, Owns(y, a), Owns(z, a) PROVE y = z
    <2>1. IsIn(a, {y}, {}, {}, {}, {}, {})
      BY <1>1, OnlyPlace DEF CustodyInv, Custody, Running
    <2>2. QED  BY <1>1, <2>1 DEF IsIn, Running
  <1>2. \A y \in Ctx : Popping(y, a) => Owns(y, a)
    BY DEF Popping, Owns, Closing
  <1>3. ASSUME Popping(x, a) PROVE Popped(a) = <<msg[x]>>
    <2>1. PICK y : y = CHOOSE z \in Ctx : Popping(z, a)
      OBVIOUS
    <2>2. y \in Ctx /\ Popping(y, a)
      BY <1>3, <2>1
    <2>3. y = x
      BY <1>1, <1>2, <1>3, <2>2
    <2>4. QED  BY <1>3, <2>1, <2>3 DEF Popped
  <1>4. ASSUME Owns(x, a), ~Popping(x, a) PROVE Popped(a) = <<>>
    BY <1>1, <1>2, <1>4 DEF Popped
  <1>5. ASSUME Running(a) = {} PROVE Popped(a) = <<>>
    BY <1>2, <1>5 DEF Popped, Running
  <1>6. QED  BY <1>3, <1>4, <1>5

PoppedRight ==
  \A a \in Actor :
    /\ \A x \in Ctx : Popping(x, a) => Popped(a) = <<msg[x]>>
    /\ (\A y \in Ctx : ~Popping(y, a)) => Popped(a) = <<>>

LEMMA PoppedIsRight == CustodyInv => PoppedRight
  <1> SUFFICES ASSUME CustodyInv PROVE PoppedRight
    OBVIOUS
  <1>1. \A a \in Actor : (\A y \in Ctx : ~Popping(y, a)) => Popped(a) = <<>>
    BY DEF Popped
  <1>2. ASSUME NEW a \in Actor, NEW x \in Ctx, Popping(x, a) PROVE Popped(a) = <<msg[x]>>
    BY <1>2, OnePopping
  <1>3. QED  BY <1>1, <1>2 DEF PoppedRight

\* The same after a step.
LEMMA PoppedStaysRight == CustodyInv' => PoppedRight'
  BY PoppedIsRight, PTL

LEMMA PoppedKept ==
  ASSUME CustodyInv, CustodyInv', NEW x \in Ctx, OthersKept(x), NEW a \in Actor,
         ~Popping(x, a), ~Popping(x, a)'
  PROVE  Popped(a)' = Popped(a)
  <1>1. CASE \E y \in Ctx : Popping(y, a)
    <2>1. PICK y \in Ctx : Popping(y, a)
      BY <1>1
    <2>2. Popping(y, a)' /\ msg'[y] = msg[y]
      BY <2>1 DEF OthersKept, Popping
    <2>3. QED  BY <2>1, <2>2, PoppedIsRight, PoppedStaysRight DEF PoppedRight
  <1>2. CASE ~(\E y \in Ctx : Popping(y, a))
    <2>1. \A y \in Ctx : ~Popping(y, a)'
      BY <1>2 DEF OthersKept, Popping
    <2>2. QED  BY <1>2, <2>1, PoppedIsRight, PoppedStaysRight DEF PoppedRight
  <1>3. QED  BY <1>1, <1>2

LEMMA ActivatedSame ==
  ASSUME NEW x \in Ctx, OthersKept(x), NEW a \in Actor, Ready(a)' = Ready(a),
         ~Wakes(x, a), ~Calls(x, a), ~Wakes(x, a)', ~Calls(x, a)'
  PROVE  Activated(a)' <=> Activated(a)
  BY ActivatedStays, ActivatedChanges, ActivatedWhere

LEMMA PartTypes ==
  ASSUME KernelInv, NEW a \in Actor, NEW q \in Queue
  PROVE  /\ Linked(q) \in Seq(Message)
         /\ \/ InMailbox(a) = <<>>
            \/ \E m \in Message : InMailbox(a) = <<m>>
         /\ \/ Popped(a) = <<>>
            \/ \E m \in Message : Popped(a) = <<m>>
  <1> USE DEF KernelInv
  <1>1. Linked(q) \in Seq(Message)
    BY DEF Linked, QueueShape, HasShape, TypeOK
  <1>2. \/ InMailbox(a) = <<>>
        \/ \E m \in Message : InMailbox(a) = <<m>>
    BY DEF InMailbox, TypeOK
  <1>3. CASE \E x \in Ctx : Popping(x, a)
    <2>1. PICK y : y = CHOOSE z \in Ctx : Popping(z, a)
      OBVIOUS
    <2>2. y \in Ctx /\ Popping(y, a)
      BY <1>3, <2>1
    <2>3. Popped(a) = <<msg[y]>> /\ msg[y] \in Message
      BY <1>3, <2>1, <2>2 DEF Popped, Popping, TypeOK
    <2>4. QED  BY <1>1, <1>2, <2>3
  <1>4. CASE ~(\E x \in Ctx : Popping(x, a))
    BY <1>1, <1>2, <1>4 DEF Popped
  <1>5. QED  BY <1>3, <1>4

LEMMA Joined ==
  ASSUME NEW S, NEW u \in Seq(S), NEW v \in Seq(S), NEW w \in Seq(S), NEW e \in S
  PROVE  /\ <<>> \o <<>> \o w = w
         /\ <<e>> \o <<>> \o w # <<>> /\ Tail(<<e>> \o <<>> \o w) = w
         /\ <<>> \o <<e>> \o w = <<e>> \o <<>> \o w
         /\ w # <<>> => <<>> \o <<Head(w)>> \o Tail(w) = w
         /\ u \o v \o Append(w, e) = Append(u \o v \o w, e)
  <1>1. <<e>> \in Seq(S) /\ <<>> \in Seq(S) /\ Len(<<e>>) = 1 /\ <<e>>[1] = e
    OBVIOUS
  <1>2. <<>> \o <<>> = <<>> /\ <<>> \o w = w /\ <<e>> \o <<>> = <<e>> /\ <<>> \o <<e>> = <<e>>
    BY <1>1, ConcatEmptySeq
  <1>3. PICK t : t = <<e>> \o w
    OBVIOUS
  <1>4. /\ t \in Seq(S) /\ Len(t) = 1 + Len(w)
        /\ \A i \in 1..(1 + Len(w)) : t[i] = IF i <= 1 THEN <<e>>[i] ELSE w[i - 1]
    BY <1>1, <1>3, ConcatProperties
  <1>5. t # <<>> /\ Tail(t) = w
    <2>1. t # <<>>
      BY <1>4, LenProperties
    <2>2. /\ Tail(t) \in Seq(S) /\ Len(Tail(t)) = Len(w)
          /\ \A i \in 1..Len(w) : Tail(t)[i] = w[i]
      BY <1>4, <2>1, HeadTailProperties, LenProperties
    <2>3. QED  BY <2>1, <2>2, SeqEqual
  <1>6. ASSUME w # <<>> PROVE <<Head(w)>> \o Tail(w) = w
    <2>1. /\ Head(w) \in S /\ Tail(w) \in Seq(S) /\ Len(Tail(w)) = Len(w) - 1 /\ Len(w) \in Nat \ {0}
          /\ \A i \in 1..Len(Tail(w)) : Tail(w)[i] = w[i + 1]
      BY <1>6, HeadTailProperties, EmptySeq
    <2>2. PICK h \in S : h = Head(w) /\ h = w[1]
      BY <1>6, <2>1
    <2>3. <<h>> \in Seq(S) /\ Len(<<h>>) = 1 /\ <<h>>[1] = h
      OBVIOUS
    <2>4. PICK s : s = <<h>> \o Tail(w)
      OBVIOUS
    <2>5. /\ s \in Seq(S) /\ Len(s) = Len(w)
          /\ \A i \in 1..Len(w) : s[i] = IF i <= 1 THEN <<h>>[i] ELSE Tail(w)[i - 1]
      BY <2>1, <2>3, <2>4, ConcatProperties
    <2>6. \A i \in 1..Len(w) : s[i] = w[i]
      BY <2>1, <2>2, <2>3, <2>5
    <2>7. QED  BY <2>2, <2>4, <2>5, <2>6, SeqEqual
  <1>7. w # <<>> => <<>> \o <<Head(w)>> = <<Head(w)>>
    <2>1. w # <<>> => <<Head(w)>> \in Seq(S)
      BY HeadTailProperties
    <2>2. QED  BY <2>1, ConcatEmptySeq
  <1>8. u \o v \o Append(w, e) = Append(u \o v \o w, e)
    <2>1. u \o v \in Seq(S)
      BY ConcatProperties
    <2>2. PICK z \in Seq(S) : z = u \o v
      BY <2>1
    <2>3. PICK wa : wa = Append(w, e)
      OBVIOUS
    <2>4. /\ wa \in Seq(S) /\ Len(wa) = Len(w) + 1
          /\ \A i \in 1..(Len(w) + 1) : wa[i] = IF i <= Len(w) THEN w[i] ELSE e
      BY <2>3
    <2>5. PICK r \in Seq(S) : r = z \o w
      BY ConcatProperties
    <2>6. /\ r \in Seq(S) /\ Len(r) = Len(z) + Len(w)
          /\ \A i \in 1..(Len(z) + Len(w)) : r[i] = IF i <= Len(z) THEN z[i] ELSE w[i - Len(z)]
      BY <2>5, ConcatProperties
    <2>7. PICK ra : ra = Append(r, e)
      OBVIOUS
    <2>8. /\ ra \in Seq(S) /\ Len(ra) = Len(r) + 1
          /\ \A i \in 1..(Len(r) + 1) : ra[i] = IF i <= Len(r) THEN r[i] ELSE e
      BY <2>7
    <2>9. PICK s : s = z \o wa
      OBVIOUS
    <2>10. /\ s \in Seq(S) /\ Len(s) = Len(z) + Len(wa)
           /\ \A i \in 1..(Len(z) + Len(wa)) : s[i] = IF i <= Len(z) THEN z[i] ELSE wa[i - Len(z)]
      BY <2>4, <2>9, ConcatProperties
    <2>11. PICK k \in Nat, n \in Nat : k = Len(z) /\ n = Len(w)
      BY LenProperties
    <2>12. ASSUME NEW i \in 1..(k + n + 1) PROVE s[i] = ra[i]
      <3>1. CASE i <= k
        BY <2>4, <2>6, <2>8, <2>10, <2>11, <3>1
      <3>2. CASE i > k
        <4>1. i - k \in 1..(n + 1) /\ s[i] = wa[i - k]
          BY <2>4, <2>10, <2>11, <3>2
        <4>2. CASE i <= k + n
          <5>1. s[i] = w[i - k]
            <6>1. PICK j \in 1..n : j = i - k
              BY <3>2, <4>2
            <6>2. wa[j] = w[j]
              BY <2>4, <2>11
            <6>3. QED  BY <4>1, <6>1, <6>2
          <5>2. r[i] = w[i - k]
            BY <2>6, <2>11, <3>2, <4>2
          <5>3. ra[i] = r[i]
            BY <2>6, <2>8, <2>11, <4>2
          <5>4. QED  BY <5>1, <5>2, <5>3
        <4>3. CASE i = k + n + 1
          <5>1. s[i] = e
            BY <2>4, <2>11, <4>1, <4>3
          <5>2. ra[i] = e
            BY <2>6, <2>8, <2>11, <4>3
          <5>3. QED  BY <5>1, <5>2
        <4>4. QED  BY <4>2, <4>3
      <3>3. QED  BY <2>11, <3>1, <3>2
    <2>13. Len(s) = k + n + 1 /\ Len(ra) = k + n + 1
      BY <2>4, <2>6, <2>8, <2>10, <2>11
    <2>14. s = ra
      BY <2>8, <2>10, <2>12, <2>13, SeqEqual
    <2>15. QED  BY <2>2, <2>3, <2>5, <2>7, <2>9, <2>14
  <1>9. QED  BY <1>2, <1>3, <1>5, <1>6, <1>7, <1>8

(***************************************************************************)
(* What a step does to the channels.                                       *)
(***************************************************************************)
Same(q) == Undelivered(q)' = Undelivered(q)
Sent(q) == \E m \in Message : Undelivered(q)' = Append(Undelivered(q), m)
Got(q) == Undelivered(q) # <<>> /\ Undelivered(q)' = Tail(Undelivered(q))

OneChannel(r) ==
  /\ \A q \in Fifos \ {r} : Same(q)
  /\ r \in Fifos => Same(r) \/ Sent(r) \/ Got(r)

Touches(x, a) == Wakes(x, a) \/ Calls(x, a) \/ Popping(x, a)

LEMMA Contents ==
  ASSUME NEW q \in Fifos, NEW a, a = Reader(q)
  PROVE  /\ Undelivered(q) = InMailbox(a) \o Popped(a) \o Linked(q)
         /\ Undelivered(q)' = InMailbox(a)' \o Popped(a)' \o Linked(q)'
  BY DEF Undelivered, Reader, Reads

LEMMA OtherReader ==
  ASSUME CustodyInv, CustodyInv', NEW x \in Ctx, OthersKept(x), NEW a \in Actor,
         Ready(a)' = Ready(a), mailbox'[a] = mailbox[a], ~Touches(x, a), ~Touches(x, a)'
  PROVE  InMailbox(a)' = InMailbox(a) /\ Popped(a)' = Popped(a)
  <1>1. Activated(a)' <=> Activated(a)
    BY ActivatedSame DEF Touches
  <1>2. Popped(a)' = Popped(a)
    BY PoppedKept DEF Touches
  <1>3. QED  BY <1>1, <1>2 DEF InMailbox

LEMMA OtherChannel ==
  ASSUME CustodyInv, CustodyInv', NEW x \in Ctx, OthersKept(x), NEW q \in Fifos, NEW a, a = Reader(q),
         Ready(a)' = Ready(a), mailbox'[a] = mailbox[a], ~Touches(x, a), ~Touches(x, a)',
         Linked(q)' = Linked(q)
  PROVE  Same(q)
  <1>1. a \in Actor
    BY ReaderIs
  <1>2. InMailbox(a)' = InMailbox(a) /\ Popped(a)' = Popped(a)
    BY <1>1, OtherReader
  <1>3. QED  BY <1>2, Contents DEF Same

LEMMA QuietChannels ==
  ASSUME CustodyInv, CustodyInv', NEW x \in Ctx, OthersKept(x), UNCHANGED <<runq, mailbox>>,
         pc[x] \notin {"insert", "call", "store", "test"}, pc'[x] \notin {"store", "test"},
         \A a \in Actor : Wakes(x, a)' \/ Calls(x, a)' => mailbox[a] = NULL,
         \A q \in Queue \ {Pool} : Linked(q)' = Linked(q)
  PROVE  \A q \in Fifos : Same(q)
  <1> SUFFICES ASSUME NEW q \in Fifos PROVE Same(q)
    OBVIOUS
  <1>1. PICK a \in Actor : a = Reader(q)
    BY ReaderIs
  <1>2. /\ Linked(q)' = Linked(q) /\ Ready(a)' = Ready(a)
        /\ ~Touches(x, a) /\ ~Popping(x, a)'
    BY ReaderIs, ReadyKept DEF Touches, Wakes, Calls, Popping
  <1>3. CASE Wakes(x, a)' \/ Calls(x, a)'
    <2>1. InMailbox(a) = <<>> /\ InMailbox(a)' = <<>>
      BY <1>3 DEF InMailbox
    <2>2. Popped(a)' = Popped(a)
      BY <1>2, PoppedKept DEF Touches
    <2>3. QED  BY <1>1, <1>2, <2>1, <2>2, Contents DEF Same
  <1>4. CASE ~Wakes(x, a)' /\ ~Calls(x, a)'
    <2>1. ~Touches(x, a)'
      BY <1>2, <1>4 DEF Touches
    <2>2. QED  BY <1>1, <1>2, <2>1, OtherChannel
  <1>5. QED  BY <1>3, <1>4

LEMMA AllocLinks ==
  ASSUME KernelInv, NEW m \in Message, mg_message_alloc(m)
  PROVE  \A q \in Queue \ {Pool} : Linked(q)' = Linked(q)
  BY DEF KernelInv, TypeOK, mg_message_alloc, PopMessage, Dequeue, Lengthen, Linked

LEMMA PopLinks ==
  ASSUME KernelInv, NEW q \in Queue, NEW m, PopMessage(q, m)
  PROVE  /\ m \in Message
         /\ Linked(q) # <<>> /\ m = Head(Linked(q)) /\ Linked(q)' = Tail(Linked(q))
         /\ \A r \in Queue \ {q} : Linked(r)' = Linked(r)
  <1> USE DEF KernelInv
  <1>1. /\ length[q] \in Int /\ length[q] > 0 /\ items[q] \in Seq(Message)
        /\ Len(items[q]) = length[q] /\ m = Head(items[q])
        /\ items' = [items EXCEPT ![q] = Tail(items[q])]
        /\ length' = [length EXCEPT ![q] = length[q] + -1]
    BY DEF PopMessage, Dequeue, Lengthen, TypeOK, QueueShape, HasShape
  <1>2. m \in Message /\ items[q] # <<>> /\ Len(Tail(items[q])) = Len(items[q]) - 1
    BY <1>1, TailShape
  <1>3. \A r \in Queue \ {q} : Linked(r)' = Linked(r)
    BY <1>1 DEF Linked, TypeOK
  <1>4. Linked(q) = items[q]
    BY <1>1 DEF Linked
  <1>5. items'[q] = Tail(items[q]) /\ length'[q] = length[q] - 1
    BY <1>1 DEF TypeOK
  <1>6. Linked(q)' = Tail(items[q])
    <2>1. CASE length[q] > 1
      BY <1>1, <1>5, <2>1 DEF Linked
    <2>2. CASE length[q] = 1
      <3>1. Tail(items[q]) \in Seq(Message) /\ Len(Tail(items[q])) = 0
        BY <1>1, <1>2, <2>2, TailShape
      <3>2. Tail(items[q]) = <<>>
        BY <3>1, EmptySeq
      <3>3. QED  BY <1>5, <2>2, <3>2 DEF Linked
    <2>3. QED  BY <1>1, <2>1, <2>2
  <1>7. QED  BY <1>1, <1>2, <1>3, <1>4, <1>6

LEMMA SubscribeLinks ==
  ASSUME KernelInv, NEW q \in Queue, NEW a \in Actor, Subscribe(q, a)
  PROVE  \A r \in Queue : Linked(r)' = Linked(r)
  BY DEF KernelInv, TypeOK, Subscribe, Enqueue, Lengthen, Linked

\* A queue delivers the oldest message to its reader, who has none in its mailbox.
LEMMA GetsOldest ==
  ASSUME CustodyInv, NEW q \in Fifos, NEW a \in Actor, a = Reader(q), NEW m, PopMessage(q, m),
         InMailbox(a) = <<>>, InMailbox(a)' = <<>>, Popped(a) = <<>>, Popped(a)' = <<>>
  PROVE  Got(q)
  <1>1. q \in Queue /\ Linked(q) \in Seq(Message)
    BY ReaderIs, PartTypes DEF CustodyInv
  <1>2. Linked(q) # <<>> /\ Linked(q)' = Tail(Linked(q))
    BY <1>1, PopLinks DEF CustodyInv
  <1>3. Tail(Linked(q)) \in Seq(Message) /\ <<>> \in Seq(Message) /\ m \in Message
    BY <1>1, <1>2, PopLinks, HeadTailProperties DEF CustodyInv
  <1>4. /\ <<>> \o <<>> \o Linked(q) = Linked(q)
        /\ <<>> \o <<>> \o Tail(Linked(q)) = Tail(Linked(q))
    BY <1>1, <1>3, Joined
  <1>5. Undelivered(q) = Linked(q) /\ Undelivered(q)' = Tail(Linked(q))
    BY <1>2, <1>4, Contents
  <1>6. QED  BY <1>2, <1>5 DEF Got

LEMMA EasyChannels ==
  ASSUME ChannelInv, CustodyInv', NEW x \in Ctx,
         \/ ProduceAlloc(x) \/ TickStart(x) \/ TickWake(x) \/ TickEnd(x) \/ Request(x)
         \/ PopHeadEmpty(x) \/ Leave(x) \/ FnAlloc(x) \/ FnMove(x)
  PROVE  \A q \in Fifos : Same(q)
  <1> USE DEF ChannelInv, PlacedInv, MessageInv, WindowInv
  <1>1. OthersKept(x)
    BY StepOthers DEF Step
  <1>2. UNCHANGED <<runq, mailbox>>
    BY DEF ProduceAlloc, TickStart, TickWake, TickEnd, Request, PopHeadEmpty, Leave, FnAlloc, FnMove
  <1>3. \A q \in Queue \ {Pool} : Linked(q)' = Linked(q)
    <2>1. CASE ProduceAlloc(x) \/ FnAlloc(x)
      BY <2>1, AllocLinks DEF ProduceAlloc, FnAlloc, CustodyInv
    <2>2. CASE UNCHANGED <<items, length>>
      BY <2>2 DEF Linked
    <2>3. QED
      BY <2>1, <2>2 DEF TickStart, TickWake, TickEnd, Request, PopHeadEmpty, Leave, FnMove, queues
  <1>4. pc[x] \notin {"insert", "call", "store", "test"} /\ pc'[x] \notin {"store", "test"}
    <2>1. CASE ProduceAlloc(x) \/ TickStart(x) \/ TickWake(x) \/ TickEnd(x)
      BY <2>1, EnterIdle DEF CustodyInv, KernelInv, ProduceAlloc, TickStart, TickWake, TickEnd, Enter,
         Exit, At, Goto, TypeOK
    <2>2. CASE Request(x) \/ PopHeadEmpty(x) \/ Leave(x) \/ FnAlloc(x) \/ FnMove(x)
      BY <2>2 DEF CustodyInv, KernelInv, Request, PopHeadEmpty, Leave, FnAlloc, FnMove, KernelCall,
         Return, Exit, At, Goto, TypeOK
    <2>3. QED  BY <2>1, <2>2
  <1>5. \A a \in Actor : Wakes(x, a)' \/ Calls(x, a)' => mailbox[a] = NULL
    <2>1. CASE TickWake(x)
      <3>1. PICK b \in due[x] : dest' = [dest EXCEPT ![x] = b]
        BY <2>1 DEF TickWake
      <3>2. b \in Actor /\ x[1] \in CPU /\ b \in asleep[x[1]]
        BY <3>1 DEF CustodyInv, KernelInv, TypeOK, DueOK, Ctx
      <3>3. mailbox[b] = NULL
        BY <3>2 DEF EmptyMailboxes
      <3>4. pc'[x] = "insert" /\ dest'[x] = b
        BY <2>1, <3>1 DEF CustodyInv, KernelInv, TickWake, TypeOK, Goto
      <3>5. QED  BY <3>3, <3>4 DEF Wakes, Calls
    <2>2. CASE ProduceAlloc(x) \/ TickStart(x) \/ TickEnd(x)
      BY <2>2 DEF CustodyInv, KernelInv, ProduceAlloc, TickStart, TickEnd, Enter, Exit, Goto, TypeOK,
         Wakes, Calls
    <2>3. CASE Request(x) \/ PopHeadEmpty(x) \/ Leave(x) \/ FnAlloc(x) \/ FnMove(x)
      BY <2>3 DEF CustodyInv, KernelInv, Request, PopHeadEmpty, Leave, FnAlloc, FnMove, KernelCall,
         Return, Exit, At, Goto, TypeOK, Wakes, Calls
    <2>4. QED  BY <2>1, <2>2, <2>3
  <1>6. QED  BY <1>1, <1>2, <1>3, <1>4, <1>5, QuietChannels

LEMMA EnterVectorChannels ==
  ASSUME ChannelInv, CustodyInv', NEW c \in CPU, NEW v \in Vector, EnterVector(c, v)
  PROVE  \A q \in Fifos : Same(q)
  <1> USE DEF ChannelInv, PlacedInv, MessageInv, WindowInv
  <1>1. <<c, vect2prio[v]>> \in Ctx
    BY ContextAssumption DEF Ctx, Level, Prio
  <1>2. PICK x \in Ctx : x = <<c, vect2prio[v]>>
    BY <1>1
  <1>3. /\ OthersKept(x) /\ pc[x] = "idle" /\ pc'[x] = "sched"
        /\ UNCHANGED <<runq, mailbox, items, length>>
    BY <1>2, EnterIdle DEF CustodyInv, KernelInv, EnterVector, OthersKept, TypeOK, Enter, Goto, queues
  <1>4. QED  BY <1>3, QuietChannels DEF Wakes, Calls, Linked

LEMMA InitCallChannels ==
  ASSUME ChannelInv, CustodyInv', NEW a \in Actor, InitCall(a) PROVE \A q \in Fifos : Same(q)
  <1> USE MainIsContext DEF ChannelInv, PlacedInv, MessageInv, WindowInv
  <1>1. /\ OthersKept(Main) /\ pc'[Main] = "call" /\ self'[Main] = a
        /\ UNCHANGED <<runq, mailbox, items, length>>
    BY DEF CustodyInv, KernelInv, InitCall, OthersKept, TypeOK, Enter, Goto, queues
  <1>2. pc[Main] = "idle"
    BY EnterIdle DEF InitCall, Enter
  <1>3. mailbox[a] = NULL
    BY DEF InitCall, EmptyMailboxes
  <1>4. QED  BY <1>1, <1>2, <1>3, QuietChannels DEF Wakes, Calls, Linked

LEMMA InitSubscribeChannels ==
  ASSUME ChannelInv, CustodyInv', NEW a \in Actor, InitSubscribe(a) PROVE \E r : OneChannel(r)
  <1> USE MainIsContext DEF ChannelInv, PlacedInv, MessageInv, WindowInv
  <1>1. PICK r \in Queue : r = InitQueue[a] /\ r \in Reads(a)
    BY ActorAssumption DEF InitSubscribe, Reads
  <1>2. UNCHANGED <<mailbox, runq>>
    BY DEF InitSubscribe
  <1>3. pc[Main] = "idle"
    BY EnterIdle DEF InitSubscribe
  <1>4. CASE Subscribe(r, a) /\ UNCHANGED frame
    <2>1. OthersKept(Main) /\ pc'[Main] = "idle"
      BY <1>3, <1>4 DEF frame, OthersKept
    <2>2. \A q \in Fifos : Same(q)
      BY <1>2, <1>3, <1>4, <2>1, SubscribeLinks, QuietChannels DEF CustodyInv, Wakes, Calls
    <2>3. QED  BY <2>2 DEF OneChannel
  <1>5. CASE \E m \in Message :
               /\ PopMessage(r, m)
               /\ Enter(Main, "init", "assert")
               /\ self' = [self EXCEPT ![Main] = a]
               /\ msg' = [msg EXCEPT ![Main] = m]
               /\ UNCHANGED <<dest, due, budget>>
    <2>1. PICK m \in Message :
               /\ PopMessage(r, m)
               /\ Enter(Main, "init", "assert")
               /\ self' = [self EXCEPT ![Main] = a]
               /\ msg' = [msg EXCEPT ![Main] = m]
               /\ UNCHANGED <<dest, due, budget>>
      BY <1>5
    <2>2. OthersKept(Main) /\ pc'[Main] = "assert"
      BY <2>1 DEF CustodyInv, KernelInv, OthersKept, TypeOK, Enter, Goto
    <2>3. \A b \in Actor : ~Touches(Main, b) /\ ~Touches(Main, b)'
      BY <1>3, <2>2 DEF Touches, Wakes, Calls, Popping
    <2>4. ASSUME NEW q \in Fifos \ {r} PROVE Same(q)
      <3>1. PICK b \in Actor : b = Reader(q)
        BY ReaderIs
      <3>2. Linked(q)' = Linked(q)
        BY <2>1, <2>4, ReaderIs, PopLinks DEF CustodyInv
      <3>3. QED  BY <1>2, <2>2, <2>3, <3>1, <3>2, ReadyKept, OtherChannel
    <2>5. ASSUME r \in Fifos PROVE Got(r)
      <3>1. a = Reader(r)
        BY <1>1, <2>5, ReaderIs
      <3>2. IsIn(a, {}, {}, {}, {}, {}, {a})
        <4>1. a \in Unborn(a)
          BY DEF InitSubscribe, Unborn
        <4>2. QED  BY <4>1, OnlyPlace DEF CustodyInv, Custody
      <3>3. Running(a) = {} /\ ~Activated(a)
        BY <3>2, ActivatedWhere DEF IsIn, Running, Owns, Closing, Calls
      <3>4. InMailbox(a) = <<>> /\ Popped(a) = <<>>
        BY <3>3, MainIsContext, OnePopping DEF InMailbox
      <3>5. InMailbox(a)' = InMailbox(a) /\ Popped(a)' = Popped(a)
        BY <1>2, <2>2, <2>3, ReadyKept, OtherReader
      <3>6. QED  BY <2>1, <2>5, <3>1, <3>4, <3>5, GetsOldest
    <2>6. QED  BY <2>4, <2>5 DEF OneChannel
  <1>6. QED  BY <1>1, <1>4, <1>5 DEF InitSubscribe

LEMMA FnPollChannels ==
  ASSUME ChannelInv, CustodyInv', NEW x \in Ctx, FnPoll(x) PROVE \E r : OneChannel(r)
  <1> USE DEF ChannelInv, PlacedInv, MessageInv, WindowInv
  <1>1. PICK a \in Actor : a = self[x] /\ pc[x] = "run"
    BY DEF FnPoll, KernelCall, At, ControlOK, CustodyInv, KernelInv
  <1>2. PICK r \in Subscribes[a], m \in Message : PopMessage(r, m)
    BY <1>1 DEF FnPoll
  <1>3. r \in Queue /\ r \in Reads(a)
    BY <1>2, ActorAssumption DEF Reads
  <1>4. OthersKept(x) /\ UNCHANGED <<mailbox, runq>> /\ pc'[x] = "run"
    BY <1>1, StepOthers DEF FnPoll, Step
  <1>5. \A b \in Actor : ~Touches(x, b) /\ ~Touches(x, b)'
    BY <1>1, <1>4 DEF Touches, Wakes, Calls, Popping
  <1>6. ASSUME NEW q \in Fifos \ {r} PROVE Same(q)
    <2>1. PICK b \in Actor : b = Reader(q)
      BY ReaderIs
    <2>2. Linked(q)' = Linked(q)
      BY <1>2, <1>3, <1>6, ReaderIs, PopLinks DEF CustodyInv
    <2>3. QED  BY <1>4, <1>5, <2>1, <2>2, ReadyKept, OtherChannel
  <1>7. ASSUME r \in Fifos PROVE Got(r)
    <2>1. a = Reader(r)
      BY <1>3, <1>7, ReaderIs
    <2>2. Owns(x, a) /\ ~Activated(a)
      BY <1>1, NotActivated DEF Owns, Closing
    <2>3. InMailbox(a) = <<>> /\ Popped(a) = <<>>
      BY <1>5, <2>2, OnePopping DEF InMailbox, Touches
    <2>4. InMailbox(a)' = InMailbox(a) /\ Popped(a)' = Popped(a)
      BY <1>4, <1>5, ReadyKept, OtherReader
    <2>5. QED  BY <1>2, <1>7, <2>1, <2>3, <2>4, GetsOldest
  <1>8. QED  BY <1>6, <1>7 DEF OneChannel

LEMMA PushLinked ==
  ASSUME KernelInv, NEW x \in Ctx, NEW q \in Queue, NEW m \in Message, mg_queue_push(x, q, m)
  PROVE  /\ \A r \in Queue \ {q} : Linked(r)' = Linked(r)
         /\ \/ Return(x) /\ UNCHANGED <<mailbox, dest>> /\ Linked(q)' = Append(Linked(q), m)
            \/ /\ Linked(q) = <<>> /\ Linked(q)' = <<>>
               /\ \E b \in Actor : Handed(x, q, m, b)
  <1> USE DEF KernelInv
  <1>1. /\ length[q] \in Int /\ length'[q] = length[q] + 1
        /\ \A r \in Queue \ {q} : length'[r] = length[r]
    BY DEF mg_queue_push, Lengthen, TypeOK
  <1>2. CASE length[q] >= 0 /\ PushLinks(x, q, m)
    <2>1. items[q] \in Seq(Message) /\ Len(items[q]) = length[q]
      BY <1>1, <1>2 DEF QueueShape, HasShape
    <2>2. Linked(q) = items[q]
      <3>1. CASE length[q] > 0  BY <3>1 DEF Linked
      <3>2. CASE length[q] = 0
        <4>1. items[q] = <<>>
          BY <2>1, <3>2, EmptySeq
        <4>2. QED  BY <3>2, <4>1 DEF Linked
      <3>3. QED  BY <1>1, <1>2, <3>1, <3>2
    <2>3. \A r \in Queue : items'[r] = IF r = q THEN Append(items[q], m) ELSE items[r]
      BY <1>2 DEF PushLinks, Enqueue, TypeOK
    <2>4. Linked(q)' = items'[q]
      BY <1>1, <1>2 DEF Linked
    <2>5. \A r \in Queue \ {q} : Linked(r)' = Linked(r)
      BY <1>1, <2>3 DEF Linked
    <2>6. QED  BY <1>2, <2>2, <2>3, <2>4, <2>5 DEF PushLinks
  <1>3. CASE /\ length[q] < 0
             /\ Dequeue(q)
             /\ mailbox' = [mailbox EXCEPT ![Head(items[q])] = m]
             /\ PushHandsOver(x, q)
    <2>1. items[q] \in Seq(Actor) /\ Len(items[q]) > 0
      BY <1>1, <1>3 DEF QueueShape, HasShape
    <2>2. PICK b \in Actor : b = Head(items[q])
      BY <2>1, TailShape
    <2>3. q \in Waiting(b)
      BY <2>1, <2>2 DEF Waiting, ActorsIn, NodesIn
    <2>4. Handed(x, q, m, b)
      BY <1>3, <2>2, <2>3 DEF Handed, PushHandsOver, Goto
    <2>5. Linked(q) = <<>> /\ Linked(q)' = <<>>
      BY <1>1, <1>3 DEF Linked
    <2>6. \A r \in Queue \ {q} : items'[r] = items[r]
      BY <1>3 DEF Dequeue, TypeOK
    <2>7. \A r \in Queue \ {q} : Linked(r)' = Linked(r)
      BY <1>1, <2>6 DEF Linked
    <2>8. QED  BY <2>4, <2>5, <2>7
  <1>4. QED  BY <1>2, <1>3 DEF mg_queue_push

\* A message that is linked arrives behind the others.
LEMMA LinkedLast ==
  ASSUME CustodyInv, NEW q \in Fifos, NEW a \in Actor, a = Reader(q), NEW m \in Message,
         InMailbox(a)' = InMailbox(a), Popped(a)' = Popped(a), Linked(q)' = Append(Linked(q), m)
  PROVE  Sent(q)
  <1>1. q \in Queue
    BY ReaderIs
  <1>2. PICK u \in Seq(Message), v \in Seq(Message), w \in Seq(Message) :
          u = InMailbox(a) /\ v = Popped(a) /\ w = Linked(q)
    <2>1. \A e \in Message : <<e>> \in Seq(Message)
      OBVIOUS
    <2>2. <<>> \in Seq(Message)
      OBVIOUS
    <2>3. QED  BY <1>1, <2>1, <2>2, PartTypes DEF CustodyInv
  <1>3. u \o v \o Append(w, m) = Append(u \o v \o w, m)
    BY Joined
  <1>4. Undelivered(q) = u \o v \o w /\ Undelivered(q)' = u \o v \o Append(w, m)
    BY <1>2, Contents
  <1>5. QED  BY <1>3, <1>4 DEF Sent

\* A message handed to a waiting reader is the only one of its channel.
LEMMA HandedAlone ==
  ASSUME CustodyInv, NEW q \in Fifos, NEW a \in Actor, a = Reader(q), NEW m \in Message,
         InMailbox(a) = <<>>, Popped(a) = <<>>, Linked(q) = <<>>,
         InMailbox(a)' = <<m>>, Popped(a)' = <<>>, Linked(q)' = <<>>
  PROVE  Sent(q)
  <1>1. Undelivered(q) = <<>> \o <<>> \o <<>> /\ Undelivered(q)' = <<m>> \o <<>> \o <<>>
    BY Contents
  <1>2. <<m>> \in Seq(Message) /\ <<>> \in Seq(Message)
    OBVIOUS
  <1>3. <<>> \o <<>> \o <<>> = <<>> /\ <<m>> \o <<>> \o <<>> = <<m>>
    BY <1>2, ConcatEmptySeq
  <1>4. Append(<<>>, m) = <<m>>
    OBVIOUS
  <1>5. QED  BY <1>1, <1>3, <1>4 DEF Sent

LEMMA PushChannels ==
  ASSUME ChannelInv, CustodyInv', NEW x \in Ctx, ProducePush(x) \/ FnPush(x)
  PROVE  \E r : OneChannel(r)
  <1> USE DEF ChannelInv, PlacedInv, MessageInv, WindowInv
  <1>1. OthersKept(x) /\ UNCHANGED runq
    BY StepsThatPush
  <1>2. PICK r \in Queue, m \in Message : mg_queue_push(x, r, m) /\ pc[x] \in {"push", "run"}
    <2>1. PICK r \in Queue : Pushes(x, r)
      BY StepsThatPush
    <2>2. QED  BY <2>1 DEF Pushes, At
  <1>3. \A b \in Actor : Ready(b)' = Ready(b) /\ ~Touches(x, b)
    BY <1>1, <1>2, ReadyKept DEF Touches, Wakes, Calls, Popping
  <1>4. CASE Return(x) /\ UNCHANGED <<mailbox, dest>> /\ Linked(r)' = Append(Linked(r), m)
    <2>1. pc'[x] \notin {"insert", "call", "store", "test"}
      BY <1>4 DEF CustodyInv, KernelInv, Return, Exit, Goto, TypeOK
    <2>2. \A b \in Actor : ~Touches(x, b)'
      BY <2>1 DEF Touches, Wakes, Calls, Popping
    <2>3. ASSUME NEW q \in Fifos \ {r} PROVE Same(q)
      <3>1. PICK b \in Actor : b = Reader(q)
        BY ReaderIs
      <3>2. Linked(q)' = Linked(q)
        BY <1>2, <2>3, ReaderIs, PushLinked DEF CustodyInv
      <3>3. QED  BY <1>1, <1>3, <1>4, <2>2, <3>1, <3>2, OtherChannel
    <2>4. ASSUME r \in Fifos PROVE Sent(r)
      <3>1. PICK a \in Actor : a = Reader(r)
        BY <2>4, ReaderIs
      <3>2. InMailbox(a)' = InMailbox(a) /\ Popped(a)' = Popped(a)
        BY <1>1, <1>3, <1>4, <2>2, OtherReader
      <3>3. QED  BY <1>4, <2>4, <3>1, <3>2, LinkedLast
    <2>5. QED  BY <2>3, <2>4 DEF OneChannel
  <1>5. CASE Linked(r) = <<>> /\ Linked(r)' = <<>> /\ \E b \in Actor : Handed(x, r, m, b)
    <2>1. PICK a \in Actor : Handed(x, r, m, a)
      BY <1>5
    <2>2. /\ pc'[x] = "insert" /\ dest'[x] = a /\ Wakes(x, a)'
          /\ \A b \in Actor : mailbox'[b] = IF b = a THEN m ELSE mailbox[b]
      BY <2>1 DEF CustodyInv, KernelInv, Handed, TypeOK, Wakes
    <2>3. \A b \in Actor \ {a} : ~Touches(x, b)'
      BY <2>2 DEF Touches, Wakes, Calls, Popping
    <2>4. r \in Waiting(a) /\ r \in Reads(a)
      BY <2>1 DEF Handed, WaitsOK
    <2>5. ASSUME NEW q \in Fifos \ {r} PROVE Same(q)
      <3>1. PICK b \in Actor : b = Reader(q)
        BY ReaderIs
      <3>2. b # a
        BY <2>4, <2>5, <3>1, ReaderIs
      <3>3. Linked(q)' = Linked(q)
        BY <1>2, <2>5, ReaderIs, PushLinked DEF CustodyInv
      <3>4. mailbox'[b] = mailbox[b]
        BY <2>2, <3>2
      <3>5. QED  BY <1>1, <1>3, <2>3, <3>1, <3>2, <3>3, <3>4, OtherChannel
    <2>6. ASSUME r \in Fifos PROVE Sent(r)
      <3>1. a = Reader(r)
        BY <2>4, <2>6, ReaderIs
      <3>2. Running(a) = {} /\ ~Activated(a)
        BY <2>4, OnlyPlace, NotActivated DEF CustodyInv, Custody, IsIn
      <3>3. InMailbox(a) = <<>> /\ Popped(a) = <<>>
        BY <3>2, OnePopping DEF InMailbox
      <3>4. ~Popping(x, a) /\ ~Popping(x, a)'
        BY <1>2, <2>2 DEF Popping
      <3>5. Popped(a)' = <<>>
        BY <1>1, <3>3, <3>4, PoppedKept
      <3>6. Activated(a)'
        BY <2>2, ActivatedWhere DEF Waking, Wakes
      <3>7. InMailbox(a)' = <<m>>
        BY <2>2, <3>6, DataAssumption DEF InMailbox
      <3>8. QED  BY <1>5, <2>6, <3>1, <3>3, <3>5, <3>7, HandedAlone
    <2>7. QED  BY <2>5, <2>6 DEF OneChannel
  <1>6. QED  BY <1>2, <1>4, <1>5, PushLinked DEF CustodyInv

\* Actor b is passed on with the message in its mailbox.
LEMMA ActivateChannels ==
  ASSUME ChannelInv, CustodyInv', NEW x \in Ctx, Insert(x) \/ PopHead(x)
  PROVE  \A q \in Fifos : Same(q)
  <1> USE DEF ChannelInv, PlacedInv, MessageInv, WindowInv
  <1>1. OthersKept(x) /\ UNCHANGED <<mailbox, items, length>>
    BY StepOthers DEF Insert, PopHead, Step, queues
  <1>2. PICK b \in Actor :
          /\ Activated(b) /\ Activated(b)'
          /\ \A a \in Actor \ {b} : Ready(a)' = Ready(a) /\ ~Touches(x, a) /\ ~Touches(x, a)'
          /\ pc[x] \notin {"store", "test"} /\ pc'[x] \notin {"store", "test"}
    <2>1. CASE Insert(x)
      <3>1. PICK b \in Actor : b = dest[x] /\ Ready(b) = {} /\ mg_actor_insert(b) /\ pc[x] = "insert"
        BY <2>1, NotReady DEF Insert, At
      <3>2. Activated(b)
        BY <3>1 DEF Activated
      <3>3. Ready(b)' # {} /\ \A a \in Actor \ {b} : Ready(a)' = Ready(a)
        BY <3>1, InsertPlaces DEF CustodyInv, KernelInv
      <3>4. pc'[x] = "request"
        BY <2>1 DEF CustodyInv, KernelInv, Insert, Goto, TypeOK
      <3>5. Activated(b)'
        BY <3>3, ActivatedWhere
      <3>6. \A a \in Actor \ {b} : ~Touches(x, a) /\ ~Touches(x, a)'
        BY <3>1, <3>4 DEF Touches, Wakes, Calls, Popping
      <3>7. QED  BY <3>1, <3>2, <3>3, <3>4, <3>5, <3>6
    <2>2. CASE PopHead(x)
      <3>1. PICK b \in Actor : b = Head(runq[x]) /\ x \in Ready(b)
        BY <2>2, PopHeadReady
      <3>2. Activated(b)
        BY <3>1, ActivatedWhere
      <3>3. pc[x] = "sched" /\ pc'[x] = "call" /\ self'[x] = b
        BY <2>2, <3>1 DEF CustodyInv, KernelInv, PopHead, At, Goto, TypeOK
      <3>4. Activated(b)'
        BY <3>3, ActivatedWhere DEF Calls
      <3>5. \A a \in Actor \ {b} : Ready(a)' = Ready(a)
        <4>1. runq[x] \in Seq(Actor) /\ Len(runq[x]) > 0 /\ Distinct(runq[x])
          BY <2>2 DEF CustodyInv, KernelInv, PopHead, TypeOK, Custody
        <4>2. ActorsIn(Tail(runq[x])) = ActorsIn(runq[x]) \ {b}
          BY <3>1, <4>1, TailActors
        <4>3. \A y \in Ctx : runq'[y] = IF y = x THEN Tail(runq[x]) ELSE runq[y]
          BY <2>2 DEF CustodyInv, KernelInv, PopHead, TypeOK
        <4>4. \A y \in Ctx : ActorsIn(runq'[y]) =
                IF y = x THEN ActorsIn(runq[y]) \ {b} ELSE ActorsIn(runq[y])
          BY <4>2, <4>3
        <4>5. QED  BY <4>4 DEF Ready, ActorsIn, NodesIn
      <3>6. \A a \in Actor \ {b} : ~Touches(x, a) /\ ~Touches(x, a)'
        BY <3>3 DEF Touches, Wakes, Calls, Popping
      <3>7. QED  BY <3>2, <3>3, <3>4, <3>5, <3>6
    <2>3. QED  BY <2>1, <2>2
  <1>3. \A q \in Queue : Linked(q)' = Linked(q)
    BY <1>1 DEF Linked
  <1>4. ASSUME NEW q \in Fifos PROVE Same(q)
    <2>1. PICK a \in Actor : a = Reader(q)
      BY ReaderIs
    <2>2. Linked(q)' = Linked(q)
      BY <1>3, ReaderIs
    <2>3. CASE a # b
      BY <1>1, <1>2, <2>1, <2>2, <2>3, OtherChannel
    <2>4. CASE a = b
      <3>1. InMailbox(a)' = InMailbox(a)
        BY <1>1, <1>2, <2>4 DEF InMailbox
      <3>2. Popped(a)' = Popped(a)
        BY <1>1, <1>2, PoppedKept DEF Popping
      <3>3. QED  BY <2>1, <2>2, <3>1, <3>2, Contents DEF Same
    <2>5. QED  BY <2>3, <2>4
  <1>5. QED  BY <1>4

\* The function of an actor receives the message in the mailbox.
LEMMA CallChannels ==
  ASSUME ChannelInv, CustodyInv', NEW x \in Ctx, Call(x) PROVE \E r : OneChannel(r)
  <1> USE DEF ChannelInv, PlacedInv, MessageInv, WindowInv
  <1>1. PICK a \in Actor : a = self[x] /\ pc[x] = "call"
    BY DEF CustodyInv, KernelInv, Call, At, ControlOK
  <1>2. OthersKept(x) /\ UNCHANGED <<mailbox, runq, items, length>>
    BY StepOthers DEF Call, Step, queues
  <1>3. pc'[x] = "run"
    BY DEF CustodyInv, KernelInv, Call, Goto, TypeOK
  <1>4. \A q \in Queue : Linked(q)' = Linked(q)
    BY <1>2 DEF Linked
  <1>5. \A b \in Actor : ~Touches(x, b)' /\ (b # a => ~Touches(x, b))
    BY <1>1, <1>3 DEF Touches, Wakes, Calls, Popping
  <1>6. Owns(x, a) /\ ~Popping(x, a) /\ ~Popping(x, a)' /\ Activated(a)
    BY <1>1, <1>3, ActivatedWhere DEF Owns, Closing, Popping, Calls
  <1>7. ~Activated(a)'
    BY <1>2, <1>3, <1>6, Deactivated
  <1>8. Popped(a) = <<>> /\ Popped(a)' = <<>> /\ InMailbox(a)' = <<>>
    BY <1>2, <1>6, <1>7, OnePopping, PoppedKept DEF InMailbox
  <1>9. ASSUME NEW q \in Fifos, a # Reader(q) PROVE Same(q)
    <2>1. PICK b \in Actor : b = Reader(q)
      BY ReaderIs
    <2>2. Linked(q)' = Linked(q)
      BY <1>4, ReaderIs
    <2>3. QED  BY <1>2, <1>5, <1>9, <2>1, <2>2, ReadyKept, OtherChannel
  <1>10. ASSUME NEW q \in Fifos, a = Reader(q) PROVE Same(q) \/ Got(q)
    <2>1. Linked(q)' = Linked(q) /\ q \in Queue
      BY <1>4, ReaderIs
    <2>2. CASE mailbox[a] = NULL
      <3>1. InMailbox(a) = <<>>
        BY <2>2 DEF InMailbox
      <3>2. QED  BY <1>8, <1>10, <2>1, <3>1, Contents DEF Same
    <2>3. CASE mailbox[a] # NULL
      <3>1. PICK m \in Message : m = mailbox[a]
        BY <2>3 DEF CustodyInv, KernelInv, TypeOK
      <3>2. PICK w \in Seq(Message) : w = Linked(q)
        BY <2>1, PartTypes DEF CustodyInv
      <3>3. InMailbox(a) = <<m>>
        BY <1>6, <2>3, <3>1 DEF InMailbox
      <3>4. /\ <<m>> \o <<>> \o w # <<>> /\ Tail(<<m>> \o <<>> \o w) = w
            /\ <<>> \o <<>> \o w = w
        BY Joined
      <3>5. Undelivered(q) = <<m>> \o <<>> \o w /\ Undelivered(q)' = <<>> \o <<>> \o w
        BY <1>8, <1>10, <2>1, <3>2, <3>3, Contents
      <3>6. QED  BY <3>4, <3>5 DEF Got
    <2>4. QED  BY <2>2, <2>3
  <1>11. QED
    <2>1. CASE \E q \in Fifos : a = Reader(q)
      <3>1. PICK r \in Fifos : a = Reader(r)
        BY <2>1
      <3>2. \A q \in Fifos \ {r} : a # Reader(q)
        BY <3>1, OneReader
      <3>3. OneChannel(r)
        BY <1>9, <1>10, <3>1, <3>2 DEF OneChannel
      <3>4. QED  BY <3>3
    <2>2. CASE ~\E q \in Fifos : a = Reader(q)
      BY <1>9, <2>2 DEF OneChannel
    <2>3. QED  BY <2>1, <2>2

\* A message that mg_actor_call pops stays in the channel until the function is
\* called with it.
LEMMA ReturnQueueChannels ==
  ASSUME ChannelInv, CustodyInv', NEW x \in Ctx, ReturnQueue(x) PROVE \A q \in Fifos : Same(q)
  <1> USE DEF ChannelInv, PlacedInv, MessageInv, WindowInv
  <1>1. PICK a \in Actor : a = self[x] /\ pc[x] = "run"
    BY DEF CustodyInv, KernelInv, ReturnQueue, At, ControlOK
  <1>2. PICK r \in Subscribes[a] :
          \/ Subscribe(r, a) /\ msg' = [msg EXCEPT ![x] = NULL]
          \/ \E m \in Message : PopMessage(r, m) /\ msg' = [msg EXCEPT ![x] = m]
    BY <1>1 DEF ReturnQueue
  <1>3. r \in Queue /\ r \in Reads(a)
    BY <1>2, ActorAssumption DEF Reads
  <1>4. OthersKept(x) /\ UNCHANGED <<mailbox, runq>>
    BY StepOthers DEF ReturnQueue, Step
  <1>5. pc'[x] = "store" /\ self'[x] = a
    BY <1>1 DEF CustodyInv, KernelInv, ReturnQueue, Goto, TypeOK
  <1>6. \A b \in Actor : ~Touches(x, b) /\ (b # a => ~Touches(x, b)')
    BY <1>1, <1>5 DEF Touches, Wakes, Calls, Popping
  <1>7. CASE Subscribe(r, a) /\ msg' = [msg EXCEPT ![x] = NULL]
    <2>1. \A b \in Actor : ~Touches(x, b)'
      BY <1>5, <1>7 DEF CustodyInv, KernelInv, TypeOK, Touches, Wakes, Calls, Popping
    <2>2. \A q \in Queue : Linked(q)' = Linked(q)
      BY <1>3, <1>7, SubscribeLinks DEF CustodyInv
    <2>3. ASSUME NEW q \in Fifos PROVE Same(q)
      <3>1. PICK b \in Actor : b = Reader(q)
        BY ReaderIs
      <3>2. Linked(q)' = Linked(q)
        BY <2>2, ReaderIs
      <3>3. QED  BY <1>4, <1>6, <2>1, <3>1, <3>2, ReadyKept, OtherChannel
    <2>4. QED  BY <2>3
  <1>8. CASE \E m \in Message : PopMessage(r, m) /\ msg' = [msg EXCEPT ![x] = m]
    <2>1. PICK m \in Message : PopMessage(r, m) /\ msg' = [msg EXCEPT ![x] = m]
      BY <1>8
    <2>2. ASSUME NEW q \in Fifos, q # r PROVE Same(q)
      <3>1. PICK b \in Actor : b = Reader(q)
        BY ReaderIs
      <3>2. Linked(q)' = Linked(q)
        BY <1>3, <2>1, <2>2, ReaderIs, PopLinks DEF CustodyInv
      <3>3. b # a
        BY <1>3, <2>2, <3>1, ReaderIs
      <3>4. QED  BY <1>4, <1>6, <3>1, <3>2, <3>3, ReadyKept, OtherChannel
    <2>3. ASSUME r \in Fifos PROVE Same(r)
      <3>1. a = Reader(r)
        BY <1>3, <2>3, ReaderIs
      <3>2. Owns(x, a) /\ ~Activated(a)
        BY <1>1, NotActivated DEF Owns, Closing
      <3>3. ~Activated(a)'
        BY <1>4, <1>5, <3>2, Deactivated
      <3>4. InMailbox(a) = <<>> /\ InMailbox(a)' = <<>> /\ Popped(a) = <<>>
        BY <1>6, <3>2, <3>3, OnePopping DEF InMailbox, Touches
      <3>5. Popping(x, a)' /\ msg'[x] = m
        BY <1>5, <2>1, DataAssumption DEF CustodyInv, KernelInv, TypeOK, Popping
      <3>6. Popped(a)' = <<m>>
        BY <3>5, PoppedStaysRight DEF PoppedRight
      <3>7. PICK w \in Seq(Message) : w = Linked(r)
        BY <1>3, PartTypes DEF CustodyInv
      <3>8. w # <<>> /\ m = Head(w) /\ Linked(r)' = Tail(w)
        BY <1>3, <2>1, <3>7, PopLinks DEF CustodyInv
      <3>9. <<>> \o <<m>> \o Tail(w) = <<>> \o <<>> \o w
        BY <2>1, <3>8, Joined
      <3>10. Undelivered(r) = <<>> \o <<>> \o w /\ Undelivered(r)' = <<>> \o <<m>> \o Tail(w)
        BY <2>3, <3>1, <3>4, <3>6, <3>7, <3>8, Contents
      <3>11. QED  BY <3>9, <3>10 DEF Same
    <2>4. QED  BY <2>2, <2>3
  <1>9. QED  BY <1>2, <1>7, <1>8

\* The mailbox that mg_actor_call writes is in use by nobody yet.
LEMMA StoreChannels ==
  ASSUME ChannelInv, CustodyInv', NEW x \in Ctx, Store(x) PROVE \A q \in Fifos : Same(q)
  <1> USE DEF ChannelInv, PlacedInv, MessageInv, WindowInv
  <1>1. PICK a \in Actor : a = self[x] /\ pc[x] = "store"
    BY DEF CustodyInv, KernelInv, Store, At, ControlOK
  <1>2. OthersKept(x) /\ UNCHANGED <<self, msg, runq, items, length>>
    BY StepOthers DEF Store, Step, queues
  <1>3. /\ pc'[x] = "test"
        /\ \A b \in Actor : mailbox'[b] = IF b = a THEN msg[x] ELSE mailbox[b]
    BY <1>1 DEF CustodyInv, KernelInv, Store, Goto, TypeOK
  <1>4. \A b \in Actor : ~Wakes(x, b) /\ ~Calls(x, b) /\ ~Wakes(x, b)' /\ ~Calls(x, b)'
    BY <1>1, <1>3 DEF Wakes, Calls
  <1>5. ~Activated(a)
    <2>1. CASE msg[x] = NULL
      <3>1. Waiting(a) # {}
        BY <1>1, <2>1 DEF StillWaits, Closing
      <3>2. QED  BY <3>1, NotActivated
    <2>2. CASE msg[x] # NULL
      BY <1>1, <2>2, NotActivated DEF Owns, Closing
    <2>3. QED  BY <2>1, <2>2
  <1>6. ASSUME NEW b \in Actor PROVE InMailbox(b)' = InMailbox(b)
    <2>1. Activated(b)' <=> Activated(b)
      BY <1>2, <1>4, ReadyKept, ActivatedSame
    <2>2. QED  BY <1>3, <1>5, <2>1 DEF InMailbox
  <1>7. ASSUME NEW b \in Actor PROVE Popped(b)' = Popped(b)
    <2>1. \A y \in Ctx : msg'[y] = msg[y] /\ (Popping(y, b)' <=> Popping(y, b))
      BY <1>1, <1>2, <1>3 DEF OthersKept, Popping
    <2>2. CASE \E y \in Ctx : Popping(y, b)
      BY <2>1, <2>2, PoppedIsRight, PoppedStaysRight DEF PoppedRight
    <2>3. CASE \A y \in Ctx : ~Popping(y, b)
      BY <2>1, <2>3, PoppedIsRight, PoppedStaysRight DEF PoppedRight
    <2>4. QED  BY <2>2, <2>3
  <1>8. ASSUME NEW q \in Fifos PROVE Same(q)
    <2>1. PICK b \in Actor : b = Reader(q)
      BY ReaderIs
    <2>2. Linked(q)' = Linked(q)
      BY <1>2 DEF Linked
    <2>3. QED  BY <1>6, <1>7, <2>1, <2>2, Contents DEF Same
  <1>9. QED  BY <1>8

\* The message that was popped is the one in the mailbox now.
LEMMA LoopTestChannels ==
  ASSUME ChannelInv, CustodyInv', NEW x \in Ctx, LoopTest(x) PROVE \A q \in Fifos : Same(q)
  <1> USE DEF ChannelInv, PlacedInv, MessageInv, WindowInv
  <1>1. PICK a \in Actor : a = self[x] /\ pc[x] = "test" /\ mailbox[a] = msg[x]
    BY DEF CustodyInv, KernelInv, LoopTest, At, ControlOK, TestAgrees
  <1>2. OthersKept(x) /\ UNCHANGED <<mailbox, runq, items, length>>
    BY StepOthers DEF LoopTest, Step, queues
  <1>3. /\ msg[x] # NULL => pc'[x] = "call" /\ self'[x] = a
        /\ msg[x] = NULL => pc'[x] \in {"sched", "idle"}
    BY <1>1, TestsResult DEF CustodyInv, KernelInv, TestSound, EndActorCall, Exit, Goto, TypeOK
  <1>4. \A b \in Actor : ~Popping(x, b)' /\ (b # a => ~Touches(x, b) /\ ~Touches(x, b)')
    BY <1>1, <1>3 DEF Touches, Wakes, Calls, Popping
  <1>5. \A q \in Queue : Linked(q)' = Linked(q)
    BY <1>2 DEF Linked
  <1>6. ASSUME NEW q \in Fifos, a # Reader(q) PROVE Same(q)
    <2>1. PICK b \in Actor : b = Reader(q)
      BY ReaderIs
    <2>2. Linked(q)' = Linked(q) /\ mailbox'[b] = mailbox[b]
      BY <1>2, <1>5, ReaderIs
    <2>3. QED  BY <1>2, <1>4, <1>6, <2>1, <2>2, ReadyKept, OtherChannel
  <1>7. ASSUME NEW q \in Fifos, a = Reader(q) PROVE Same(q)
    <2>1. Linked(q)' = Linked(q) /\ q \in Queue
      BY <1>5, ReaderIs
    <2>2. CASE msg[x] = NULL
      <3>1. ~Touches(x, a) /\ ~Touches(x, a)'
        BY <1>1, <1>3, <1>4, <2>2 DEF Touches, Wakes, Calls, Popping
      <3>2. QED  BY <1>2, <1>7, <2>1, <3>1, ReadyKept, OtherChannel
    <2>3. CASE msg[x] # NULL
      <3>1. PICK m \in Message : m = msg[x]
        BY <2>3 DEF CustodyInv, KernelInv, TypeOK
      <3>2. PICK w \in Seq(Message) : w = Linked(q)
        BY <2>1, PartTypes DEF CustodyInv
      <3>3. Popping(x, a) /\ Owns(x, a)
        BY <1>1, <2>3 DEF Popping, Owns, Closing
      <3>4. Popped(a) = <<m>>
        BY <3>1, <3>3, OnePopping
      <3>5. Running(a) = {x}
        <4>1. x \in Running(a)
          BY <3>3 DEF Running
        <4>2. QED  BY <4>1, OnlyPlace DEF CustodyInv, Custody, IsIn
      <3>6. \A y \in Ctx : ~Popping(y, a)'
        <4>1. \A y \in Ctx \ {x} : ~Popping(y, a)
          BY <3>5 DEF Running, Owns, Closing, Popping
        <4>2. QED  BY <1>2, <1>4, <4>1 DEF OthersKept, Popping
      <3>7. Popped(a)' = <<>>
        BY <3>6, PoppedStaysRight DEF PoppedRight
      <3>8. ~Activated(a) /\ Activated(a)'
        BY <1>1, <1>3, <2>3, <3>3, NotActivated, ActivatedWhere DEF Calls
      <3>9. InMailbox(a) = <<>> /\ InMailbox(a)' = <<m>>
        BY <1>1, <1>2, <2>3, <3>1, <3>8 DEF InMailbox
      <3>10. <<>> \o <<m>> \o w = <<m>> \o <<>> \o w
        BY Joined
      <3>11. Undelivered(q) = <<>> \o <<m>> \o w /\ Undelivered(q)' = <<m>> \o <<>> \o w
        BY <1>7, <2>1, <3>2, <3>4, <3>7, <3>9, Contents
      <3>12. QED  BY <3>10, <3>11 DEF Same
    <2>4. QED  BY <2>2, <2>3
  <1>8. QED  BY <1>6, <1>7

LEMMA SuspendChannels ==
  ASSUME ChannelInv, CustodyInv', NEW x \in Ctx, ReturnYield(x) \/ ReturnSleep(x)
  PROVE  \A q \in Fifos : Same(q)
  <1> USE DEF ChannelInv, PlacedInv, MessageInv, WindowInv
  <1>1. PICK b \in Actor : b = self[x] /\ Ready(b) = {} /\ pc[x] = "run"
    BY NotReady DEF ReturnYield, ReturnSleep, At
  <1>2. OthersKept(x) /\ UNCHANGED <<items, length>>
    BY StepOthers DEF ReturnYield, ReturnSleep, Step, queues
  <1>3. pc'[x] \in {"idle", "sched"}
    BY DEF CustodyInv, KernelInv, ReturnYield, ReturnSleep, EndActorCall, Exit, Goto, TypeOK
  <1>4. ~Activated(b)
    BY <1>1, NotActivated DEF Owns, Closing
  <1>5. \A a \in Actor : mailbox'[a] = IF a = b THEN NULL ELSE mailbox[a]
    BY <1>1 DEF CustodyInv, KernelInv, ReturnYield, ReturnSleep, TypeOK
  <1>6. \A a \in Actor \ {b} : Ready(a)' = Ready(a)
    <2>1. CASE ReturnYield(x)
      BY <1>1, <2>1, InsertPlaces DEF CustodyInv, KernelInv, ReturnYield
    <2>2. CASE ReturnSleep(x)
      BY <2>2, ReadyKept DEF ReturnSleep
    <2>3. QED  BY <2>1, <2>2
  <1>7. \A a \in Actor : ~Touches(x, a) /\ ~Touches(x, a)'
    BY <1>1, <1>3 DEF Touches, Wakes, Calls, Popping
  <1>8. ASSUME NEW q \in Fifos PROVE Same(q)
    <2>1. PICK a \in Actor : a = Reader(q)
      BY ReaderIs
    <2>2. Linked(q)' = Linked(q)
      BY <1>2 DEF Linked
    <2>3. CASE a # b
      <3>1. Ready(a)' = Ready(a) /\ mailbox'[a] = mailbox[a]
        BY <1>5, <1>6, <2>3
      <3>2. QED  BY <1>2, <1>7, <2>1, <2>2, <3>1, OtherChannel
    <2>4. CASE a = b
      <3>1. InMailbox(a) = <<>> /\ InMailbox(a)' = <<>>
        BY <1>4, <1>5, <2>4 DEF InMailbox
      <3>2. Popped(a)' = Popped(a)
        BY <1>2, <1>7, PoppedKept DEF Touches
      <3>3. QED  BY <2>1, <2>2, <3>1, <3>2, Contents DEF Same
    <2>5. QED  BY <2>3, <2>4
  <1>9. QED  BY <1>8

(***************************************************************************)
(* Every step sends one message, receives one, or does neither.            *)
(***************************************************************************)
LEMMA NextChannels ==
  ASSUME ChannelInv, CustodyInv', [Next]_vars PROVE \E r : OneChannel(r)
  <1>1. ASSUME \A q \in Fifos : Same(q) PROVE \E r : OneChannel(r)
    BY <1>1 DEF OneChannel
  <1>2. ASSUME NEW x \in Ctx,
               \/ ProduceAlloc(x) \/ TickStart(x) \/ TickWake(x) \/ TickEnd(x) \/ Request(x)
               \/ PopHeadEmpty(x) \/ Leave(x) \/ FnAlloc(x) \/ FnMove(x)
        PROVE  \E r : OneChannel(r)
    BY <1>1, <1>2, EasyChannels
  <1>3. ASSUME NEW x \in Ctx, Insert(x) \/ PopHead(x) PROVE \E r : OneChannel(r)
    BY <1>1, <1>3, ActivateChannels
  <1>4. ASSUME NEW x \in Ctx, ReturnYield(x) \/ ReturnSleep(x) PROVE \E r : OneChannel(r)
    BY <1>1, <1>4, SuspendChannels
  <1>5. ASSUME NEW x \in Ctx, ReturnQueue(x) \/ Store(x) \/ LoopTest(x)
        PROVE  \E r : OneChannel(r)
    BY <1>1, <1>5, ReturnQueueChannels, StoreChannels, LoopTestChannels
  <1>6. ASSUME NEW x \in Ctx, ProducePush(x) \/ FnPush(x) PROVE \E r : OneChannel(r)
    BY <1>6, PushChannels
  <1>7. ASSUME NEW x \in Ctx, Call(x) \/ FnPoll(x) PROVE \E r : OneChannel(r)
    BY <1>7, CallChannels, FnPollChannels
  <1>8. ASSUME NEW a \in Actor, InitSubscribe(a) \/ InitCall(a) PROVE \E r : OneChannel(r)
    BY <1>1, <1>8, InitSubscribeChannels, InitCallChannels
  <1>9. ASSUME NEW c \in CPU, NEW v \in Vector, EnterVector(c, v) PROVE \E r : OneChannel(r)
    BY <1>1, <1>9, EnterVectorChannels
  <1>10. CASE UNCHANGED vars
    <2>1. \A q \in Fifos : Same(q)
      BY <1>10 DEF vars, frame, queues, Same, Undelivered, InMailbox, Popped, Popping, Linked, Activated
    <2>2. QED  BY <1>1, <2>1
  <1>11. QED
    BY <1>2, <1>3, <1>4, <1>5, <1>6, <1>7, <1>8, <1>9, <1>10 DEF Next, Step

LEMMA StepMaps ==
  ASSUME ChannelInv, CustodyInv', [Next]_vars
  PROVE  [Channels!Next]_([q \in Fifos |-> Undelivered(q)])
  <1> DEFINE chan == [q \in Fifos |-> Undelivered(q)]
             next == [q \in Fifos |-> Undelivered(q)']
  <1>1. chan' = next
    OBVIOUS
  <1>2. PICK r : OneChannel(r)
    BY NextChannels
  <1>3. CASE \A q \in Fifos : Same(q)
    BY <1>3 DEF Same
  <1>4. CASE r \in Fifos /\ Sent(r)
    <2>1. PICK m \in Message : Undelivered(r)' = Append(Undelivered(r), m)
      BY <1>4 DEF Sent
    <2>2. next = [chan EXCEPT ![r] = Append(chan[r], m)]
      BY <1>2, <1>4, <2>1 DEF OneChannel, Same
    <2>3. QED  BY <1>1, <1>4, <2>2 DEF Channels!Next, Channels!Send
  <1>5. CASE r \in Fifos /\ Got(r)
    <2>1. next = [chan EXCEPT ![r] = Tail(chan[r])]
      BY <1>2, <1>5 DEF OneChannel, Same, Got
    <2>2. chan[r] # <<>>
      BY <1>5 DEF Got
    <2>3. QED  BY <1>1, <1>5, <2>1, <2>2 DEF Channels!Next, Channels!Receive
  <1>6. QED  BY <1>2, <1>3, <1>4, <1>5 DEF OneChannel

LEMMA InitMaps == Init => Channels!Init
  <1> SUFFICES ASSUME Init PROVE Channels!Init
    OBVIOUS
  <1>1. ASSUME NEW q \in Fifos PROVE Undelivered(q) = <<>>
    <2>1. PICK a \in Actor : a = Reader(q)
      BY ReaderIs
    <2>2. q \in Queue
      BY ReaderIs
    <2>3. InMailbox(a) = <<>> /\ Popped(a) = <<>> /\ Linked(q) = <<>>
      BY <2>2 DEF Init, InMailbox, Popped, Popping, Linked
    <2>4. <<>> \o <<>> \o <<>> = <<>>
      OBVIOUS
    <2>5. QED  BY <2>1, <2>3, <2>4, Contents
  <1>2. QED  BY <1>1 DEF Channels!Init

\* In a program that pushes to no queue from above its consumer, what a queue
\* with one reader delivers is what was sent to it, each message once and in the
\* order of the sends, though a message passes through the list of the queue, a
\* local variable of mg_actor_call and the mailbox on its way, and handlers of
\* all processors and levels work on the queue in between (README.md:97).
THEOREM ChannelRefinement == NoPushFromAbove => (Spec => ImplementsChannels)
  <1> SUFFICES ASSUME NoPushFromAbove PROVE Spec => ImplementsChannels
    OBVIOUS
  <1>1. Init => ChannelInv /\ Channels!Init
    BY InitChannelInv, InitMaps
  <1>2. ChannelInv /\ [Next]_vars => ChannelInv'
    BY NextChannelInv
  <1>3. ChannelInv /\ [Next]_vars => [Channels!Next]_([q \in Fifos |-> Undelivered(q)])
    BY NextCustodyInv, StepMaps DEF ChannelInv, PlacedInv, MessageInv, WindowInv, TestSound
  <1>4. QED
    BY <1>1, <1>2, <1>3, PTL DEF Spec, ImplementsChannels, Channels!Spec
=============================================================================
