---------------------------- MODULE KernelProofs ----------------------------
(***************************************************************************)
(* Proofs about the kernel, with any number of processors, levels, actors, *)
(* queues and messages: what the contexts do at each label, where the      *)
(* actors are, and that a ready one is called.  The types and the shape of *)
(* the queues hold in every program; where the actors are depends on the   *)
(* loop test of mg_actor_call (LoopTestSafe).                              *)
(***************************************************************************)
EXTENDS Kernel, FiniteSetTheorems, TLAPS

\* What the locals of a context hold at each of its labels.
ControlOK ==
  \A x \in Ctx :
    /\ pc[x] = "idle" => handler[x] = "none"
    /\ pc[x] = "push" => handler[x] = "producer" /\ msg[x] \in Message
    /\ pc[x] = "tick" => handler[x] = "tick"
    /\ pc[x] \in {"sched", "leave"} => handler[x] = "sched"
    /\ pc[x] \in {"insert", "request"} =>
         /\ dest[x] \in Actor
         /\ handler[x] \in {"init", "sched"} => self[x] \in Actor
         /\ handler[x] # "none"
    /\ pc[x] \in {"call", "run", "store", "test"} =>
         handler[x] \in {"init", "sched"} /\ self[x] \in Actor

KernelInv == TypeOK /\ QueueShape /\ ControlOK

LEMMA HomeIsContext == TypeOK => \A a \in Actor : Home(a) \in Ctx
  BY ContextAssumption, ActorAssumption DEF TypeOK, Home, Ctx, Level, Prio

LEMMA MainIsContext == Main \in Ctx
  BY ContextAssumption, SMT DEF Main, Ctx, Level

LEMMA EnterIdle == ASSUME NEW x \in Ctx, CanEnter(x) PROVE pc[x] = "idle"
  <1>1. x = <<x[1], x[2]>> /\ x[2] \in x[2]..MaxPrio
    BY ContextAssumption, SMT DEF Ctx, Level
  <1>2. QED  BY <1>1 DEF CanEnter

(***************************************************************************)
(* Lists.                                                                  *)
(***************************************************************************)
LEMMA AppendShape ==
  ASSUME NEW S, NEW s \in Seq(S), NEW e \in S
  PROVE  Append(s, e) \in Seq(S) /\ Len(Append(s, e)) = Len(s) + 1
  OBVIOUS

LEMMA TailShape ==
  ASSUME NEW S, NEW s \in Seq(S), Len(s) > 0
  PROVE  Head(s) \in S /\ Tail(s) \in Seq(S) /\ Len(Tail(s)) = Len(s) - 1
  OBVIOUS

\* An empty list is a list of anything.
LEMMA EmptyList ==
  ASSUME NEW S, NEW T, NEW s \in Seq(S), Len(s) = 0 PROVE s \in Seq(T)
  <1>1. s = <<>>  OBVIOUS
  <1>2. QED  BY <1>1

\* A list of messages or of actors is a list of nodes.
LEMMA NodeList ==
  ASSUME NEW S, NEW T, S \subseteq T, NEW s \in Seq(S) PROVE s \in Seq(T)
  OBVIOUS

LEMMA InitKernelInv == Init => KernelInv
  <1> SUFFICES ASSUME Init PROVE KernelInv  OBVIOUS
  <1>1. TypeOK
    BY ActorAssumption DEF Init, TypeOK, Labels
  <1>2. QueueShape
    BY DEF Init, QueueShape, HasShape
  <1>3. ControlOK
    BY DEF Init, ControlOK
  <1>4. QED  BY <1>1, <1>2, <1>3 DEF KernelInv


\* One queue changes and the new list has the shape its new length says.
LEMMA QueueUpdate ==
  ASSUME TypeOK, QueueShape, NEW q \in Queue, NEW list, NEW n \in Int,
         items' = [items EXCEPT ![q] = list], length' = [length EXCEPT ![q] = n],
         HasShape(list, n)
  PROVE  /\ items' \in [Queue -> Seq(Actor \cup Message)]
         /\ length' \in [Queue -> Int]
         /\ QueueShape'
  <1>1. list \in Seq(Actor \cup Message)
    BY NodeList DEF HasShape
  <1>2. items' \in [Queue -> Seq(Actor \cup Message)] /\ length' \in [Queue -> Int]
    BY <1>1 DEF TypeOK
  <1>3. ASSUME NEW r \in Queue PROVE HasShape(items'[r], length'[r])
    <2>1. CASE r = q  BY <2>1 DEF TypeOK
    <2>2. CASE r # q  BY <2>2 DEF TypeOK, QueueShape
    <2>3. QED  BY <2>1, <2>2
  <1>4. QED  BY <1>2, <1>3 DEF QueueShape

LEMMA PopShape ==
  ASSUME TypeOK, QueueShape, NEW q \in Queue, NEW m, PopMessage(q, m)
  PROVE  /\ m \in Message
         /\ items' \in [Queue -> Seq(Actor \cup Message)]
         /\ length' \in [Queue -> Int]
         /\ QueueShape'
  <1>1. length[q] \in Int /\ length[q] > 0
    BY DEF PopMessage, TypeOK
  <1>2. items[q] \in Seq(Message) /\ Len(items[q]) = length[q]
    BY <1>1 DEF QueueShape, HasShape
  <1>3. m \in Message /\ Tail(items[q]) \in Seq(Message) /\ Len(Tail(items[q])) = length[q] - 1
    BY <1>1, <1>2, TailShape DEF PopMessage
  <1>4. length[q] - 1 \in Int /\ HasShape(Tail(items[q]), length[q] - 1)
    BY <1>1, <1>3 DEF HasShape
  <1>5. /\ items' = [items EXCEPT ![q] = Tail(items[q])]
        /\ length' = [length EXCEPT ![q] = length[q] - 1]
    BY <1>1 DEF PopMessage, Dequeue, Lengthen, TypeOK
  <1>6. QED  BY <1>3, <1>4, <1>5, QueueUpdate, Zenon

LEMMA SubscribeShape ==
  ASSUME TypeOK, QueueShape, NEW q \in Queue, NEW a \in Actor, Subscribe(q, a)
  PROVE  /\ items' \in [Queue -> Seq(Actor \cup Message)]
         /\ length' \in [Queue -> Int]
         /\ QueueShape'
  <1>1. length[q] \in Int /\ length[q] <= 0
    BY DEF Subscribe, TypeOK
  <1>2. items[q] \in Seq(Actor) /\ Len(items[q]) = 0 - length[q]
    <2>1. CASE length[q] < 0  BY <2>1 DEF QueueShape, HasShape
    <2>2. CASE length[q] = 0
      <3>1. items[q] \in Seq(Message) /\ Len(items[q]) = 0
        BY <2>2 DEF QueueShape, HasShape
      <3>2. items[q] \in Seq(Actor)
        BY <3>1, EmptyList
      <3>3. QED  BY <1>1, <2>2, <3>1, <3>2
    <2>3. QED  BY <1>1, <2>1, <2>2
  <1>3. /\ Append(items[q], a) \in Seq(Actor)
        /\ Len(Append(items[q], a)) = 0 - length[q] + 1
    BY <1>2, AppendShape
  <1>4. length[q] - 1 \in Int /\ HasShape(Append(items[q], a), length[q] - 1)
    BY <1>1, <1>3 DEF HasShape
  <1>5. /\ items' = [items EXCEPT ![q] = Append(items[q], a)]
        /\ length' = [length EXCEPT ![q] = length[q] - 1]
    BY <1>1 DEF Subscribe, Enqueue, Lengthen, TypeOK
  <1>6. QED  BY <1>4, <1>5, QueueUpdate, Zenon

LEMMA PushShape ==
  ASSUME TypeOK, QueueShape, NEW x \in Ctx, NEW q \in Queue, NEW m \in Message,
         mg_queue_push(x, q, m)
  PROVE  /\ items' \in [Queue -> Seq(Actor \cup Message)]
         /\ length' \in [Queue -> Int]
         /\ QueueShape'
         /\ length[q] < 0 => Head(items[q]) \in Actor
  <1>1. /\ length[q] \in Int /\ length[q] + 1 \in Int
        /\ length' = [length EXCEPT ![q] = length[q] + 1]
    BY DEF mg_queue_push, Lengthen, TypeOK
  <1>2. CASE length[q] >= 0
    <2>1. items[q] \in Seq(Message) /\ Len(items[q]) = length[q]
      BY <1>1, <1>2 DEF QueueShape, HasShape
    <2>2. HasShape(Append(items[q], m), length[q] + 1)
      BY <1>1, <1>2, <2>1, AppendShape DEF HasShape
    <2>3. items' = [items EXCEPT ![q] = Append(items[q], m)]
      BY <1>1, <1>2 DEF mg_queue_push, PushLinks, Enqueue
    <2>4. ~(length[q] < 0)
      BY <1>1, <1>2
    <2>5. QED  BY <1>1, <2>2, <2>3, <2>4, QueueUpdate, Zenon
  <1>3. CASE length[q] < 0
    <2>1. items[q] \in Seq(Actor) /\ Len(items[q]) = 0 - length[q]
      BY <1>1, <1>3 DEF QueueShape, HasShape
    <2> DEFINE rest == Tail(items[q])
               n == length[q] + 1
    <2>2. /\ Head(items[q]) \in Actor
          /\ rest \in Seq(Actor) /\ Len(rest) = 0 - n
          /\ n \in Int /\ n <= 0
      BY <1>1, <1>3, <2>1, TailShape
    <2>3. items' = [items EXCEPT ![q] = rest] /\ length' = [length EXCEPT ![q] = n]
      BY <1>1, <1>3 DEF mg_queue_push, Dequeue
    <2> HIDE DEF rest, n
    <2>4. HasShape(rest, n)
      <3>1. CASE n < 0
        BY <2>2, <3>1 DEF HasShape
      <3>2. CASE n = 0
        <4>1. Len(rest) = 0
          BY <2>2, <3>2
        <4>2. rest \in Seq(Message)
          BY <2>2, <4>1, EmptyList
        <4>3. QED  BY <3>2, <4>1, <4>2 DEF HasShape
      <3>3. QED  BY <2>2, <3>1, <3>2
    <2>5. QED  BY <2>2, <2>3, <2>4, QueueUpdate, Zenon
  <1>4. QED  BY <1>1, <1>2, <1>3

LEMMA AllocShape ==
  ASSUME TypeOK, QueueShape, NEW m \in Message, mg_message_alloc(m)
  PROVE  /\ fresh' \subseteq Message
         /\ items' \in [Queue -> Seq(Actor \cup Message)]
         /\ length' \in [Queue -> Int]
         /\ QueueShape'
  <1>1. CASE m \in fresh /\ fresh' = fresh \ {m} /\ UNCHANGED <<items, length>>
    BY <1>1 DEF TypeOK, QueueShape
  <1>2. CASE PopMessage(Pool, m) /\ UNCHANGED fresh
    BY <1>2, PopShape, DataAssumption DEF TypeOK
  <1>3. QED  BY <1>1, <1>2 DEF mg_message_alloc

(***************************************************************************)
(* The steps of main(), of the device handlers and of the tick.            *)
(***************************************************************************)
LEMMA InitSubscribeInv ==
  ASSUME KernelInv, NEW a \in Actor, InitSubscribe(a) PROVE KernelInv'
  <1> USE MainIsContext, ActorAssumption, DataAssumption DEF KernelInv
  <1>1. InitQueue[a] \in Queue
    BY DEF InitSubscribe
  <1>2. CASE Subscribe(InitQueue[a], a) /\ UNCHANGED frame
    <2>1. TypeOK'
      BY <1>1, <1>2, SubscribeShape DEF InitSubscribe, TypeOK, frame
    <2>2. QueueShape'
      BY <1>1, <1>2, SubscribeShape
    <2>3. ControlOK'
      BY <1>2 DEF ControlOK, frame
    <2>4. QED  BY <2>1, <2>2, <2>3
  <1>3. CASE \E m \in Message :
               /\ PopMessage(InitQueue[a], m)
               /\ Enter(Main, "init", "assert")
               /\ self' = [self EXCEPT ![Main] = a]
               /\ msg' = [msg EXCEPT ![Main] = m]
               /\ UNCHANGED <<dest, due, budget>>
    <2> PICK m \in Message :
          /\ PopMessage(InitQueue[a], m)
          /\ Enter(Main, "init", "assert")
          /\ self' = [self EXCEPT ![Main] = a]
          /\ msg' = [msg EXCEPT ![Main] = m]
          /\ UNCHANGED <<dest, due, budget>>
      BY <1>3
    <2>1. TypeOK'
      BY <1>1, PopShape DEF InitSubscribe, TypeOK, Labels, Enter, Goto
    <2>2. QueueShape'
      BY <1>1, PopShape
    <2>3. ControlOK'
      BY DEF ControlOK, TypeOK, Enter, Goto
    <2>4. QED  BY <2>1, <2>2, <2>3
  <1>4. QED  BY <1>2, <1>3 DEF InitSubscribe

LEMMA InitCallInv ==
  ASSUME KernelInv, NEW a \in Actor, InitCall(a) PROVE KernelInv'
  <1> USE MainIsContext DEF KernelInv
  <1>1. TypeOK'
    BY DEF InitCall, TypeOK, Labels, Enter, Goto, queues
  <1>2. QueueShape'
    BY DEF InitCall, QueueShape, queues
  <1>3. ControlOK'
    BY DEF InitCall, ControlOK, TypeOK, Enter, Goto
  <1>4. QED  BY <1>1, <1>2, <1>3

LEMMA ProduceAllocInv ==
  ASSUME KernelInv, NEW x \in Ctx, ProduceAlloc(x) PROVE KernelInv'
  <1> USE DEF KernelInv
  <1>1. PICK m \in Message : mg_message_alloc(m) /\ msg' = [msg EXCEPT ![x] = m]
    BY DEF ProduceAlloc
  <1>2. TypeOK'
    BY <1>1, AllocShape DEF ProduceAlloc, TypeOK, Labels, Enter, Goto
  <1>3. QueueShape'
    BY <1>1, AllocShape
  <1>4. ControlOK'
    BY <1>1 DEF ProduceAlloc, ControlOK, TypeOK, Enter, Goto
  <1>5. QED  BY <1>2, <1>3, <1>4

\* What the critical section of mg_queue_push leaves of the control state.
LEMMA PushControl ==
  ASSUME TypeOK, QueueShape, ControlOK,
         NEW x \in Ctx, NEW q \in Queue, NEW m \in Message, mg_queue_push(x, q, m),
         pc[x] \in {"push", "run"}
  PROVE  /\ pc' \in [Ctx -> Labels]
         /\ handler' \in [Ctx -> {"none", "init", "producer", "tick", "sched"}]
         /\ dest' \in [Ctx -> Actor \cup {NULL}]
         /\ mailbox' \in [Actor -> Message \cup {NULL}]
         /\ pc'[x] \in {"idle", "run", "insert"}
         /\ pc'[x] = "idle" => handler'[x] = "none"
         /\ pc'[x] = "run" => handler'[x] \in {"init", "sched"} /\ pc[x] = "run"
         /\ pc'[x] = "insert" => dest'[x] \in Actor /\ handler'[x] = handler[x]
         /\ \A y \in Ctx \ {x} : pc'[y] = pc[y] /\ handler'[y] = handler[y] /\ dest'[y] = dest[y]
  <1>1. pc[x] = "push" => handler[x] = "producer"
    BY DEF ControlOK
  <1>2. pc[x] = "run" => handler[x] \in {"init", "sched"}
    BY DEF ControlOK
  <1>3. CASE Return(x) /\ UNCHANGED <<mailbox, dest>>
    BY <1>1, <1>2, <1>3 DEF Return, Exit, Goto, TypeOK, Labels
  <1>4. CASE /\ length[q] < 0
             /\ mailbox' = [mailbox EXCEPT ![Head(items[q])] = m]
             /\ PushHandsOver(x, q)
    BY <1>1, <1>2, <1>4, PushShape DEF PushHandsOver, Goto, TypeOK, Labels
  <1>5. QED  BY <1>3, <1>4 DEF mg_queue_push, PushLinks

LEMMA ProducePushInv ==
  ASSUME KernelInv, NEW x \in Ctx, ProducePush(x) PROVE KernelInv'
  <1> USE DEF KernelInv
  <1>1. PICK q \in ProducerTargets : mg_queue_push(x, q, msg[x])
    BY DEF ProducePush
  <1>2. q \in Queue /\ msg[x] \in Message /\ pc[x] = "push" /\ handler[x] = "producer"
    BY DataAssumption DEF ProducePush, At, ControlOK
  <1>3. fresh' = fresh
    BY <1>1 DEF mg_queue_push
  <1>4. TypeOK'
    BY <1>1, <1>2, <1>3, PushShape, PushControl DEF ProducePush, TypeOK
  <1>5. QueueShape'
    BY <1>1, <1>2, PushShape
  <1>6. ControlOK'
    BY <1>1, <1>2, PushControl DEF ProducePush, ControlOK, TypeOK
  <1>7. QED  BY <1>4, <1>5, <1>6

LEMMA TickInv ==
  ASSUME KernelInv, NEW x \in Ctx, TickStart(x) \/ TickWake(x) \/ TickEnd(x)
  PROVE  KernelInv'
  <1> USE DEF KernelInv
  <1>1. x[1] \in CPU
    BY DEF Ctx
  <1>2. QueueShape'
    BY DEF TickStart, TickWake, TickEnd, QueueShape, queues
  <1>3. CASE TickStart(x)
    <2>1. TypeOK'
      BY <1>1, <1>3 DEF TickStart, TypeOK, Labels, Enter, Goto, queues
    <2>2. ControlOK'
      BY <1>3 DEF TickStart, ControlOK, TypeOK, Enter, Goto
    <2>3. QED  BY <1>2, <2>1, <2>2
  <1>4. CASE TickWake(x)
    <2>1. TypeOK'
      BY <1>1, <1>4 DEF TickWake, TypeOK, Labels, Goto, queues
    <2>2. ControlOK'
      BY <1>4 DEF TickWake, ControlOK, TypeOK, At, Goto
    <2>3. QED  BY <1>2, <2>1, <2>2
  <1>5. CASE TickEnd(x)
    <2>1. TypeOK'
      BY <1>5 DEF TickEnd, TypeOK, Labels, Exit, Goto, queues
    <2>2. ControlOK'
      BY <1>5 DEF TickEnd, ControlOK, TypeOK, Exit, Goto
    <2>3. QED  BY <1>2, <2>1, <2>2
  <1>6. QED  BY <1>3, <1>4, <1>5

(***************************************************************************)
(* The steps of _mg_actor_activate and of the scheduler.                   *)
(***************************************************************************)
LEMMA ActivateInv ==
  ASSUME KernelInv, NEW x \in Ctx, Insert(x) \/ Request(x) PROVE KernelInv'
  <1> USE DEF KernelInv
  <1>1. QueueShape'
    BY DEF Insert, Request, QueueShape, queues
  <1>2. CASE Insert(x)
    <2>1. dest[x] \in Actor /\ Home(dest[x]) \in Ctx
      BY <1>2, HomeIsContext DEF Insert, At, ControlOK
    <2>2. runq' \in [Ctx -> Seq(Actor)]
      BY <1>2, <2>1, AppendShape DEF Insert, mg_actor_insert, TypeOK
    <2>3. TypeOK'
      BY <1>2, <2>2 DEF Insert, TypeOK, Labels, Goto, queues
    <2>4. ControlOK'
      BY <1>2 DEF Insert, ControlOK, TypeOK, At, Goto
    <2>5. QED  BY <1>1, <2>3, <2>4
  <1>3. CASE Request(x)
    <2>1. dest[x] \in Actor
      BY <1>3 DEF Request, At, ControlOK
    <2>2. <<cpu[dest[x]], Vect[dest[x]]>> \in CPU \X Vector
      BY <2>1, ActorAssumption DEF TypeOK
    <2>3. TypeOK'
      BY <1>3, <2>2 DEF Request, TypeOK, Labels, Return, Exit, Goto, queues
    <2>4. ControlOK'
      BY <1>3 DEF Request, ControlOK, TypeOK, At, Return, Exit, Goto
    <2>5. QED  BY <1>1, <2>3, <2>4
  <1>4. QED  BY <1>2, <1>3

LEMMA EnterVectorInv ==
  ASSUME KernelInv, NEW c \in CPU, NEW v \in Vector, EnterVector(c, v)
  PROVE  KernelInv'
  <1> USE DEF KernelInv
  <1>1. <<c, vect2prio[v]>> \in Ctx
    BY ContextAssumption DEF Ctx, Level, Prio
  <1>2. TypeOK'
    BY <1>1 DEF EnterVector, TypeOK, Labels, Enter, Goto, queues
  <1>3. QueueShape'
    BY DEF EnterVector, QueueShape, queues
  <1>4. ControlOK'
    BY <1>1 DEF EnterVector, ControlOK, TypeOK, Enter, Goto
  <1>5. QED  BY <1>2, <1>3, <1>4

LEMMA ScheduleInv ==
  ASSUME KernelInv, NEW x \in Ctx, PopHead(x) \/ PopHeadEmpty(x) \/ Leave(x) PROVE KernelInv'
  <1> USE DEF KernelInv
  <1>1. QueueShape'
    BY DEF PopHead, PopHeadEmpty, Leave, QueueShape, queues
  <1>2. CASE PopHead(x)
    <2>1. runq[x] \in Seq(Actor) /\ Len(runq[x]) > 0
      BY <1>2 DEF PopHead, TypeOK
    <2>2. Head(runq[x]) \in Actor /\ Tail(runq[x]) \in Seq(Actor)
      BY <2>1, TailShape
    <2>3. TypeOK'
      BY <1>2, <2>2 DEF PopHead, TypeOK, Labels, Goto, queues
    <2>4. ControlOK'
      BY <1>2, <2>2 DEF PopHead, ControlOK, TypeOK, At, Goto
    <2>5. QED  BY <1>1, <2>3, <2>4
  <1>3. CASE PopHeadEmpty(x)
    <2>1. TypeOK'
      BY <1>3 DEF PopHeadEmpty, TypeOK, Labels, Goto, queues
    <2>2. ControlOK'
      BY <1>3 DEF PopHeadEmpty, At, ControlOK, TypeOK, Goto
    <2>3. QED  BY <1>1, <2>1, <2>2
  <1>4. CASE Leave(x)
    <2>1. TypeOK'
      BY <1>4 DEF Leave, TypeOK, Labels, Exit, Goto, queues
    <2>2. ControlOK'
      BY <1>4 DEF Leave, ControlOK, TypeOK, Exit, Goto
    <2>3. QED  BY <1>1, <2>1, <2>2
  <1>5. QED  BY <1>2, <1>3, <1>4

(***************************************************************************)
(* The steps of mg_actor_call.                                             *)
(***************************************************************************)
LEMMA CallInv == ASSUME KernelInv, NEW x \in Ctx, Call(x) PROVE KernelInv'
  <1> USE DEF KernelInv
  <1>1. self[x] \in Actor /\ pc[x] = "call"
    BY DEF Call, At, ControlOK
  <1>2. TypeOK'
    BY <1>1, DataAssumption DEF Call, TypeOK, Labels, Goto, queues
  <1>3. QueueShape'
    BY DEF Call, QueueShape, queues
  <1>4. ControlOK'
    BY <1>1 DEF Call, ControlOK, TypeOK, Goto
  <1>5. QED  BY <1>2, <1>3, <1>4

LEMMA FnInv ==
  ASSUME KernelInv, NEW x \in Ctx, FnAlloc(x) \/ FnPoll(x) \/ FnPush(x) \/ FnMove(x)
  PROVE  KernelInv'
  <1> USE DEF KernelInv
  <1>0. KernelCall(x)
    BY DEF FnAlloc, FnPoll, FnPush, FnMove
  <1>1. self[x] \in Actor /\ pc[x] = "run" /\ budget' \in [Ctx -> Nat]
    <2>1. budget[x] - 1 \in Nat
      BY <1>0 DEF KernelCall, TypeOK
    <2>2. QED  BY <1>0, <2>1 DEF KernelCall, At, ControlOK, TypeOK
  <1>2. CASE FnAlloc(x)
    <2>1. PICK m \in Message :
            mg_message_alloc(m) /\ held' = [held EXCEPT ![self[x]] = @ \cup {m}]
      BY <1>2 DEF FnAlloc
    <2>2. TypeOK'
      BY <1>1, <1>2, <2>1, AllocShape DEF FnAlloc, TypeOK
    <2>3. QueueShape'
      BY <2>1, AllocShape
    <2>4. ControlOK'
      BY <1>2 DEF FnAlloc, ControlOK
    <2>5. QED  BY <2>2, <2>3, <2>4
  <1>3. CASE FnPoll(x)
    <2>1. PICK q \in Subscribes[self[x]], m \in Message :
            PopMessage(q, m) /\ held' = [held EXCEPT ![self[x]] = @ \cup {m}]
      BY <1>3 DEF FnPoll
    <2>2. q \in Queue
      BY <1>1, <2>1, ActorAssumption
    <2>3. TypeOK'
      BY <1>1, <1>3, <2>1, <2>2, PopShape DEF FnPoll, TypeOK
    <2>4. QueueShape'
      BY <2>1, <2>2, PopShape
    <2>5. ControlOK'
      BY <1>3 DEF FnPoll, ControlOK
    <2>6. QED  BY <2>3, <2>4, <2>5
  <1>4. CASE FnPush(x)
    <2>1. PICK q \in Targets[self[x]], m \in held[self[x]] :
            mg_queue_push(x, q, m) /\ held' = [held EXCEPT ![self[x]] = @ \ {m}]
      BY <1>4 DEF FnPush
    <2>2. q \in Queue /\ m \in Message
      BY <1>1, <2>1, ActorAssumption DEF TypeOK
    <2>3. fresh' = fresh
      BY <2>1 DEF mg_queue_push
    <2>4. TypeOK'
      BY <1>1, <1>4, <2>1, <2>2, <2>3, PushShape, PushControl DEF FnPush, TypeOK
    <2>5. QueueShape'
      BY <2>1, <2>2, PushShape
    <2>6. ControlOK'
      BY <1>1, <1>4, <2>1, <2>2, PushControl DEF FnPush, ControlOK, TypeOK
    <2>7. QED  BY <2>4, <2>5, <2>6
  <1>5. CASE FnMove(x)
    <2>1. cpu' \in [Actor -> CPU]
      <3>1. PICK c \in Moves[self[x]] : cpu' = [cpu EXCEPT ![self[x]] = c]
        BY <1>5 DEF FnMove
      <3>2. c \in CPU
        BY <1>1, <3>1, ActorAssumption
      <3>3. QED  BY <3>1, <3>2 DEF TypeOK
    <2>2. TypeOK'
      BY <1>1, <1>5, <2>1 DEF FnMove, TypeOK, queues
    <2>3. QueueShape'
      BY <1>5 DEF FnMove, QueueShape, queues
    <2>4. ControlOK'
      BY <1>5 DEF FnMove, ControlOK
    <2>5. QED  BY <2>2, <2>3, <2>4
  <1>6. QED  BY <1>2, <1>3, <1>4, <1>5

LEMMA ReturnQueueInv ==
  ASSUME KernelInv, NEW x \in Ctx, ReturnQueue(x) PROVE KernelInv'
  <1> USE DEF KernelInv
  <1>1. self[x] \in Actor /\ pc[x] = "run"
    BY DEF ReturnQueue, At, ControlOK
  <1>2. PICK q \in Subscribes[self[x]] :
          \/ Subscribe(q, self[x]) /\ msg' = [msg EXCEPT ![x] = NULL]
          \/ \E m \in Message : PopMessage(q, m) /\ msg' = [msg EXCEPT ![x] = m]
    BY DEF ReturnQueue
  <1>3. q \in Queue
    BY <1>1, ActorAssumption
  <1>4. /\ items' \in [Queue -> Seq(Actor \cup Message)]
        /\ length' \in [Queue -> Int]
        /\ QueueShape'
        /\ msg' \in [Ctx -> Message \cup {NULL}]
        /\ \A y \in Ctx \ {x} : msg'[y] = msg[y]
    <2>1. msg \in [Ctx -> Message \cup {NULL}]
      BY DEF TypeOK
    <2>2. CASE Subscribe(q, self[x]) /\ msg' = [msg EXCEPT ![x] = NULL]
      BY <1>1, <1>3, <2>1, <2>2, SubscribeShape
    <2>3. CASE \E m \in Message : PopMessage(q, m) /\ msg' = [msg EXCEPT ![x] = m]
      BY <1>3, <2>1, <2>3, PopShape
    <2>4. QED  BY <1>2, <2>2, <2>3
  <1>5. TypeOK'
    BY <1>4 DEF ReturnQueue, TypeOK, Labels, Goto
  <1>6. ControlOK'
    BY <1>1, <1>4 DEF ReturnQueue, ControlOK, TypeOK, Goto
  <1>7. QED  BY <1>4, <1>5, <1>6

LEMMA StoreInv == ASSUME KernelInv, NEW x \in Ctx, Store(x) PROVE KernelInv'
  <1> USE DEF KernelInv
  <1>1. self[x] \in Actor /\ pc[x] = "store" /\ handler[x] \in {"init", "sched"}
    BY DEF Store, At, ControlOK
  <1>2. TypeOK'
    BY <1>1 DEF Store, TypeOK, Labels, Goto, queues
  <1>3. QueueShape'
    BY DEF Store, QueueShape, queues
  <1>4. ControlOK'
    BY <1>1 DEF Store, ControlOK, TypeOK, Goto
  <1>5. QED  BY <1>2, <1>3, <1>4

LEMMA LoopTestInv == ASSUME KernelInv, NEW x \in Ctx, LoopTest(x) PROVE KernelInv'
  <1> USE DEF KernelInv
  <1>1. self[x] \in Actor /\ pc[x] = "test" /\ handler[x] \in {"init", "sched"}
    BY DEF LoopTest, At, ControlOK
  <1>2. TypeOK'
    BY <1>1 DEF LoopTest, TypeOK, Labels, EndActorCall, Exit, Goto, queues
  <1>3. QueueShape'
    BY DEF LoopTest, QueueShape, queues
  <1>4. ControlOK'
    BY <1>1 DEF LoopTest, ControlOK, TypeOK, EndActorCall, Exit, Goto
  <1>5. QED  BY <1>2, <1>3, <1>4

LEMMA SuspendInv ==
  ASSUME KernelInv, NEW x \in Ctx, ReturnYield(x) \/ ReturnSleep(x) PROVE KernelInv'
  <1> USE DEF KernelInv
  <1>1. self[x] \in Actor /\ pc[x] = "run" /\ handler[x] \in {"init", "sched"} /\ x[1] \in CPU
    BY DEF ReturnYield, ReturnSleep, At, ControlOK, Ctx
  <1>2. QueueShape'
    BY DEF ReturnYield, ReturnSleep, QueueShape, queues
  <1>3. ControlOK'
    <2>1. EndActorCall(x) /\ UNCHANGED dest /\ msg' = [msg EXCEPT ![x] = NULL]
      BY DEF ReturnYield, ReturnSleep
    <2>2. QED  BY <1>1, <2>1 DEF ControlOK, TypeOK, EndActorCall, Exit, Goto
  <1>4. CASE ReturnYield(x)
    <2>1. Home(self[x]) \in Ctx
      BY <1>1, HomeIsContext
    <2>2. runq' \in [Ctx -> Seq(Actor)]
      BY <1>1, <1>4, <2>1, AppendShape DEF ReturnYield, mg_actor_insert, TypeOK
    <2>3. TypeOK'
      BY <1>1, <1>4, <2>2 DEF ReturnYield, TypeOK, Labels, EndActorCall, Exit, Goto, queues
    <2>4. QED  BY <1>2, <1>3, <2>3
  <1>5. CASE ReturnSleep(x)
    <2>1. asleep' \in [CPU -> SUBSET Actor]
      BY <1>1, <1>5 DEF ReturnSleep, TypeOK
    <2>2. TypeOK'
      BY <1>1, <1>5, <2>1 DEF ReturnSleep, TypeOK, Labels, EndActorCall, Exit, Goto, queues
    <2>3. QED  BY <1>2, <1>3, <2>2
  <1>6. QED  BY <1>4, <1>5

LEMMA NextKernelInv == KernelInv /\ [Next]_vars => KernelInv'
  <1> SUFFICES ASSUME KernelInv, [Next]_vars PROVE KernelInv'
    OBVIOUS
  <1>1. CASE \E a \in Actor : InitSubscribe(a) \/ InitCall(a)
    BY <1>1, InitSubscribeInv, InitCallInv
  <1>2. CASE \E x \in Ctx : ProduceAlloc(x) \/ TickStart(x) \/ Step(x)
    BY <1>2, ProduceAllocInv, ProducePushInv, TickInv, ActivateInv, ScheduleInv,
       CallInv, FnInv, ReturnQueueInv, StoreInv, LoopTestInv, SuspendInv DEF Step
  <1>3. CASE \E c \in CPU, v \in Vector : EnterVector(c, v)
    BY <1>3, EnterVectorInv
  <1>4. CASE UNCHANGED vars
    BY <1>4 DEF vars, frame, queues, KernelInv, TypeOK, QueueShape, ControlOK
  <1>5. QED  BY <1>1, <1>2, <1>3, <1>4 DEF Next

\* The kernel keeps KernelInv.
THEOREM KernelInvariant == Spec => []KernelInv
  BY InitKernelInv, NextKernelInv, PTL DEF Spec

\* Every variable of the kernel has its type: in particular _mg_actor_activate
\* is given an actor, never a message (magnesium.h:224-226).
THEOREM TypeCorrect == Spec => []TypeOK
  BY KernelInvariant, PTL DEF KernelInv

\* A queue links either messages or actors and its length counts them, so the
\* casts of mg_queue_pop and mg_queue_push are right.  Sequences stand for linked
\* lists as long as no actor is linked twice, so this speaks of the code in the
\* programs of CustodyInvariant.
THEOREM QueueShapeInvariant == Spec => []QueueShape
  BY KernelInvariant, PTL DEF KernelInv

-----------------------------------------------------------------------------
(***************************************************************************)
(* An actor is in exactly one place, with any number of processors, levels,*)
(* actors and queues, if the loop test of mg_actor_call is safe.           *)
(***************************************************************************)
\* The nodes of a set that are linked into a list, and that none is linked twice.
NodesIn(list, N) == {n \in N : \E i \in DOMAIN list : list[i] = n}
DistinctNodes(list, N) ==
  \A i, j \in DOMAIN list : list[i] \in N /\ list[i] = list[j] => i = j

ActorsIn(list) == NodesIn(list, Actor)
Distinct(list) == DistinctNodes(list, Actor)

\* Where actor a is, one set for each kind of place.
Running(a) == {x \in Ctx : Owns(x, a)}
Waking(a) == {x \in Ctx : pc[x] = "insert" /\ dest[x] = a}
Ready(a) == {x \in Ctx : a \in ActorsIn(runq[x])}
Waiting(a) == {q \in Queue : a \in ActorsIn(items[q])}
Asleep(a) == {c \in CPU : a \in asleep[c]}
Unborn(a) == {a} \cap uninit

IsIn(a, R, W, D, Q, S, U) ==
  /\ Running(a) = R /\ Waking(a) = W /\ Ready(a) = D
  /\ Waiting(a) = Q /\ Asleep(a) = S /\ Unborn(a) = U

\* One of the sets has one element and the others have none.
OnePlace(a) ==
  \/ \E x \in Ctx : IsIn(a, {x}, {}, {}, {}, {}, {})
  \/ \E x \in Ctx : IsIn(a, {}, {x}, {}, {}, {}, {})
  \/ \E x \in Ctx : IsIn(a, {}, {}, {x}, {}, {}, {})
  \/ \E q \in Queue : IsIn(a, {}, {}, {}, {q}, {}, {})
  \/ \E c \in CPU : IsIn(a, {}, {}, {}, {}, {c}, {})
  \/ IsIn(a, {}, {}, {}, {}, {}, {a})

Custody ==
  /\ \A a \in Actor : OnePlace(a)
  /\ \A x \in Ctx : Distinct(runq[x])
  /\ \A q \in Queue : Distinct(items[q])

\* A context that is not in mg_actor_call has no actor.
SelfOK ==
  \A x \in Ctx :
    handler[x] \in {"none", "producer", "tick"} \/ pc[x] \in {"sched", "leave"} => self[x] = NULL

\* The sleepers that a tick has still to wake are asleep on its processor, which
\* has no other tick.
DueOK ==
  \A x \in Ctx : /\ due[x] \subseteq asleep[x[1]]
                 /\ due[x] # {} => x \in Tickers

CustodyInv == KernelInv /\ SelfOK /\ DueOK /\ Custody

(***************************************************************************)
(* Lists.                                                                  *)
(***************************************************************************)
LEMMA AppendNodes ==
  ASSUME NEW S, NEW N, NEW s \in Seq(S), NEW e \in S
  PROVE  /\ NodesIn(Append(s, e), N) = NodesIn(s, N) \cup ({e} \cap N)
         /\ DistinctNodes(s, N) /\ e \notin NodesIn(s, N) => DistinctNodes(Append(s, e), N)
  <1> DEFINE t == Append(s, e)
  <1>1. /\ DOMAIN t = 1..(Len(s) + 1) /\ DOMAIN s = 1..Len(s) /\ Len(s) \in Nat
        /\ \A i \in 1..Len(s) : t[i] = s[i]
        /\ t[Len(s) + 1] = e
    OBVIOUS
  <1>2. DOMAIN t = DOMAIN s \cup {Len(s) + 1} /\ Len(s) + 1 \notin DOMAIN s
    BY <1>1
  <1> HIDE DEF t
  <1>3. NodesIn(t, N) = NodesIn(s, N) \cup ({e} \cap N)
    BY <1>1, <1>2 DEF NodesIn
  <1>4. ASSUME DistinctNodes(s, N), e \notin NodesIn(s, N) PROVE DistinctNodes(t, N)
    BY <1>1, <1>2, <1>4 DEF DistinctNodes, NodesIn
  <1>5. QED  BY <1>3, <1>4 DEF t

LEMMA TailNodes ==
  ASSUME NEW S, NEW N, NEW s \in Seq(S), Len(s) > 0, DistinctNodes(s, N)
  PROVE  /\ NodesIn(Tail(s), N) = NodesIn(s, N) \ {Head(s)}
         /\ DistinctNodes(Tail(s), N)
         /\ Head(s) \in N => Head(s) \in NodesIn(s, N)
  <1> DEFINE t == Tail(s)
  <1>1. /\ DOMAIN s = 1..Len(s) /\ Len(s) \in Nat /\ DOMAIN t = 1..(Len(s) - 1)
        /\ \A i \in DOMAIN t : i + 1 \in DOMAIN s /\ t[i] = s[i + 1]
        /\ Head(s) = s[1] /\ 1 \in DOMAIN s
    OBVIOUS
  <1> HIDE DEF t
  <1>2. \A i \in DOMAIN s : i = 1 \/ (i - 1 \in DOMAIN t /\ t[i - 1] = s[i])
    BY <1>1
  <1>3. NodesIn(t, N) = NodesIn(s, N) \ {Head(s)}
    <2>1. ASSUME NEW a \in NodesIn(t, N) PROVE a \in NodesIn(s, N) /\ a # Head(s)
      <3>1. PICK i \in DOMAIN t : t[i] = a
        BY <2>1 DEF NodesIn
      <3>2. i + 1 \in DOMAIN s /\ s[i + 1] = a /\ i + 1 # 1
        BY <1>1, <3>1
      <3>3. QED  BY <1>1, <2>1, <3>2 DEF NodesIn, DistinctNodes
    <2>2. ASSUME NEW a \in NodesIn(s, N), a # Head(s) PROVE a \in NodesIn(t, N)
      BY <1>1, <1>2, <2>2 DEF NodesIn
    <2>3. QED  BY <2>1, <2>2
  <1>4. DistinctNodes(t, N)
    <2>1. SUFFICES ASSUME NEW i \in DOMAIN t, NEW j \in DOMAIN t, t[i] \in N, t[i] = t[j]
                   PROVE  i = j
      BY DEF DistinctNodes
    <2>2. i + 1 = j + 1
      BY <1>1, <2>1 DEF DistinctNodes
    <2>3. QED  BY <1>1, <2>2
  <1>5. QED  BY <1>1, <1>3, <1>4 DEF t, NodesIn

LEMMA AppendActors ==
  ASSUME NEW S, NEW s \in Seq(S), NEW e \in S
  PROVE  /\ ActorsIn(Append(s, e)) = ActorsIn(s) \cup ({e} \cap Actor)
         /\ Distinct(s) /\ e \notin ActorsIn(s) => Distinct(Append(s, e))
  BY AppendNodes DEF ActorsIn, Distinct

LEMMA TailActors ==
  ASSUME NEW S, NEW s \in Seq(S), Len(s) > 0, Distinct(s)
  PROVE  /\ ActorsIn(Tail(s)) = ActorsIn(s) \ {Head(s)}
         /\ Distinct(Tail(s))
         /\ Head(s) \in Actor => Head(s) \in ActorsIn(s)
  BY TailNodes DEF ActorsIn, Distinct

(***************************************************************************)
(* An actor that stays, and one that moves from place to place.            *)
(***************************************************************************)
Stays(a) ==
  /\ Running(a)' = Running(a) /\ Waking(a)' = Waking(a) /\ Ready(a)' = Ready(a)
  /\ Waiting(a)' = Waiting(a) /\ Asleep(a)' = Asleep(a) /\ Unborn(a)' = Unborn(a)

LEMMA StaysInPlace == ASSUME NEW a, OnePlace(a), Stays(a) PROVE OnePlace(a)'
  BY DEF OnePlace, IsIn, Stays

\* An actor that is known to be somewhere is nowhere else.
LEMMA OnlyPlace ==
  ASSUME NEW a, OnePlace(a)
  PROVE  /\ \A x \in Running(a) : IsIn(a, {x}, {}, {}, {}, {}, {})
         /\ \A x \in Waking(a) : IsIn(a, {}, {x}, {}, {}, {}, {})
         /\ \A x \in Ready(a) : IsIn(a, {}, {}, {x}, {}, {}, {})
         /\ \A q \in Waiting(a) : IsIn(a, {}, {}, {}, {q}, {}, {})
         /\ \A c \in Asleep(a) : IsIn(a, {}, {}, {}, {}, {c}, {})
         /\ \A b \in Unborn(a) : IsIn(a, {}, {}, {}, {}, {}, {a})
  BY DEF OnePlace, IsIn

\* One actor moves and the others stay.
LEMMA OneMoves ==
  ASSUME \A a \in Actor : OnePlace(a), NEW b \in Actor, OnePlace(b)',
         \A a \in Actor \ {b} : Stays(a)
  PROVE  \A a \in Actor : OnePlace(a)'
  BY StaysInPlace

(***************************************************************************)
(* Queue operations.                                                       *)
(***************************************************************************)
\* One list of the queues changes.
LEMMA OneQueueChanges ==
  ASSUME TypeOK, Custody, NEW q \in Queue, NEW list,
         items' = [items EXCEPT ![q] = list], Distinct(list)
  PROVE  /\ \A r \in Queue : Distinct(items'[r])
         /\ \A a \in Actor : a \in ActorsIn(list) => Waiting(a)' = Waiting(a) \cup {q}
         /\ \A a \in Actor : a \notin ActorsIn(list) => Waiting(a)' = Waiting(a) \ {q}
         /\ \A a \in Actor :
              (a \in ActorsIn(list) <=> a \in ActorsIn(items[q])) => Waiting(a)' = Waiting(a)
  <1>1. /\ items'[q] = list
        /\ \A r \in Queue \ {q} : items'[r] = items[r]
    BY DEF TypeOK
  <1>2. \A r \in Queue : Distinct(items'[r])
    BY <1>1 DEF Custody
  <1>3. ASSUME NEW a \in Actor
        PROVE  /\ a \in ActorsIn(list) => Waiting(a)' = Waiting(a) \cup {q}
               /\ a \notin ActorsIn(list) => Waiting(a)' = Waiting(a) \ {q}
               /\ (a \in ActorsIn(list) <=> a \in ActorsIn(items[q])) => Waiting(a)' = Waiting(a)
    <2> DEFINE W == {r \in Queue : a \in ActorsIn(items'[r])}
    <2>1. Waiting(a)' = W
      BY DEF Waiting, ActorsIn, NodesIn
    <2>2. /\ q \in W <=> a \in ActorsIn(list)
          /\ \A r \in Queue \ {q} : r \in W <=> r \in Waiting(a)
          /\ q \in Waiting(a) <=> a \in ActorsIn(items[q])
          /\ W \subseteq Queue /\ Waiting(a) \subseteq Queue
      BY <1>1 DEF Waiting
    <2> HIDE DEF W
    <2>3. QED  BY <2>1, <2>2
  <1>4. QED  BY <1>2, <1>3

LEMMA MessagesOnly ==
  ASSUME NEW s \in Seq(Message) PROVE ActorsIn(s) = {} /\ Distinct(s)
  <1>1. \A i \in DOMAIN s : s[i] \notin Actor
    BY DataAssumption
  <1>2. QED  BY <1>1 DEF ActorsIn, NodesIn, Distinct, DistinctNodes

LEMMA PopPlaces ==
  ASSUME TypeOK, QueueShape, Custody, NEW q \in Queue, NEW m, PopMessage(q, m)
  PROVE  /\ \A r \in Queue : Distinct(items'[r])
         /\ \A a \in Actor : Waiting(a)' = Waiting(a)
  <1>1. length[q] \in Int /\ length[q] > 0 /\ items' = [items EXCEPT ![q] = Tail(items[q])]
    BY DEF PopMessage, Dequeue, TypeOK
  <1>2. items[q] \in Seq(Message) /\ Len(items[q]) > 0
    BY <1>1 DEF QueueShape, HasShape
  <1>3. Tail(items[q]) \in Seq(Message)
    BY <1>2, TailShape
  <1>4. ActorsIn(items[q]) = {} /\ ActorsIn(Tail(items[q])) = {} /\ Distinct(Tail(items[q]))
    BY <1>2, <1>3, MessagesOnly
  <1> DEFINE list == Tail(items[q])
  <1>5. items' = [items EXCEPT ![q] = list] /\ ActorsIn(list) = ActorsIn(items[q]) /\ Distinct(list)
    BY <1>1, <1>4
  <1> HIDE DEF list
  <1>6. QED  BY <1>5, OneQueueChanges

LEMMA SubscribePlaces ==
  ASSUME TypeOK, QueueShape, Custody, NEW q \in Queue, NEW a \in Actor,
         Subscribe(q, a), Waiting(a) = {}
  PROVE  /\ \A r \in Queue : Distinct(items'[r])
         /\ Waiting(a)' = {q}
         /\ \A b \in Actor \ {a} : Waiting(b)' = Waiting(b)
  <1>1. items' = [items EXCEPT ![q] = Append(items[q], a)]
    BY DEF Subscribe, Enqueue, TypeOK
  <1>2. items[q] \in Seq(Actor \cup Message) /\ Distinct(items[q]) /\ a \notin ActorsIn(items[q])
    BY DEF TypeOK, Custody, Waiting
  <1>3. /\ ActorsIn(Append(items[q], a)) = ActorsIn(items[q]) \cup {a}
        /\ Distinct(Append(items[q], a))
    BY <1>2, AppendActors, a \in Actor \cup Message, {a} \cap Actor = {a}
  <1> DEFINE list == Append(items[q], a)
  <1>4. a \in ActorsIn(list)
        /\ \A b \in Actor \ {a} : b \in ActorsIn(list) <=> b \in ActorsIn(items[q])
    BY <1>3
  <1>5. items' = [items EXCEPT ![q] = list] /\ Distinct(list)
    BY <1>1, <1>3
  <1> HIDE DEF list
  <1>6. /\ \A r \in Queue : Distinct(items'[r])
        /\ Waiting(a)' = Waiting(a) \cup {q}
        /\ \A b \in Actor \ {a} : Waiting(b)' = Waiting(b)
    BY <1>4, <1>5, OneQueueChanges
  <1>7. QED  BY <1>6

\* What mg_queue_push does to an actor that it activates, and to the others.
LEMMA PushPlaces ==
  ASSUME TypeOK, QueueShape, Custody, NEW x \in Ctx, NEW q \in Queue, NEW m \in Message,
         mg_queue_push(x, q, m)
  PROVE  /\ \A r \in Queue : Distinct(items'[r])
         /\ \/ /\ Return(x) /\ UNCHANGED dest
               /\ \A a \in Actor : Waiting(a)' = Waiting(a)
            \/ \E b \in Actor :
                 /\ PushHandsOver(x, q) /\ b = Head(items[q])
                 /\ q \in Waiting(b) /\ Waiting(b)' = Waiting(b) \ {q}
                 /\ \A a \in Actor \ {b} : Waiting(a)' = Waiting(a)
  <1>0. length[q] \in Int
    BY DEF TypeOK
  <1>1. CASE length[q] >= 0 /\ PushLinks(x, q, m)
    <2>1. items[q] \in Seq(Message)
      BY <1>0, <1>1 DEF QueueShape, HasShape
    <2>2. Append(items[q], m) \in Seq(Message)
      BY <2>1, AppendShape
    <2>3. /\ ActorsIn(items[q]) = {} /\ ActorsIn(Append(items[q], m)) = {}
          /\ Distinct(Append(items[q], m))
      BY <2>1, <2>2, MessagesOnly
    <2> DEFINE list == Append(items[q], m)
    <2>4. /\ items' = [items EXCEPT ![q] = list]
          /\ ActorsIn(list) = ActorsIn(items[q]) /\ Distinct(list)
      BY <1>1, <2>3 DEF PushLinks, Enqueue
    <2> HIDE DEF list
    <2>5. /\ \A r \in Queue : Distinct(items'[r])
          /\ \A a \in Actor : Waiting(a)' = Waiting(a)
      BY <2>4, OneQueueChanges
    <2>6. QED  BY <1>1, <2>5 DEF PushLinks
  <1>2. CASE /\ length[q] < 0
             /\ Dequeue(q)
             /\ PushHandsOver(x, q)
    <2>1. items[q] \in Seq(Actor) /\ Len(items[q]) > 0 /\ Distinct(items[q])
      BY <1>0, <1>2 DEF QueueShape, HasShape, Custody
    <2>2. PICK b \in Actor : b = Head(items[q])
      BY <2>1, TailShape
    <2>3. /\ ActorsIn(Tail(items[q])) = ActorsIn(items[q]) \ {b}
          /\ Distinct(Tail(items[q])) /\ b \in ActorsIn(items[q])
      BY <2>1, <2>2, TailActors
    <2> DEFINE list == Tail(items[q])
    <2>4. /\ items' = [items EXCEPT ![q] = list] /\ Distinct(list)
          /\ b \notin ActorsIn(list)
          /\ \A a \in Actor \ {b} : a \in ActorsIn(list) <=> a \in ActorsIn(items[q])
      BY <1>2, <2>3 DEF Dequeue
    <2>5. q \in Waiting(b)
      BY <2>3 DEF Waiting
    <2> HIDE DEF list
    <2>6. /\ \A r \in Queue : Distinct(items'[r])
          /\ Waiting(b)' = Waiting(b) \ {q}
          /\ \A a \in Actor \ {b} : Waiting(a)' = Waiting(a)
      BY <2>2, <2>4, OneQueueChanges
    <2>7. QED  BY <1>2, <2>2, <2>5, <2>6
  <1>3. QED  BY <1>1, <1>2 DEF mg_queue_push

LEMMA AllocPlaces ==
  ASSUME TypeOK, QueueShape, Custody, NEW m \in Message, mg_message_alloc(m)
  PROVE  /\ \A r \in Queue : Distinct(items'[r])
         /\ \A a \in Actor : Waiting(a)' = Waiting(a)
  <1>1. CASE UNCHANGED items
    BY <1>1 DEF Custody, Waiting
  <1>2. CASE PopMessage(Pool, m)
    BY <1>2, PopPlaces, DataAssumption
  <1>3. QED  BY <1>1, <1>2 DEF mg_message_alloc

\* _mg_actor_insert links an actor that is on no run queue.
LEMMA InsertPlaces ==
  ASSUME TypeOK, Custody, NEW a \in Actor, mg_actor_insert(a), Ready(a) = {}
  PROVE  /\ \A x \in Ctx : Distinct(runq'[x])
         /\ Ready(a)' = {Home(a)}
         /\ \A b \in Actor \ {a} : Ready(b)' = Ready(b)
  <1> DEFINE h == Home(a)
  <1>1. h \in Ctx /\ runq' = [runq EXCEPT ![h] = Append(runq[h], a)]
    BY HomeIsContext DEF mg_actor_insert
  <1>2. runq[h] \in Seq(Actor) /\ Distinct(runq[h]) /\ a \notin ActorsIn(runq[h])
    BY <1>1 DEF TypeOK, Custody, Ready
  <1>3. /\ ActorsIn(Append(runq[h], a)) = ActorsIn(runq[h]) \cup {a}
        /\ Distinct(Append(runq[h], a))
    BY <1>2, AppendActors, {a} \cap Actor = {a}
  <1>4. /\ \A x \in Ctx : Distinct(runq'[x])
        /\ \A x \in Ctx : ActorsIn(runq'[x]) =
             IF x = h THEN ActorsIn(runq[x]) \cup {a} ELSE ActorsIn(runq[x])
    BY <1>1, <1>3 DEF TypeOK, Custody
  <1> HIDE DEF h
  <1>5. Ready(a)' = {h}
    BY <1>1, <1>4 DEF Ready, ActorsIn, NodesIn
  <1>6. ASSUME NEW b \in Actor \ {a} PROVE Ready(b)' = Ready(b)
    BY <1>4 DEF Ready, ActorsIn, NodesIn
  <1>7. QED  BY <1>4, <1>5, <1>6 DEF h

(***************************************************************************)
(* Steps of one context.                                                   *)
(***************************************************************************)
OthersKept(x) ==
  \A y \in Ctx \ {x} :
    pc'[y] = pc[y] /\ handler'[y] = handler[y] /\ self'[y] = self[y]
      /\ msg'[y] = msg[y] /\ dest'[y] = dest[y]

Wakes(x, a) == pc[x] = "insert" /\ dest[x] = a

LEMMA RunningChanges ==
  ASSUME NEW x \in Ctx, OthersKept(x), NEW a
  PROVE  /\ Owns(x, a)' => Running(a)' = Running(a) \cup {x}
         /\ ~Owns(x, a)' => Running(a)' = Running(a) \ {x}
         /\ (Owns(x, a)' <=> Owns(x, a)) => Running(a)' = Running(a)
  BY DEF OthersKept, Running, Owns, Closing

LEMMA WakingChanges ==
  ASSUME NEW x \in Ctx, OthersKept(x), NEW a
  PROVE  /\ Wakes(x, a)' => Waking(a)' = Waking(a) \cup {x}
         /\ ~Wakes(x, a)' => Waking(a)' = Waking(a) \ {x}
         /\ (Wakes(x, a)' <=> Wakes(x, a)) => Waking(a)' = Waking(a)
  BY DEF OthersKept, Waking, Wakes

\* What the other steps leave alone.
LEMMA RestKept ==
  ASSUME Custody
  PROVE  /\ runq' = runq => /\ \A x \in Ctx : Distinct(runq'[x])
                            /\ \A a \in Actor : Ready(a)' = Ready(a)
         /\ items' = items => /\ \A q \in Queue : Distinct(items'[q])
                              /\ \A a \in Actor : Waiting(a)' = Waiting(a)
         /\ asleep' = asleep => \A a \in Actor : Asleep(a)' = Asleep(a)
         /\ uninit' = uninit => \A a \in Actor : Unborn(a)' = Unborn(a)
  BY DEF Custody, Ready, Waiting, Asleep, Unborn

\* No actor moves in a step of context x.
LEMMA NobodyMovesHere ==
  ASSUME Custody, NEW x \in Ctx, OthersKept(x), UNCHANGED <<runq, asleep, uninit>>,
         \A q \in Queue : Distinct(items'[q]),
         \A a \in Actor : Waiting(a)' = Waiting(a),
         pc[x] # "insert", pc'[x] # "insert",
         \A a \in Actor : Owns(x, a)' <=> Owns(x, a)
  PROVE  Custody'
  <1>1. ASSUME NEW a \in Actor PROVE Stays(a)
    <2>1. Running(a)' = Running(a)
      BY RunningChanges
    <2>2. Waking(a)' = Waking(a)
      BY WakingChanges DEF Wakes
    <2>3. QED  BY <2>1, <2>2, RestKept DEF Stays
  <1>2. \A a \in Actor : OnePlace(a)'
    BY <1>1, StaysInPlace DEF Custody
  <1>3. QED  BY <1>2, RestKept DEF Custody

\* What it means for SelfOK and DueOK.
LEMMA SelfKept ==
  ASSUME SelfOK, NEW x \in Ctx, OthersKept(x),
         handler'[x] \in {"none", "producer", "tick"} \/ pc'[x] \in {"sched", "leave"} =>
           self'[x] = NULL
  PROVE  SelfOK'
  BY DEF SelfOK, OthersKept

LEMMA DueKept == ASSUME DueOK, UNCHANGED <<due, asleep>> PROVE DueOK'
  BY DEF DueOK

\* An idle context starts a device handler, a tick or a scheduler.
LEMMA EnterCustody ==
  ASSUME CustodyInv, NEW x \in Ctx, NEW h, NEW label,
         Enter(x, h, label), label # "insert", UNCHANGED <<self, dest>>,
         \A y \in Ctx \ {x} : msg'[y] = msg[y],
         UNCHANGED <<runq, asleep, uninit>>,
         \A q \in Queue : Distinct(items'[q]),
         \A a \in Actor : Waiting(a)' = Waiting(a)
  PROVE  SelfOK' /\ Custody'
  <1> USE DEF CustodyInv, KernelInv
  <1>1. pc[x] = "idle" /\ handler[x] = "none" /\ self[x] = NULL
    BY EnterIdle DEF Enter, ControlOK, SelfOK
  <1>2. OthersKept(x) /\ pc'[x] # "insert" /\ self'[x] = NULL
    BY <1>1 DEF OthersKept, Enter, Goto, TypeOK
  <1>3. \A a \in Actor : ~Owns(x, a)' /\ ~Owns(x, a)
    BY <1>1, <1>2, DataAssumption DEF Owns, Closing
  <1>4. QED  BY <1>1, <1>2, <1>3, SelfKept, NobodyMovesHere

LEMMA ProduceAllocCustody ==
  ASSUME CustodyInv, NEW x \in Ctx, ProduceAlloc(x) PROVE SelfOK' /\ DueOK' /\ Custody'
  <1> USE DEF CustodyInv, KernelInv
  <1>1. PICK m \in Message : mg_message_alloc(m) /\ msg' = [msg EXCEPT ![x] = m]
    BY DEF ProduceAlloc
  <1>2. /\ \A q \in Queue : Distinct(items'[q])
        /\ \A a \in Actor : Waiting(a)' = Waiting(a)
    BY <1>1, AllocPlaces
  <1>3. \A y \in Ctx \ {x} : msg'[y] = msg[y]
    BY <1>1 DEF TypeOK
  <1>4. SelfOK' /\ Custody'
    BY <1>2, <1>3, EnterCustody DEF ProduceAlloc
  <1>5. QED  BY <1>4, DueKept DEF ProduceAlloc

LEMMA EnterVectorCustody ==
  ASSUME CustodyInv, NEW c \in CPU, NEW v \in Vector, EnterVector(c, v)
  PROVE  SelfOK' /\ DueOK' /\ Custody'
  <1> USE DEF CustodyInv, KernelInv
  <1> DEFINE x == <<c, vect2prio[v]>>
  <1>1. x \in Ctx
    BY ContextAssumption DEF Ctx, Level, Prio
  <1>2. /\ Enter(x, "sched", "sched") /\ UNCHANGED <<self, dest, msg, due, runq, asleep, uninit>>
        /\ items' = items
    BY DEF EnterVector, queues
  <1> HIDE DEF x
  <1>3. /\ \A q \in Queue : Distinct(items'[q])
        /\ \A a \in Actor : Waiting(a)' = Waiting(a)
    BY <1>2, RestKept
  <1>4. SelfOK' /\ Custody'
    BY <1>1, <1>2, <1>3, EnterCustody
  <1>5. QED  BY <1>2, <1>4, DueKept

LEMMA TickStartCustody ==
  ASSUME CustodyInv, NEW x \in Ctx, TickStart(x) PROVE SelfOK' /\ DueOK' /\ Custody'
  <1> USE DEF CustodyInv, KernelInv
  <1>1. /\ Enter(x, "tick", "tick") /\ UNCHANGED <<self, dest, msg, runq, asleep, uninit>>
        /\ items' = items
    BY DEF TickStart, queues
  <1>2. /\ \A q \in Queue : Distinct(items'[q])
        /\ \A a \in Actor : Waiting(a)' = Waiting(a)
    BY <1>1, RestKept
  <1>3. SelfOK' /\ Custody'
    BY <1>1, <1>2, EnterCustody
  <1>4. DueOK'
    BY DEF TickStart, DueOK, TypeOK
  <1>5. QED  BY <1>3, <1>4

(***************************************************************************)
(* The steps that leave every actor where it is.                           *)
(***************************************************************************)
LEMMA ReturnHandler ==
  ASSUME CustodyInv, NEW x \in Ctx, Return(x), pc[x] \in {"push", "run", "request"},
         UNCHANGED self
  PROVE  /\ \A y \in Ctx \ {x} : pc'[y] = pc[y] /\ handler'[y] = handler[y]
         /\ pc'[x] \in {"idle", "tick", "run"}
         /\ handler'[x] \in {"none", "producer", "tick"} \/ pc'[x] \in {"sched", "leave"} =>
              self'[x] = NULL
  BY DEF CustodyInv, KernelInv, ControlOK, SelfOK, TypeOK, Return, Exit, Goto

LEMMA RequestCustody ==
  ASSUME CustodyInv, NEW x \in Ctx, Request(x) PROVE SelfOK' /\ DueOK' /\ Custody'
  <1> USE DEF CustodyInv, KernelInv
  <1>1. pc[x] = "request" /\ Return(x) /\ dest' = [dest EXCEPT ![x] = NULL]
        /\ UNCHANGED <<self, msg, due, runq, asleep, uninit, items>>
    BY DEF Request, At, queues
  <1>2. OthersKept(x)
    BY <1>1, ReturnHandler DEF OthersKept, TypeOK
  <1>3. \A a \in Actor : Owns(x, a)' <=> Owns(x, a)
    BY <1>1, ReturnHandler DEF Owns, Closing
  <1>4. Custody'
    BY <1>1, <1>2, <1>3, ReturnHandler, RestKept, NobodyMovesHere
  <1>5. QED  BY <1>1, <1>2, <1>4, ReturnHandler, SelfKept, DueKept

LEMMA EndCustody ==
  ASSUME CustodyInv, NEW x \in Ctx, TickEnd(x) \/ PopHeadEmpty(x) \/ Leave(x)
  PROVE  SelfOK' /\ DueOK' /\ Custody'
  <1> USE DEF CustodyInv, KernelInv
  <1>1. /\ pc[x] \in {"tick", "sched", "leave"} /\ pc'[x] \in {"idle", "leave"} /\ self'[x] = self[x]
        /\ self[x] = NULL
        /\ UNCHANGED <<due, runq, asleep, uninit, items>>
        /\ OthersKept(x)
    BY DEF TickEnd, PopHeadEmpty, Leave, At, Exit, Goto, queues, OthersKept, ControlOK, SelfOK, TypeOK
  <1>2. \A a \in Actor : Owns(x, a)' <=> Owns(x, a)
    BY <1>1, DataAssumption DEF Owns, Closing
  <1>3. Custody'
    BY <1>1, <1>2, RestKept, NobodyMovesHere
  <1>4. QED  BY <1>1, <1>3, SelfKept, DueKept

LEMMA CallCustody ==
  ASSUME CustodyInv, NEW x \in Ctx, Call(x) PROVE SelfOK' /\ DueOK' /\ Custody'
  <1> USE DEF CustodyInv, KernelInv
  <1>1. /\ pc[x] = "call" /\ pc'[x] = "run" /\ self' = self /\ handler' = handler
        /\ handler[x] \in {"init", "sched"}
        /\ UNCHANGED <<due, runq, asleep, uninit, items>>
        /\ OthersKept(x)
    BY DEF Call, At, Goto, queues, OthersKept, ControlOK, TypeOK
  <1>2. \A a \in Actor : Owns(x, a)' <=> Owns(x, a)
    BY <1>1 DEF Owns, Closing
  <1>3. Custody'
    BY <1>1, <1>2, RestKept, NobodyMovesHere
  <1>4. QED  BY <1>1, <1>3, SelfKept, DueKept

LEMMA FnCustody ==
  ASSUME CustodyInv, NEW x \in Ctx, FnAlloc(x) \/ FnPoll(x) \/ FnMove(x)
  PROVE  SelfOK' /\ DueOK' /\ Custody'
  <1> USE DEF CustodyInv, KernelInv
  <1>1. /\ pc[x] = "run" /\ self[x] \in Actor
        /\ UNCHANGED <<pc, handler, self, msg, dest, due, runq, asleep, uninit>>
    BY DEF FnAlloc, FnPoll, FnMove, KernelCall, At, ControlOK
  <1>2. OthersKept(x) /\ \A a \in Actor : Owns(x, a)' <=> Owns(x, a)
    BY <1>1 DEF OthersKept, Owns, Closing
  <1>3. /\ \A q \in Queue : Distinct(items'[q])
        /\ \A a \in Actor : Waiting(a)' = Waiting(a)
    <2>1. CASE FnAlloc(x)
      BY <2>1, AllocPlaces DEF FnAlloc
    <2>2. CASE FnPoll(x)
      <3>1. PICK q \in Subscribes[self[x]], m \in Message : PopMessage(q, m)
        BY <2>2 DEF FnPoll
      <3>2. q \in Queue
        BY <1>1, <3>1, ActorAssumption
      <3>3. QED  BY <3>1, <3>2, PopPlaces
    <2>3. CASE FnMove(x)
      BY <2>3, RestKept DEF FnMove, queues
    <2>4. QED  BY <2>1, <2>2, <2>3
  <1>4. Custody'
    BY <1>1, <1>2, <1>3, NobodyMovesHere
  <1>5. SelfOK'
    BY <1>1 DEF SelfOK
  <1>6. QED  BY <1>1, <1>4, <1>5, DueKept

LEMMA StoreCustody ==
  ASSUME CustodyInv, NEW x \in Ctx, Store(x) PROVE SelfOK' /\ DueOK' /\ Custody'
  <1> USE DEF CustodyInv, KernelInv
  <1>1. /\ pc[x] = "store" /\ pc'[x] = "test" /\ self' = self /\ handler' = handler /\ msg' = msg
        /\ handler[x] \in {"init", "sched"}
        /\ UNCHANGED <<due, runq, asleep, uninit, items>>
        /\ OthersKept(x)
    BY DEF Store, At, Goto, queues, OthersKept, ControlOK, TypeOK
  <1>2. \A a \in Actor : Owns(x, a)' <=> Owns(x, a)
    BY <1>1 DEF Owns, Closing
  <1>3. Custody'
    BY <1>1, <1>2, RestKept, NobodyMovesHere
  <1>4. QED  BY <1>1, <1>3, SelfKept, DueKept

\* The loop test finds what mg_queue_pop returned: the value itself, or the mailbox
\* when nobody has written to it since.
TestAgrees == \A x \in Ctx : pc[x] = "test" => mailbox[self[x]] = msg[x]
TestSound == Rereads => TestAgrees

LEMMA TestsResult ==
  ASSUME TestSound, NEW x \in Ctx, LoopTest(x)
  PROVE  \/ msg[x] # NULL /\ Goto(x, "call") /\ UNCHANGED <<handler, self>>
         \/ msg[x] = NULL /\ EndActorCall(x)
  <1>1. Tested(x) = msg[x]
    BY DEF TestSound, TestAgrees, Tested, LoopTest, At
  <1>2. QED  BY <1>1 DEF LoopTest

\* The actor was given away when it was subscribed, or goes on to the next call.
LEMMA LoopTestCustody ==
  ASSUME CustodyInv, TestSound, NEW x \in Ctx, LoopTest(x)
  PROVE  SelfOK' /\ DueOK' /\ Custody'
  <1> USE DEF CustodyInv, KernelInv
  <1>1. /\ pc[x] = "test" /\ handler[x] \in {"init", "sched"} /\ self[x] \in Actor
        /\ msg' = [msg EXCEPT ![x] = NULL]
        /\ UNCHANGED <<dest, due, runq, asleep, uninit, items>>
    BY DEF LoopTest, At, queues, ControlOK
  <1>2. CASE msg[x] # NULL /\ Goto(x, "call") /\ UNCHANGED <<handler, self>>
    <2>1. OthersKept(x) /\ pc'[x] = "call" /\ self'[x] = self[x]
      BY <1>1, <1>2 DEF Goto, OthersKept, TypeOK
    <2>2. \A a \in Actor : Owns(x, a)' <=> Owns(x, a)
      BY <1>1, <1>2, <2>1 DEF Owns, Closing
    <2>3. Custody'
      BY <1>1, <2>1, <2>2, RestKept, NobodyMovesHere
    <2>4. QED  BY <1>1, <1>2, <2>1, <2>3, SelfKept, DueKept
  <1>3. CASE msg[x] = NULL /\ EndActorCall(x)
    <2>1. OthersKept(x) /\ pc'[x] \in {"sched", "idle"} /\ self'[x] = NULL
      BY <1>1, <1>3 DEF EndActorCall, Exit, Goto, OthersKept, TypeOK
    <2>2. \A a \in Actor : Owns(x, a)' <=> Owns(x, a)
      BY <1>1, <1>3, <2>1, DataAssumption DEF Owns, Closing
    <2>3. Custody'
      BY <1>1, <2>1, <2>2, RestKept, NobodyMovesHere
    <2>4. QED  BY <1>1, <2>1, <2>3, SelfKept, DueKept
  <1>4. QED  BY <1>2, <1>3, TestsResult

(***************************************************************************)
(* The steps that move an actor.                                           *)
(***************************************************************************)
\* The critical section of mg_queue_push, made by a handler or a function.
LEMMA PushCustody ==
  ASSUME CustodyInv, NEW x \in Ctx, NEW q \in Queue, NEW m \in Message,
         mg_queue_push(x, q, m), pc[x] \in {"push", "run"},
         UNCHANGED <<self, due, runq, asleep, uninit>>,
         \A y \in Ctx \ {x} : msg'[y] = msg[y]
  PROVE  SelfOK' /\ DueOK' /\ Custody'
  <1> USE DEF CustodyInv, KernelInv
  <1>1. \A r \in Queue : Distinct(items'[r])
    BY PushPlaces
  <1>2. OthersKept(x)
    BY PushControl DEF OthersKept
  <1>3. CASE /\ Return(x) /\ UNCHANGED dest
             /\ \A a \in Actor : Waiting(a)' = Waiting(a)
    <2>1. \A a \in Actor : Owns(x, a)' <=> Owns(x, a)
      BY <1>3, ReturnHandler DEF Owns, Closing
    <2>2. Custody'
      BY <1>1, <1>2, <1>3, <2>1, ReturnHandler, NobodyMovesHere
    <2>3. QED  BY <1>2, <1>3, <2>2, ReturnHandler, SelfKept, DueKept
  <1>4. ASSUME NEW b \in Actor,
               PushHandsOver(x, q), b = Head(items[q]),
               q \in Waiting(b), Waiting(b)' = Waiting(b) \ {q},
               \A a \in Actor \ {b} : Waiting(a)' = Waiting(a)
        PROVE  SelfOK' /\ DueOK' /\ Custody'
    <2>1. /\ pc'[x] = "insert" /\ dest'[x] = b /\ handler'[x] = handler[x]
          /\ \A a \in Actor : Owns(x, a)' <=> Owns(x, a)
      BY <1>4 DEF PushHandsOver, Goto, TypeOK, Owns, Closing
    <2>2. \A a \in Actor : Running(a)' = Running(a)
      BY <1>2, <2>1, RunningChanges
    <2>3. Waking(b)' = Waking(b) \cup {x}
      BY <1>2, <2>1, WakingChanges DEF Wakes
    <2>4. ASSUME NEW a \in Actor \ {b} PROVE Waking(a)' = Waking(a)
      BY <1>2, <2>1, WakingChanges DEF Wakes
    <2>5. IsIn(b, {}, {}, {}, {q}, {}, {})
      BY <1>4, OnlyPlace DEF Custody
    <2>6. IsIn(b, {}, {x}, {}, {}, {}, {})'
      BY <1>4, <2>2, <2>3, <2>5, RestKept DEF IsIn
    <2>7. OnePlace(b)'
      BY <2>6 DEF OnePlace
    <2>8. \A a \in Actor \ {b} : Stays(a)
      BY <1>4, <2>2, <2>4, RestKept DEF Stays
    <2>9. Custody'
      BY <1>1, <2>7, <2>8, OneMoves, RestKept DEF Custody
    <2>10. SelfOK'
      BY <1>2, <2>1, SelfKept DEF SelfOK
    <2>11. QED  BY <2>9, <2>10, DueKept
  <1>5. QED  BY <1>3, <1>4, PushPlaces

LEMMA ProducePushCustody ==
  ASSUME CustodyInv, NEW x \in Ctx, ProducePush(x) PROVE SelfOK' /\ DueOK' /\ Custody'
  <1>1. PICK q \in ProducerTargets : mg_queue_push(x, q, msg[x])
    BY DEF ProducePush
  <1>2. q \in Queue /\ msg[x] \in Message /\ pc[x] = "push"
    BY DataAssumption DEF ProducePush, At, CustodyInv, KernelInv, ControlOK
  <1>3. \A y \in Ctx \ {x} : msg'[y] = msg[y]
    BY DEF ProducePush, CustodyInv, KernelInv, TypeOK
  <1>4. QED  BY <1>1, <1>2, <1>3, PushCustody DEF ProducePush

LEMMA FnPushCustody ==
  ASSUME CustodyInv, NEW x \in Ctx, FnPush(x) PROVE SelfOK' /\ DueOK' /\ Custody'
  <1>1. self[x] \in Actor /\ pc[x] = "run"
    BY DEF FnPush, KernelCall, At, CustodyInv, KernelInv, ControlOK
  <1>2. PICK q \in Targets[self[x]], m \in held[self[x]] : mg_queue_push(x, q, m)
    BY DEF FnPush
  <1>3. q \in Queue /\ m \in Message
    BY <1>1, <1>2, ActorAssumption DEF CustodyInv, KernelInv, TypeOK
  <1>4. QED  BY <1>1, <1>2, <1>3, PushCustody DEF FnPush

\* An actor leaves the set of those that main() has still to initialise.
LEMMA Initialised ==
  ASSUME NEW b \in uninit, uninit' = uninit \ {b}
  PROVE  /\ Unborn(b) = {b} /\ Unborn(b)' = {}
         /\ \A a \in Actor \ {b} : Unborn(a)' = Unborn(a)
  BY DEF Unborn

\* mg_actor_init runs the actor: it calls its function, or stops at the assertion.
LEMMA InitRuns ==
  ASSUME CustodyInv, NEW b \in Actor, NEW label \in {"assert", "call"},
         Enter(Main, "init", label), self' = [self EXCEPT ![Main] = b],
         b \in uninit, uninit' = uninit \ {b}, UNCHANGED <<runq, asleep, dest, due>>,
         \A y \in Ctx \ {Main} : msg'[y] = msg[y],
         \A q \in Queue : Distinct(items'[q]),
         \A a \in Actor : Waiting(a)' = Waiting(a)
  PROVE  SelfOK' /\ DueOK' /\ Custody'
  <1> USE MainIsContext DEF CustodyInv, KernelInv
  <1> PICK x \in Ctx : x = Main
    OBVIOUS
  <1>1. pc[x] = "idle" /\ handler[x] = "none" /\ self[x] = NULL
    BY EnterIdle DEF Enter, ControlOK, SelfOK
  <1>2. /\ OthersKept(x) /\ pc'[x] = label /\ handler'[x] = "init" /\ self'[x] = b
    BY DEF OthersKept, Enter, Goto, TypeOK
  <1>3. /\ Owns(x, b)'
        /\ \A a \in Actor \ {b} : ~Owns(x, a)' /\ ~Owns(x, a)
        /\ \A a \in Actor : ~Wakes(x, a)' /\ ~Wakes(x, a)
    BY <1>1, <1>2, DataAssumption DEF Owns, Closing, Wakes
  <1>4. /\ Running(b)' = Running(b) \cup {x}
        /\ \A a \in Actor \ {b} : Running(a)' = Running(a)
        /\ \A a \in Actor : Waking(a)' = Waking(a)
    BY <1>2, <1>3, RunningChanges, WakingChanges
  <1>5. IsIn(b, {}, {}, {}, {}, {}, {b})
    BY Initialised, OnlyPlace DEF Custody
  <1>6. IsIn(b, {x}, {}, {}, {}, {}, {})'
    BY <1>4, <1>5, Initialised, RestKept DEF IsIn
  <1>7. OnePlace(b)'
    BY <1>6 DEF OnePlace
  <1>8. \A a \in Actor \ {b} : Stays(a)
    BY <1>4, Initialised, RestKept DEF Stays
  <1>9. Custody'
    BY <1>7, <1>8, OneMoves, RestKept DEF Custody
  <1>10. SelfOK'
    BY <1>2, SelfKept
  <1>11. QED  BY <1>9, <1>10, DueKept

LEMMA InitSubscribeCustody ==
  ASSUME CustodyInv, NEW b \in Actor, InitSubscribe(b) PROVE SelfOK' /\ DueOK' /\ Custody'
  <1> USE DEF CustodyInv, KernelInv
  <1>1. InitQueue[b] \in Queue
    BY ActorAssumption DEF InitSubscribe
  <1>2. PICK q \in Queue : q = InitQueue[b]
    BY <1>1
  <1>3. /\ b \in uninit /\ uninit' = uninit \ {b} /\ UNCHANGED <<runq, asleep>>
        /\ dest' = dest /\ due' = due
    BY DEF InitSubscribe, frame
  <1>4. IsIn(b, {}, {}, {}, {}, {}, {b})
    BY <1>3, Initialised, OnlyPlace DEF Custody
  <1>5. CASE Subscribe(q, b) /\ UNCHANGED frame
    <2>1. /\ \A r \in Queue : Distinct(items'[r])
          /\ Waiting(b)' = {q}
          /\ \A a \in Actor \ {b} : Waiting(a)' = Waiting(a)
      BY <1>4, <1>5, SubscribePlaces DEF IsIn
    <2>2. UNCHANGED <<pc, handler, self, msg, dest>>
      BY <1>5 DEF frame
    <2>3. \A a \in Actor : Running(a)' = Running(a) /\ Waking(a)' = Waking(a)
      BY <2>2 DEF Running, Waking, Owns, Closing
    <2>4. IsIn(b, {}, {}, {}, {q}, {}, {})'
      BY <1>3, <1>4, <2>1, <2>3, Initialised, RestKept DEF IsIn
    <2>5. OnePlace(b)'
      BY <2>4 DEF OnePlace
    <2>6. \A a \in Actor \ {b} : Stays(a)
      BY <1>3, <2>1, <2>3, Initialised, RestKept DEF Stays
    <2>7. Custody'
      BY <1>3, <2>1, <2>5, <2>6, OneMoves, RestKept DEF Custody
    <2>8. SelfOK'
      BY <2>2 DEF SelfOK
    <2>9. QED  BY <1>3, <2>7, <2>8, DueKept
  <1>6. CASE \E m \in Message :
               /\ PopMessage(q, m)
               /\ Enter(Main, "init", "assert")
               /\ self' = [self EXCEPT ![Main] = b]
               /\ msg' = [msg EXCEPT ![Main] = m]
    <2>1. /\ \A r \in Queue : Distinct(items'[r])
          /\ \A a \in Actor : Waiting(a)' = Waiting(a)
      BY <1>6, PopPlaces
    <2>2. Enter(Main, "init", "assert") /\ self' = [self EXCEPT ![Main] = b]
      BY <1>6
    <2>3. \A y \in Ctx \ {Main} : msg'[y] = msg[y]
      BY <1>6 DEF TypeOK
    <2>4. QED  BY <1>3, <2>1, <2>2, <2>3, InitRuns
  <1>7. QED  BY <1>2, <1>5, <1>6 DEF InitSubscribe

LEMMA InitCallCustody ==
  ASSUME CustodyInv, NEW b \in Actor, InitCall(b) PROVE SelfOK' /\ DueOK' /\ Custody'
  <1>1. /\ b \in uninit /\ uninit' = uninit \ {b} /\ UNCHANGED <<runq, asleep, items>>
        /\ Enter(Main, "init", "call") /\ self' = [self EXCEPT ![Main] = b]
        /\ dest' = dest /\ due' = due /\ msg' = msg
    BY DEF InitCall, queues
  <1>2. /\ \A r \in Queue : Distinct(items'[r])
        /\ \A a \in Actor : Waiting(a)' = Waiting(a)
    BY <1>1, RestKept DEF CustodyInv
  <1>3. QED  BY <1>1, <1>2, InitRuns

\* An actor falls asleep or wakes on processor c.
LEMMA FallsAsleep ==
  ASSUME TypeOK, NEW c \in CPU, NEW b \in Actor, asleep' = [asleep EXCEPT ![c] = @ \cup {b}]
  PROVE  /\ Asleep(b)' = Asleep(b) \cup {c}
         /\ \A a \in Actor \ {b} : Asleep(a)' = Asleep(a)
  <1>1. \A d \in CPU : asleep'[d] = IF d = c THEN asleep[c] \cup {b} ELSE asleep[d]
    BY DEF TypeOK
  <1>2. QED  BY <1>1 DEF Asleep

LEMMA WakesUp ==
  ASSUME TypeOK, NEW c \in CPU, NEW b \in Actor, asleep' = [asleep EXCEPT ![c] = @ \ {b}]
  PROVE  /\ Asleep(b)' = Asleep(b) \ {c}
         /\ \A a \in Actor \ {b} : Asleep(a)' = Asleep(a)
  <1>1. \A d \in CPU : asleep'[d] = IF d = c THEN asleep[c] \ {b} ELSE asleep[d]
    BY DEF TypeOK
  <1>2. QED  BY <1>1 DEF Asleep

LEMMA TickWakeCustody ==
  ASSUME CustodyInv, NEW x \in Ctx, TickWake(x) PROVE SelfOK' /\ DueOK' /\ Custody'
  <1> USE DEF CustodyInv, KernelInv
  <1>1. PICK b \in due[x] : /\ due' = [due EXCEPT ![x] = @ \ {b}]
                            /\ asleep' = [asleep EXCEPT ![x[1]] = @ \ {b}]
                            /\ dest' = [dest EXCEPT ![x] = b]
    BY DEF TickWake
  <1>2. PICK c \in CPU : c = x[1]
    BY DEF Ctx
  <1>3. b \in Actor /\ c \in Asleep(b) /\ x \in Tickers
    BY <1>1, <1>2 DEF DueOK, Asleep, TypeOK
  <1>4. /\ pc[x] = "tick" /\ handler[x] = "tick" /\ self[x] = NULL
        /\ UNCHANGED <<handler, self, msg, items, runq, uninit>>
        /\ pc'[x] = "insert" /\ dest'[x] = b /\ OthersKept(x)
    BY <1>1 DEF TickWake, At, Goto, queues, ControlOK, SelfOK, OthersKept, TypeOK
  <1>5. /\ Asleep(b)' = Asleep(b) \ {c}
        /\ \A a \in Actor \ {b} : Asleep(a)' = Asleep(a)
    BY <1>1, <1>2, <1>3, WakesUp
  <1>6. /\ \A a \in Actor : ~Owns(x, a)' /\ ~Owns(x, a)
        /\ Wakes(x, b)'
        /\ \A a \in Actor \ {b} : ~Wakes(x, a)' /\ ~Wakes(x, a)
    BY <1>4, DataAssumption DEF Owns, Closing, Wakes
  <1>7. /\ \A a \in Actor : Running(a)' = Running(a)
        /\ Waking(b)' = Waking(b) \cup {x}
        /\ \A a \in Actor \ {b} : Waking(a)' = Waking(a)
    BY <1>3, <1>4, <1>6, RunningChanges, WakingChanges
  <1>8. IsIn(b, {}, {}, {}, {}, {c}, {})
    BY <1>3, OnlyPlace DEF Custody
  <1>9. IsIn(b, {}, {x}, {}, {}, {}, {})'
    BY <1>3, <1>4, <1>5, <1>7, <1>8, RestKept DEF IsIn
  <1>10. OnePlace(b)'
    BY <1>9 DEF OnePlace
  <1>11. \A a \in Actor \ {b} : Stays(a)
    BY <1>4, <1>5, <1>7, RestKept DEF Stays
  <1>12. Custody'
    BY <1>3, <1>4, <1>10, <1>11, OneMoves, RestKept DEF Custody
  <1>13. SelfOK'
    BY <1>4, SelfKept
  <1>14. DueOK'
    <2>1. ASSUME NEW y \in Ctx \ {x}
          PROVE  due'[y] \subseteq asleep'[y[1]] /\ (due'[y] # {} => y \in Tickers)
      <3>1. due'[y] = due[y]
        BY <1>1 DEF TypeOK
      <3>2. CASE y[1] = c
        BY <1>2, <1>3, <3>1, <3>2, ContextAssumption DEF DueOK
      <3>3. CASE y[1] # c
        BY <1>1, <1>2, <3>1, <3>3 DEF DueOK, TypeOK, Ctx
      <3>4. QED  BY <3>2, <3>3
    <2>2. due'[x] \subseteq asleep'[x[1]]
      BY <1>1, <1>2 DEF DueOK, TypeOK
    <2>3. QED  BY <1>3, <2>1, <2>2 DEF DueOK
  <1>15. QED  BY <1>12, <1>13, <1>14

LEMMA InsertCustody ==
  ASSUME CustodyInv, NEW x \in Ctx, Insert(x) PROVE SelfOK' /\ DueOK' /\ Custody'
  <1> USE DEF CustodyInv, KernelInv
  <1>1. PICK b \in Actor : b = dest[x]
    BY DEF Insert, At, ControlOK
  <1>2. PICK h \in Ctx : h = Home(b)
    BY HomeIsContext
  <1>3. /\ pc[x] = "insert" /\ pc'[x] = "request" /\ mg_actor_insert(b)
        /\ UNCHANGED <<handler, self, msg, dest, due, items, asleep, uninit>>
        /\ OthersKept(x)
    BY <1>1 DEF Insert, At, Goto, queues, OthersKept, TypeOK
  <1>4. /\ \A a \in Actor : Owns(x, a)' <=> Owns(x, a)
        /\ ~Wakes(x, b)' /\ Wakes(x, b)
        /\ \A a \in Actor \ {b} : ~Wakes(x, a)' /\ ~Wakes(x, a)
    BY <1>1, <1>3 DEF Owns, Closing, Wakes
  <1>5. /\ \A a \in Actor : Running(a)' = Running(a)
        /\ Waking(b)' = Waking(b) \ {x}
        /\ \A a \in Actor \ {b} : Waking(a)' = Waking(a)
    BY <1>3, <1>4, RunningChanges, WakingChanges
  <1>6. IsIn(b, {}, {x}, {}, {}, {}, {})
    BY <1>4, OnlyPlace DEF Custody, Waking, Wakes
  <1>7. /\ \A y \in Ctx : Distinct(runq'[y])
        /\ Ready(b)' = {h}
        /\ \A a \in Actor \ {b} : Ready(a)' = Ready(a)
    BY <1>2, <1>3, <1>6, InsertPlaces DEF IsIn
  <1>8. IsIn(b, {}, {}, {h}, {}, {}, {})'
    BY <1>3, <1>5, <1>6, <1>7, RestKept DEF IsIn
  <1>9. OnePlace(b)'
    BY <1>8 DEF OnePlace
  <1>10. \A a \in Actor \ {b} : Stays(a)
    BY <1>3, <1>5, <1>7, RestKept DEF Stays
  <1>11. Custody'
    BY <1>3, <1>7, <1>9, <1>10, OneMoves, RestKept DEF Custody
  <1>12. SelfOK'
    BY <1>3, SelfKept DEF SelfOK
  <1>13. QED  BY <1>3, <1>11, <1>12, DueKept

LEMMA PopHeadCustody ==
  ASSUME CustodyInv, NEW x \in Ctx, PopHead(x) PROVE SelfOK' /\ DueOK' /\ Custody'
  <1> USE DEF CustodyInv, KernelInv
  <1>1. runq[x] \in Seq(Actor) /\ Len(runq[x]) > 0 /\ Distinct(runq[x])
    BY DEF PopHead, TypeOK, Custody
  <1>2. PICK b \in Actor : b = Head(runq[x])
    BY <1>1, TailShape
  <1>3. /\ ActorsIn(Tail(runq[x])) = ActorsIn(runq[x]) \ {b}
        /\ Distinct(Tail(runq[x])) /\ x \in Ready(b)
    BY <1>1, <1>2, TailActors DEF Ready
  <1>4. /\ pc[x] = "sched" /\ self[x] = NULL /\ pc'[x] = "call" /\ self'[x] = b
        /\ UNCHANGED <<handler, dest, due, items, asleep, uninit>>
        /\ runq' = [runq EXCEPT ![x] = Tail(runq[x])]
        /\ handler[x] = "sched" /\ OthersKept(x)
    BY <1>2 DEF PopHead, At, Goto, queues, OthersKept, ControlOK, SelfOK, TypeOK
  <1>5. /\ Owns(x, b)'
        /\ \A a \in Actor \ {b} : ~Owns(x, a)' /\ ~Owns(x, a)
        /\ \A a \in Actor : ~Wakes(x, a)' /\ ~Wakes(x, a)
    BY <1>4, DataAssumption DEF Owns, Closing, Wakes
  <1>6. /\ Running(b)' = Running(b) \cup {x}
        /\ \A a \in Actor \ {b} : Running(a)' = Running(a)
        /\ \A a \in Actor : Waking(a)' = Waking(a)
    BY <1>4, <1>5, RunningChanges, WakingChanges
  <1>7. /\ \A y \in Ctx : Distinct(runq'[y])
        /\ \A y \in Ctx : ActorsIn(runq'[y]) =
             IF y = x THEN ActorsIn(runq[y]) \ {b} ELSE ActorsIn(runq[y])
    BY <1>3, <1>4 DEF TypeOK, Custody
  <1>8. Ready(b)' = Ready(b) \ {x}
    BY <1>7 DEF Ready, ActorsIn, NodesIn
  <1>9. ASSUME NEW a \in Actor \ {b} PROVE Ready(a)' = Ready(a)
    BY <1>7 DEF Ready, ActorsIn, NodesIn
  <1>10. IsIn(b, {}, {}, {x}, {}, {}, {})
    BY <1>3, OnlyPlace DEF Custody
  <1>11. IsIn(b, {x}, {}, {}, {}, {}, {})'
    BY <1>4, <1>6, <1>8, <1>10, RestKept DEF IsIn
  <1>12. OnePlace(b)'
    BY <1>11 DEF OnePlace
  <1>13. \A a \in Actor \ {b} : Stays(a)
    BY <1>4, <1>6, <1>9, RestKept DEF Stays
  <1>14. Custody'
    BY <1>4, <1>7, <1>12, <1>13, OneMoves, RestKept DEF Custody
  <1>15. SelfOK'
    BY <1>4, SelfKept
  <1>16. QED  BY <1>4, <1>14, <1>15, DueKept

LEMMA ReturnQueueCustody ==
  ASSUME CustodyInv, NEW x \in Ctx, ReturnQueue(x) PROVE SelfOK' /\ DueOK' /\ Custody'
  <1> USE DEF CustodyInv, KernelInv
  <1>1. PICK b \in Actor : b = self[x]
    BY DEF ReturnQueue, At, ControlOK
  <1>2. PICK q \in Subscribes[b] :
          \/ Subscribe(q, b) /\ msg' = [msg EXCEPT ![x] = NULL]
          \/ \E m \in Message : PopMessage(q, m) /\ msg' = [msg EXCEPT ![x] = m]
    BY <1>1 DEF ReturnQueue
  <1>3. q \in Queue
    BY <1>2, ActorAssumption
  <1>4. /\ pc[x] = "run" /\ pc'[x] = "store"
        /\ UNCHANGED <<handler, self, dest, due, runq, asleep, uninit>>
        /\ handler[x] \in {"init", "sched"} /\ OthersKept(x)
    BY <1>2 DEF ReturnQueue, At, Goto, ControlOK, OthersKept, TypeOK
  <1>5. SelfOK'
    BY <1>4, SelfKept
  <1>6. CASE Subscribe(q, b) /\ msg' = [msg EXCEPT ![x] = NULL]
    <2>1. /\ ~Owns(x, b)' /\ Owns(x, b)
          /\ \A a \in Actor \ {b} : ~Owns(x, a)' /\ ~Owns(x, a)
          /\ \A a \in Actor : ~Wakes(x, a)' /\ ~Wakes(x, a)
      BY <1>1, <1>4, <1>6 DEF Owns, Closing, Wakes, TypeOK
    <2>2. /\ Running(b)' = Running(b) \ {x}
          /\ \A a \in Actor \ {b} : Running(a)' = Running(a)
          /\ \A a \in Actor : Waking(a)' = Waking(a)
      BY <1>4, <2>1, RunningChanges, WakingChanges
    <2>3. IsIn(b, {x}, {}, {}, {}, {}, {})
      BY <2>1, OnlyPlace DEF Custody, Running
    <2>4. /\ \A r \in Queue : Distinct(items'[r])
          /\ Waiting(b)' = {q}
          /\ \A a \in Actor \ {b} : Waiting(a)' = Waiting(a)
      BY <1>3, <1>6, <2>3, SubscribePlaces DEF IsIn
    <2>5. IsIn(b, {}, {}, {}, {q}, {}, {})'
      BY <1>4, <2>2, <2>3, <2>4, RestKept DEF IsIn
    <2>6. OnePlace(b)'
      BY <1>3, <2>5 DEF OnePlace
    <2>7. \A a \in Actor \ {b} : Stays(a)
      BY <1>4, <2>2, <2>4, RestKept DEF Stays
    <2>8. Custody'
      BY <1>4, <2>4, <2>6, <2>7, OneMoves, RestKept DEF Custody
    <2>9. QED  BY <1>4, <1>5, <2>8, DueKept
  <1>7. CASE \E m \in Message : PopMessage(q, m) /\ msg' = [msg EXCEPT ![x] = m]
    <2>1. /\ \A r \in Queue : Distinct(items'[r])
          /\ \A a \in Actor : Waiting(a)' = Waiting(a)
      BY <1>3, <1>7, PopPlaces
    <2>2. msg'[x] # NULL
      BY <1>7, DataAssumption DEF TypeOK
    <2>3. \A a \in Actor : Owns(x, a)' <=> Owns(x, a)
      BY <1>4, <2>2 DEF Owns, Closing
    <2>4. Custody'
      BY <1>4, <2>1, <2>3, NobodyMovesHere
    <2>5. QED  BY <1>4, <1>5, <2>4, DueKept
  <1>8. QED  BY <1>2, <1>6, <1>7

\* An actor that suspends itself: its context has no actor any more.
LEMMA SuspendPlaces ==
  ASSUME CustodyInv, NEW x \in Ctx, NEW b \in Actor, b = self[x],
         At(x, "run"), EndActorCall(x), msg' = [msg EXCEPT ![x] = NULL], UNCHANGED dest
  PROVE  /\ IsIn(b, {x}, {}, {}, {}, {}, {})
         /\ Running(b)' = {}
         /\ \A a \in Actor \ {b} : Running(a)' = Running(a)
         /\ \A a \in Actor : Waking(a)' = Waking(a)
         /\ SelfOK'
  <1> USE DEF CustodyInv, KernelInv
  <1>1. /\ pc[x] = "run" /\ pc'[x] \in {"sched", "idle"} /\ self'[x] = NULL /\ OthersKept(x)
    BY DEF At, EndActorCall, Exit, Goto, OthersKept, TypeOK
  <1>2. /\ ~Owns(x, b)' /\ Owns(x, b)
        /\ \A a \in Actor \ {b} : ~Owns(x, a)' /\ ~Owns(x, a)
        /\ \A a \in Actor : ~Wakes(x, a)' /\ ~Wakes(x, a)
    BY <1>1, DataAssumption DEF Owns, Closing, Wakes
  <1>3. IsIn(b, {x}, {}, {}, {}, {}, {})
    BY <1>2, OnlyPlace DEF Custody, Running
  <1>4. /\ Running(b)' = Running(b) \ {x}
        /\ \A a \in Actor \ {b} : Running(a)' = Running(a)
        /\ \A a \in Actor : Waking(a)' = Waking(a)
    BY <1>1, <1>2, RunningChanges, WakingChanges
  <1>5. SelfOK'
    BY <1>1, SelfKept
  <1>6. QED  BY <1>3, <1>4, <1>5 DEF IsIn

LEMMA ReturnYieldCustody ==
  ASSUME CustodyInv, NEW x \in Ctx, ReturnYield(x) PROVE SelfOK' /\ DueOK' /\ Custody'
  <1> USE DEF CustodyInv, KernelInv
  <1>1. PICK b \in Actor : b = self[x]
    BY DEF ReturnYield, At, ControlOK
  <1>2. PICK h \in Ctx : h = Home(b)
    BY HomeIsContext
  <1>3. /\ mg_actor_insert(b) /\ UNCHANGED <<due, items, asleep, uninit>>
    BY <1>1 DEF ReturnYield, queues
  <1>4. /\ IsIn(b, {x}, {}, {}, {}, {}, {})
        /\ Running(b)' = {}
        /\ \A a \in Actor \ {b} : Running(a)' = Running(a)
        /\ \A a \in Actor : Waking(a)' = Waking(a)
        /\ SelfOK'
    BY <1>1, SuspendPlaces DEF ReturnYield
  <1>5. /\ \A y \in Ctx : Distinct(runq'[y])
        /\ Ready(b)' = {h}
        /\ \A a \in Actor \ {b} : Ready(a)' = Ready(a)
    BY <1>2, <1>3, <1>4, InsertPlaces DEF IsIn
  <1>6. IsIn(b, {}, {}, {h}, {}, {}, {})'
    BY <1>3, <1>4, <1>5, RestKept DEF IsIn
  <1>7. OnePlace(b)'
    BY <1>6 DEF OnePlace
  <1>8. \A a \in Actor \ {b} : Stays(a)
    BY <1>3, <1>4, <1>5, RestKept DEF Stays
  <1>9. Custody'
    BY <1>3, <1>5, <1>7, <1>8, OneMoves, RestKept DEF Custody
  <1>10. QED  BY <1>3, <1>4, <1>9, DueKept

LEMMA ReturnSleepCustody ==
  ASSUME CustodyInv, NEW x \in Ctx, ReturnSleep(x) PROVE SelfOK' /\ DueOK' /\ Custody'
  <1> USE DEF CustodyInv, KernelInv
  <1>1. PICK b \in Actor : b = self[x]
    BY DEF ReturnSleep, At, ControlOK
  <1>2. PICK c \in CPU : c = x[1]
    BY DEF Ctx
  <1>3. /\ asleep' = [asleep EXCEPT ![c] = @ \cup {b}] /\ UNCHANGED <<due, items, runq, uninit>>
    BY <1>1, <1>2 DEF ReturnSleep, queues
  <1>4. /\ IsIn(b, {x}, {}, {}, {}, {}, {})
        /\ Running(b)' = {}
        /\ \A a \in Actor \ {b} : Running(a)' = Running(a)
        /\ \A a \in Actor : Waking(a)' = Waking(a)
        /\ SelfOK'
    BY <1>1, SuspendPlaces DEF ReturnSleep
  <1>5. /\ Asleep(b)' = Asleep(b) \cup {c}
        /\ \A a \in Actor \ {b} : Asleep(a)' = Asleep(a)
    BY <1>3, FallsAsleep
  <1>6. IsIn(b, {}, {}, {}, {}, {c}, {})'
    BY <1>3, <1>4, <1>5, RestKept DEF IsIn
  <1>7. OnePlace(b)'
    BY <1>6 DEF OnePlace
  <1>8. \A a \in Actor \ {b} : Stays(a)
    BY <1>3, <1>4, <1>5, RestKept DEF Stays
  <1>9. Custody'
    BY <1>3, <1>7, <1>8, OneMoves, RestKept DEF Custody
  <1>10. \A d \in CPU : asleep[d] \subseteq asleep'[d]
    BY <1>3 DEF TypeOK
  <1>11. DueOK'
    BY <1>3, <1>10 DEF DueOK, Ctx
  <1>12. QED  BY <1>4, <1>9, <1>11

(***************************************************************************)
(* The invariant.                                                          *)
(***************************************************************************)
LEMMA InitCustodyInv == Init => CustodyInv
  <1> SUFFICES ASSUME Init PROVE CustodyInv  OBVIOUS
  <1>1. KernelInv
    BY InitKernelInv
  <1>2. SelfOK /\ DueOK
    BY DEF Init, SelfOK, DueOK
  <1>3. ASSUME NEW a \in Actor PROVE OnePlace(a)
    <2>1. IsIn(a, {}, {}, {}, {}, {}, {a})
      BY DataAssumption DEF Init, IsIn, Running, Waking, Ready, Waiting, Asleep, Unborn, Owns, Closing, ActorsIn, NodesIn
    <2>2. QED  BY <2>1 DEF OnePlace
  <1>4. Custody
    BY <1>3 DEF Init, Custody, Distinct, DistinctNodes
  <1>5. QED  BY <1>1, <1>2, <1>4 DEF CustodyInv

LEMMA NextCustodyInv == TestSound /\ CustodyInv /\ [Next]_vars => CustodyInv'
  <1> SUFFICES ASSUME TestSound, CustodyInv, [Next]_vars PROVE CustodyInv'
    OBVIOUS
  <1>1. KernelInv'
    BY NextKernelInv DEF CustodyInv
  <1>2. SelfOK' /\ DueOK' /\ Custody'
    <2>1. CASE \E a \in Actor : InitSubscribe(a) \/ InitCall(a)
      BY <2>1, InitSubscribeCustody, InitCallCustody
    <2>2. CASE \E x \in Ctx : ProduceAlloc(x) \/ TickStart(x) \/ Step(x)
      BY <2>2, ProduceAllocCustody, TickStartCustody, ProducePushCustody, TickWakeCustody,
         InsertCustody, RequestCustody, EndCustody, PopHeadCustody, CallCustody, FnCustody,
         FnPushCustody, ReturnQueueCustody, StoreCustody, LoopTestCustody, ReturnYieldCustody,
         ReturnSleepCustody DEF Step
    <2>3. CASE \E c \in CPU, v \in Vector : EnterVector(c, v)
      BY <2>3, EnterVectorCustody
    <2>4. CASE UNCHANGED vars
      <3>1. UNCHANGED <<pc, handler, self, msg, dest, due, items, runq, asleep, uninit>>
        BY <2>4 DEF vars, frame, queues
      <3>2. SelfOK' /\ DueOK'
        BY <3>1 DEF CustodyInv, SelfOK, DueOK
      <3>3. \A a \in Actor : Stays(a)
        BY <3>1 DEF Stays, Running, Owns, Closing, Waking, Ready, Waiting, Asleep, Unborn
      <3>4. QED  BY <3>1, <3>2, <3>3, StaysInPlace DEF CustodyInv, Custody
    <2>5. QED  BY <2>1, <2>2, <2>3, <2>4 DEF Next
  <1>3. QED  BY <1>1, <1>2 DEF CustodyInv

LEMMA PlacesOfActor ==
  ASSUME NEW a \in Actor, NEW p
  PROVE  p \in ActorPlaces(a) <=>
           \/ \E x \in Running(a) : p = <<"running", x>>
           \/ \E x \in Waking(a) : p = <<"waking", x>>
           \/ \E x \in Ctx : \E i \in Positions(runq[x], a) : p = <<"ready", x, i>>
           \/ \E q \in Queue : \E i \in Positions(items[q], a) : p = <<"waiting", q, i>>
           \/ \E c \in Asleep(a) : p = <<"asleep", c>>
           \/ a \in uninit /\ p = <<"uninit">>
  BY DEF ActorPlaces, Running, Waking, Asleep

\* An actor is linked once into the lists that it is in.
LEMMA OnePosition ==
  ASSUME NEW list, Distinct(list), NEW a \in Actor
  PROVE  /\ a \in ActorsIn(list) => \E i : Positions(list, a) = {i}
         /\ a \notin ActorsIn(list) => Positions(list, a) = {}
  BY DEF Distinct, DistinctNodes, ActorsIn, NodesIn, Positions

LEMMA CustodyHolds == CustodyInv => ActorCustody
  <1> SUFFICES ASSUME Custody, NEW a \in Actor PROVE \E p : ActorPlaces(a) = {p}
    BY FS_Singleton DEF CustodyInv, ActorCustody
  <1>1. /\ \A x \in Ctx : x \notin Ready(a) => Positions(runq[x], a) = {}
        /\ \A x \in Ready(a) : \E i : Positions(runq[x], a) = {i}
        /\ \A q \in Queue : q \notin Waiting(a) => Positions(items[q], a) = {}
        /\ \A q \in Waiting(a) : \E i : Positions(items[q], a) = {i}
        /\ a \in uninit <=> Unborn(a) # {}
    BY OnePosition DEF Custody, Ready, Waiting, Unborn
  <1>2. ASSUME NEW x \in Ctx, IsIn(a, {x}, {}, {}, {}, {}, {})
        PROVE  ActorPlaces(a) = {<<"running", x>>}
    BY <1>1, <1>2, PlacesOfActor DEF IsIn
  <1>3. ASSUME NEW x \in Ctx, IsIn(a, {}, {x}, {}, {}, {}, {})
        PROVE  ActorPlaces(a) = {<<"waking", x>>}
    BY <1>1, <1>3, PlacesOfActor DEF IsIn
  <1>4. ASSUME NEW x \in Ctx, IsIn(a, {}, {}, {x}, {}, {}, {})
        PROVE  \E i : ActorPlaces(a) = {<<"ready", x, i>>}
    <2>1. PICK i : Positions(runq[x], a) = {i}
      BY <1>1, <1>4 DEF IsIn
    <2>2. ActorPlaces(a) = {<<"ready", x, i>>}
      BY <1>1, <1>4, <2>1, PlacesOfActor DEF IsIn
    <2>3. QED  BY <2>2
  <1>5. ASSUME NEW q \in Queue, IsIn(a, {}, {}, {}, {q}, {}, {})
        PROVE  \E i : ActorPlaces(a) = {<<"waiting", q, i>>}
    <2>1. PICK i : Positions(items[q], a) = {i}
      BY <1>1, <1>5 DEF IsIn
    <2>2. ActorPlaces(a) = {<<"waiting", q, i>>}
      BY <1>1, <1>5, <2>1, PlacesOfActor DEF IsIn
    <2>3. QED  BY <2>2
  <1>6. ASSUME NEW c \in CPU, IsIn(a, {}, {}, {}, {}, {c}, {})
        PROVE  ActorPlaces(a) = {<<"asleep", c>>}
    BY <1>1, <1>6, PlacesOfActor DEF IsIn
  <1>7. ASSUME IsIn(a, {}, {}, {}, {}, {}, {a})
        PROVE  ActorPlaces(a) = {<<"uninit">>}
    BY <1>1, <1>7, PlacesOfActor DEF IsIn
  <1>8. QED  BY <1>2, <1>3, <1>4, <1>5, <1>6, <1>7 DEF Custody, OnePlace

-----------------------------------------------------------------------------
(***************************************************************************)
(* A ready actor is on a run queue of its own processor and priority, and  *)
(* its scheduler is at work or on its way.                                 *)
(***************************************************************************)
\* ReadyAtHome, by actors.
AtHome == \A a \in Actor : Ready(a) \subseteq {Home(a)}

LEMMA AtHomeHolds == TypeOK /\ AtHome => ReadyAtHome
  <1> SUFFICES ASSUME TypeOK, AtHome, NEW x \in Ctx, NEW i \in DOMAIN runq[x]
               PROVE  Home(runq[x][i]) = x
    BY DEF ReadyAtHome
  <1>1. runq[x][i] \in Actor /\ x \in Ready(runq[x][i])
    BY DEF TypeOK, Ready, ActorsIn, NodesIn
  <1>2. QED  BY <1>1 DEF AtHome

LEMMA KeepAtHome ==
  ASSUME AtHome, UNCHANGED cpu, \A a \in Actor : Ready(a)' \subseteq Ready(a)
  PROVE  AtHome'
  BY DEF AtHome, Home

\* An actor is linked into the run queue of its home.
LEMMA InsertAtHome ==
  ASSUME TypeOK, Custody, AtHome, UNCHANGED cpu,
         NEW b \in Actor, mg_actor_insert(b), Ready(b) = {}
  PROVE  AtHome'
  <1>1. Ready(b)' = {Home(b)} /\ \A a \in Actor \ {b} : Ready(a)' = Ready(a)
    BY InsertPlaces
  <1>2. \A a \in Actor : Home(a)' = Home(a)
    BY DEF Home
  <1>3. QED  BY <1>1, <1>2 DEF AtHome

LEMMA PopHeadReady ==
  ASSUME CustodyInv, NEW x \in Ctx, PopHead(x)
  PROVE  /\ Head(runq[x]) \in Actor /\ x \in Ready(Head(runq[x]))
         /\ \A a \in Actor : Ready(a)' \subseteq Ready(a)
  <1> USE DEF CustodyInv, KernelInv
  <1>1. runq[x] \in Seq(Actor) /\ Len(runq[x]) > 0 /\ Distinct(runq[x])
    BY DEF PopHead, TypeOK, Custody
  <1>2. Head(runq[x]) \in Actor
    BY <1>1, TailShape
  <1>3. /\ ActorsIn(Tail(runq[x])) = ActorsIn(runq[x]) \ {Head(runq[x])}
        /\ Head(runq[x]) \in ActorsIn(runq[x])
    BY <1>1, <1>2, TailActors
  <1>4. \A y \in Ctx : ActorsIn(runq'[y]) \subseteq ActorsIn(runq[y])
    <2>1. \A y \in Ctx : runq'[y] = IF y = x THEN Tail(runq[x]) ELSE runq[y]
      BY DEF PopHead, TypeOK
    <2>2. QED  BY <1>3, <2>1
  <1>5. \A a \in Actor : Ready(a)' \subseteq Ready(a)
    BY <1>4 DEF Ready, ActorsIn, NodesIn
  <1>6. QED  BY <1>2, <1>3, <1>5 DEF Ready

\* An actor that is activated, or that is running, is on no run queue.
LEMMA NotReady ==
  ASSUME CustodyInv, NEW x \in Ctx
  PROVE  /\ At(x, "insert") => dest[x] \in Actor /\ Ready(dest[x]) = {}
         /\ At(x, "run") => self[x] \in Actor /\ Ready(self[x]) = {}
  <1> USE DEF CustodyInv, KernelInv
  <1>1. CASE At(x, "insert")
    <2>1. pc[x] = "insert" /\ dest[x] \in Actor
      BY <1>1 DEF At, ControlOK
    <2>2. x \in Waking(dest[x])
      BY <2>1 DEF Waking
    <2>3. QED  BY <1>1, <2>1, <2>2, OnlyPlace DEF At, Custody, IsIn
  <1>2. CASE At(x, "run")
    <2>1. pc[x] = "run" /\ self[x] \in Actor
      BY <1>2 DEF At, ControlOK
    <2>2. x \in Running(self[x])
      BY <2>1 DEF Running, Owns, Closing
    <2>3. QED  BY <1>2, <2>1, <2>2, OnlyPlace DEF At, Custody, IsIn
  <1>3. QED  BY <1>1, <1>2

LEMMA NextAtHome == CustodyInv /\ AtHome /\ [Next]_vars => AtHome'
  <1> SUFFICES ASSUME CustodyInv, AtHome, [Next]_vars PROVE AtHome'
    OBVIOUS
  <1> USE DEF CustodyInv, KernelInv
  <1>1. CASE UNCHANGED <<runq, cpu>>
    BY <1>1, RestKept, KeepAtHome
  <1>2. ASSUME NEW x \in Ctx, Insert(x) PROVE AtHome'
    BY <1>2, NotReady, InsertAtHome DEF Insert
  <1>3. ASSUME NEW x \in Ctx, ReturnYield(x) PROVE AtHome'
    BY <1>3, NotReady, InsertAtHome DEF ReturnYield
  <1>4. ASSUME NEW x \in Ctx, PopHead(x) PROVE AtHome'
    BY <1>4, PopHeadReady, KeepAtHome DEF PopHead
  <1>5. ASSUME NEW x \in Ctx, FnMove(x) PROVE AtHome'
    <2>1. self[x] \in Actor /\ Ready(self[x]) = {}
      BY <1>5, NotReady DEF FnMove, KernelCall
    <2>2. \A a \in Actor : Ready(a)' = Ready(a)
      BY <1>5, RestKept DEF FnMove
    <2>3. \A a \in Actor \ {self[x]} : Home(a)' = Home(a)
      BY <1>5 DEF FnMove, Home, TypeOK
    <2>4. QED  BY <2>1, <2>2, <2>3 DEF AtHome
  <1>6. CASE \E a \in Actor : InitSubscribe(a) \/ InitCall(a)
    BY <1>1, <1>6 DEF InitSubscribe, InitCall
  <1>7. CASE \E c \in CPU, v \in Vector : EnterVector(c, v)
    BY <1>1, <1>7 DEF EnterVector
  <1>8. CASE \E x \in Ctx : ProduceAlloc(x) \/ TickStart(x) \/ Step(x)
    <2>1. PICK x \in Ctx : ProduceAlloc(x) \/ TickStart(x) \/ Step(x)
      BY <1>8
    <2>2. CASE ProduceAlloc(x) \/ TickStart(x) \/ ProducePush(x) \/ TickWake(x) \/ TickEnd(x)
      BY <1>1, <2>2 DEF ProduceAlloc, TickStart, ProducePush, TickWake, TickEnd
    <2>3. CASE Request(x) \/ PopHeadEmpty(x) \/ Leave(x) \/ Call(x) \/ FnAlloc(x) \/ FnPoll(x)
      BY <1>1, <2>3 DEF Request, PopHeadEmpty, Leave, Call, FnAlloc, FnPoll
    <2>4. CASE FnPush(x) \/ ReturnQueue(x) \/ Store(x) \/ LoopTest(x) \/ ReturnSleep(x)
      BY <1>1, <2>4 DEF FnPush, ReturnQueue, Store, LoopTest, ReturnSleep
    <2>5. QED  BY <1>2, <1>3, <1>4, <1>5, <2>1, <2>2, <2>3, <2>4 DEF Step
  <1>9. CASE UNCHANGED vars
    BY <1>1, <1>9 DEF vars
  <1>10. QED  BY <1>6, <1>7, <1>8, <1>9 DEF Next

LEMMA InitAtHome == Init => AtHome
  BY DEF Init, AtHome, Ready, ActorsIn, NodesIn

(***************************************************************************)
(* Where the function of an actor runs, and where devices do.              *)
(***************************************************************************)
InActor == {"insert", "request", "call", "run", "store", "test"}

PlacesOK ==
  /\ \A a \in Actor : cpu[a] \in {HomeCpu[a]} \cup Moves[a]
  /\ \A x \in Ctx : handler[x] \in {"init", "sched"} /\ pc[x] \in InActor => x \in RunsIn(self[x])
  /\ \A x \in Ctx : handler[x] = "producer" => x \in Producers

LEMMA PlacesKept ==
  ASSUME PlacesOK, NEW x \in Ctx, OthersKept(x), UNCHANGED cpu,
         handler'[x] \in {"init", "sched"} /\ pc'[x] \in InActor =>
           \/ x \in RunsIn(self'[x])
           \/ self'[x] = self[x] /\ handler'[x] = handler[x] /\ pc[x] \in InActor,
         handler'[x] = "producer" => handler[x] = "producer" \/ x \in Producers
  PROVE  PlacesOK'
  <1>1. ASSUME NEW y \in Ctx, handler'[y] \in {"init", "sched"} /\ pc'[y] \in InActor
        PROVE  y \in RunsIn(self'[y])
    <2>1. CASE y = x  BY <1>1, <2>1 DEF PlacesOK
    <2>2. CASE y # x  BY <1>1, <2>2 DEF PlacesOK, OthersKept
    <2>3. QED  BY <2>1, <2>2
  <1>2. ASSUME NEW y \in Ctx, handler'[y] = "producer" PROVE y \in Producers
    BY <1>2 DEF PlacesOK, OthersKept
  <1>3. QED  BY <1>1, <1>2 DEF PlacesOK, RunsIn

LEMMA NextPlaces == ASSUME CustodyInv, AtHome, PlacesOK, [Next]_vars PROVE PlacesOK'
  <1> USE DEF CustodyInv, KernelInv
  <1>1. ASSUME NEW a \in Actor, InitSubscribe(a) PROVE PlacesOK'
    <2>1. UNCHANGED cpu
      BY <1>1 DEF InitSubscribe
    <2>2. CASE UNCHANGED frame
      BY <2>1, <2>2 DEF frame, PlacesOK
    <2>3. CASE /\ Enter(Main, "init", "assert")
               /\ self' = [self EXCEPT ![Main] = a]
               /\ \E m : msg' = [msg EXCEPT ![Main] = m]
               /\ UNCHANGED dest
      <3>1. OthersKept(Main) /\ pc'[Main] = "assert" /\ handler'[Main] = "init"
        BY <2>3, MainIsContext DEF OthersKept, Enter, Goto, TypeOK
      <3>2. QED  BY <2>1, <3>1, MainIsContext, PlacesKept DEF InActor
    <2>4. QED  BY <1>1, <2>2, <2>3 DEF InitSubscribe
  <1>2. ASSUME NEW a \in Actor, InitCall(a) PROVE PlacesOK'
    <2>1. /\ OthersKept(Main) /\ UNCHANGED cpu
          /\ self'[Main] = a /\ handler'[Main] = "init" /\ InitQueue[a] = NULL
      BY <1>2, MainIsContext DEF InitCall, OthersKept, Enter, Goto, TypeOK
    <2>2. Main \in RunsIn(a)
      BY <2>1 DEF RunsIn
    <2>3. QED  BY <2>1, <2>2, MainIsContext, PlacesKept
  <1>3. ASSUME NEW c \in CPU, NEW v \in Vector, EnterVector(c, v) PROVE PlacesOK'
    <2>1. <<c, vect2prio[v]>> \in Ctx
      BY ContextAssumption DEF Ctx, Level, Prio
    <2>2. PICK x \in Ctx : x = <<c, vect2prio[v]>>
      BY <2>1
    <2>3. OthersKept(x) /\ UNCHANGED cpu /\ pc'[x] = "sched" /\ handler'[x] = "sched"
      BY <1>3, <2>2 DEF EnterVector, OthersKept, TypeOK, Enter, Goto
    <2>4. QED  BY <2>3, PlacesKept DEF InActor
  <1>4. ASSUME NEW x \in Ctx, ProduceAlloc(x) PROVE PlacesOK'
    <2>1. /\ OthersKept(x) /\ UNCHANGED cpu
          /\ handler'[x] = "producer" /\ x \in Producers
      BY <1>4 DEF ProduceAlloc, OthersKept, TypeOK, Enter, Goto
    <2>2. QED  BY <2>1, PlacesKept
  <1>5. ASSUME NEW x \in Ctx, ProducePush(x) PROVE PlacesOK'
    <2>1. PICK q \in ProducerTargets : mg_queue_push(x, q, msg[x])
      BY <1>5 DEF ProducePush
    <2>2. q \in Queue /\ msg[x] \in Message /\ pc[x] = "push" /\ handler[x] = "producer"
      BY <1>5, DataAssumption DEF ProducePush, At, ControlOK
    <2>3. OthersKept(x)
      BY <1>5, <2>1, <2>2, PushControl DEF ProducePush, OthersKept, TypeOK
    <2>4. handler'[x] \in {"none", "producer"}
      BY <2>1, <2>2 DEF mg_queue_push, PushLinks, PushHandsOver, Return, Exit, TypeOK
    <2>5. QED  BY <1>5, <2>2, <2>3, <2>4, PlacesKept DEF ProducePush
  <1>6. ASSUME NEW x \in Ctx, TickStart(x) \/ TickWake(x) \/ TickEnd(x) PROVE PlacesOK'
    <2>1. OthersKept(x) /\ UNCHANGED cpu /\ handler'[x] \in {"none", "tick"}
      BY <1>6 DEF TickStart, TickWake, TickEnd, At, Enter, Exit, Goto, OthersKept, TypeOK, ControlOK
    <2>2. QED  BY <2>1, PlacesKept
  <1>7. ASSUME NEW x \in Ctx, Insert(x) \/ Request(x) PROVE PlacesOK'
    <2>1. /\ OthersKept(x) /\ UNCHANGED <<cpu, self>> /\ pc[x] \in InActor
          /\ handler'[x] \in {"none", handler[x]}
      BY <1>7 DEF Insert, Request, At, Return, Exit, Goto, OthersKept, TypeOK, InActor
    <2>2. QED  BY <2>1, PlacesKept
  <1>8. ASSUME NEW x \in Ctx, PopHead(x) PROVE PlacesOK'
    <2>1. PICK b \in Actor : b = Head(runq[x]) /\ x \in Ready(b)
      BY <1>8, PopHeadReady
    <2>2. OthersKept(x) /\ UNCHANGED cpu /\ self'[x] = b /\ handler'[x] = "sched"
      BY <1>8, <2>1 DEF PopHead, At, ControlOK, OthersKept, TypeOK, Goto
    <2>3. x = Home(b) /\ cpu[b] \in {HomeCpu[b]} \cup Moves[b]
      BY <2>1 DEF AtHome, PlacesOK
    <2>4. x \in RunsIn(b)
      BY <2>3 DEF Home, RunsIn
    <2>5. QED  BY <2>2, <2>4, PlacesKept
  <1>9. ASSUME NEW x \in Ctx, PopHeadEmpty(x) \/ Leave(x) PROVE PlacesOK'
    <2>1. OthersKept(x) /\ UNCHANGED cpu /\ pc'[x] \in {"leave", "idle"} /\ handler'[x] # "producer"
      BY <1>9 DEF PopHeadEmpty, Leave, At, Exit, Goto, OthersKept, TypeOK, ControlOK
    <2>2. QED  BY <2>1, PlacesKept DEF InActor
  <1>10. ASSUME NEW x \in Ctx, FnMove(x) PROVE PlacesOK'
    <2>1. PICK b \in Actor : b = self[x]
      BY <1>10 DEF FnMove, KernelCall, At, ControlOK
    <2>2. PICK c \in Moves[b] : cpu' = [cpu EXCEPT ![b] = c]
      BY <1>10, <2>1 DEF FnMove
    <2>3. \A a \in Actor : cpu'[a] \in {HomeCpu[a]} \cup Moves[a]
      BY <2>2 DEF TypeOK, PlacesOK
    <2>4. QED  BY <1>10, <2>3 DEF FnMove, PlacesOK, RunsIn
  <1>11. ASSUME NEW x \in Ctx, Call(x) \/ FnAlloc(x) \/ FnPoll(x) PROVE PlacesOK'
    <2>1. OthersKept(x) /\ UNCHANGED <<cpu, self, handler>> /\ pc[x] \in InActor
      BY <1>11 DEF Call, FnAlloc, FnPoll, KernelCall, At, Goto, OthersKept, TypeOK, InActor
    <2>2. QED  BY <2>1, PlacesKept
  <1>12. ASSUME NEW x \in Ctx, FnPush(x) PROVE PlacesOK'
    <2>1. PICK b \in Actor : b = self[x] /\ pc[x] = "run"
      BY <1>12 DEF FnPush, KernelCall, At, ControlOK
    <2>2. PICK q \in Targets[b], m \in held[b] : mg_queue_push(x, q, m)
      BY <1>12, <2>1 DEF FnPush
    <2>3. q \in Queue /\ m \in Message
      BY <2>1, <2>2, ActorAssumption DEF TypeOK
    <2>4. OthersKept(x) /\ UNCHANGED <<cpu, self>>
      BY <1>12, <2>1, <2>2, <2>3, PushControl DEF FnPush, OthersKept
    <2>5. handler'[x] = handler[x]
      BY <2>1, <2>2 DEF mg_queue_push, PushLinks, PushHandsOver, Return, TypeOK, ControlOK
    <2>6. QED  BY <2>1, <2>4, <2>5, PlacesKept DEF InActor, ControlOK
  <1>13. ASSUME NEW x \in Ctx, ReturnQueue(x) PROVE PlacesOK'
    <2>1. \A y \in Ctx \ {x} : msg'[y] = msg[y]
      BY <1>13 DEF ReturnQueue, TypeOK
    <2>2. OthersKept(x) /\ UNCHANGED <<cpu, self, handler>> /\ pc[x] \in InActor
      BY <1>13, <2>1 DEF ReturnQueue, At, Goto, OthersKept, TypeOK, InActor
    <2>3. QED  BY <2>2, PlacesKept
  <1>14. ASSUME NEW x \in Ctx, Store(x) \/ LoopTest(x) \/ ReturnYield(x) \/ ReturnSleep(x)
         PROVE  PlacesOK'
    <2>1. /\ OthersKept(x) /\ UNCHANGED cpu /\ pc[x] \in InActor
          /\ \/ self'[x] = self[x] /\ handler'[x] = handler[x]
             \/ pc'[x] \in {"sched", "idle"} /\ handler'[x] # "producer"
      BY <1>14 DEF Store, LoopTest, ReturnYield, ReturnSleep, At, EndActorCall, Exit, Goto, OthersKept,
         TypeOK, InActor, ControlOK
    <2>2. QED  BY <2>1, PlacesKept DEF InActor
  <1>15. CASE UNCHANGED vars
    BY <1>15 DEF vars, frame, PlacesOK
  <1>16. QED
    BY <1>1, <1>2, <1>3, <1>4, <1>5, <1>6, <1>7, <1>8, <1>9, <1>10, <1>11, <1>12, <1>13,
       <1>14, <1>15 DEF Next, Step

(***************************************************************************)
(* The window at the end of mg_actor_call: the actor is subscribed, and its*)
(* mailbox is still to be written and tested.  When no queue is fed from   *)
(* above, nobody pushes inside it.                                         *)
(***************************************************************************)
StillWaits ==
  \A x \in Ctx, a \in Actor :
    Closing(x) /\ self[x] = a => Waiting(a) \cap Subscribes[a] # {}

\* In those programs this holds, besides what holds in every one.
WindowInv == CustodyInv /\ AtHome /\ PlacesOK /\ StillWaits /\ TestAgrees

LEMMA StillWaitsKept ==
  ASSUME StillWaits, NEW x \in Ctx, OthersKept(x), pc'[x] \notin {"store", "test"},
         \A y \in Ctx, a \in Actor : Closing(y) /\ self[y] = a => Waiting(a)' = Waiting(a)
  PROVE  StillWaits'
  <1> SUFFICES ASSUME NEW y \in Ctx, NEW a \in Actor, Closing(y)', self'[y] = a
               PROVE  Waiting(a)' \cap Subscribes[a] # {}
    BY DEF StillWaits
  <1>1. Closing(y) /\ self[y] = a
    BY DEF Closing, OthersKept
  <1>2. QED  BY <1>1 DEF StillWaits

\* An actor that is being written to is at a level from which x does not push.
LEMMA NobodyPushes ==
  ASSUME NoPushFromAbove, WindowInv, NEW x \in Ctx, NEW q \in Queue, x \in PushesTo(q),
         At(x, "push") \/ At(x, "run"), NEW y \in Ctx, Closing(y)
  PROVE  q \notin Waiting(self[y])
  <1> USE DEF WindowInv, CustodyInv, KernelInv
  <1> SUFFICES ASSUME q \in Waiting(self[y]) PROVE FALSE
    OBVIOUS
  <1>1. PICK a \in Actor : a = self[y] /\ handler[y] \in {"init", "sched"}
    BY DEF Closing, ControlOK
  <1>2. IsIn(a, {}, {}, {}, {q}, {}, {})
    BY <1>1, OnlyPlace DEF Custody
  <1>3. q \in Subscribes[a]
    BY <1>1, <1>2 DEF StillWaits, IsIn
  <1>4. y \in RunsIn(a)
    BY <1>1 DEF PlacesOK, Closing, InActor
  <1>5. x[1] = y[1] /\ x[2] <= y[2]
    BY <1>3, <1>4 DEF NoPushFromAbove, Consumers
  <1>6. x = <<x[1], x[2]>> /\ y = <<y[1], y[2]>> /\ x[2] \in 0..MaxPrio /\ y[2] \in 0..MaxPrio
    BY DEF Ctx, Level
  <1>7. y # x
    BY DEF At, Closing
  <1>8. y[2] \in (x[2] + 1)..MaxPrio
    BY <1>5, <1>6, <1>7, ContextAssumption
  <1>9. pc[<<x[1], y[2]>>] = "idle"
    BY <1>8 DEF At
  <1>10. QED  BY <1>5, <1>6, <1>9 DEF Closing

\* A push that x makes.
Pushes(x, q) ==
  /\ q \in Queue /\ x \in PushesTo(q)
  /\ \/ At(x, "push") /\ \E m \in Message : mg_queue_push(x, q, m)
     \/ At(x, "run") /\ \E m \in Message : mg_queue_push(x, q, m)

LEMMA StepsThatPush ==
  ASSUME WindowInv, NEW x \in Ctx, ProducePush(x) \/ FnPush(x)
  PROVE  OthersKept(x) /\ UNCHANGED <<self, runq, asleep, uninit>> /\ \E q \in Queue : Pushes(x, q)
  <1> USE DEF WindowInv, CustodyInv, KernelInv
  <1>1. CASE ProducePush(x)
    <2>1. PICK q \in ProducerTargets : mg_queue_push(x, q, msg[x])
      BY <1>1 DEF ProducePush
    <2>2. /\ q \in Queue /\ msg[x] \in Message /\ At(x, "push")
          /\ pc[x] = "push" /\ handler[x] = "producer"
      BY <1>1, DataAssumption DEF ProducePush, At, ControlOK
    <2>3. OthersKept(x)
      BY <1>1, <2>1, <2>2, PushControl DEF ProducePush, OthersKept, TypeOK
    <2>4. x \in PushesTo(q)
      BY <2>1, <2>2 DEF PushesTo, PlacesOK
    <2>5. QED  BY <1>1, <2>1, <2>2, <2>3, <2>4 DEF Pushes, ProducePush
  <1>2. CASE FnPush(x)
    <2>1. PICK b \in Actor : b = self[x] /\ At(x, "run") /\ pc[x] = "run"
      BY <1>2 DEF FnPush, KernelCall, At, ControlOK
    <2>2. PICK q \in Targets[b], m \in held[b] : mg_queue_push(x, q, m)
      BY <1>2, <2>1 DEF FnPush
    <2>3. q \in Queue /\ m \in Message
      BY <2>1, <2>2, ActorAssumption DEF TypeOK
    <2>4. OthersKept(x)
      BY <1>2, <2>1, <2>2, <2>3, PushControl DEF FnPush, OthersKept
    <2>5. x \in RunsIn(b)
      BY <2>1 DEF PlacesOK, InActor, ControlOK
    <2>6. x \in PushesTo(q)
      BY <2>1, <2>2, <2>5 DEF PushesTo
    <2>7. QED  BY <1>2, <2>1, <2>2, <2>3, <2>4, <2>6 DEF Pushes, FnPush
  <1>3. QED  BY <1>1, <1>2

LEMMA PushStillWaits ==
  ASSUME NoPushFromAbove, WindowInv, NEW x \in Ctx, ProducePush(x) \/ FnPush(x)
  PROVE  StillWaits'
  <1> USE DEF WindowInv, CustodyInv, KernelInv
  <1>1. PICK q \in Queue : Pushes(x, q)
    BY StepsThatPush
  <1>2. PICK m \in Message : mg_queue_push(x, q, m)
    BY <1>1 DEF Pushes
  <1>3. OthersKept(x) /\ pc'[x] \notin {"store", "test"}
    BY <1>1, <1>2, StepsThatPush, PushControl DEF Pushes, At
  <1>4. \A a \in Actor : q \notin Waiting(a) => Waiting(a)' = Waiting(a)
    BY <1>2, PushPlaces
  <1>5. \A y \in Ctx, a \in Actor : Closing(y) /\ self[y] = a => Waiting(a)' = Waiting(a)
    BY <1>1, <1>4, NobodyPushes DEF Pushes
  <1>6. QED  BY <1>3, <1>5, StillWaitsKept

LEMMA ReturnQueueStillWaits ==
  ASSUME WindowInv, NEW x \in Ctx, ReturnQueue(x) PROVE StillWaits'
  <1> USE DEF WindowInv, CustodyInv, KernelInv
  <1>1. PICK a \in Actor : a = self[x] /\ pc[x] = "run"
    BY DEF ReturnQueue, At, ControlOK
  <1>2. PICK q \in Subscribes[a] :
          \/ Subscribe(q, a) /\ msg' = [msg EXCEPT ![x] = NULL]
          \/ \E m \in Message : PopMessage(q, m) /\ msg' = [msg EXCEPT ![x] = m]
    BY <1>1 DEF ReturnQueue
  <1>3. q \in Queue
    BY ActorAssumption
  <1>4. OthersKept(x) /\ UNCHANGED self
    <2>1. \A y \in Ctx \ {x} : msg'[y] = msg[y]
      BY <1>2 DEF TypeOK
    <2>2. QED  BY <2>1 DEF ReturnQueue, OthersKept, TypeOK, Goto
  <1>5. Waiting(a) = {}
    <2>1. x \in Running(a)
      BY <1>1 DEF Running, Owns, Closing
    <2>2. QED  BY <2>1, OnlyPlace DEF Custody, IsIn
  <1>6. ASSUME NEW y \in Ctx \ {x}, Closing(y)' PROVE Closing(y) /\ self[y] \in Actor \ {a}
    <2>1. Closing(y)
      BY <1>4, <1>6 DEF Closing, OthersKept
    <2>2. QED  BY <1>5, <2>1 DEF StillWaits, Closing, ControlOK
  <1>7. CASE Subscribe(q, a) /\ msg' = [msg EXCEPT ![x] = NULL]
    <2>1. Waiting(a)' = {q} /\ \A b \in Actor \ {a} : Waiting(b)' = Waiting(b)
      BY <1>3, <1>5, <1>7, SubscribePlaces
    <2>2. ASSUME NEW y \in Ctx, NEW b \in Actor, Closing(y)', self'[y] = b
          PROVE  Waiting(b)' \cap Subscribes[b] # {}
      <3>1. CASE y = x
        BY <1>1, <1>2, <1>4, <2>1, <2>2, <3>1
      <3>2. CASE y # x
        BY <1>4, <1>6, <2>1, <2>2, <3>2 DEF StillWaits
      <3>3. QED  BY <3>1, <3>2
    <2>3. QED  BY <2>2 DEF StillWaits
  <1>8. CASE \E m \in Message : PopMessage(q, m) /\ msg' = [msg EXCEPT ![x] = m]
    <2>1. msg'[x] # NULL
      BY <1>8, DataAssumption DEF TypeOK
    <2>2. \A b \in Actor : Waiting(b)' = Waiting(b)
      BY <1>3, <1>8, PopPlaces
    <2>3. QED  BY <1>4, <1>6, <2>1, <2>2 DEF StillWaits, Closing
  <1>9. QED  BY <1>2, <1>7, <1>8

LEMMA StepOthers ==
  ASSUME CustodyInv, NEW x \in Ctx, ProduceAlloc(x) \/ TickStart(x) \/ Step(x)
  PROVE  OthersKept(x)
  <1> USE DEF CustodyInv, KernelInv
  <1>1. CASE ProduceAlloc(x) \/ TickStart(x) \/ TickWake(x) \/ TickEnd(x)
    BY <1>1 DEF ProduceAlloc, TickStart, TickWake, TickEnd, Enter, Exit, Goto, OthersKept, TypeOK
  <1>2. CASE Insert(x) \/ Request(x) \/ PopHead(x) \/ PopHeadEmpty(x) \/ Leave(x)
    BY <1>2 DEF Insert, Request, PopHead, PopHeadEmpty, Leave, Return, Exit, Goto, OthersKept, TypeOK
  <1>3. CASE Call(x) \/ FnAlloc(x) \/ FnPoll(x) \/ FnMove(x)
    BY <1>3 DEF Call, FnAlloc, FnPoll, FnMove, Goto, OthersKept, TypeOK
  <1>4. CASE ProducePush(x) \/ FnPush(x)
    <2>1. PICK q \in Queue, m \in Message : mg_queue_push(x, q, m)
      BY <1>4, DataAssumption, ActorAssumption
         DEF ProducePush, FnPush, KernelCall, At, ControlOK, TypeOK
    <2>2. pc[x] \in {"push", "run"} /\ UNCHANGED self
      BY <1>4 DEF ProducePush, FnPush, KernelCall, At
    <2>3. \A y \in Ctx \ {x} : msg'[y] = msg[y]
      BY <1>4 DEF ProducePush, FnPush, TypeOK
    <2>4. QED  BY <2>1, <2>2, <2>3, PushControl DEF OthersKept
  <1>5. CASE ReturnQueue(x)
    <2>1. \A y \in Ctx \ {x} : msg'[y] = msg[y]
      BY <1>5 DEF ReturnQueue, TypeOK
    <2>2. QED  BY <1>5, <2>1 DEF ReturnQueue, OthersKept, TypeOK, Goto
  <1>6. CASE Store(x) \/ LoopTest(x) \/ ReturnYield(x) \/ ReturnSleep(x)
    BY <1>6 DEF Store, LoopTest, ReturnYield, ReturnSleep, EndActorCall, Exit, Goto, OthersKept, TypeOK
  <1>7. QED  BY <1>1, <1>2, <1>3, <1>4, <1>5, <1>6 DEF Step

\* Only a push takes an actor out of a queue.
LEMMA NextStillWaits == ASSUME NoPushFromAbove, WindowInv, [Next]_vars PROVE StillWaits'
  <1> USE DEF WindowInv, CustodyInv, KernelInv
  <1>1. ASSUME NEW x \in Ctx, ProduceAlloc(x) \/ TickStart(x) \/ Step(x) PROVE StillWaits'
    <2>1. OthersKept(x)
      BY <1>1, StepOthers
    <2>2. CASE ProducePush(x) \/ FnPush(x)
      BY <2>2, PushStillWaits
    <2>3. CASE ReturnQueue(x)
      BY <2>3, ReturnQueueStillWaits
    <2>4. CASE ProduceAlloc(x)
      <3>1. (\E m \in Message : mg_message_alloc(m)) /\ pc'[x] = "push"
        BY <2>4 DEF ProduceAlloc, Enter, Goto, TypeOK
      <3>2. \A a \in Actor : Waiting(a)' = Waiting(a)
        BY <3>1, AllocPlaces
      <3>3. QED  BY <2>1, <3>1, <3>2, StillWaitsKept
    <2>5. CASE FnAlloc(x)
      <3>1. (\E m \in Message : mg_message_alloc(m)) /\ pc'[x] = "run"
        BY <2>5 DEF FnAlloc, KernelCall, At
      <3>2. \A a \in Actor : Waiting(a)' = Waiting(a)
        BY <3>1, AllocPlaces
      <3>3. QED  BY <2>1, <3>1, <3>2, StillWaitsKept
    <2>6. CASE FnPoll(x)
      <3>1. self[x] \in Actor /\ pc'[x] = "run"
        BY <2>6 DEF FnPoll, KernelCall, At, ControlOK
      <3>2. \E q \in Queue, m \in Message : PopMessage(q, m)
        BY <2>6, <3>1, ActorAssumption DEF FnPoll
      <3>3. \A a \in Actor : Waiting(a)' = Waiting(a)
        BY <3>2, PopPlaces
      <3>4. QED  BY <2>1, <3>1, <3>3, StillWaitsKept
    <2>7. CASE items' = items /\ pc'[x] \notin {"store", "test"}
      <3>1. \A a \in Actor : Waiting(a)' = Waiting(a)
        BY <2>7, RestKept
      <3>2. QED  BY <2>1, <2>7, <3>1, StillWaitsKept
    <2>8. CASE TickStart(x) \/ TickWake(x) \/ TickEnd(x) \/ Insert(x) \/ Request(x)
      BY <2>7, <2>8 DEF TickStart, TickWake, TickEnd, Insert, Request, Return, Enter, Exit, Goto,
         TypeOK, queues
    <2>9. CASE PopHead(x) \/ PopHeadEmpty(x) \/ Leave(x) \/ Call(x) \/ FnMove(x)
      BY <2>7, <2>9 DEF PopHead, PopHeadEmpty, Leave, Call, FnMove, KernelCall, At, Exit, Goto,
         TypeOK, queues
    <2>10. CASE LoopTest(x) \/ ReturnYield(x) \/ ReturnSleep(x)
      BY <2>7, <2>10 DEF LoopTest, ReturnYield, ReturnSleep, EndActorCall, Exit, Goto, TypeOK, queues
    <2>11. CASE Store(x)
      <3>1. \A a \in Actor : Waiting(a)' = Waiting(a)
        BY <2>11, RestKept DEF Store, queues
      <3>2. pc[x] = "store" /\ UNCHANGED <<self, msg>>
        BY <2>11 DEF Store, At
      <3>3. \A y \in Ctx : Closing(y)' => Closing(y)
        BY <2>1, <3>2 DEF Closing, OthersKept
      <3>4. QED  BY <3>1, <3>2, <3>3 DEF StillWaits
    <2>12. QED
      BY <1>1, <2>2, <2>3, <2>4, <2>5, <2>6, <2>8, <2>9, <2>10, <2>11 DEF Step
  <1>2. ASSUME NEW a \in Actor, InitSubscribe(a) PROVE StillWaits'
    <2>1. PICK q \in Queue : q = InitQueue[a]
      BY <1>2, ActorAssumption DEF InitSubscribe
    <2>2. Waiting(a) = {}
      <3>1. a \in Unborn(a)
        BY <1>2 DEF InitSubscribe, Unborn
      <3>2. QED  BY <3>1, OnlyPlace DEF Custody, IsIn
    <2>3. CASE Subscribe(q, a) /\ UNCHANGED frame
      <3>1. Waiting(a)' = {q} /\ \A b \in Actor \ {a} : Waiting(b)' = Waiting(b)
        BY <2>2, <2>3, SubscribePlaces
      <3>2. \A x \in Ctx : Closing(x)' => Closing(x) /\ self'[x] = self[x] /\ self[x] # a
        BY <2>2, <2>3 DEF frame, Closing, StillWaits
      <3>3. QED  BY <3>1, <3>2 DEF StillWaits
    <2>4. CASE \E m \in Message :
                 /\ PopMessage(q, m)
                 /\ Enter(Main, "init", "assert")
                 /\ self' = [self EXCEPT ![Main] = a]
                 /\ msg' = [msg EXCEPT ![Main] = m]
                 /\ UNCHANGED <<dest, due, budget>>
      <3>1. OthersKept(Main) /\ pc'[Main] \notin {"store", "test"}
        BY <2>4, MainIsContext DEF OthersKept, Enter, Goto, TypeOK
      <3>2. \A b \in Actor : Waiting(b)' = Waiting(b)
        BY <2>4, PopPlaces
      <3>3. QED  BY <3>1, <3>2, MainIsContext, StillWaitsKept
    <2>5. QED  BY <1>2, <2>1, <2>3, <2>4 DEF InitSubscribe
  <1>3. ASSUME NEW a \in Actor, InitCall(a) PROVE StillWaits'
    <2>1. OthersKept(Main) /\ pc'[Main] \notin {"store", "test"} /\ items' = items
      BY <1>3, MainIsContext DEF InitCall, OthersKept, Enter, Goto, TypeOK, queues
    <2>2. QED  BY <2>1, RestKept, MainIsContext, StillWaitsKept
  <1>4. ASSUME NEW c \in CPU, NEW v \in Vector, EnterVector(c, v) PROVE StillWaits'
    <2>1. <<c, vect2prio[v]>> \in Ctx
      BY ContextAssumption DEF Ctx, Level, Prio
    <2>2. PICK x \in Ctx : x = <<c, vect2prio[v]>>
      BY <2>1
    <2>3. OthersKept(x) /\ pc'[x] \notin {"store", "test"} /\ items' = items
      BY <1>4, <2>2 DEF EnterVector, OthersKept, TypeOK, Enter, Goto, queues
    <2>4. QED  BY <2>3, RestKept, StillWaitsKept
  <1>5. CASE UNCHANGED vars
    BY <1>5 DEF vars, frame, queues, StillWaits, Closing, Waiting, ActorsIn, NodesIn
  <1>6. QED  BY <1>1, <1>2, <1>3, <1>4, <1>5 DEF Next

(***************************************************************************)
(* The value tested by the loop.                                           *)
(***************************************************************************)
LEMMA HeadWaits ==
  ASSUME TypeOK, QueueShape, Custody, NEW q \in Queue, length[q] < 0
  PROVE  Head(items[q]) \in Actor /\ q \in Waiting(Head(items[q]))
  <1>1. items[q] \in Seq(Actor) /\ Len(items[q]) > 0 /\ Distinct(items[q])
    BY DEF TypeOK, QueueShape, HasShape, Custody
  <1>2. PICK b \in Actor : b = Head(items[q])
    BY <1>1, TailShape
  <1>3. b \in ActorsIn(items[q])
    BY <1>1, <1>2, TailActors
  <1>4. QED  BY <1>2, <1>3 DEF Waiting

LEMMA AgreesKept ==
  ASSUME TestAgrees, NEW x \in Ctx, OthersKept(x), pc'[x] # "test",
         \A y \in Ctx \ {x} : pc[y] = "test" => mailbox'[self[y]] = mailbox[self[y]]
  PROVE  TestAgrees'
  BY DEF TestAgrees, OthersKept

\* Nobody else runs the actor of a context that is about to test its mailbox: it
\* is run by that context only, or it waits in a queue.
LEMMA OthersDoNotRun ==
  ASSUME WindowInv, NEW x \in Ctx, NEW y \in Ctx \ {x}, pc[y] = "test", Owns(x, self[y])
  PROVE  FALSE
  <1> USE DEF WindowInv, CustodyInv, KernelInv
  <1>1. PICK a \in Actor : a = self[y]
    BY DEF ControlOK
  <1>2. IsIn(a, {x}, {}, {}, {}, {}, {})
    BY <1>1, OnlyPlace DEF Custody, Running
  <1>3. CASE Closing(y)
    BY <1>1, <1>2, <1>3 DEF StillWaits, IsIn
  <1>4. CASE ~Closing(y)
    BY <1>1, <1>2, <1>4 DEF Owns, Running, IsIn
  <1>5. QED  BY <1>3, <1>4

LEMMA PushAgrees ==
  ASSUME NoPushFromAbove, WindowInv, NEW x \in Ctx, ProducePush(x) \/ FnPush(x)
  PROVE  TestAgrees'
  <1> USE DEF WindowInv, CustodyInv, KernelInv
  <1>1. PICK q \in Queue : Pushes(x, q)
    BY StepsThatPush
  <1>2. PICK m \in Message : mg_queue_push(x, q, m)
    BY <1>1 DEF Pushes
  <1>3. OthersKept(x) /\ pc'[x] # "test"
    BY <1>1, <1>2, StepsThatPush, PushControl DEF Pushes, At
  <1>4. ASSUME NEW y \in Ctx \ {x}, pc[y] = "test"
        PROVE  mailbox'[self[y]] = mailbox[self[y]]
    <2>1. PICK a \in Actor : a = self[y]
      BY <1>4 DEF ControlOK
    <2>2. q \notin Waiting(a)
      <3>1. CASE Closing(y)
        BY <1>1, <2>1, <3>1, NobodyPushes DEF Pushes
      <3>2. CASE ~Closing(y)
        <4>1. y \in Running(a)
          BY <2>1, <3>2 DEF Running, Owns
        <4>2. QED  BY <4>1, OnlyPlace DEF Custody, IsIn
      <3>3. QED  BY <3>1, <3>2
    <2>3. CASE Return(x) /\ UNCHANGED mailbox
      BY <2>3
    <2>4. CASE length[q] < 0 /\ mailbox' = [mailbox EXCEPT ![Head(items[q])] = m]
      <3>1. PICK b \in Actor : b = Head(items[q]) /\ q \in Waiting(b)
        BY <2>4, HeadWaits
      <3>2. b # a
        BY <2>2, <3>1
      <3>3. QED  BY <2>1, <2>4, <3>1, <3>2 DEF TypeOK
    <2>5. QED  BY <1>2, <2>3, <2>4 DEF mg_queue_push, PushLinks
  <1>5. QED  BY <1>3, <1>4, AgreesKept

LEMMA StoreAgrees ==
  ASSUME WindowInv, NEW x \in Ctx, Store(x) PROVE TestAgrees'
  <1> USE DEF WindowInv, CustodyInv, KernelInv
  <1>1. PICK b \in Actor : b = self[x]
    BY DEF Store, At, ControlOK
  <1>2. /\ pc[x] = "store" /\ UNCHANGED <<self, msg>>
        /\ mailbox' = [mailbox EXCEPT ![b] = msg[x]]
        /\ \A y \in Ctx \ {x} : pc'[y] = pc[y]
    BY <1>1 DEF Store, At, Goto, TypeOK
  <1>3. ASSUME NEW y \in Ctx \ {x}, pc[y] = "test" PROVE mailbox'[self[y]] = msg[y]
    <2>1. PICK a \in Actor : a = self[y]
      BY <1>3 DEF ControlOK
    <2>2. mailbox[a] = msg[y]
      BY <1>3, <2>1 DEF TestAgrees
    <2>3. CASE a # b
      BY <1>2, <2>1, <2>2, <2>3 DEF TypeOK
    <2>4. CASE a = b
      <3>1. Closing(x)
        BY <1>1, <1>3, <2>1, <2>4, OthersDoNotRun DEF Owns
      <3>2. PICK q \in Waiting(a) : TRUE
        BY <1>1, <2>4, <3>1 DEF StillWaits
      <3>3. IsIn(a, {}, {}, {}, {q}, {}, {})
        BY OnlyPlace DEF Custody
      <3>4. Closing(y)
        BY <2>1, <3>3 DEF IsIn, Running, Owns
      <3>5. QED  BY <1>2, <2>1, <2>4, <3>1, <3>4 DEF Closing, TypeOK
    <2>5. QED  BY <2>3, <2>4
  <1>4. mailbox'[self[x]] = msg[x]
    BY <1>1, <1>2 DEF TypeOK
  <1>5. QED  BY <1>2, <1>3, <1>4 DEF TestAgrees

LEMMA NextTestAgrees == ASSUME NoPushFromAbove, WindowInv, [Next]_vars PROVE TestAgrees'
  <1> USE DEF WindowInv, CustodyInv, KernelInv
  <1>1. ASSUME NEW x \in Ctx, ProduceAlloc(x) \/ TickStart(x) \/ Step(x) PROVE TestAgrees'
    <2>1. OthersKept(x)
      BY <1>1, StepOthers
    <2>2. CASE UNCHANGED mailbox /\ pc'[x] # "test"
      BY <2>1, <2>2, AgreesKept
    <2>3. CASE ProducePush(x) \/ FnPush(x)
      BY <2>3, PushAgrees
    <2>4. CASE Store(x)
      BY <2>4, StoreAgrees
    <2>5. CASE ReturnYield(x) \/ ReturnSleep(x)
      <3>1. PICK b \in Actor : b = self[x] /\ pc[x] = "run"
        BY <2>5 DEF ReturnYield, ReturnSleep, At, ControlOK
      <3>2. mailbox' = [mailbox EXCEPT ![b] = NULL] /\ pc'[x] # "test"
        BY <2>5, <3>1 DEF ReturnYield, ReturnSleep, EndActorCall, Exit, Goto, TypeOK
      <3>3. ASSUME NEW y \in Ctx \ {x}, pc[y] = "test" PROVE self[y] \in Actor \ {b}
        <4>1. self[y] \in Actor
          BY <3>3 DEF ControlOK
        <4>2. self[y] # b
          BY <3>1, <3>3, OthersDoNotRun DEF Owns, Closing
        <4>3. QED  BY <4>1, <4>2
      <3>4. \A y \in Ctx \ {x} : pc[y] = "test" => mailbox'[self[y]] = mailbox[self[y]]
        BY <3>2, <3>3 DEF TypeOK
      <3>5. QED  BY <2>1, <3>2, <3>4, AgreesKept
    <2>6. CASE ProduceAlloc(x) \/ TickStart(x) \/ TickWake(x) \/ TickEnd(x)
      BY <2>2, <2>6 DEF ProduceAlloc, TickStart, TickWake, TickEnd, Enter, Exit, Goto, TypeOK
    <2>7. CASE Insert(x) \/ Request(x) \/ PopHead(x) \/ PopHeadEmpty(x) \/ Leave(x)
      BY <2>2, <2>7 DEF Insert, Request, PopHead, PopHeadEmpty, Leave, Return, Exit, Goto, TypeOK
    <2>8. CASE Call(x) \/ FnAlloc(x) \/ FnPoll(x) \/ FnMove(x) \/ ReturnQueue(x)
      BY <2>2, <2>8 DEF Call, FnAlloc, FnPoll, FnMove, KernelCall, At, ReturnQueue, Goto, TypeOK
    <2>9. CASE LoopTest(x)
      BY <2>2, <2>9 DEF LoopTest, EndActorCall, Exit, Goto, TypeOK
    <2>10. QED
      BY <1>1, <2>3, <2>4, <2>5, <2>6, <2>7, <2>8, <2>9 DEF Step
  <1>2. ASSUME NEW a \in Actor, InitSubscribe(a) \/ InitCall(a) PROVE TestAgrees'
    <2>1. UNCHANGED mailbox
      BY <1>2 DEF InitSubscribe, InitCall
    <2>2. CASE UNCHANGED frame
      BY <2>1, <2>2 DEF frame, TestAgrees
    <2>3. CASE /\ Enter(Main, "init", "assert")
               /\ self' = [self EXCEPT ![Main] = a]
               /\ \E m : msg' = [msg EXCEPT ![Main] = m]
               /\ UNCHANGED dest
      <3>1. OthersKept(Main) /\ pc'[Main] # "test"
        BY <2>3, MainIsContext DEF OthersKept, Enter, Goto, TypeOK
      <3>2. QED  BY <2>1, <3>1, MainIsContext, AgreesKept
    <2>4. CASE InitCall(a)
      <3>1. OthersKept(Main) /\ pc'[Main] # "test"
        BY <2>4, MainIsContext DEF InitCall, OthersKept, Enter, Goto, TypeOK
      <3>2. QED  BY <2>1, <3>1, MainIsContext, AgreesKept
    <2>5. QED  BY <1>2, <2>2, <2>3, <2>4 DEF InitSubscribe
  <1>3. ASSUME NEW c \in CPU, NEW v \in Vector, EnterVector(c, v) PROVE TestAgrees'
    <2>1. PICK x \in Ctx : x = <<c, vect2prio[v]>>
      <3>1. vect2prio[v] \in 0..MaxPrio
        BY ContextAssumption DEF Prio
      <3>2. QED  BY <3>1 DEF Ctx, Level
    <2>2. OthersKept(x) /\ pc'[x] # "test" /\ UNCHANGED mailbox
      BY <1>3, <2>1 DEF EnterVector, OthersKept, TypeOK, Enter, Goto
    <2>3. QED  BY <2>2, AgreesKept
  <1>4. CASE UNCHANGED vars
    BY <1>4 DEF vars, frame, TestAgrees
  <1>5. QED  BY <1>1, <1>2, <1>3, <1>4 DEF Next

LEMMA InitWindowInv == Init => WindowInv
  <1> SUFFICES ASSUME Init PROVE PlacesOK /\ StillWaits /\ TestAgrees
    BY InitCustodyInv, InitAtHome DEF WindowInv
  <1>1. PlacesOK
    BY DEF Init, PlacesOK
  <1>2. StillWaits /\ TestAgrees
    BY DEF Init, StillWaits, Closing, TestAgrees
  <1>3. QED  BY <1>1, <1>2

LEMMA NextWindowInv == NoPushFromAbove /\ WindowInv /\ [Next]_vars => WindowInv'
  BY NextCustodyInv, NextAtHome, NextPlaces, NextStillWaits, NextTestAgrees
     DEF WindowInv, TestSound

\* The loop test of mg_actor_call (magnesium.h:336) finds what mg_queue_pop has
\* returned when no queue is fed from above, as nobody writes the mailbox, and
\* when the compiler keeps the value, as the mailbox is not read.
LEMMA TestSoundInvariant == LoopTestSafe => (Spec => []TestSound)
  <1>1. ASSUME NoPushFromAbove PROVE Spec => []TestSound
    <2>1. WindowInv /\ [Next]_vars => WindowInv'
      BY <1>1, NextWindowInv
    <2>2. WindowInv => TestSound
      BY DEF WindowInv, TestSound
    <2>3. QED  BY InitWindowInv, <2>1, <2>2, PTL DEF Spec
  <1>2. ASSUME ~Rereads PROVE Spec => []TestSound
    <2>1. TestSound
      BY <1>2 DEF TestSound
    <2>2. QED  BY <2>1, PTL
  <1>3. QED  BY <1>1, <1>2 DEF LoopTestSafe

\* An actor is in exactly one place: one list links it, one context runs it or
\* activates it, or it sleeps.  The link that mg_actor_t has for all the lists
\* (magnesium.h:129) is never in two of them, and no actor is lost on the way
\* from one to the next.  A program that feeds a queue from above needs a
\* compiler that keeps the value tested at magnesium.h:336.
THEOREM CustodyInvariant == LoopTestSafe => (Spec => []ActorCustody)
  <1> SUFFICES ASSUME LoopTestSafe PROVE Spec => []ActorCustody
    OBVIOUS
  <1>1. Spec => []TestSound
    BY TestSoundInvariant
  <1>2. QED  BY <1>1, InitCustodyInv, NextCustodyInv, CustodyHolds, PTL DEF Spec

\* A ready actor is on the run queue of its own processor and priority: its
\* function assigns actor->cpu only while no list links it, so the two unlocked
\* reads of _mg_actor_activate (magnesium.h:183 and 191) agree with the run
\* queue for as long as the actor is on it.  The condition is that of
\* CustodyInvariant: a function that runs while its actor is on a run queue may
\* move it.
THEOREM ReadyAtHomeInvariant == LoopTestSafe => (Spec => []ReadyAtHome)
  <1> SUFFICES ASSUME LoopTestSafe PROVE Spec => []ReadyAtHome
    OBVIOUS
  <1>1. CustodyInv /\ AtHome => ReadyAtHome
    BY AtHomeHolds DEF CustodyInv, KernelInv
  <1>2. Spec => []TestSound
    BY TestSoundInvariant
  <1>3. QED  BY <1>1, <1>2, InitCustodyInv, NextCustodyInv, InitAtHome, NextAtHome, PTL DEF Spec

(***************************************************************************)
(* No wakeup is lost, in the programs in which mg_actor_init calls no      *)
(* function that may return mg_sleep_for(0), and no function does both:    *)
(* move its actor and return mg_sleep_for(0).                              *)
(***************************************************************************)
NoYieldOnInit == \A a \in Actor : InitQueue[a] = NULL => "yield" \notin Suspends[a]
MoversDoNotYield == \A a \in Actor : Moves[a] # {} => "yield" \notin Suspends[a]

\* Why the scheduler of x will look at actor a.  The request that is about to
\* be made is one for a itself: its processor is read when it is made.
WokenAt(a, x) ==
  \/ handler[x] = "sched" /\ pc[x] # "leave"
  \/ \E v \in Vector : <<x[1], v>> \in pending /\ vect2prio[v] = x[2]
  \/ \E y \in Ctx : pc[y] = "request" /\ dest[y] = a

Woken == \A a \in Actor : \A x \in Ready(a) : WokenAt(a, x)

\* The scheduler of a level runs actors of its level, unless they move, and
\* mg_actor_init calls the function of an actor that it does not subscribe.
CallerOK ==
  \A x \in Ctx : pc[x] \in {"insert", "request", "call", "run", "store", "test"} =>
    /\ handler[x] = "sched" => Home(self[x]) = x \/ Moves[self[x]] # {}
    /\ handler[x] = "init" => InitQueue[self[x]] = NULL

WakeupInv == CustodyInv /\ AtHome /\ CallerOK /\ Woken

LEMMA WakeupHolds == WakeupInv => NoLostWakeup
  <1> SUFFICES ASSUME WakeupInv, NEW x \in Ctx, runq[x] # <<>>
               PROVE  \/ handler[x] = "sched" /\ pc[x] # "leave"
                      \/ \E v \in Vector : <<x[1], v>> \in pending /\ vect2prio[v] = x[2]
                      \/ \E y \in Ctx : pc[y] = "request" /\ Home(dest[y]) = x
    BY DEF NoLostWakeup
  <1>1. runq[x] \in Seq(Actor)
    BY DEF WakeupInv, CustodyInv, KernelInv, TypeOK
  <1>2. 1 \in DOMAIN runq[x] /\ runq[x][1] \in Actor
    BY <1>1
  <1>3. PICK a \in Actor : x \in Ready(a)
    BY <1>2 DEF Ready, ActorsIn, NodesIn
  <1>4. Home(a) = x /\ WokenAt(a, x)
    BY <1>3 DEF WakeupInv, AtHome, Woken
  <1>5. QED  BY <1>4 DEF WokenAt

\* An actor that does not move keeps its home.
HomesKept == \A a \in Actor : Moves[a] = {} => Home(a)' = Home(a)

LEMMA NextHomes == ASSUME KernelInv, [Next]_vars PROVE HomesKept
  <1>1. CASE UNCHANGED cpu
    BY <1>1 DEF HomesKept, Home
  <1>2. ASSUME NEW x \in Ctx, FnMove(x) PROVE HomesKept
    <2>1. Moves[self[x]] # {} /\ \A a \in Actor \ {self[x]} : cpu'[a] = cpu[a]
      BY <1>2 DEF FnMove, KernelInv, TypeOK
    <2>2. QED  BY <2>1 DEF HomesKept, Home
  <1>3. CASE \E a \in Actor : InitSubscribe(a) \/ InitCall(a)
    BY <1>1, <1>3 DEF InitSubscribe, InitCall
  <1>4. CASE \E c \in CPU, v \in Vector : EnterVector(c, v)
    BY <1>1, <1>4 DEF EnterVector
  <1>5. CASE \E x \in Ctx : ProduceAlloc(x) \/ TickStart(x) \/ Step(x)
    <2>1. PICK x \in Ctx : ProduceAlloc(x) \/ TickStart(x) \/ Step(x)
      BY <1>5
    <2>2. CASE ProduceAlloc(x) \/ TickStart(x) \/ ProducePush(x) \/ TickWake(x) \/ TickEnd(x)
      BY <1>1, <2>2 DEF ProduceAlloc, TickStart, ProducePush, TickWake, TickEnd
    <2>3. CASE Insert(x) \/ Request(x) \/ PopHead(x) \/ PopHeadEmpty(x) \/ Leave(x)
      BY <1>1, <2>3 DEF Insert, Request, PopHead, PopHeadEmpty, Leave
    <2>4. CASE \/ Call(x) \/ FnAlloc(x) \/ FnPoll(x) \/ FnPush(x)
               \/ ReturnQueue(x) \/ Store(x) \/ LoopTest(x) \/ ReturnYield(x) \/ ReturnSleep(x)
      BY <1>1, <2>4 DEF Call, FnAlloc, FnPoll, FnPush, ReturnQueue, Store, LoopTest,
                        ReturnYield, ReturnSleep
    <2>5. QED  BY <1>2, <2>1, <2>2, <2>3, <2>4 DEF Step
  <1>6. CASE UNCHANGED vars
    BY <1>1, <1>6 DEF vars
  <1>7. QED  BY <1>3, <1>4, <1>5, <1>6 DEF Next

\* A step of x that adds to no run queue and takes no pending interrupt away,
\* neither takes x out of the scheduler nor completes an activation.
LEMMA KeepWoken ==
  ASSUME Woken, NEW x \in Ctx, UNCHANGED pending,
         \A a \in Actor : Ready(a)' \subseteq Ready(a),
         \A y \in Ctx \ {x} : pc'[y] = pc[y] /\ handler'[y] = handler[y] /\ dest'[y] = dest[y],
         handler[x] = "sched" /\ pc[x] # "leave" => handler'[x] = "sched" /\ pc'[x] # "leave",
         pc[x] # "request"
  PROVE  Woken'
  <1> SUFFICES ASSUME NEW a \in Actor, NEW z \in Ready(a)' PROVE WokenAt(a, z)'
    BY DEF Woken
  <1>1. z \in Ctx /\ WokenAt(a, z)
    BY DEF Woken, Ready
  <1>2. QED  BY <1>1 DEF WokenAt

LEMMA InitCallWakeup ==
  ASSUME WakeupInv, HomesKept, NEW a \in Actor, InitSubscribe(a) \/ InitCall(a)
  PROVE  CallerOK' /\ Woken'
  <1> USE MainIsContext DEF WakeupInv, CustodyInv, KernelInv
  <1>1. UNCHANGED <<runq, pending, dest, cpu>>
    BY DEF InitSubscribe, InitCall, frame
  <1>2. \A b \in Actor : Ready(b)' \subseteq Ready(b)
    BY <1>1, RestKept
  <1>3. CASE UNCHANGED <<pc, handler, self>>
    <2>1. CallerOK'
      BY <1>1, <1>3 DEF Home, CallerOK
    <2>2. \A b \in Actor : \A z \in Ready(b)' : WokenAt(b, z)'
      BY <1>1, <1>2, <1>3 DEF Woken, WokenAt
    <2>3. QED  BY <2>1, <2>2 DEF Woken
  <1>4. CASE \E label \in {"assert", "call"} :
               /\ Enter(Main, "init", label)
               /\ self' = [self EXCEPT ![Main] = a]
               /\ label = "call" => InitQueue[a] = NULL
    <2>1. pc[Main] = "idle" /\ handler[Main] = "none"
      BY <1>4, EnterIdle DEF Enter, ControlOK
    <2>2. /\ \A y \in Ctx \ {Main} :
               pc'[y] = pc[y] /\ handler'[y] = handler[y] /\ dest'[y] = dest[y]
          /\ handler'[Main] = "init" /\ pc'[Main] \in {"assert", "call"}
      BY <1>1, <1>4 DEF Enter, Goto, TypeOK
    <2>3. CallerOK'
      <3>1. self'[Main] = a /\ \A y \in Ctx \ {Main} : self'[y] = self[y]
        BY <1>4 DEF TypeOK
      <3>2. pc'[Main] = "call" => InitQueue[a] = NULL
        BY <1>4 DEF Enter, Goto, TypeOK
      <3>3. QED  BY <1>1, <2>2, <3>1, <3>2 DEF Home, CallerOK
    <2>4. Woken'
      BY <1>1, <1>2, <2>1, <2>2, KeepWoken
    <2>5. QED  BY <2>3, <2>4
  <1>5. QED  BY <1>3, <1>4 DEF InitSubscribe, InitCall, frame

\* The steps of the handlers that are not schedulers, up to the activation.
LEMMA HandlerWakeup ==
  ASSUME WakeupInv, HomesKept, NEW x \in Ctx,
         ProduceAlloc(x) \/ ProducePush(x) \/ TickStart(x) \/ TickWake(x) \/ TickEnd(x)
  PROVE  CallerOK' /\ Woken'
  <1> USE DEF WakeupInv, CustodyInv, KernelInv
  <1>1. UNCHANGED <<runq, pending, self, cpu>>
    BY DEF ProduceAlloc, ProducePush, TickStart, TickWake, TickEnd
  <1>2. /\ handler[x] \in {"none", "producer", "tick"} /\ pc[x] # "request"
        /\ handler'[x] \in {"none", "producer", "tick"}
        /\ \A y \in Ctx \ {x} : pc'[y] = pc[y] /\ handler'[y] = handler[y] /\ dest'[y] = dest[y]
    <2>1. CASE ProduceAlloc(x) \/ TickStart(x)
      BY <2>1, EnterIdle DEF ProduceAlloc, TickStart, Enter, Goto, ControlOK, TypeOK
    <2>2. CASE ProducePush(x)
      <3>1. PICK q \in ProducerTargets : mg_queue_push(x, q, msg[x])
        BY <2>2 DEF ProducePush
      <3>2. q \in Queue /\ msg[x] \in Message /\ pc[x] = "push" /\ handler[x] = "producer"
        BY <2>2, DataAssumption DEF ProducePush, At, ControlOK
      <3>3. QED  BY <3>1, <3>2, PushControl
    <2>3. CASE TickWake(x) \/ TickEnd(x)
      BY <2>3 DEF TickWake, TickEnd, At, Exit, Goto, ControlOK, TypeOK
    <2>4. QED  BY <2>1, <2>2, <2>3
  <1>3. CallerOK'
    BY <1>1, <1>2 DEF Home, CallerOK
  <1>4. \A a \in Actor : Ready(a)' \subseteq Ready(a)
    BY <1>1, RestKept
  <1>5. Woken'
    BY <1>1, <1>2, <1>4, KeepWoken
  <1>6. QED  BY <1>3, <1>5

LEMMA ActivateWakeup ==
  ASSUME WakeupInv, HomesKept, NEW x \in Ctx, Insert(x) \/ Request(x)
  PROVE  CallerOK' /\ Woken'
  <1> USE DEF WakeupInv, CustodyInv, KernelInv
  <1>1. PICK b \in Actor : b = dest[x]
    BY DEF Insert, Request, At, ControlOK
  <1>2. CASE Insert(x)
    <2>1. /\ UNCHANGED <<handler, self, dest, pending, cpu>>
          /\ pc[x] = "insert" /\ pc'[x] = "request" /\ dest'[x] = b
          /\ \A y \in Ctx \ {x} : pc'[y] = pc[y]
      BY <1>1, <1>2 DEF Insert, At, Goto, TypeOK
    <2>2. CallerOK'
      BY <2>1 DEF Home, CallerOK
    <2>3. \A z \in Ctx : WokenAt(b, z)'
      BY <2>1 DEF WokenAt
    <2>4. ASSUME NEW a \in Actor \ {b} PROVE \A z \in Ready(a)' : WokenAt(a, z)'
      <3>1. Ready(a)' = Ready(a)
        BY <1>1, <1>2, NotReady, InsertPlaces DEF Insert
      <3>2. \A z \in Ready(a) : z \in Ctx /\ WokenAt(a, z)
        BY DEF Woken, Ready
      <3>3. ASSUME NEW z \in Ready(a) PROVE WokenAt(a, z)'
        <4>1. z \in Ctx /\ WokenAt(a, z)
          BY <3>2
        <4>2. pc[z] # "leave" => pc'[z] # "leave"
          BY <2>1, <4>1
        <4>3. \A y \in Ctx : pc[y] = "request" => pc'[y] = "request"
          BY <2>1
        <4>4. QED  BY <2>1, <4>1, <4>2, <4>3 DEF WokenAt
      <3>4. QED  BY <3>1, <3>3
    <2>5. Woken'
      BY <2>3, <2>4 DEF Woken, Ready
    <2>6. QED  BY <2>2, <2>5
  <1>3. CASE Request(x)
    <2>1. /\ UNCHANGED <<runq, self, cpu>>
          /\ pending' = pending \cup {<<cpu[b], Vect[b]>>}
          /\ \A y \in Ctx \ {x} : pc'[y] = pc[y] /\ handler'[y] = handler[y] /\ dest'[y] = dest[y]
          /\ pc[x] = "request"
          /\ \/ handler'[x] = handler[x]
             \/ handler[x] = "producer" /\ handler'[x] = "none"
          /\ pc'[x] # "leave"
      BY <1>1, <1>3 DEF Request, At, Return, Exit, Goto, TypeOK
    <2>2. CallerOK'
      BY <2>1 DEF Home, CallerOK
    <2>3. /\ Vect[b] \in Vector /\ vect2prio[Vect[b]] = Home(b)[2] /\ cpu[b] = Home(b)[1]
      BY ActorAssumption DEF Home
    <2>4. \A a \in Actor : Ready(a)' = Ready(a)
      BY <2>1, RestKept
    <2>5. ASSUME NEW z \in Ready(b) PROVE WokenAt(b, z)'
      <3>1. z = Home(b)
        BY DEF AtHome
      <3>2. <<z[1], Vect[b]>> \in pending' /\ vect2prio[Vect[b]] = z[2]
        BY <2>1, <2>3, <3>1
      <3>3. QED  BY <2>3, <3>2 DEF WokenAt
    <2>6. ASSUME NEW a \in Actor \ {b}, NEW z \in Ready(a) PROVE WokenAt(a, z)'
      <3>1. z \in Ctx /\ WokenAt(a, z)
        BY DEF Woken, Ready
      <3>2. handler[z] = "sched" /\ pc[z] # "leave" => handler'[z] = "sched" /\ pc'[z] # "leave"
        BY <2>1, <3>1
      <3>3. \A y \in Ctx : pc[y] = "request" /\ dest[y] = a => pc'[y] = "request" /\ dest'[y] = a
        BY <1>1, <2>1, <2>6
      <3>4. QED  BY <2>1, <3>1, <3>2, <3>3 DEF WokenAt
    <2>7. Woken'
      BY <2>4, <2>5, <2>6 DEF Woken
    <2>8. QED  BY <2>2, <2>7
  <1>4. QED  BY <1>2, <1>3

LEMMA EnterVectorWakeup ==
  ASSUME WakeupInv, HomesKept, NEW c \in CPU, NEW v \in Vector, EnterVector(c, v)
  PROVE  CallerOK' /\ Woken'
  <1> USE DEF WakeupInv, CustodyInv, KernelInv
  <1> DEFINE x == <<c, vect2prio[v]>>
  <1>1. x \in Ctx
    BY ContextAssumption DEF Ctx, Level, Prio
  <1>2. /\ UNCHANGED <<runq, self, dest, cpu>> /\ pending' = pending \ {<<c, v>>}
        /\ handler'[x] = "sched" /\ pc'[x] = "sched"
        /\ \A y \in Ctx \ {x} : pc'[y] = pc[y] /\ handler'[y] = handler[y]
        /\ pc[x] = "idle"
    BY <1>1, EnterIdle DEF EnterVector, Enter, Goto, TypeOK
  <1>3. CallerOK'
    BY <1>2 DEF Home, CallerOK
  <1>4. ASSUME NEW y \in Ctx \ {x}, NEW w \in Vector,
               <<y[1], w>> \in pending, vect2prio[w] = y[2]
        PROVE  <<y[1], w>> \in pending'
    <2>1. y = <<y[1], y[2]>>
      BY DEF Ctx
    <2>2. <<y[1], w>> # <<c, v>>
      BY <1>4, <2>1
    <2>3. QED  BY <1>2, <1>4, <2>2
  <1> HIDE DEF x
  <1>5. ASSUME NEW a \in Actor, NEW z \in Ready(a) PROVE WokenAt(a, z)'
    <2>1. z \in Ctx /\ WokenAt(a, z)
      BY DEF Woken, Ready
    <2>2. CASE z = x
      BY <1>2, <2>2 DEF WokenAt
    <2>3. CASE z # x
      BY <1>1, <1>2, <1>4, <2>1, <2>3 DEF WokenAt
    <2>4. QED  BY <2>2, <2>3
  <1>6. \A a \in Actor : Ready(a)' = Ready(a)
    BY <1>2, RestKept
  <1>7. QED  BY <1>3, <1>5, <1>6 DEF Woken

LEMMA ScheduleWakeup ==
  ASSUME WakeupInv, HomesKept, NEW x \in Ctx, PopHead(x) \/ PopHeadEmpty(x) \/ Leave(x)
  PROVE  CallerOK' /\ Woken'
  <1> USE DEF WakeupInv, CustodyInv, KernelInv
  <1>1. /\ pc[x] \in {"sched", "leave"} /\ handler[x] = "sched"
        /\ UNCHANGED <<pending, dest, cpu>>
    BY DEF PopHead, PopHeadEmpty, Leave, At, ControlOK
  <1>2. CASE PopHead(x)
    <2>1. PICK b \in Actor : b = Head(runq[x]) /\ x \in Ready(b)
      BY <1>2, PopHeadReady
    <2>2. /\ handler' = handler /\ pc' = [pc EXCEPT ![x] = "call"]
          /\ self' = [self EXCEPT ![x] = b]
      BY <1>2, <2>1 DEF PopHead, Goto
    <2>3. Home(b) = x
      BY <2>1 DEF AtHome
    <2>4. CallerOK'
      BY <1>1, <2>2, <2>3 DEF Home, CallerOK, TypeOK
    <2>5. \A a \in Actor : Ready(a)' \subseteq Ready(a)
      BY <1>2, PopHeadReady
    <2>6. Woken'
      BY <1>1, <2>2, <2>5, KeepWoken DEF TypeOK
    <2>7. QED  BY <2>4, <2>6
  <1>3. CASE PopHeadEmpty(x)
    <2>1. /\ UNCHANGED <<runq, self>> /\ runq[x] = <<>>
          /\ pc'[x] = "leave"
          /\ \A y \in Ctx \ {x} : pc'[y] = pc[y] /\ handler'[y] = handler[y]
      BY <1>3 DEF PopHeadEmpty, Goto, TypeOK
    <2>2. CallerOK'
      BY <1>1, <2>1 DEF Home, CallerOK
    <2>3. ASSUME NEW a \in Actor, NEW z \in Ready(a) PROVE WokenAt(a, z)'
      <3>1. z \in Ctx /\ z # x /\ WokenAt(a, z)
        BY <2>1 DEF Woken, Ready, ActorsIn, NodesIn
      <3>2. QED  BY <1>1, <2>1, <3>1 DEF WokenAt
    <2>4. \A a \in Actor : Ready(a)' = Ready(a)
      BY <2>1, RestKept
    <2>5. QED  BY <2>2, <2>3, <2>4 DEF Woken
  <1>4. CASE Leave(x)
    <2>1. /\ UNCHANGED <<runq, self>> /\ pc[x] = "leave" /\ pc'[x] = "idle"
          /\ \A y \in Ctx \ {x} : pc'[y] = pc[y] /\ handler'[y] = handler[y] /\ dest'[y] = dest[y]
      BY <1>1, <1>4 DEF Leave, At, Exit, Goto, TypeOK
    <2>2. CallerOK'
      BY <1>1, <2>1 DEF Home, CallerOK
    <2>3. \A a \in Actor : Ready(a)' \subseteq Ready(a)
      BY <2>1, RestKept
    <2>4. QED  BY <1>1, <2>1, <2>2, <2>3, KeepWoken
  <1>5. QED  BY <1>2, <1>3, <1>4

\* The steps of mg_actor_call that insert no actor.
LEMMA ActorCallWakeup ==
  ASSUME WakeupInv, HomesKept, NEW x \in Ctx,
         \/ Call(x) \/ FnAlloc(x) \/ FnPoll(x) \/ FnPush(x) \/ FnMove(x)
         \/ ReturnQueue(x) \/ Store(x) \/ LoopTest(x) \/ ReturnSleep(x)
  PROVE  CallerOK' /\ Woken'
  <1> USE DEF WakeupInv, CustodyInv, KernelInv
  <1>1. UNCHANGED <<runq, pending>>
    BY DEF Call, FnAlloc, FnPoll, FnPush, FnMove, ReturnQueue, Store, LoopTest, ReturnSleep
  <1>2. pc[x] \in {"call", "run", "store", "test"} /\ handler[x] \in {"init", "sched"}
    BY DEF Call, FnAlloc, FnPoll, FnPush, FnMove, KernelCall, ReturnQueue, Store, LoopTest,
           ReturnSleep, At, ControlOK
  <1>3. /\ \A y \in Ctx \ {x} :
             /\ pc'[y] = pc[y] /\ handler'[y] = handler[y] /\ dest'[y] = dest[y]
             /\ self'[y] = self[y]
        /\ handler[x] = "sched" => handler'[x] = "sched" /\ pc'[x] # "leave"
        /\ \/ handler'[x] = handler[x] /\ self'[x] = self[x]
           \/ pc'[x] \in {"idle", "sched"}
    <2>1. CASE Call(x) \/ FnAlloc(x) \/ FnPoll(x) \/ FnMove(x) \/ ReturnQueue(x) \/ Store(x)
      BY <1>2, <2>1 DEF Call, FnAlloc, FnPoll, FnMove, ReturnQueue, Store, Goto, TypeOK
    <2>2. CASE FnPush(x)
      <3>1. self' = self
        BY <2>2 DEF FnPush
      <3>2. self[x] \in Actor /\ pc[x] = "run"
        BY <2>2 DEF FnPush, KernelCall, At, ControlOK
      <3>3. PICK q \in Targets[self[x]], m \in held[self[x]] : mg_queue_push(x, q, m)
        BY <2>2 DEF FnPush
      <3>4. q \in Queue /\ m \in Message
        BY <3>2, <3>3, ActorAssumption DEF TypeOK
      <3>5. /\ pc'[x] # "leave"
            /\ \A y \in Ctx \ {x} :
                 pc'[y] = pc[y] /\ handler'[y] = handler[y] /\ dest'[y] = dest[y]
        BY <3>2, <3>3, <3>4, PushControl
      <3>6. handler' = handler
        BY <1>2, <3>3 DEF mg_queue_push, PushLinks, PushHandsOver, Return
      <3>7. QED  BY <3>1, <3>5, <3>6
    <2>3. CASE LoopTest(x) \/ ReturnSleep(x)
      <3>1. UNCHANGED dest
        BY <2>3 DEF LoopTest, ReturnSleep
      <3>2. \/ Goto(x, "call") /\ UNCHANGED <<handler, self>>
            \/ EndActorCall(x)
        BY <2>3 DEF LoopTest, ReturnSleep
      <3>3. QED  BY <1>2, <3>1, <3>2 DEF EndActorCall, Exit, Goto, TypeOK
    <2>4. QED  BY <2>1, <2>2, <2>3
  <1>4. ASSUME NEW y \in Ctx, pc'[y] \in {"insert", "request", "call", "run", "store", "test"}
        PROVE  /\ handler'[y] = "sched" => Home(self[y])' = y \/ Moves[self'[y]] # {}
               /\ handler'[y] = "init" => InitQueue[self'[y]] = NULL
    <2>1. /\ handler'[y] = handler[y] /\ self'[y] = self[y]
          /\ pc[y] \in {"insert", "request", "call", "run", "store", "test"}
      BY <1>2, <1>3, <1>4
    <2>2. CASE handler[y] = "sched"
      <3>1. PICK a \in Actor : a = self[y]
        BY <2>1, <2>2 DEF ControlOK
      <3>2. Home(a) = y \/ Moves[a] # {}
        BY <2>1, <2>2, <3>1 DEF CallerOK
      <3>3. <<cpu'[a], vect2prio[Vect[a]]>> = y \/ Moves[a] # {}
        BY <3>2 DEF HomesKept, Home
      <3>4. QED  BY <2>1, <2>2, <3>1, <3>3 DEF Home
    <2>3. CASE handler[y] # "sched"
      BY <2>1, <2>3 DEF CallerOK
    <2>4. QED  BY <2>2, <2>3
  <1>5. CallerOK'
    BY <1>4 DEF CallerOK
  <1>6. \A a \in Actor : Ready(a)' \subseteq Ready(a)
    BY <1>1, RestKept
  <1>7. Woken'
    BY <1>1, <1>2, <1>3, <1>6, KeepWoken
  <1>8. QED  BY <1>5, <1>7

\* mg_sleep_for(0): the scheduler that called the function has yet to look at
\* its run queue again, and finds the actor there.
LEMMA ReturnYieldWakeup ==
  ASSUME WakeupInv, HomesKept, NoYieldOnInit, MoversDoNotYield, NEW x \in Ctx, ReturnYield(x)
  PROVE  CallerOK' /\ Woken'
  <1> USE DEF WakeupInv, CustodyInv, KernelInv
  <1>1. PICK b \in Actor : b = self[x]
    BY DEF ReturnYield, At, ControlOK
  <1>2. pc[x] = "run" /\ handler[x] \in {"init", "sched"}
    BY DEF ReturnYield, At, ControlOK
  <1>3. handler[x] = "sched" /\ Home(b) = x
    BY <1>1, <1>2 DEF CallerOK, NoYieldOnInit, MoversDoNotYield, ReturnYield
  <1>4. /\ Ready(b)' = {x}
        /\ \A a \in Actor \ {b} : Ready(a)' = Ready(a)
    BY <1>1, <1>3, NotReady, InsertPlaces DEF ReturnYield
  <1>5. /\ handler' = handler /\ pc' = [pc EXCEPT ![x] = "sched"]
        /\ self' = [self EXCEPT ![x] = NULL] /\ UNCHANGED <<pending, dest, cpu>>
    BY <1>3 DEF ReturnYield, EndActorCall, Goto
  <1>6. CallerOK'
    BY <1>5 DEF Home, CallerOK, TypeOK
  <1>7. WokenAt(b, x)'
    BY <1>3, <1>5 DEF WokenAt, TypeOK
  <1>8. ASSUME NEW a \in Actor \ {b}, NEW z \in Ready(a) PROVE WokenAt(a, z)'
    <2>1. z \in Ctx /\ WokenAt(a, z)
      BY DEF Woken, Ready
    <2>2. pc[z] # "leave" => pc'[z] # "leave"
      BY <1>5, <2>1 DEF TypeOK
    <2>3. \A y \in Ctx : pc[y] = "request" => pc'[y] = "request"
      BY <1>2, <1>5 DEF TypeOK
    <2>4. QED  BY <1>5, <2>1, <2>2, <2>3 DEF WokenAt
  <1>9. Woken'
    <2>1. ASSUME NEW a \in Actor, NEW z \in Ready(a)' PROVE WokenAt(a, z)'
      <3>1. CASE a = b
        BY <1>4, <1>7, <3>1
      <3>2. CASE a # b
        BY <1>4, <1>8, <3>2
      <3>3. QED  BY <3>1, <3>2
    <2>2. QED  BY <2>1 DEF Woken
  <1>10. QED  BY <1>6, <1>9

LEMMA InitWakeupInv == Init => WakeupInv
  <1> SUFFICES ASSUME Init PROVE WakeupInv  OBVIOUS
  <1>1. CallerOK
    BY DEF Init, CallerOK
  <1>2. Woken
    BY DEF Init, Woken, Ready, ActorsIn, NodesIn
  <1>3. QED  BY <1>1, <1>2, InitCustodyInv, InitAtHome DEF WakeupInv

LEMMA NextWakeupInv ==
  NoYieldOnInit /\ MoversDoNotYield /\ TestSound /\ WakeupInv /\ [Next]_vars => WakeupInv'
  <1> SUFFICES ASSUME NoYieldOnInit, MoversDoNotYield, TestSound, WakeupInv, [Next]_vars
               PROVE  WakeupInv'
    OBVIOUS
  <1>1. CustodyInv' /\ AtHome'
    BY NextCustodyInv, NextAtHome DEF WakeupInv
  <1>2. CallerOK' /\ Woken'
    <2>0. HomesKept
      BY NextHomes DEF WakeupInv, CustodyInv
    <2>1. CASE \E a \in Actor : InitSubscribe(a) \/ InitCall(a)
      BY <2>0, <2>1, InitCallWakeup
    <2>2. CASE \E x \in Ctx : ProduceAlloc(x) \/ TickStart(x) \/ Step(x)
      BY <2>0, <2>2, HandlerWakeup, ActivateWakeup, ScheduleWakeup,
         ActorCallWakeup, ReturnYieldWakeup DEF Step
    <2>3. CASE \E c \in CPU, v \in Vector : EnterVector(c, v)
      BY <2>0, <2>3, EnterVectorWakeup
    <2>4. CASE UNCHANGED vars
      <3>1. UNCHANGED <<pc, handler, self, dest, runq, pending, cpu>>
        BY <2>4 DEF vars, frame
      <3>2. CallerOK'
        BY <3>1 DEF WakeupInv, CallerOK, Home
      <3>3. \A a \in Actor : Ready(a)' = Ready(a)
        BY <3>1, RestKept DEF WakeupInv, CustodyInv
      <3>4. \A a \in Actor : \A z \in Ready(a) : WokenAt(a, z)'
        BY <3>1 DEF WakeupInv, Woken, WokenAt
      <3>5. QED  BY <3>2, <3>3, <3>4 DEF Woken
    <2>5. QED  BY <2>1, <2>2, <2>3, <2>4 DEF Next
  <1>3. QED  BY <1>1, <1>2 DEF WakeupInv

\* An actor on a run queue always has a scheduler at work on it or on its way,
\* whatever the handlers, priorities and processors (magnesium.h:189-192 and
\* 388-394), unless mg_actor_init ran a function that yields or an actor that
\* has moved yields.  The condition is that of CustodyInvariant: an actor that is
\* called between its insertion and the request may move, and the request is
\* then made on another processor than the one whose run queue links it.
THEOREM WakeupInvariant ==
  LoopTestSafe /\ NoYieldOnInit /\ MoversDoNotYield => (Spec => []NoLostWakeup)
  <1> SUFFICES ASSUME LoopTestSafe, NoYieldOnInit, MoversDoNotYield PROVE Spec => []NoLostWakeup
    OBVIOUS
  <1>1. TestSound /\ WakeupInv /\ [Next]_vars => WakeupInv'
    BY NextWakeupInv
  <1>2. Spec => []TestSound
    BY TestSoundInvariant
  <1>3. QED  BY InitWakeupInv, <1>1, <1>2, WakeupHolds, PTL DEF Spec
=============================================================================
