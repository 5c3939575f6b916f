------------------------- MODULE MessagePoolProofs -------------------------
(***************************************************************************)
(* The message pool, for any threads, array and block sizes.               *)
(***************************************************************************)
EXTENDS MessagePool, TLAPS

\* The flag is right whenever the lock is free, and never set again once a
\* thread has found it cleared.
FlagOK ==
  /\ array_space_available <=> offset + block_sz <= total_length
  /\ \A t \in Thread : pc[t] = "pop" => ~array_space_available

QueueInArray ==
  \A i \in DOMAIN queue : queue[i] + block_sz <= total_length

PoolInv == TypeOK /\ FlagOK /\ BlocksInArray /\ QueueInArray

LEMMA InitPoolInv == Init => PoolInv
  BY PoolAssumption DEF Init, PoolInv, TypeOK, FlagOK, BlocksInArray, QueueInArray

LEMMA NextPoolInv ==
  ASSUME PoolInv, [Next]_vars
  PROVE  PoolInv'
  <1> USE PoolAssumption DEF PoolInv
  <1>1. ASSUME NEW t \in Thread, AllocStart(t) PROVE PoolInv'
    BY <1>1 DEF AllocStart, Goto, TypeOK, FlagOK, BlocksInArray, QueueInArray
  <1>2. ASSUME NEW t \in Thread, AllocArray(t) PROVE PoolInv'
    <2>1. CASE array_space_available
      <3>1. /\ owned' = [owned EXCEPT ![t] = @ \cup {offset}]
            /\ offset' = offset + block_sz
            /\ pc' = [pc EXCEPT ![t] = "idle"]
            /\ queue' = queue
        BY <1>2, <2>1 DEF AllocArray, Own, Goto
      <3>2. array_space_available' = (offset' + block_sz <= total_length)
        BY <1>2, <2>1 DEF AllocArray
      <3>3. /\ array_space_available' \in BOOLEAN
            /\ array_space_available' <=> offset' + block_sz <= total_length
        <4>1. (offset' + block_sz <= total_length) \in BOOLEAN
          BY <3>1, PoolAssumption DEF TypeOK
        <4>2. QED  BY <3>2, <4>1, Zenon
      <3>4. TypeOK'
        BY <3>1, <3>3 DEF TypeOK
      <3>5. FlagOK'
        BY <2>1, <3>1, <3>3 DEF TypeOK, FlagOK
      <3>6. BlocksInArray' /\ QueueInArray'
        BY <2>1, <3>1 DEF TypeOK, FlagOK, BlocksInArray, QueueInArray
      <3>7. QED  BY <3>4, <3>5, <3>6
    <2>2. CASE ~array_space_available
      BY <1>2, <2>2 DEF AllocArray, Goto, TypeOK, FlagOK, BlocksInArray, QueueInArray
    <2>3. QED  BY <2>1, <2>2
  <1>3. ASSUME NEW t \in Thread, AllocPop(t) PROVE PoolInv'
    <2>1. /\ queue \in Seq(Nat) /\ queue # <<>> /\ queue' = Tail(queue)
          /\ owned' = [owned EXCEPT ![t] = @ \cup {Head(queue)}]
          /\ pc' = [pc EXCEPT ![t] = "idle"]
          /\ UNCHANGED <<offset, array_space_available>>
      BY <1>3 DEF AllocPop, Own, Goto, TypeOK
    <2>2. /\ Head(queue) \in Nat /\ Head(queue) + block_sz <= total_length
          /\ Tail(queue) \in Seq(Nat)
          /\ \A i \in DOMAIN Tail(queue) : i + 1 \in DOMAIN queue /\ Tail(queue)[i] = queue[i + 1]
      BY <2>1 DEF QueueInArray
    <2>3. TypeOK' /\ FlagOK'
      BY <2>1, <2>2 DEF TypeOK, FlagOK
    <2>4. BlocksInArray'
      BY <2>1, <2>2 DEF TypeOK, BlocksInArray
    <2>5. QueueInArray'
      BY <2>1, <2>2 DEF QueueInArray
    <2>6. QED  BY <2>3, <2>4, <2>5
  <1>4. ASSUME NEW t \in Thread, AllocFails(t) PROVE PoolInv'
    BY <1>4 DEF AllocFails, Goto, TypeOK, FlagOK, BlocksInArray, QueueInArray
  <1>5. ASSUME NEW t \in Thread, NEW b \in owned[t], mg_message_free(t, b) PROVE PoolInv'
    <2>1. /\ b \in Nat /\ b + block_sz <= total_length
          /\ queue \in Seq(Nat) /\ queue' = Append(queue, b)
          /\ owned' = [owned EXCEPT ![t] = @ \ {b}]
          /\ UNCHANGED <<pc, offset, array_space_available>>
      BY <1>5 DEF mg_message_free, TypeOK, BlocksInArray
    <2>2. /\ Append(queue, b) \in Seq(Nat)
          /\ \A i \in DOMAIN Append(queue, b) :
               Append(queue, b)[i] = b \/ (i \in DOMAIN queue /\ Append(queue, b)[i] = queue[i])
      BY <2>1
    <2>3. TypeOK' /\ FlagOK' /\ BlocksInArray'
      BY <2>1, <2>2 DEF TypeOK, FlagOK, BlocksInArray
    <2>4. QueueInArray'
      BY <2>1, <2>2 DEF QueueInArray
    <2>5. QED  BY <2>3, <2>4
  <1>6. CASE UNCHANGED vars
    BY <1>6 DEF vars, TypeOK, FlagOK, BlocksInArray, QueueInArray
  <1>7. QED  BY <1>1, <1>2, <1>3, <1>4, <1>5, <1>6 DEF Next

LEMMA PoolInvariant == Spec => []PoolInv
  <1>1. PoolInv /\ [Next]_vars => PoolInv'
    BY NextPoolInv
  <1>2. QED  BY InitPoolInv, <1>1, PTL DEF Spec

\* No block reaches beyond the array, whatever threads race for the last one
\* (magnesium.h:239-251).
THEOREM AllocInArray == Spec => []BlocksInArray
  <1>1. PoolInv => BlocksInArray
    BY DEF PoolInv
  <1>2. QED  BY PoolInvariant, <1>1, PTL

\* NULL is returned only when every block of the array has been given out, as
\* README.md:87-91 has it.
THEOREM AllocFailsWhenExhausted == Spec => NullWhenExhausted
  <1>1. PoolInv => \A t \in Thread : AllocFails(t) => Fresh = {}
    BY PoolAssumption DEF PoolInv, TypeOK, FlagOK, AllocFails, Fresh, Block
  <1>2. PoolInv /\ [Next]_vars => [\A t \in Thread : AllocFails(t) => Fresh = {}]_vars
    BY <1>1
  <1>3. QED  BY PoolInvariant, <1>2, PTL DEF Spec, NullWhenExhausted

(***************************************************************************)
(* The pool implements the one that allocates in one step.                 *)
(***************************************************************************)
\* The offset is where a block begins, and only blocks are given out and freed.
WholeBlocks ==
  /\ offset % block_sz = 0
  /\ \A t \in Thread : owned[t] \subseteq Block
  /\ queue \in Seq(Block)

\* Multiples of n are n apart.
LEMMA Multiples ==
  ASSUME NEW n \in Nat \ {0}, NEW a \in Nat, a % n = 0
  PROVE  /\ 0 % n = 0
         /\ (a + n) % n = 0
         /\ \A b \in Nat : b % n = 0 /\ b > a => b >= a + n
  <1>1. ASSUME NEW b \in Nat
        PROVE  \E j \in Nat, r \in 0..(n - 1) : r = b % n /\ b = (n * j) + r
    <2>1. b \div n \in Nat /\ b % n \in 0..(n - 1) /\ b = (n * (b \div n)) + (b % n)
      OBVIOUS
    <2>2. PICK j, r : j = b \div n /\ r = b % n
      OBVIOUS
    <2>3. j \in Nat /\ r \in 0..(n - 1) /\ b = (n * j) + r
      BY <2>1, <2>2
    <2>4. QED  BY <2>2, <2>3
  <1>2. PICK k \in Nat : a = n * k
    <2>1. PICK j \in Nat, r \in 0..(n - 1) : r = a % n /\ a = (n * j) + r
      BY <1>1
    <2>2. r = 0
      BY <2>1
    <2>3. QED  BY <2>1, <2>2
  <1>3. \A i, j \in Nat : i < j => (n * i) + n <= n * j
    OBVIOUS
  <1>4. 0 % n = 0
    OBVIOUS
  <1>5. (a + n) % n = 0
    <2>1. PICK c \in Nat : c = a + n
      OBVIOUS
    <2>2. PICK j \in Nat, r \in 0..(n - 1) : r = c % n /\ c = (n * j) + r
      BY <1>1
    <2>3. n * (k + 1) = (n * k) + n
      OBVIOUS
    <2>4. PICK m \in Nat : m = k + 1
      OBVIOUS
    <2>5. c = n * m
      BY <1>2, <2>1, <2>3, <2>4
    <2>6. /\ j < m => (n * j) + n <= n * m
          /\ m < j => (n * m) + n <= n * j
      BY <1>3
    <2>7. j = m
      <3>1. PICK x \in Nat, y \in Nat : x = n * j /\ y = n * m
        OBVIOUS
      <3>2. y = x + r /\ 0 <= r /\ r < n
        <4>1. c = (n * j) + r
          BY <2>2
        <4>2. QED  BY <2>5, <3>1, <4>1
      <3>3. ~(j < m) /\ ~(m < j)
        BY <2>6, <3>1, <3>2
      <3>4. QED  BY <3>3
    <2>8. r = 0
      BY <2>2, <2>5, <2>7
    <2>9. QED  BY <2>1, <2>2, <2>8
  <1>6. ASSUME NEW b \in Nat, b % n = 0, b > a PROVE b >= a + n
    <2>1. PICK j \in Nat, r \in 0..(n - 1) : r = b % n /\ b = (n * j) + r
      BY <1>1
    <2>2. r = 0
      BY <1>6, <2>1
    <2>3. b = n * j
      BY <2>1, <2>2
    <2>4. k < j
      BY <1>2, <1>3, <1>6, <2>3
    <2>5. QED  BY <1>2, <1>3, <2>3, <2>4
  <1>7. QED  BY <1>4, <1>5, <1>6

RefineInv == PoolInv /\ WholeBlocks

LEMMA InitRefine == Init => RefineInv /\ Pools!Init
  <1> SUFFICES ASSUME Init PROVE WholeBlocks /\ Pools!Init
    BY InitPoolInv DEF RefineInv
  <1>1. 0 % block_sz = 0
    BY PoolAssumption
  <1>2. WholeBlocks
    BY <1>1 DEF Init, WholeBlocks
  <1>3. Fresh = Block
    BY PoolAssumption DEF Init, Fresh, Block
  <1>4. QED  BY <1>2, <1>3 DEF Init, Pools!Init

\* A block of the array is given out: the first one that is left.
LEMMA ArrayStep ==
  ASSUME RefineInv, NEW t \in Thread, AllocArray(t), array_space_available
  PROVE  WholeBlocks' /\ Pools!Alloc(t)
  <1> USE PoolAssumption DEF RefineInv
  <1>1. /\ offset \in Nat /\ offset % block_sz = 0 /\ offset + block_sz <= total_length
        /\ owned' = [owned EXCEPT ![t] = @ \cup {offset}]
        /\ offset' = offset + block_sz /\ queue' = queue
    BY DEF PoolInv, TypeOK, FlagOK, WholeBlocks, AllocArray, Own
  <1>2. offset \in Fresh
    BY <1>1 DEF Fresh, Block
  <1>3. /\ (offset + block_sz) % block_sz = 0
        /\ \A b \in Nat : b % block_sz = 0 /\ b > offset => b >= offset + block_sz
    BY <1>1, Multiples
  <1>4. Fresh' = Fresh \ {offset}
    <2>1. Fresh' = {b \in Block : b >= offset + block_sz}
      BY <1>1 DEF Fresh, Block
    <2>2. \A b \in Block : b \in Nat /\ b % block_sz = 0
      BY DEF Block
    <2>3. \A b \in Block : b >= offset + block_sz <=> b >= offset /\ b # offset
      BY <1>1, <1>3, <2>2
    <2>4. QED  BY <2>1, <2>3 DEF Fresh
  <1>5. WholeBlocks'
    BY <1>1, <1>2, <1>3 DEF PoolInv, TypeOK, WholeBlocks, Fresh, Block
  <1>6. Pools!Own(t, offset)
    BY <1>1 DEF Pools!Own
  <1>7. QED  BY <1>1, <1>2, <1>4, <1>5, <1>6 DEF Pools!Alloc

\* The oldest of the freed blocks is given out, when the array has none left.
LEMMA PopStep ==
  ASSUME RefineInv, NEW t \in Thread, AllocPop(t) PROVE WholeBlocks' /\ Pools!Alloc(t)
  <1> USE PoolAssumption DEF RefineInv
  <1>1. /\ queue \in Seq(Block) /\ queue # <<>> /\ queue' = Tail(queue) /\ offset' = offset
        /\ owned' = [owned EXCEPT ![t] = @ \cup {Head(queue)}]
    BY DEF WholeBlocks, AllocPop, Own
  <1>2. Fresh = {} /\ Fresh' = Fresh
    BY <1>1 DEF PoolInv, TypeOK, FlagOK, AllocPop, Fresh, Block
  <1>3. Head(queue) \in Block /\ Tail(queue) \in Seq(Block)
    BY <1>1
  <1>4. WholeBlocks'
    BY <1>1, <1>3 DEF PoolInv, TypeOK, WholeBlocks, Block
  <1>5. Pools!Own(t, Head(queue))
    BY <1>1 DEF Pools!Own
  <1>6. QED  BY <1>1, <1>2, <1>4, <1>5 DEF Pools!Alloc

LEMMA FreeStep ==
  ASSUME RefineInv, NEW t \in Thread, NEW b \in owned[t], mg_message_free(t, b)
  PROVE  WholeBlocks' /\ b \in Block /\ Pools!Free(t, b)
  <1>1. /\ b \in Block /\ queue \in Seq(Block) /\ queue' = Append(queue, b) /\ offset' = offset
        /\ owned' = [owned EXCEPT ![t] = @ \ {b}]
    BY DEF RefineInv, WholeBlocks, mg_message_free
  <1>2. Append(queue, b) \in Seq(Block)
    BY <1>1
  <1>3. WholeBlocks'
    BY <1>1, <1>2 DEF RefineInv, PoolInv, TypeOK, WholeBlocks, Block
  <1>4. Fresh' = Fresh
    BY <1>1 DEF Fresh, Block
  <1>5. QED  BY <1>1, <1>3, <1>4 DEF Pools!Free

LEMMA StutterStep ==
  ASSUME RefineInv, UNCHANGED <<offset, queue, owned>>
  PROVE  WholeBlocks' /\ UNCHANGED <<Fresh, queue, owned>>
  BY DEF RefineInv, WholeBlocks, Fresh, Block

LEMMA RefineStep ==
  ASSUME RefineInv, [Next]_vars
  PROVE  RefineInv' /\ [Pools!Next]_<<Fresh, queue, owned>>
  <1>1. PoolInv'
    BY NextPoolInv DEF RefineInv
  <1>2. ASSUME NEW t \in Thread, AllocArray(t)
        PROVE  WholeBlocks' /\ [Pools!Next]_<<Fresh, queue, owned>>
    <2>1. CASE array_space_available
      BY <1>2, <2>1, ArrayStep DEF Pools!Next
    <2>2. CASE ~array_space_available
      BY <1>2, <2>2, StutterStep DEF AllocArray
    <2>3. QED  BY <2>1, <2>2
  <1>3. ASSUME NEW t \in Thread, AllocPop(t)
        PROVE  WholeBlocks' /\ [Pools!Next]_<<Fresh, queue, owned>>
    BY <1>3, PopStep DEF Pools!Next
  <1>4. ASSUME NEW t \in Thread, NEW b \in owned[t], mg_message_free(t, b)
        PROVE  WholeBlocks' /\ [Pools!Next]_<<Fresh, queue, owned>>
    BY <1>4, FreeStep DEF Pools!Next
  <1>5. ASSUME NEW t \in Thread, AllocStart(t) \/ AllocFails(t)
        PROVE  WholeBlocks' /\ [Pools!Next]_<<Fresh, queue, owned>>
    BY <1>5, StutterStep DEF AllocStart, AllocFails
  <1>6. ASSUME UNCHANGED vars
        PROVE  WholeBlocks' /\ [Pools!Next]_<<Fresh, queue, owned>>
    BY <1>6, StutterStep DEF vars
  <1>7. WholeBlocks' /\ [Pools!Next]_<<Fresh, queue, owned>>
    BY <1>2, <1>3, <1>4, <1>5, <1>6 DEF Next
  <1>8. QED  BY <1>1, <1>7 DEF RefineInv

\* Whatever threads race for the array and for the flag, the pool behaves like
\* one that takes a block in a single step: no block is given out twice, and none
\* is taken from the queue while the array has one (magnesium.h:236-258).
THEOREM PoolRefinement == Spec => ImplementsBlockPool
  <1>1. Init => RefineInv /\ Pools!Init
    BY InitRefine
  <1>2. RefineInv /\ [Next]_vars => RefineInv' /\ [Pools!Next]_<<Fresh, queue, owned>>
    BY RefineStep
  <1>3. QED  BY <1>1, <1>2, PTL DEF Spec, ImplementsBlockPool, Pools!Spec
=============================================================================
