----------------------------- MODULE FifoProofs -----------------------------
(***************************************************************************)
(* The intrusive lists represent sequences, for any fifos and nodes.       *)
(***************************************************************************)
EXTENDS Fifo, TLAPS

FifoInv == TypeOK /\ Represents /\ LinkedOnce

LEMMA InitFifoInv == Init => FifoInv
  BY FifoAssumption DEF Init, FifoInv, TypeOK, Represents, Chains, LinkedOnce

\* What Tail does to a sequence, element by element.
LEMMA TailFacts ==
  ASSUME NEW S, NEW q \in Seq(S), q # <<>>
  PROVE  /\ Tail(q) \in Seq(S)
         /\ Len(q) \in Nat /\ Len(q) >= 1 /\ Len(Tail(q)) = Len(q) - 1
         /\ \A i \in 1..(Len(q) - 1) : Tail(q)[i] = q[i + 1] /\ i + 1 \in DOMAIN q
         /\ DOMAIN q = 1..Len(q)
         /\ Tail(q) = <<>> <=> Len(q) = 1
  <1>1. /\ Tail(q) \in Seq(S) /\ Len(q) \in Nat /\ Len(q) >= 1 /\ Len(Tail(q)) = Len(q) - 1
        /\ \A i \in 1..(Len(q) - 1) : Tail(q)[i] = q[i + 1] /\ i + 1 \in DOMAIN q
        /\ DOMAIN q = 1..Len(q)
    OBVIOUS
  <1>2. \A t \in Seq(S) : t = <<>> <=> Len(t) = 0
    OBVIOUS
  <1>3. Tail(q) = <<>> <=> Len(Tail(q)) = 0
    BY <1>1, <1>2, Zenon
  <1>4. Len(Tail(q)) = 0 <=> Len(q) = 1
    BY <1>1
  <1>5. QED  BY <1>1, <1>3, <1>4, Zenon

\* A nonempty fifo has its oldest node next to the dummy.
LEMMA NotEmpty ==
  ASSUME FifoInv, NEW f \in Fifo
  PROVE  /\ list[f] \in Seq(Node)
         /\ mg_fifo_empty(f) <=> list[f] = <<>>
         /\ \A i \in DOMAIN list[f] : list[f][i] \in Node
  <1>1. list[f] \in Seq(Node) /\ Chains(f, list[f])
    BY DEF FifoInv, TypeOK, Represents
  <1>2. \A i \in DOMAIN list[f] : list[f][i] \in Node
    BY <1>1
  <1>3. CASE list[f] = <<>>
    BY <1>1, <1>3 DEF Chains, mg_fifo_empty
  <1>4. CASE list[f] # <<>>
    <2>1. Len(list[f]) \in DOMAIN list[f]
      BY <1>1, <1>4
    <2>2. tail[f] \in Node
      BY <1>1, <1>2, <1>4, <2>1 DEF Chains
    <2>3. QED  BY <1>1, <1>2, <1>4, <2>2, FifoAssumption DEF mg_fifo_empty
  <1>5. QED  BY <1>1, <1>2, <1>3, <1>4

LEMMA EnqueueInv ==
  ASSUME FifoInv, NEW f \in Fifo, NEW n \in Node, mg_fifo_enqueue(f, n)
  PROVE  FifoInv'
  <1> USE DEF FifoInv
  <1> DEFINE s == list[f]
  <1>1. /\ ~Linked(n) /\ tail' = [tail EXCEPT ![f] = n]
        /\ next' = [next EXCEPT ![n] = NULL, ![tail[f]] = n]
        /\ list' = [list EXCEPT ![f] = Append(s, n)]
    BY DEF mg_fifo_enqueue
  <1>2. s \in Seq(Node) /\ Chains(f, s)
    BY DEF TypeOK, Represents
  <1>3. \A g \in Fifo : /\ list[g] \in Seq(Node)
                        /\ \A i \in DOMAIN list[g] : list[g][i] \in Node \ {n}
    BY <1>1, NotEmpty DEF Linked
  <1>4. tail[f] \in (Fifo \cup Node) \ {n}
    <2>1. CASE s = <<>>
      BY <1>2, <2>1, FifoAssumption DEF Chains
    <2>2. CASE s # <<>>
      <3>1. Len(s) \in DOMAIN s
        BY <1>2, <2>2
      <3>2. QED  BY <1>2, <1>3, <2>2, <3>1 DEF Chains
    <2>3. QED  BY <2>1, <2>2
  <1>5. TypeOK'
    <2>1. Append(s, n) \in Seq(Node)
      BY <1>2
    <2>2. QED  BY <1>1, <1>4, <2>1 DEF TypeOK
  <1>6. /\ next'[n] = NULL /\ next'[tail[f]] = n
        /\ \A p \in (Fifo \cup Node) \ {n, tail[f]} : next'[p] = next[p]
    BY <1>1, <1>4 DEF TypeOK
  <1>7. ASSUME NEW g \in Fifo, g # f PROVE Chains(g, list[g])'
    <2>1. /\ list'[g] = list[g] /\ tail'[g] = tail[g] /\ Chains(g, list[g])
      BY <1>1, <1>7 DEF TypeOK, Represents
    <2>2. g # tail[f] /\ g # n
      <3>1. CASE s = <<>>
        BY <1>2, <1>7, <3>1, FifoAssumption DEF Chains
      <3>2. CASE s # <<>>
        <4>1. Len(s) \in DOMAIN s
          BY <1>2, <3>2
        <4>2. QED  BY <1>2, <1>3, <3>2, <4>1, FifoAssumption DEF Chains
      <3>3. QED  BY <3>1, <3>2
    <2>3. \A i \in DOMAIN list[g] : list[g][i] # tail[f] /\ list[g][i] # n
      <3>1. CASE s = <<>>
        BY <1>2, <1>3, <3>1, FifoAssumption DEF Chains
      <3>2. CASE s # <<>>
        <4>1. Len(s) \in DOMAIN s
          BY <1>2, <3>2
        <4>2. QED  BY <1>2, <1>3, <1>7, <3>2, <4>1 DEF Chains, LinkedOnce
      <3>3. QED  BY <3>1, <3>2
    <2>4. next'[g] = next[g] /\ \A i \in DOMAIN list[g] : next'[list[g][i]] = next[list[g][i]]
      BY <1>3, <1>6, <2>2, <2>3
    <2>5. list[g] \in Seq(Node)
      BY <1>3
    <2>6. QED  BY <2>1, <2>4, <2>5 DEF Chains
  <1>8. Chains(f, list[f])'
    <2> DEFINE t == Append(s, n)
    <2>1. /\ list'[f] = t /\ t # <<>> /\ Len(t) = Len(s) + 1 /\ Len(s) \in Nat
          /\ t[Len(t)] = n /\ \A i \in 1..Len(s) : t[i] = s[i] /\ i \in DOMAIN s
      <3>1. list'[f] = t
        BY <1>1 DEF TypeOK
      <3>2. s \in Seq(Node) /\ n \in Node
        BY <1>2
      <3>3. /\ t # <<>> /\ Len(t) = Len(s) + 1 /\ Len(s) \in Nat /\ t[Len(t)] = n
            /\ \A i \in 1..Len(s) : t[i] = s[i] /\ i \in DOMAIN s
        <4>1. ASSUME NEW q \in Seq(Node)
              PROVE  /\ Append(q, n) # <<>> /\ Len(Append(q, n)) = Len(q) + 1 /\ Len(q) \in Nat
                     /\ Append(q, n)[Len(Append(q, n))] = n
                     /\ \A i \in 1..Len(q) : Append(q, n)[i] = q[i] /\ i \in DOMAIN q
          OBVIOUS
        <4>2. QED  BY <3>2, <4>1, Zenon
      <3>4. QED  BY <3>1, <3>3, Zenon
    <2>2. tail'[f] = n /\ next'[n] = NULL
      BY <1>1, <1>6 DEF TypeOK
    <2> HIDE DEF t
    <2>3. CASE s = <<>>
      <3>1. next'[f] = n
        BY <1>2, <1>6, <2>3 DEF Chains
      <3>2. Len(s) = 0
        BY <2>3
      <3>3. QED  BY <2>1, <2>2, <3>1, <3>2 DEF Chains
    <2>4. CASE s # <<>>
      <3>1. Len(s) \in 1..Len(s) /\ 1 \in 1..Len(s)
        BY <1>2, <2>4
      <3>2. tail[f] = s[Len(s)] /\ next[f] = s[1]
        BY <1>2, <2>4 DEF Chains
      <3>3. next'[f] = t[1]
        <4>1. f # n /\ f # tail[f]
          BY <1>3, <2>1, <3>1, <3>2, FifoAssumption
        <4>2. QED  BY <1>6, <2>1, <3>1, <3>2, <4>1
      <3>4. ASSUME NEW i \in 1..(Len(t) - 1) PROVE next'[t[i]] = t[i + 1]
        <4>1. i \in 1..Len(s) /\ i \in DOMAIN s /\ t[i] = s[i]
          BY <2>1
        <4>2. CASE i = Len(s)
          BY <1>6, <2>1, <3>2, <4>1, <4>2
        <4>3. CASE i # Len(s)
          <5>1. i \in 1..(Len(s) - 1) /\ i + 1 \in 1..Len(s)
            BY <2>1, <4>1, <4>3
          <5>2. s[i] # tail[f] /\ s[i] \in Node \ {n}
            BY <1>3, <2>1, <3>1, <3>2, <4>1, <4>3 DEF LinkedOnce
          <5>3. next'[s[i]] = next[s[i]] /\ next[s[i]] = s[i + 1]
            BY <1>2, <1>6, <5>1, <5>2 DEF Chains
          <5>4. QED  BY <2>1, <4>1, <5>1, <5>3
        <4>4. QED  BY <4>2, <4>3
      <3>5. QED  BY <2>1, <2>2, <3>3, <3>4 DEF Chains
    <2>5. QED  BY <2>3, <2>4
  <1>9. Represents'
    BY <1>7, <1>8 DEF Represents
  <1>10. LinkedOnce'
    <2>1. \A g \in Fifo : \A i \in DOMAIN list'[g] :
            \/ i \in DOMAIN list[g] /\ list'[g][i] = list[g][i]
            \/ g = f /\ i = Len(s) + 1 /\ list'[g][i] = n
      BY <1>1, <1>2 DEF TypeOK
    <2>2. QED  BY <1>3, <2>1 DEF LinkedOnce
  <1>11. QED  BY <1>5, <1>9, <1>10

LEMMA DequeueInv ==
  ASSUME FifoInv, NEW f \in Fifo, mg_fifo_dequeue(f)
  PROVE  FifoInv'
  <1> USE DEF FifoInv
  <1> DEFINE s == list[f]
             head == next[f]
  <1>1. /\ s \in Seq(Node) /\ s # <<>> /\ Chains(f, s)
        /\ \A g \in Fifo : list[g] \in Seq(Node) /\ \A i \in DOMAIN list[g] : list[g][i] \in Node
    BY NotEmpty DEF mg_fifo_dequeue, Represents
  <1>2. /\ next' = [next EXCEPT ![f] = next[head]]
        /\ tail' = IF next[head] = NULL THEN [tail EXCEPT ![f] = f] ELSE tail
        /\ list' = [list EXCEPT ![f] = Tail(s)]
    BY DEF mg_fifo_dequeue
  <1>3. /\ Len(s) \in Nat /\ Len(s) >= 1
        /\ Tail(s) \in Seq(Node) /\ Len(Tail(s)) = Len(s) - 1
        /\ \A i \in 1..(Len(s) - 1) : Tail(s)[i] = s[i + 1] /\ i + 1 \in DOMAIN s
        /\ DOMAIN s = 1..Len(s)
        /\ Tail(s) = <<>> <=> Len(s) = 1
    BY <1>1, TailFacts, Zenon
  <1>4. head = s[1] /\ head \in Node
    BY <1>1, <1>3 DEF Chains
  <1>5. TypeOK'
    BY <1>2, <1>3, <1>4 DEF TypeOK
  <1>6. \A p \in Fifo \cup Node : p # f => next'[p] = next[p]
    BY <1>2 DEF TypeOK
  <1>7. ASSUME NEW g \in Fifo, g # f PROVE Chains(g, list[g])'
    <2>1. list'[g] = list[g] /\ tail'[g] = tail[g] /\ next'[g] = next[g] /\ Chains(g, list[g])
      BY <1>2, <1>7 DEF TypeOK, Represents
    <2>2. \A i \in DOMAIN list[g] : next'[list[g][i]] = next[list[g][i]]
      BY <1>1, <1>6, FifoAssumption
    <2>3. QED  BY <1>1, <2>1, <2>2 DEF Chains
  <1>8. Chains(f, list[f])'
    <2> DEFINE t == Tail(s)
    <2>1. /\ list'[f] = t /\ Len(t) = Len(s) - 1 /\ (t = <<>> <=> Len(s) = 1)
          /\ \A i \in 1..(Len(s) - 1) : t[i] = s[i + 1]
      BY <1>2, <1>3 DEF TypeOK
    <2>2. \A i \in DOMAIN s : next'[s[i]] = next[s[i]]
      BY <1>1, <1>6, FifoAssumption
    <2>3. /\ next'[f] = next[head]
          /\ tail'[f] = IF next[head] = NULL THEN f ELSE tail[f]
      BY <1>2 DEF TypeOK
    <2>4. /\ tail[f] = s[Len(s)] /\ next[s[Len(s)]] = NULL
          /\ \A i \in 1..(Len(s) - 1) : next[s[i]] = s[i + 1]
      BY <1>1 DEF Chains
    <2> HIDE DEF t
    <2>5. CASE Len(s) = 1
      <3>1. next[head] = NULL /\ t = <<>> /\ Len(t) = 0
        BY <1>4, <2>1, <2>4, <2>5
      <3>2. QED  BY <2>1, <2>3, <3>1 DEF Chains
    <2>6. CASE Len(s) > 1
      <3>1. next[head] = s[2] /\ s[2] \in Node /\ t # <<>> /\ t[1] = s[2]
        BY <1>1, <1>3, <1>4, <2>1, <2>4, <2>6
      <3>2. next'[f] = t[1] /\ tail'[f] = tail[f]
        BY <2>3, <3>1, FifoAssumption
      <3>3. t[Len(t)] = s[Len(s)] /\ Len(s) \in DOMAIN s
        <4>1. Len(s) - 1 \in 1..(Len(s) - 1) /\ Len(s) - 1 + 1 = Len(s)
          BY <1>3, <2>6
        <4>2. QED  BY <1>3, <2>1, <4>1
      <3>4. ASSUME NEW i \in 1..(Len(t) - 1) PROVE next'[t[i]] = t[i + 1]
        <4>1. /\ i + 1 \in 1..(Len(s) - 1) /\ i + 1 \in DOMAIN s
              /\ t[i] = s[i + 1] /\ t[i + 1] = s[i + 1 + 1]
          BY <1>3, <2>1
        <4>2. QED  BY <2>2, <2>4, <4>1
      <3>5. next'[t[Len(t)]] = NULL
        BY <2>2, <2>4, <3>3
      <3>6. QED  BY <2>1, <2>4, <3>1, <3>2, <3>3, <3>4, <3>5 DEF Chains
    <2>7. QED  BY <1>3, <2>5, <2>6
  <1>9. Represents'
    BY <1>7, <1>8 DEF Represents
  <1>10. LinkedOnce'
    <2>1. \A g \in Fifo : \A i \in DOMAIN list'[g] :
            \/ g # f /\ i \in DOMAIN list[g] /\ list'[g][i] = list[g][i]
            \/ g = f /\ i + 1 \in DOMAIN list[g] /\ i \in Nat /\ list'[g][i] = list[g][i + 1]
      BY <1>2, <1>3 DEF TypeOK
    <2>2. ASSUME NEW g \in Fifo, NEW h \in Fifo,
                 NEW i \in DOMAIN list'[g], NEW j \in DOMAIN list'[h],
                 list'[g][i] = list'[h][j]
          PROVE  g = h /\ i = j
      <3>1. CASE g = f /\ h = f
        <4>1. i + 1 = j + 1 /\ i \in Nat /\ j \in Nat
          BY <2>1, <2>2, <3>1 DEF LinkedOnce
        <4>2. QED  BY <3>1, <4>1
      <3>2. CASE g # f \/ h # f
        BY <2>1, <2>2, <3>2 DEF LinkedOnce
      <3>3. QED  BY <3>1, <3>2
    <2>3. QED  BY <2>2 DEF LinkedOnce
  <1>11. QED  BY <1>5, <1>9, <1>10

\* The pointers of every fifo represent the sequence of its nodes: the lists
\* that module Kernel takes for sequences are sequences (magnesium.h:63-93).
THEOREM FifoRepresents == Spec => []Represents
  <1>1. FifoInv /\ [Next]_vars => FifoInv'
    <2> SUFFICES ASSUME FifoInv, [Next]_vars PROVE FifoInv'
      OBVIOUS
    <2>1. CASE Next
      BY <2>1, EnqueueInv, DequeueInv DEF Next
    <2>2. CASE UNCHANGED vars
      BY <2>2 DEF vars, FifoInv, TypeOK, Represents, Chains, LinkedOnce
    <2>3. QED  BY <2>1, <2>2
  <1>2. FifoInv => Represents
    BY DEF FifoInv
  <1>3. QED  BY InitFifoInv, <1>1, <1>2, PTL DEF Spec
=============================================================================
