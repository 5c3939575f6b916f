--------------------------- MODULE DoorbellProofs ---------------------------
(***************************************************************************)
(* No request is lost, for any processors, levels, vectors and requesters. *)
(***************************************************************************)
EXTENDS Doorbell, TLAPS

\* A context that requests has its arguments.
HasVector == \A x \in Ctx : pc[x] \in {"request", "ring"} => vect[x] \in Vector

\* The handler of the doorbell leaves no bit behind.
BitsServed == \A c \in CPU : pc[Bell(c)] # "serve" => prev[c] = {}

DoorbellInv == TypeOK /\ HasVector /\ BitsServed /\ RequestKept

LEMMA InitDoorbellInv == Init => DoorbellInv
  BY DoorbellAssumption DEF Init, DoorbellInv, TypeOK, HasVector, BitsServed, RequestKept, Ctx

LEMMA BellInCtx == \A c \in CPU : Bell(c) \in Ctx /\ Bell(c)[1] = c
  BY DoorbellAssumption DEF Bell, Ctx, Prio

LEMMA BellsDiffer == \A c, d \in CPU : Bell(c) = Bell(d) => c = d
  BY DEF Bell

\* The parts of the invariant that say where data are.
LEMMA TypeStep ==
  ASSUME DoorbellInv, [Next]_vars
  PROVE  TypeOK' /\ HasVector' /\ BitsServed'
  <1> USE DEF DoorbellInv
  <1> USE BellInCtx, BellsDiffer, DoorbellAssumption
  <1>1. ASSUME NEW x \in Ctx, NEW c \in CPU, NEW v \in Vector, Call(x, c, v)
        PROVE  TypeOK' /\ HasVector' /\ BitsServed'
    <2>1. x = <<x[1], x[2]>> /\ x[2] \in x[2]..MaxPrio
      BY DEF Ctx
    <2>2. /\ pc[x] = "idle" /\ pc' = [pc EXCEPT ![x] = "request"]
          /\ cpu' = [cpu EXCEPT ![x] = c] /\ vect' = [vect EXCEPT ![x] = v]
          /\ UNCHANGED <<ipi, bell, prev, pending, owed>>
      BY <1>1, <2>1 DEF Call, CanEnter, Goto
    <2>3. QED  BY <2>2 DEF TypeOK, HasVector, BitsServed
  <1>2. ASSUME NEW x \in Ctx, Request(x)
        PROVE  TypeOK' /\ HasVector' /\ BitsServed'
    <2>1. x[1] \in CPU
      BY DEF Ctx
    <2>2. pc[x] \in {"request", "ring"} /\ vect[x] \in Vector
      BY <1>2 DEF Request, RequestLocal, RequestRemote, Ring, At, HasVector
    <2>3. vect2prio[vect[x]] \in Prio
      BY <2>2
    <2>4. /\ \E to \in {"idle", "ring"} : pc' = [pc EXCEPT ![x] = to]
          /\ prev' = prev
          /\ \/ UNCHANGED <<cpu, vect>>
             \/ /\ cpu' = [cpu EXCEPT ![x] = x[1]] /\ vect' = [vect EXCEPT ![x] = NoVector]
                /\ pc' = [pc EXCEPT ![x] = "idle"]
      BY <1>2 DEF Request, RequestLocal, RequestRemote, Ring, Return, Goto
    <2>5. TypeOK'
      <3>1. CASE RequestLocal(x)
        <4>1. <<x[1], vect[x]>> \in CPU \X Vector
          BY <2>1, <2>2
        <4>2. QED  BY <2>1, <2>3, <3>1, <4>1 DEF RequestLocal, Return, Goto, Owe, TypeOK
      <3>2. CASE RequestRemote(x)
        BY <2>3, <3>2 DEF RequestRemote, Goto, Owe, TypeOK
      <3>3. CASE Ring(x)
        BY <2>1, <3>3 DEF Ring, Return, Goto, TypeOK
      <3>4. QED  BY <1>2, <3>1, <3>2, <3>3 DEF Request
    <2>6. QED  BY <2>2, <2>4, <2>5 DEF TypeOK, HasVector, BitsServed
  <1>3. ASSUME NEW c \in CPU, BellEnter(c)
        PROVE  TypeOK' /\ HasVector' /\ BitsServed'
    <2>1. Bell(c) = <<c, BellLevel>> /\ BellLevel \in BellLevel..MaxPrio
      BY DEF Bell, Prio
    <2>2. pc[Bell(c)] = "idle"
      BY <1>3, <2>1 DEF BellEnter, CanEnter
    <2>3. QED  BY <1>3, <2>2 DEF BellEnter, Goto, TypeOK, HasVector, BitsServed
  <1>4. ASSUME NEW c \in CPU, BellStep(c)
        PROVE  TypeOK' /\ HasVector' /\ BitsServed'
    <2>1. CASE BellClear(c)
      BY <2>1 DEF BellClear, At, Goto, TypeOK, HasVector, BitsServed
    <2>2. CASE BellExchange(c)
      BY <2>2 DEF BellExchange, At, Goto, TypeOK, HasVector, BitsServed
    <2>3. CASE BellServe(c)
      BY <2>3 DEF BellServe, At, TypeOK, HasVector, BitsServed
    <2>4. CASE BellExit(c)
      BY <2>4 DEF BellExit, At, Goto, TypeOK, HasVector, BitsServed
    <2>5. QED  BY <1>4, <2>1, <2>2, <2>3, <2>4 DEF BellStep
  <1>5. ASSUME NEW c \in CPU, NEW v \in Vector, Take(c, v)
        PROVE  TypeOK' /\ HasVector' /\ BitsServed'
    BY <1>5 DEF Take, TypeOK, HasVector, BitsServed
  <1>6. CASE UNCHANGED vars
    BY <1>6 DEF vars, TypeOK, HasVector, BitsServed
  <1>7. QED  BY <1>1, <1>2, <1>3, <1>4, <1>5, <1>6 DEF Next

LEMMA KeptStep ==
  ASSUME DoorbellInv, [Next]_vars
  PROVE  RequestKept'
  <1> USE DEF DoorbellInv
  <1> USE BellInCtx, BellsDiffer, DoorbellAssumption
  <1> DEFINE InVector(d, p) == \E v \in Vector : <<d, v>> \in pending /\ vect2prio[v] = p
  <1> SUFFICES ASSUME NEW d \in CPU, NEW p \in owed'[d]
               PROVE  InVector(d, p)' \/ p \in prev'[d] \/ (p \in ipi'[d] /\ BellComes(d)')
    BY DEF RequestKept
  <1>1. ASSUME NEW x \in Ctx, NEW c \in CPU, NEW v \in Vector, Call(x, c, v)
        PROVE  InVector(d, p)' \/ p \in prev'[d] \/ (p \in ipi'[d] /\ BellComes(d)')
    <2>1. x = <<x[1], x[2]>> /\ x[2] \in x[2]..MaxPrio
      BY DEF Ctx
    <2>2. /\ pc[x] = "idle" /\ pc' = [pc EXCEPT ![x] = "request"] /\ cpu' = [cpu EXCEPT ![x] = c]
          /\ UNCHANGED <<ipi, bell, prev, pending, owed>>
      BY <1>1, <2>1 DEF Call, CanEnter, Goto
    <2>3. BellComes(d) => BellComes(d)'
      BY <2>2 DEF BellComes, TypeOK
    <2>4. QED  BY <2>2, <2>3 DEF RequestKept
  <1>2. ASSUME NEW x \in Ctx, RequestLocal(x)
        PROVE  InVector(d, p)' \/ p \in prev'[d] \/ (p \in ipi'[d] /\ BellComes(d)')
    <2>1. x[1] \in CPU /\ pc[x] = "request" /\ vect[x] \in Vector
      BY <1>2 DEF Ctx, RequestLocal, At, HasVector
    <2>2. /\ pc' = [pc EXCEPT ![x] = "idle"] /\ cpu' = [cpu EXCEPT ![x] = x[1]]
          /\ pending' = pending \cup {<<x[1], vect[x]>>}
          /\ owed' = [owed EXCEPT ![x[1]] = @ \cup {vect2prio[vect[x]]}]
          /\ UNCHANGED <<ipi, bell, prev>>
      BY <1>2 DEF RequestLocal, Return, Owe, Goto
    <2>3. BellComes(d) => BellComes(d)'
      BY <2>1, <2>2 DEF BellComes, TypeOK
    <2>4. InVector(d, p) => InVector(d, p)'
      BY <2>2
    <2>5. CASE p \in owed[d]
      BY <2>2, <2>3, <2>4, <2>5 DEF RequestKept
    <2>6. CASE p \notin owed[d]
      <3>1. d = x[1] /\ p = vect2prio[vect[x]]
        BY <2>2, <2>6 DEF TypeOK
      <3>2. QED  BY <2>1, <2>2, <3>1
    <2>7. QED  BY <2>5, <2>6
  <1>3. ASSUME NEW x \in Ctx, RequestRemote(x)
        PROVE  InVector(d, p)' \/ p \in prev'[d] \/ (p \in ipi'[d] /\ BellComes(d)')
    <2>1. pc[x] = "request" /\ cpu[x] \in CPU
      BY <1>3 DEF RequestRemote, At, TypeOK
    <2>2. /\ pc' = [pc EXCEPT ![x] = "ring"]
          /\ ipi' = [ipi EXCEPT ![cpu[x]] = @ \cup {vect2prio[vect[x]]}]
          /\ owed' = [owed EXCEPT ![cpu[x]] = @ \cup {vect2prio[vect[x]]}]
          /\ UNCHANGED <<cpu, bell, prev, pending>>
      BY <1>3 DEF RequestRemote, Owe, Goto
    <2>3. BellComes(d) => BellComes(d)'
      BY <2>1, <2>2 DEF BellComes, TypeOK
    <2>4. ipi[d] \subseteq ipi'[d]
      BY <2>2 DEF TypeOK
    <2>5. CASE p \in owed[d]
      BY <2>2, <2>3, <2>4, <2>5 DEF RequestKept
    <2>6. CASE p \notin owed[d]
      <3>1. d = cpu[x] /\ p = vect2prio[vect[x]]
        BY <2>2, <2>6 DEF TypeOK
      <3>2. p \in ipi'[d] /\ pc'[x] = "ring" /\ cpu'[x] = d
        BY <2>1, <2>2, <3>1 DEF TypeOK
      <3>3. QED  BY <3>2 DEF BellComes
    <2>7. QED  BY <2>5, <2>6
  <1>4. ASSUME NEW x \in Ctx, Ring(x)
        PROVE  InVector(d, p)' \/ p \in prev'[d] \/ (p \in ipi'[d] /\ BellComes(d)')
    <2>1. /\ pc[x] = "ring" /\ pc' = [pc EXCEPT ![x] = "idle"] /\ cpu' = [cpu EXCEPT ![x] = x[1]]
          /\ bell' = bell \cup {cpu[x]}
          /\ UNCHANGED <<ipi, prev, pending, owed>>
      BY <1>4 DEF Ring, At, Return, Goto
    <2>2. BellComes(d) => BellComes(d)'
      BY <2>1 DEF BellComes, TypeOK
    <2>3. QED  BY <2>1, <2>2 DEF RequestKept
  <1>5. ASSUME NEW c \in CPU, BellEnter(c)
        PROVE  InVector(d, p)' \/ p \in prev'[d] \/ (p \in ipi'[d] /\ BellComes(d)')
    <2>1. Bell(c) = <<c, BellLevel>> /\ BellLevel \in BellLevel..MaxPrio
      BY DEF Bell, Prio
    <2>2. /\ pc[Bell(c)] = "idle" /\ pc' = [pc EXCEPT ![Bell(c)] = "clear"]
          /\ UNCHANGED <<cpu, ipi, bell, prev, pending, owed>>
      BY <1>5, <2>1 DEF BellEnter, CanEnter, Goto
    <2>3. BellComes(d) => BellComes(d)'
      BY <2>2 DEF BellComes, TypeOK
    <2>4. QED  BY <2>2, <2>3 DEF RequestKept
  <1>6. ASSUME NEW c \in CPU, BellClear(c)
        PROVE  InVector(d, p)' \/ p \in prev'[d] \/ (p \in ipi'[d] /\ BellComes(d)')
    <2>1. /\ pc[Bell(c)] = "clear" /\ pc' = [pc EXCEPT ![Bell(c)] = "exchange"]
          /\ bell' = bell \ {c}
          /\ UNCHANGED <<cpu, ipi, prev, pending, owed>>
      BY <1>6 DEF BellClear, At, Goto
    <2>2. BellComes(d) => BellComes(d)'
      <3>1. CASE d = c
        BY <2>1, <3>1 DEF BellComes, TypeOK
      <3>2. CASE d # c
        BY <2>1, <3>2 DEF BellComes, TypeOK
      <3>3. QED  BY <3>1, <3>2
    <2>3. QED  BY <2>1, <2>2 DEF RequestKept
  <1>7. ASSUME NEW c \in CPU, BellExchange(c)
        PROVE  InVector(d, p)' \/ p \in prev'[d] \/ (p \in ipi'[d] /\ BellComes(d)')
    <2>1. /\ pc[Bell(c)] = "exchange" /\ pc' = [pc EXCEPT ![Bell(c)] = "serve"]
          /\ prev' = [prev EXCEPT ![c] = ipi[c]] /\ ipi' = [ipi EXCEPT ![c] = {}]
          /\ UNCHANGED <<cpu, bell, pending, owed>>
      BY <1>7 DEF BellExchange, At, Goto
    <2>2. CASE d = c
      <3>1. prev[d] = {} /\ prev'[d] = ipi[d]
        BY <2>1, <2>2 DEF BitsServed, TypeOK
      <3>2. QED  BY <2>1, <3>1 DEF RequestKept
    <2>3. CASE d # c
      <3>1. BellComes(d) => BellComes(d)'
        BY <2>1, <2>3 DEF BellComes, TypeOK
      <3>2. ipi'[d] = ipi[d] /\ prev'[d] = prev[d]
        BY <2>1, <2>3 DEF TypeOK
      <3>3. QED  BY <2>1, <3>1, <3>2 DEF RequestKept
    <2>4. QED  BY <2>2, <2>3
  <1>8. ASSUME NEW c \in CPU, BellServe(c)
        PROVE  InVector(d, p)' \/ p \in prev'[d] \/ (p \in ipi'[d] /\ BellComes(d)')
    <2>1. PICK q \in prev[c] : /\ prev' = [prev EXCEPT ![c] = @ \ {q}]
                               /\ pending' = pending \cup {<<c, prio2vect[q]>>}
      BY <1>8 DEF BellServe
    <2>2. UNCHANGED <<pc, cpu, ipi, bell, owed>>
      BY <1>8 DEF BellServe
    <2>3. BellComes(d) => BellComes(d)'
      BY <2>2 DEF BellComes
    <2>4. InVector(d, p) => InVector(d, p)'
      BY <2>1
    <2>5. p \in prev[d] => p \in prev'[d] \/ InVector(d, p)'
      <3>1. CASE d = c /\ p = q
        <4>1. q \in Prio /\ prio2vect[q] \in Vector /\ vect2prio[prio2vect[q]] = q
          BY DEF TypeOK
        <4>2. QED  BY <2>1, <3>1, <4>1
      <3>2. CASE d # c \/ p # q
        BY <2>1, <3>2 DEF TypeOK
      <3>3. QED  BY <3>1, <3>2
    <2>6. QED  BY <2>2, <2>3, <2>4, <2>5 DEF RequestKept
  <1>9. ASSUME NEW c \in CPU, BellExit(c)
        PROVE  InVector(d, p)' \/ p \in prev'[d] \/ (p \in ipi'[d] /\ BellComes(d)')
    <2>1. /\ pc[Bell(c)] = "serve" /\ pc' = [pc EXCEPT ![Bell(c)] = "idle"]
          /\ UNCHANGED <<cpu, ipi, bell, prev, pending, owed>>
      BY <1>9 DEF BellExit, At, Goto
    <2>2. BellComes(d) => BellComes(d)'
      BY <2>1 DEF BellComes, TypeOK
    <2>3. QED  BY <2>1, <2>2 DEF RequestKept
  <1>10. ASSUME NEW c \in CPU, NEW v \in Vector, Take(c, v)
         PROVE  InVector(d, p)' \/ p \in prev'[d] \/ (p \in ipi'[d] /\ BellComes(d)')
    <2>1. /\ pending' = pending \ {<<c, v>>}
          /\ owed' = [owed EXCEPT ![c] = @ \ {vect2prio[v]}]
          /\ UNCHANGED <<pc, cpu, ipi, bell, prev>>
      BY <1>10 DEF Take
    <2>2. p \in owed[d] /\ (d = c => p # vect2prio[v])
      BY <2>1 DEF TypeOK
    <2>3. InVector(d, p) => InVector(d, p)'
      BY <2>1, <2>2
    <2>4. BellComes(d) => BellComes(d)'
      BY <2>1 DEF BellComes
    <2>5. QED  BY <2>1, <2>2, <2>3, <2>4 DEF RequestKept
  <1>11. CASE UNCHANGED vars
    BY <1>11 DEF vars, RequestKept, BellComes
  <1>12. QED
    BY <1>1, <1>2, <1>3, <1>4, <1>5, <1>6, <1>7, <1>8, <1>9, <1>10, <1>11
       DEF Next, Request, BellStep

\* What the handlers of interrupts and doorbells keep of each other's state.
THEOREM DoorbellInvariant == Spec => []DoorbellInv
  <1>1. DoorbellInv /\ [Next]_vars => DoorbellInv'
    BY TypeStep, KeptStep DEF DoorbellInv
  <1>2. QED  BY InitDoorbellInv, <1>1, PTL DEF Spec

\* Request bits, doorbells and pending interrupts are those of the processors,
\* levels and vectors there are, at every step of mg_ipi_request and its handler.
THEOREM DoorbellTypes == Spec => []TypeOK
  <1>1. DoorbellInv => TypeOK
    BY DEF DoorbellInv
  <1>2. QED  BY DoorbellInvariant, <1>1, PTL

\* An interrupt requested on any processor, from any context, is never lost on
\* its way (rp2350_arm_cmsis/main.c:23-36).
THEOREM RequestsKept == Spec => []RequestKept
  <1>1. DoorbellInv => RequestKept
    BY DEF DoorbellInv
  <1>2. QED  BY DoorbellInvariant, <1>1, PTL
=============================================================================
