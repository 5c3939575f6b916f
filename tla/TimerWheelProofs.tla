-------------------------- MODULE TimerWheelProofs --------------------------
(***************************************************************************)
(* The timer queues, for every number of bits of the tick counter, every   *)
(* MG_TIMERQ_MAX and any number of actors: each sleeper is in the queue of *)
(* the highest bit in which its due time differs from the counter, the     *)
(* loop of a tick reaches its stop, the queues implement the alarms, and   *)
(* the port without an instruction for it finds the same queue.            *)
(***************************************************************************)
EXTENDS TimerWheel, SequenceTheorems, WellFoundedInduction, TLAPS

(***************************************************************************)
(* Powers of two.                                                          *)
(***************************************************************************)
\* The least number principle, for sets.
LEMMA Least ==
  ASSUME NEW T \in SUBSET Nat, T # {}
  PROVE  \E x \in T : \A y \in T : x <= y
  <1>1. PICK x \in T : \A y \in T : ~(<<y,x>> \in OpToRel(<, Nat))
    BY NatLessThanWellFounded, WFMin
  <1>2. \A a, b \in Nat : <<a, b>> \in OpToRel(<, Nat) <=> a < b
    BY DEF OpToRel
  <1>3. ASSUME NEW y \in T PROVE x <= y
    <2>1. ~(y < x)
      BY <1>1, <1>2
    <2>2. QED  BY <2>1
  <1>4. QED  BY <1>3

\* Induction, for sets.
LEMMA Steps ==
  ASSUME NEW T \in SUBSET Nat, 0 \in T, \A n \in T : n + 1 \in T
  PROVE  T = Nat
  <1>1. SUFFICES ASSUME Nat \ T # {} PROVE FALSE
    OBVIOUS
  <1>2. PICK n \in Nat \ T : \A m \in Nat \ T : n <= m
    <2>1. (Nat \ T) \in SUBSET Nat
      OBVIOUS
    <2>2. QED  BY <1>1, <2>1, Least
  <1>3. n # 0 /\ n - 1 \in Nat
    BY <1>2
  <1>4. n - 1 \in T
    BY <1>2, <1>3
  <1>5. n - 1 + 1 = n
    BY <1>2
  <1>6. QED  BY <1>2, <1>4, <1>5

\* The powers of two up to n.
Upto(f, n) == f = [k \in 0..n |-> IF k = 0 THEN 1 ELSE 2 * f[k - 1]]

LEMMA UptoExists == \A n \in Nat : \E f : Upto(f, n)
  <1> DEFINE T == {n \in Nat : \E f : Upto(f, n)}
  <1>1. 0 \in T
    <2>1. Upto([k \in 0..0 |-> 1], 0)
      BY DEF Upto
    <2>2. QED  BY <2>1
  <1>2. ASSUME NEW n \in T PROVE n + 1 \in T
    <2>1. PICK f : Upto(f, n)
      OBVIOUS
    <2>2. DEFINE g == [k \in 0..(n + 1) |-> IF k = 0 THEN 1 ELSE 2 * f[k - 1]]
    <2>3. \A k \in 0..n : g[k] = f[k]
      BY <2>1 DEF Upto
    <2>4. \A k \in 0..(n + 1) : k # 0 => k - 1 \in 0..n
      OBVIOUS
    <2>5. Upto(g, n + 1)
      BY <2>3, <2>4 DEF Upto
    <2>6. QED  BY <2>5
  <1> HIDE DEF T
  <1>3. T = Nat
    <2>1. T \in SUBSET Nat
      BY DEF T
    <2>2. QED  BY <1>1, <1>2, <2>1, Steps
  <1>4. QED  BY <1>3 DEF T

LEMMA UptoAgree ==
  ASSUME NEW m \in Nat, NEW n \in Nat, m <= n, NEW f, NEW g, Upto(f, m), Upto(g, n)
  PROVE  \A k \in 0..m : f[k] = g[k]
  <1> DEFINE T == {k \in Nat : k \in 0..m => f[k] = g[k]}
  <1>1. 0 \in T
    BY DEF Upto
  <1>2. ASSUME NEW k \in T PROVE k + 1 \in T
    <2>1. k + 1 \in 0..m => k \in 0..m /\ k + 1 \in 0..n /\ k + 1 # 0 /\ k + 1 - 1 = k
      OBVIOUS
    <2>2. k + 1 \in 0..m => f[k + 1] = 2 * f[k] /\ g[k + 1] = 2 * g[k]
      BY <2>1 DEF Upto
    <2>3. QED  BY <2>1, <2>2
  <1> HIDE DEF T
  <1>3. T = Nat
    <2>1. T \in SUBSET Nat
      BY DEF T
    <2>2. QED  BY <1>1, <1>2, <2>1, Steps
  <1>4. QED  BY <1>3 DEF T

\* Pow2 is what its recursive definition says.
LEMMA Pow2Def == Pow2 = [k \in Nat |-> IF k = 0 THEN 1 ELSE 2 * Pow2[k - 1]]
  <1> DEFINE u(n) == CHOOSE f : Upto(f, n)
             h == [k \in Nat |-> u(k)[k]]
  <1>1. \A n \in Nat : Upto(u(n), n)
    BY UptoExists
  <1> HIDE DEF u
  <1>2. ASSUME NEW k \in Nat PROVE h[k] = IF k = 0 THEN 1 ELSE 2 * h[k - 1]
    <2>1. CASE k = 0
      BY <1>1, <2>1 DEF Upto
    <2>2. CASE k # 0
      <3>1. k - 1 \in Nat /\ k - 1 <= k /\ k \in 0..k /\ k - 1 \in 0..(k - 1)
        BY <2>2
      <3>2. u(k)[k] = 2 * u(k)[k - 1]
        BY <1>1, <2>2, <3>1 DEF Upto
      <3>3. u(k - 1)[k - 1] = u(k)[k - 1]
        BY <1>1, <3>1, UptoAgree
      <3>4. QED  BY <2>2, <3>1, <3>2, <3>3
    <2>3. QED  BY <2>1, <2>2
  <1> HIDE DEF h
  <1>3. h = [k \in Nat |-> IF k = 0 THEN 1 ELSE 2 * h[k - 1]]
    <2>1. h = [k \in Nat |-> h[k]]
      BY DEF h
    <2>2. QED  BY <1>2, <2>1
  <1>4. QED  BY <1>3 DEF Pow2

LEMMA Powers ==
  /\ Pow2[0] = 1
  /\ \A k \in Nat : Pow2[k + 1] = 2 * Pow2[k] /\ Pow2[k] \in Nat \ {0}
  <1> DEFINE T == {k \in Nat : Pow2[k] \in Nat \ {0}}
  <1>1. Pow2[0] = 1
    BY Pow2Def
  <1>2. ASSUME NEW k \in Nat PROVE Pow2[k + 1] = 2 * Pow2[k]
    <2>1. k + 1 \in Nat /\ k + 1 # 0 /\ k + 1 - 1 = k
      OBVIOUS
    <2>2. QED  BY <2>1, Pow2Def
  <1>3. 0 \in T
    BY <1>1
  <1>4. ASSUME NEW k \in T PROVE k + 1 \in T
    BY <1>2
  <1> HIDE DEF T
  <1>5. T = Nat
    <2>1. T \in SUBSET Nat
      BY DEF T
    <2>2. QED  BY <1>3, <1>4, <2>1, Steps
  <1>6. QED  BY <1>1, <1>2, <1>5 DEF T

-----------------------------------------------------------------------------
(***************************************************************************)
(* Division.                                                               *)
(***************************************************************************)
LEMMA Products ==
  ASSUME NEW n \in Nat, NEW a \in Int, NEW b \in Int, a < b
  PROVE  a * n + n <= b * n
  <1>1. PICK d \in Nat : b = a + 1 + d
    <2>1. b - a - 1 \in Nat /\ b = a + 1 + (b - a - 1)
      OBVIOUS
    <2>2. QED  BY <2>1
  <1>2. (a + 1 + d) * n = a * n + n + d * n
    BY <1>1
  <1>3. d * n \in Nat /\ a * n \in Int
    BY <1>1
  <1>4. QED  BY <1>1, <1>2, <1>3

LEMMA Divide ==
  ASSUME NEW n \in Nat \ {0}, NEW x \in Int
  PROVE  /\ x \div n \in Int /\ x % n \in 0..(n - 1)
         /\ x = (x \div n) * n + (x % n)
  <1>1. x \div n \in Int /\ x % n \in 0..(n - 1) /\ x = (n * (x \div n)) + (x % n)
    OBVIOUS
  <1>2. n * (x \div n) = (x \div n) * n
    BY <1>1
  <1>3. QED  BY <1>1, <1>2

LEMMA DivideParts ==
  ASSUME NEW n \in Nat \ {0}, NEW x \in Int
  PROVE  \E q \in Int, r \in 0..(n - 1) : q = x \div n /\ r = x % n /\ x = q * n + r
  <1>1. PICK q, r : q = x \div n /\ r = x % n
    OBVIOUS
  <1>2. q \in Int /\ r \in 0..(n - 1) /\ x = q * n + r
    BY <1>1, Divide
  <1>3. QED  BY <1>1, <1>2

LEMMA DivideUnique ==
  ASSUME NEW n \in Nat \ {0}, NEW q \in Int, NEW r \in 0..(n - 1), NEW x \in Int,
         x = q * n + r
  PROVE  x \div n = q /\ x % n = r
  <1>1. PICK u \in Int, v \in 0..(n - 1) : u = x \div n /\ v = x % n /\ x = u * n + v
    BY DivideParts
  <1>2. q * n \in Int /\ u * n \in Int
    OBVIOUS
  <1>3. ~(u < q)
    <2>1. u < q => u * n + n <= q * n
      BY Products
    <2>2. QED  BY <1>1, <1>2, <2>1
  <1>4. ~(q < u)
    <2>1. q < u => q * n + n <= u * n
      BY Products
    <2>2. QED  BY <1>1, <1>2, <2>1
  <1>5. u = q
    BY <1>3, <1>4
  <1>6. v = r
    <2>1. PICK m \in Int : m = q * n
      BY <1>2
    <2>2. x = m + r /\ x = m + v
      BY <1>1, <1>5, <2>1
    <2>3. QED  BY <2>2
  <1>7. QED  BY <1>1, <1>5, <1>6

LEMMA DivideNat ==
  ASSUME NEW n \in Nat \ {0}, NEW x \in Nat
  PROVE  x \div n \in Nat
  <1>1. PICK q \in Int, r \in 0..(n - 1) : q = x \div n /\ x = q * n + r
    BY DivideParts
  <1>2. q < 0 => q * n + n <= 0 * n
    BY Products
  <1>3. 0 * n = 0 /\ q * n \in Int
    OBVIOUS
  <1>4. ~(q < 0)
    BY <1>1, <1>2, <1>3
  <1>5. QED  BY <1>1, <1>4

\* x and y have the same bits from k upwards.
SameFrom(x, y, k) == x \div Pow2[k] = y \div Pow2[k]

LEMMA DivideTwice ==
  ASSUME NEW x \in Nat, NEW k \in Nat
  PROVE  x \div Pow2[k + 1] = (x \div Pow2[k]) \div 2
  <1>1. PICK n \in Nat \ {0} : n = Pow2[k] /\ Pow2[k + 1] = 2 * n /\ 2 * n \in Nat \ {0}
    BY Powers
  <1>2. PICK a \in Int, r \in 0..(n - 1) : a = x \div n /\ x = a * n + r
    BY DivideParts
  <1>3. PICK u \in Int, e \in 0..1 : u = a \div 2 /\ a = u * 2 + e
    BY DivideParts
  <1>4. x = u * (2 * n) + (e * n + r)
    <2>1. (u * 2 + e) * n = u * (2 * n) + e * n
      OBVIOUS
    <2>2. PICK p \in Int, m \in Int : p = u * (2 * n) /\ m = e * n /\ a * n = p + m
      BY <1>3, <2>1
    <2>3. x = (p + m) + r
      BY <1>2, <2>2
    <2>4. QED  BY <2>2, <2>3
  <1>5. e * n + r \in 0..((2 * n) - 1)
    <2>1. e = 0 \/ e = 1
      BY <1>3
    <2>2. e * n = 0 \/ e * n = n
      BY <2>1
    <2>3. PICK m \in Nat : m = e * n /\ (m = 0 \/ m = n)
      BY <2>2
    <2>4. QED  BY <2>3
  <1>6. x \div (2 * n) = u
    <2>1. PICK w \in Nat \ {0} : w = 2 * n
      BY <1>1
    <2>2. PICK s \in 0..(w - 1) : s = e * n + r
      BY <1>5, <2>1
    <2>3. x = u * w + s
      BY <1>4, <2>1, <2>2
    <2>4. x \div w = u
      BY <2>3, DivideUnique
    <2>5. QED  BY <2>1, <2>4
  <1>7. QED  BY <1>1, <1>2, <1>3, <1>6

LEMMA SameUpward ==
  ASSUME NEW x \in Nat, NEW y \in Nat, NEW i \in Nat, NEW j \in Nat, i <= j,
         SameFrom(x, y, i)
  PROVE  SameFrom(x, y, j)
  <1> DEFINE T == {k \in Nat : k >= i => SameFrom(x, y, k)}
  <1>1. 0 \in T
    <2>1. 0 >= i => i = 0
      OBVIOUS
    <2>2. QED  BY <2>1
  <1>2. ASSUME NEW k \in T PROVE k + 1 \in T
    <2>1. CASE k + 1 <= i
      <3>1. k + 1 >= i => k + 1 = i
        BY <2>1
      <3>2. QED  BY <3>1
    <2>2. CASE k >= i
      BY <2>2, DivideTwice DEF SameFrom
    <2>3. QED  BY <2>1, <2>2
  <1> HIDE DEF T
  <1>3. T = Nat
    <2>1. T \in SUBSET Nat
      BY DEF T
    <2>2. QED  BY <1>1, <1>2, <2>1, Steps
  <1>4. QED  BY <1>3 DEF T

LEMMA TimeBound ==
  /\ Pow2[Width] \in Nat \ {0} /\ Pow2[Width - 1] \in Nat \ {0}
  /\ Pow2[Width] = 2 * Pow2[Width - 1]
  /\ Time \subseteq Nat
  <1>1. Width - 1 \in Nat /\ Width \in Nat /\ Width - 1 + 1 = Width
    BY WheelAssumption
  <1>2. QED  BY <1>1, Powers DEF Time

\* The bit that decides the timer queue.
IsMsb(x, y, k) == k \in 0..(Width - 1) /\ ~SameFrom(x, y, k) /\ SameFrom(x, y, k + 1)

LEMMA MsbExists ==
  ASSUME NEW x \in Time, NEW y \in Time, x # y
  PROVE  \E k \in 0..(Width - 1) : IsMsb(x, y, k)
  <1> DEFINE T == {k \in Nat : SameFrom(x, y, k)}
  <1>1. x \in Nat /\ y \in Nat /\ Width \in Nat \ {0}
    BY TimeBound, WheelAssumption
  <1>2. Width \in T
    <2>1. PICK n \in Nat \ {0} : n = Pow2[Width] /\ x \in 0..(n - 1) /\ y \in 0..(n - 1)
      BY TimeBound DEF Time
    <2>2. 0 * n = 0 /\ x = 0 * n + x /\ y = 0 * n + y
      BY <1>1, <2>1
    <2>3. x \div n = 0 /\ y \div n = 0
      BY <1>1, <2>1, <2>2, DivideUnique
    <2>4. QED  BY <1>1, <2>1, <2>3 DEF SameFrom
  <1>3. 0 \notin T
    <2>1. Pow2[0] = 1 /\ x \div 1 = x /\ y \div 1 = y
      BY <1>1, Powers
    <2>2. QED  BY <2>1 DEF SameFrom
  <1>4. PICK m \in T : \A k \in T : m <= k
    <2>1. T \in SUBSET Nat /\ T # {}
      BY <1>2
    <2>2. QED  BY <2>1, Least
  <1>5. m \in Nat /\ m # 0 /\ m <= Width /\ m - 1 \in Nat /\ m - 1 \notin T
    BY <1>2, <1>3, <1>4
  <1>6. m - 1 \in 0..(Width - 1) /\ m - 1 + 1 = m
    BY <1>1, <1>5
  <1>7. IsMsb(x, y, m - 1)
    BY <1>4, <1>5, <1>6 DEF IsMsb
  <1>8. QED  BY <1>6, <1>7

LEMMA MsbUnique ==
  ASSUME NEW x \in Time, NEW y \in Time, NEW k, NEW m, IsMsb(x, y, k), IsMsb(x, y, m)
  PROVE  k = m
  <1>1. x \in Nat /\ y \in Nat /\ k \in Nat /\ m \in Nat
    BY TimeBound, WheelAssumption DEF IsMsb
  <1>2. ~(k < m)
    <2>1. k < m => k + 1 <= m
      BY <1>1
    <2>2. QED  BY <1>1, <2>1, SameUpward DEF IsMsb
  <1>3. ~(m < k)
    <2>1. m < k => m + 1 <= k
      BY <1>1
    <2>2. QED  BY <1>1, <2>1, SameUpward DEF IsMsb
  <1>4. QED  BY <1>1, <1>2, <1>3

LEMMA DiffMsbIs ==
  ASSUME NEW x \in Time, NEW y \in Time, NEW k, IsMsb(x, y, k)
  PROVE  DiffMsb(x, y) = Capped(k)
  <1> DEFINE m == CHOOSE b \in 0..(Width - 1) :
                    /\ x \div Pow2[b] # y \div Pow2[b]
                    /\ x \div Pow2[b + 1] = y \div Pow2[b + 1]
  <1>1. k \in 0..(Width - 1) /\ x \div Pow2[k] # y \div Pow2[k]
                             /\ x \div Pow2[k + 1] = y \div Pow2[k + 1]
    BY DEF IsMsb, SameFrom
  <1>2. m \in 0..(Width - 1) /\ x \div Pow2[m] # y \div Pow2[m]
                             /\ x \div Pow2[m + 1] = y \div Pow2[m + 1]
    BY <1>1
  <1>3. DiffMsb(x, y) = Capped(m)
    BY DEF DiffMsb
  <1> HIDE DEF m
  <1>4. IsMsb(x, y, m)
    BY <1>2 DEF IsMsb, SameFrom
  <1>5. QED  BY <1>3, <1>4, MsbUnique

\* There is a queue for every two times that differ, in either order.
LEMMA DiffMsbBucket ==
  ASSUME NEW x \in Time, NEW y \in Time, x # y
  PROVE  DiffMsb(x, y) \in Bucket /\ DiffMsb(y, x) = DiffMsb(x, y)
  <1>1. PICK k \in 0..(Width - 1) : IsMsb(x, y, k)
    BY MsbExists
  <1>2. IsMsb(y, x, k)
    BY <1>1 DEF IsMsb, SameFrom
  <1>3. DiffMsb(x, y) = Capped(k) /\ DiffMsb(y, x) = Capped(k)
    BY <1>1, <1>2, DiffMsbIs
  <1>4. Capped(k) \in Bucket
    BY WheelAssumption DEF Capped, Bucket
  <1>5. QED  BY <1>3, <1>4

-----------------------------------------------------------------------------
(***************************************************************************)
(* The counter wraps around.                                               *)
(***************************************************************************)
LEMMA PowersUp ==
  ASSUME NEW j \in Nat, NEW k \in Nat, j <= k
  PROVE  Pow2[j] <= Pow2[k]
  <1> DEFINE T == {m \in Nat : m >= j => Pow2[j] <= Pow2[m]}
  <1>1. 0 \in T
    <2>1. 0 >= j => j = 0
      OBVIOUS
    <2>2. Pow2[0] <= Pow2[0]
      BY Powers
    <2>3. QED  BY <2>1, <2>2
  <1>2. ASSUME NEW m \in T PROVE m + 1 \in T
    <2>1. CASE m + 1 = j
      <3>1. Pow2[j] \in Nat
        BY Powers
      <3>2. QED  BY <2>1, <3>1
    <2>2. CASE m >= j
      <3>1. Pow2[j] \in Nat /\ Pow2[m] \in Nat /\ Pow2[m + 1] = 2 * Pow2[m]
        BY Powers
      <3>2. QED  BY <2>2, <3>1
    <2>3. m + 1 < j => m + 1 \in T
      OBVIOUS
    <2>4. QED  BY <2>1, <2>2, <2>3
  <1> HIDE DEF T
  <1>3. T = Nat
    <2>1. T \in SUBSET Nat
      BY DEF T
    <2>2. QED  BY <1>1, <1>2, <2>1, Steps
  <1>4. QED  BY <1>3 DEF T

LEMMA WrapIs ==
  ASSUME NEW x \in Int
  PROVE  /\ x \in Time => Wrap(x) = x
         /\ x - Pow2[Width] \in Time => Wrap(x) = x - Pow2[Width]
         /\ x + Pow2[Width] \in Time => Wrap(x) = x + Pow2[Width]
         /\ Wrap(x) \in Time
  <1>1. PICK n \in Nat \ {0} : n = Pow2[Width] /\ Time = 0..(n - 1)
    BY TimeBound DEF Time
  <1>2. ASSUME NEW q \in {-1, 0, 1}, NEW r \in 0..(n - 1), x = q * n + r
        PROVE  x % n = r
    <2>1. q \in Int
      BY <1>2
    <2>2. QED  BY <1>2, <2>1, DivideUnique
  <1>3. (-1) * n = -n /\ 0 * n = 0 /\ 1 * n = n
    OBVIOUS
  <1>4. x \in 0..(n - 1) => x % n = x
    <2>1. x \in 0..(n - 1) => x = 0 * n + x
      BY <1>3
    <2>2. QED  BY <1>2, <2>1
  <1>5. x - n \in 0..(n - 1) => x % n = x - n
    <2>1. x = 1 * n + (x - n)
      BY <1>3
    <2>2. QED  BY <1>2, <2>1
  <1>6. x + n \in 0..(n - 1) => x % n = x + n
    <2>1. x = (-1) * n + (x + n)
      BY <1>3
    <2>2. QED  BY <1>2, <2>1
  <1>7. x % n \in 0..(n - 1)
    BY Divide
  <1>8. QED  BY <1>1, <1>4, <1>5, <1>6, <1>7 DEF Wrap

\* The time that is left until due.
Remains(due, now) == Wrap(due - now)

LEMMA RemainsIs ==
  ASSUME NEW x \in Time, NEW t \in Time
  PROVE  /\ Remains(x, t) \in Time
         /\ x >= t => Remains(x, t) = x - t
         /\ x < t => Remains(x, t) = (x - t) + Pow2[Width]
         /\ Remains(x, t) = 0 <=> x = t
  <1>1. PICK n \in Nat \ {0} : n = Pow2[Width] /\ Time = 0..(n - 1)
    BY TimeBound DEF Time
  <1>2. x - t \in Int
    BY <1>1
  <1>3. x >= t => x - t \in 0..(n - 1)
    BY <1>1
  <1>4. x < t => (x - t) + n \in 0..(n - 1)
    BY <1>1
  <1>5. x >= t => Remains(x, t) = x - t
    BY <1>1, <1>2, <1>3, WrapIs DEF Remains
  <1>6. x < t => Remains(x, t) = (x - t) + n
    BY <1>1, <1>2, <1>4, WrapIs DEF Remains
  <1>7. Remains(x, t) \in Time
    BY <1>2, WrapIs DEF Remains
  <1>8. QED  BY <1>1, <1>5, <1>6, <1>7

LEMMA NextIs ==
  ASSUME NEW t \in Time
  PROVE  /\ Wrap(t + 1) \in Time /\ Wrap(t + 1) # t
         /\ t + 1 < Pow2[Width] => Wrap(t + 1) = t + 1
         /\ t + 1 = Pow2[Width] => Wrap(t + 1) = 0
         /\ t + 1 <= Pow2[Width]
  <1>1. PICK n \in Nat \ {0} : n = Pow2[Width] /\ Time = 0..(n - 1) /\ n # 1
    BY TimeBound DEF Time
  <1>2. t + 1 \in Int /\ t + 1 <= n
    BY <1>1
  <1>3. t + 1 < n => Wrap(t + 1) = t + 1
    <2>1. t + 1 < n => t + 1 \in Time
      BY <1>1
    <2>2. QED  BY <1>2, <2>1, WrapIs
  <1>4. t + 1 = n => Wrap(t + 1) = 0
    <2>1. PICK x \in Int : x = t + 1
      BY <1>2
    <2>2. x = n => x - n = 0 /\ 0 \in Time
      BY <1>1, <2>1
    <2>3. x - n \in Time => Wrap(x) = x - n
      BY <1>1, WrapIs
    <2>4. QED  BY <2>1, <2>2, <2>3
  <1>5. Wrap(t + 1) \in Time
    BY <1>2, WrapIs
  <1>6. Wrap(t + 1) # t
    <2>1. t \in Nat /\ n > 1
      BY <1>1
    <2>2. t + 1 # t /\ (t + 1 = n => t # 0) /\ (t + 1 < n \/ t + 1 = n)
      BY <1>2, <2>1
    <2>3. QED  BY <1>3, <1>4, <2>2
  <1>7. QED  BY <1>1, <1>2, <1>3, <1>4, <1>5, <1>6

\* A tick takes one from what is left.
LEMMA TickTakesOne ==
  ASSUME NEW x \in Time, NEW t \in Time, x # t
  PROVE  Remains(x, Wrap(t + 1)) = Remains(x, t) - 1
  <1>1. PICK n \in Nat \ {0} : n = Pow2[Width] /\ Time = 0..(n - 1)
    BY TimeBound DEF Time
  <1>2. PICK s \in Time : s = Wrap(t + 1)
    BY NextIs
  <1>3. /\ t + 1 < n => s = t + 1
        /\ t + 1 = n => s = 0
        /\ t + 1 <= n
    BY <1>1, <1>2, NextIs
  <1>4. /\ x >= s => Remains(x, s) = x - s
        /\ x < s => Remains(x, s) = (x - s) + n
        /\ x >= t => Remains(x, t) = x - t
        /\ x < t => Remains(x, t) = (x - t) + n
    BY <1>1, RemainsIs
  <1>5. x \in 0..(n - 1) /\ t \in 0..(n - 1) /\ s \in 0..(n - 1)
    BY <1>1
  <1>6. PICK before, after : before = Remains(x, t) /\ after = Remains(x, s)
    OBVIOUS
  <1>7. /\ after = IF x >= s THEN x - s ELSE (x - s) + n
        /\ before = IF x >= t THEN x - t ELSE (x - t) + n
    BY <1>4, <1>5, <1>6
  <1>8. after = before - 1
    BY <1>3, <1>5, <1>7
  <1>9. QED  BY <1>2, <1>6, <1>8

\* An actor that falls asleep for d has d left.
LEMMA SleepLeaves ==
  ASSUME NEW t \in Time, NEW d \in 1..MaxDelay
  PROVE  /\ Wrap(t + d) \in Time /\ Wrap(t + d) # t
         /\ Remains(Wrap(t + d), t) = d
  <1>1. PICK n \in Nat \ {0}, h \in Nat \ {0} :
          n = Pow2[Width] /\ Time = 0..(n - 1) /\ n = 2 * h /\ MaxDelay = h - 2
    BY TimeBound DEF Time, MaxDelay
  <1>2. t + d \in Int /\ t \in Nat /\ d \in Nat /\ d < n /\ d > 0
    BY <1>1
  <1>3. PICK s \in Time : s = Wrap(t + d)
    BY <1>2, WrapIs
  <1>4. /\ t + d < n => s = t + d
        /\ t + d >= n => s = t + d - n
    <2>1. t + d < n => t + d \in Time
      BY <1>1, <1>2
    <2>2. t + d >= n => t + d - n \in Time
      BY <1>1, <1>2
    <2>3. QED  BY <1>1, <1>2, <1>3, <2>1, <2>2, WrapIs
  <1>5. s # t
    BY <1>1, <1>2, <1>4
  <1>6. /\ s >= t => Remains(s, t) = s - t
        /\ s < t => Remains(s, t) = (s - t) + n
    <2>1. /\ s >= t => Remains(s, t) = s - t
          /\ s < t => Remains(s, t) = (s - t) + Pow2[Width]
      BY RemainsIs
    <2>2. QED  BY <1>1, <2>1
  <1>7. Remains(s, t) = d
    <2>1. t \in 0..(n - 1) /\ s \in 0..(n - 1)
      BY <1>1
    <2>2. PICK left : left = Remains(s, t)
      OBVIOUS
    <2>3. left = IF s >= t THEN s - t ELSE (s - t) + n
      BY <1>6, <2>1, <2>2
    <2>4. left = d
      BY <1>2, <1>4, <2>1, <2>3
    <2>5. QED  BY <2>2, <2>4
  <1>8. QED  BY <1>3, <1>5, <1>7

\* Two times that are the same from k upwards are less than Pow2[k] apart.
LEMMA SameIsNear ==
  ASSUME NEW x \in Nat, NEW y \in Nat, NEW k \in Nat, SameFrom(x, y, k)
  PROVE  y - x <= Pow2[k] - 1
  <1>1. PICK n \in Nat \ {0} : n = Pow2[k]
    BY Powers
  <1>2. PICK q \in Int, r \in 0..(n - 1), s \in 0..(n - 1) :
          q = x \div n /\ x = q * n + r /\ y = q * n + s
    <2>1. PICK q \in Int, r \in 0..(n - 1) : q = x \div n /\ r = x % n /\ x = q * n + r
      BY DivideParts
    <2>2. PICK u \in Int, s \in 0..(n - 1) : u = y \div n /\ s = y % n /\ y = u * n + s
      BY DivideParts
    <2>3. u = q
      BY <1>1, <2>1, <2>2 DEF SameFrom
    <2>4. QED  BY <2>1, <2>2, <2>3
  <1>3. PICK m \in Int : m = q * n
    OBVIOUS
  <1>4. x = m + r /\ y = m + s
    BY <1>2, <1>3
  <1>5. QED  BY <1>1, <1>4

\* The counter is all ones below a bit that a tick flips.
LEMMA FlipsAbove ==
  ASSUME NEW t \in Nat, NEW x \in Nat, NEW k \in Nat,
         ~SameFrom(t, t + 1, k), SameFrom(x, t, k)
  PROVE  x <= t
  <1>1. PICK n \in Nat \ {0} : n = Pow2[k]
    BY Powers
  <1>2. PICK q \in Int, r \in 0..(n - 1), s \in 0..(n - 1) :
          q = t \div n /\ q = x \div n /\ x = q * n + r /\ t = q * n + s
    <2>1. PICK q \in Int, r \in 0..(n - 1) : q = x \div n /\ r = x % n /\ x = q * n + r
      BY DivideParts
    <2>2. PICK u \in Int, s \in 0..(n - 1) : u = t \div n /\ s = t % n /\ t = u * n + s
      BY DivideParts
    <2>3. u = q
      BY <1>1, <2>1, <2>2 DEF SameFrom
    <2>4. QED  BY <2>1, <2>2, <2>3
  <1>3. ASSUME s # n - 1 PROVE FALSE
    <2>1. s + 1 \in 0..(n - 1)
      BY <1>3
    <2>2. t + 1 = q * n + (s + 1)
      <3>1. PICK m \in Int : m = q * n /\ t = m + s
        BY <1>2
      <3>2. QED  BY <3>1
    <2>3. (t + 1) \div n = q
      BY <2>1, <2>2, DivideUnique
    <2>4. QED  BY <1>1, <1>2, <2>3 DEF SameFrom
  <1>4. PICK m \in Int : m = q * n /\ x = m + r /\ t = m + s
    BY <1>2
  <1>5. QED  BY <1>3, <1>4

\* An actor that a tick does not look at is in the right queue after it, too.
LEMMA TickKeepsQueue ==
  ASSUME NEW x \in Time, NEW t \in Time, x # t, Remains(x, t) <= MaxDelay,
         DiffMsb(x, t) # DiffMsb(t, Wrap(t + 1))
  PROVE  x # Wrap(t + 1) /\ DiffMsb(x, Wrap(t + 1)) = DiffMsb(x, t)
  <1>1. PICK s \in Time : s = Wrap(t + 1) /\ s # t
    BY NextIs
  <1>2. PICK j \in 0..(Width - 1) : IsMsb(x, t, j)
    BY MsbExists
  <1>3. PICK i \in 0..(Width - 1) : IsMsb(t, s, i)
    BY <1>1, MsbExists
  <1>4. DiffMsb(x, t) = Capped(j) /\ DiffMsb(t, s) = Capped(i)
    BY <1>2, <1>3, DiffMsbIs
  <1>5. /\ i \in Nat /\ j \in Nat /\ x \in Nat /\ t \in Nat /\ s \in Nat
        /\ i <= Width - 1 /\ Width \in Nat \ {0} /\ TimerqMax \in Nat
    BY TimeBound, WheelAssumption
  <1>6. ~(j < i)
    <2>1. SUFFICES ASSUME j < i PROVE FALSE
      OBVIOUS
    <2>2. SameFrom(x, t, i)
      <3>1. j + 1 <= i
        BY <1>5, <2>1
      <3>2. QED  BY <1>2, <1>5, <3>1, SameUpward DEF IsMsb
    <2>3. PICK n \in Nat, h \in Nat \ {0}, p \in Nat :
            /\ n = Pow2[Width] /\ h = Pow2[Width - 1] /\ p = Pow2[i]
            /\ n = 2 * h /\ p <= h /\ MaxDelay = h - 2
      <3>1. Width - 1 \in Nat
        BY <1>5
      <3>2. Pow2[i] <= Pow2[Width - 1] /\ Pow2[i] \in Nat
        BY <1>5, <3>1, PowersUp, Powers
      <3>3. QED  BY <3>2, TimeBound DEF MaxDelay
    <2>4. x < t
      <3>1. CASE t + 1 < n
        <4>1. s = t + 1
          BY <1>1, <2>3, <3>1, NextIs
        <4>2. x <= t
          BY <1>3, <1>5, <2>2, <4>1, FlipsAbove DEF IsMsb
        <4>3. QED  BY <1>5, <4>2
      <3>2. CASE t + 1 = n
        <4>1. x \in 0..(n - 1)
          BY <2>3 DEF Time
        <4>2. QED  BY <1>5, <3>2, <4>1
      <3>3. QED  BY <1>5, <2>3, <3>1, <3>2, NextIs
    <2>5. t - x <= p - 1
      BY <1>5, <2>2, <2>3, SameIsNear
    <2>6. PICK left : left = Remains(x, t) /\ left = (x - t) + n
      BY <2>3, <2>4, RemainsIs
    <2>7. left <= h - 2
      BY <2>3, <2>6
    <2>8. QED  BY <1>5, <2>3, <2>5, <2>6, <2>7
  <1>7. Capped(j) # Capped(i)
    BY <1>1, <1>4
  <1>8. i < j
    BY <1>5, <1>6, <1>7
  <1>9. SameFrom(t, s, j) /\ SameFrom(t, s, j + 1)
    <2>1. i + 1 <= j /\ i + 1 <= j + 1
      BY <1>5, <1>8
    <2>2. QED  BY <1>3, <1>5, <2>1, SameUpward DEF IsMsb
  <1>10. IsMsb(x, s, j)
    BY <1>2, <1>9 DEF IsMsb, SameFrom
  <1>11. DiffMsb(x, s) = Capped(j)
    BY <1>10, DiffMsbIs
  <1>12. x # s
    BY <1>10 DEF IsMsb, SameFrom
  <1>13. QED  BY <1>1, <1>4, <1>11, <1>12

-----------------------------------------------------------------------------
(***************************************************************************)
(* The timer queues.                                                       *)
(***************************************************************************)
\* What is left to an actor.
Left(a) == Remains(timeout[a], ticks)

\* An actor is linked once, and not while it is taken out to be woken.
Once ==
  \A i, j \in Bucket : \A k \in DOMAIN timerq[i], m \in DOMAIN timerq[j] :
    timerq[i][k] = timerq[j][m] => i = j /\ k = m

TakenOut == \A i \in Bucket : \A k \in DOMAIN timerq[i] : timerq[i][k] # waking

\* Nobody is linked whose time has gone by.
InTime == \A i \in Bucket : \A k \in DOMAIN timerq[i] : Left(timerq[i][k]) <= MaxDelay

Placed(a, i) == timeout[a] # ticks /\ DiffMsb(timeout[a], ticks) = i

\* A tick in progress has still to take the first p nodes out of its queue, up to
\* the one that was the last when it began; all others are in the right queue.
StillToTake(p) ==
  /\ p \in 0..Len(timerq[bucket])
  /\ p = 0 => head = NULL \/ head = last
  /\ p > 0 => head # NULL /\ head # last /\ timerq[bucket][p] = last
  /\ \A i \in Bucket : \A k \in DOMAIN timerq[i] :
       (i = bucket /\ k <= p) \/ Placed(timerq[i][k], i)

WheelInv ==
  /\ TypeOK /\ Once /\ TakenOut /\ InTime
  /\ \E p \in Nat : StillToTake(p)
  /\ head = NULL => waking = NULL

(***************************************************************************)
(* Queues.                                                                 *)
(***************************************************************************)
LEMMA TailIs ==
  ASSUME NEW S, NEW s \in Seq(S), s # <<>>
  PROVE  /\ Head(s) = s[1] /\ s[1] \in S /\ 1 \in DOMAIN s /\ Len(s) \in Nat \ {0}
         /\ DOMAIN s = 1..Len(s)
         /\ Tail(s) \in Seq(S) /\ Len(Tail(s)) = Len(s) - 1
         /\ DOMAIN Tail(s) = 1..(Len(s) - 1)
         /\ \A k \in 1..(Len(s) - 1) : Tail(s)[k] = s[k + 1]
  <1>1. Len(s) \in Nat \ {0} /\ DOMAIN s = 1..Len(s)
    BY EmptySeq, LenProperties
  <1>2. 1 \in DOMAIN s /\ s[1] \in S
    BY <1>1, ElementOfSeq
  <1>3. /\ Tail(s) \in Seq(S) /\ Len(Tail(s)) = Len(s) - 1
        /\ \A k \in 1..(Len(s) - 1) : Tail(s)[k] = s[k + 1]
    BY HeadTailProperties
  <1>4. DOMAIN Tail(s) = 1..(Len(s) - 1)
    BY <1>3, LenProperties
  <1>5. Head(s) = s[1]
    OBVIOUS
  <1>6. QED  BY <1>1, <1>2, <1>3, <1>4, <1>5

LEMMA AppendIs ==
  ASSUME NEW S, NEW s \in Seq(S), NEW a \in S
  PROVE  /\ Append(s, a) \in Seq(S) /\ Len(Append(s, a)) = Len(s) + 1 /\ Len(s) \in Nat
         /\ DOMAIN s = 1..Len(s) /\ DOMAIN Append(s, a) = 1..(Len(s) + 1)
         /\ \A k \in 1..Len(s) : Append(s, a)[k] = s[k]
         /\ Append(s, a)[Len(s) + 1] = a
  <1>1. /\ Append(s, a) \in Seq(S) /\ Len(Append(s, a)) = Len(s) + 1
        /\ \A k \in 1..Len(s) : Append(s, a)[k] = s[k]
        /\ Append(s, a)[Len(s) + 1] = a
    BY AppendProperties
  <1>2. Len(s) \in Nat /\ DOMAIN s = 1..Len(s)
    BY LenProperties
  <1>3. DOMAIN Append(s, a) = 1..(Len(s) + 1)
    BY <1>1, LenProperties
  <1>4. QED  BY <1>1, <1>2, <1>3

LEMMA QueueNodes ==
  ASSUME TypeOK, NEW i \in Bucket
  PROVE  /\ timerq[i] \in Seq(Actor) /\ Len(timerq[i]) \in Nat
         /\ DOMAIN timerq[i] = 1..Len(timerq[i])
         /\ \A k \in DOMAIN timerq[i] : timerq[i][k] \in Actor /\ timeout[timerq[i][k]] \in Time
  <1>1. timerq[i] \in Seq(Actor) /\ timeout \in [Actor -> Time]
    BY DEF TypeOK
  <1>2. QED  BY <1>1, LenProperties, ElementOfSeq

\* Where a node of queue i is when the first node has been taken out.
Before(i, b, k) == IF b = i THEN k + 1 ELSE k

\* The queues q are those of old, without the first node of queue i.
Shifted(q, old, i) ==
  /\ q \in [Bucket -> Seq(Actor)]
  /\ \A b \in Bucket : Len(old[b]) = Before(i, b, Len(q[b])) /\ Len(q[b]) \in Nat
  /\ \A b \in Bucket : \A k \in 1..Len(q[b]) : q[b][k] = old[b][Before(i, b, k)]

LEMMA ShiftedQueue ==
  ASSUME TypeOK, NEW i \in Bucket, timerq[i] # <<>>
  PROVE  Shifted([timerq EXCEPT ![i] = Tail(timerq[i])], timerq, i)
  <1>1. timerq \in [Bucket -> Seq(Actor)]
    BY DEF TypeOK
  <1>2. PICK t : t = Tail(timerq[i])
    OBVIOUS
  <1>3. /\ t \in Seq(Actor) /\ Len(t) \in Nat /\ Len(timerq[i]) = Len(t) + 1
        /\ \A k \in 1..Len(t) : t[k] = timerq[i][k + 1]
    <2>1. /\ t \in Seq(Actor) /\ Len(t) = Len(timerq[i]) - 1 /\ Len(timerq[i]) \in Nat \ {0}
          /\ \A k \in 1..(Len(timerq[i]) - 1) : t[k] = timerq[i][k + 1]
      BY <1>1, <1>2, TailIs
    <2>2. Len(t) \in Nat /\ Len(timerq[i]) = Len(t) + 1
      BY <2>1
    <2>3. QED  BY <2>1, <2>2
  <1>4. PICK q : q = [timerq EXCEPT ![i] = t]
    OBVIOUS
  <1>5. /\ q \in [Bucket -> Seq(Actor)] /\ q[i] = t
        /\ \A b \in Bucket \ {i} : q[b] = timerq[b]
    BY <1>1, <1>3, <1>4
  <1>6. \A b \in Bucket : Len(timerq[b]) \in Nat
    BY QueueNodes
  <1>7. Shifted(q, timerq, i)
    BY <1>3, <1>5, <1>6 DEF Shifted, Before
  <1>8. QED  BY <1>2, <1>4, <1>7

\* What TakeOut does: node k of queue b is the one that was behind it, or, at the
\* end of its new queue, the one that was taken out and is not due.
Survives(i, b, k) ==
  /\ Before(i, b, k) \in DOMAIN timerq[b]
  /\ timerq'[b][k] = timerq[b][Before(i, b, k)]

Requeued(i, b, k, now) ==
  /\ waking' = NULL /\ timeout[timerq[i][1]] # now
  /\ b = DiffMsb(timeout[timerq[i][1]], now)
  /\ k = Len(timerq'[b]) /\ timerq'[b][k] = timerq[i][1]

TakenFrom(i, now) ==
  /\ timerq[i][1] \in Actor /\ 1 \in DOMAIN timerq[i] /\ head' = timerq[i][1]
  /\ timerq' \in [Bucket -> Seq(Actor)] /\ timeout' \in [Actor -> Time]
  /\ \/ /\ timeout[timerq[i][1]] = now /\ waking' = timerq[i][1]
        /\ timeout' = [timeout EXCEPT ![timerq[i][1]] = 0]
     \/ /\ timeout[timerq[i][1]] # now /\ waking' = NULL /\ timeout' = timeout
        /\ \E b \in Bucket : \E k \in DOMAIN timerq'[b] : timerq'[b][k] = timerq[i][1]
  /\ \A b \in Bucket : DOMAIN timerq'[b] = 1..Len(timerq'[b]) /\ Len(timerq'[b]) \in Nat
  /\ \A b \in Bucket : \A k \in DOMAIN timerq'[b] :
       Survives(i, b, k) \/ Requeued(i, b, k, now)
  /\ \A b \in Bucket : \A m \in DOMAIN timerq[b] :
       (b = i /\ m = 1) \/ \E k \in DOMAIN timerq'[b] : m = Before(i, b, k) /\ Survives(i, b, k)

LEMMA ShiftedNodes ==
  ASSUME TypeOK, NEW i \in Bucket, NEW q, Shifted(q, timerq, i)
  PROVE  /\ \A b \in Bucket : \A k \in 1..Len(q[b]) :
              Before(i, b, k) \in DOMAIN timerq[b] /\ q[b][k] = timerq[b][Before(i, b, k)]
         /\ \A b \in Bucket : \A m \in DOMAIN timerq[b] :
              (b = i /\ m = 1) \/ \E k \in 1..Len(q[b]) : m = Before(i, b, k)
  <1>1. ASSUME NEW b \in Bucket
        PROVE  /\ DOMAIN timerq[b] = 1..Len(timerq[b])
               /\ Len(timerq[b]) = Before(i, b, Len(q[b])) /\ Len(q[b]) \in Nat
               /\ \A k \in 1..Len(q[b]) : q[b][k] = timerq[b][Before(i, b, k)]
    BY QueueNodes DEF Shifted
  <1>2. ASSUME NEW b \in Bucket, NEW k \in 1..Len(q[b])
        PROVE  Before(i, b, k) \in DOMAIN timerq[b]
    <2>1. PICK n \in Nat : n = Len(q[b]) /\ DOMAIN timerq[b] = 1..Before(i, b, n)
      BY <1>1
    <2>2. k \in 1..n => Before(i, b, k) \in 1..Before(i, b, n)
      BY DEF Before
    <2>3. QED  BY <2>1, <2>2
  <1>3. ASSUME NEW b \in Bucket, NEW m \in DOMAIN timerq[b]
        PROVE  (b = i /\ m = 1) \/ \E k \in 1..Len(q[b]) : m = Before(i, b, k)
    <2>1. PICK n \in Nat : n = Len(q[b]) /\ m \in 1..Before(i, b, n)
      BY <1>1
    <2>2. CASE b = i
      <3>1. m \in 1..(n + 1)
        BY <2>1, <2>2 DEF Before
      <3>2. m # 1 => m - 1 \in 1..n /\ m = (m - 1) + 1
        BY <3>1
      <3>3. QED  BY <2>1, <2>2, <3>2 DEF Before
    <2>3. CASE b # i
      BY <2>1, <2>3 DEF Before
    <2>4. QED  BY <2>2, <2>3
  <1>4. QED  BY <1>1, <1>2, <1>3

LEMMA TakeOutMoves ==
  ASSUME TypeOK, NEW i \in Bucket, timerq[i] # <<>>, NEW now \in Time, TakeOut(i, now)
  PROVE  TakenFrom(i, now)
  <1>1. PICK q : q = [timerq EXCEPT ![i] = Tail(timerq[i])]
    OBVIOUS
  <1>2. Shifted(q, timerq, i)
    BY <1>1, ShiftedQueue
  <1>3. PICK a \in Actor : a = timerq[i][1] /\ a = Head(timerq[i]) /\ 1 \in DOMAIN timerq[i]
    BY QueueNodes, TailIs
  <1>4. timeout \in [Actor -> Time] /\ timeout[a] \in Time /\ a # NULL /\ 0 \in Time
    <2>1. 0 \in Time
      BY TimeBound DEF Time
    <2>2. QED  BY <2>1, WheelAssumption DEF TypeOK
  <1>5. head' = a
    BY <1>3 DEF TakeOut
  <1>6. q \in [Bucket -> Seq(Actor)]
    BY <1>2 DEF Shifted
  <1>7. /\ \A b \in Bucket : \A k \in 1..Len(q[b]) :
             Before(i, b, k) \in DOMAIN timerq[b] /\ q[b][k] = timerq[b][Before(i, b, k)]
        /\ \A b \in Bucket : \A m \in DOMAIN timerq[b] :
             (b = i /\ m = 1) \/ \E k \in 1..Len(q[b]) : m = Before(i, b, k)
    BY <1>2, ShiftedNodes
  <1>8. \A b \in Bucket : DOMAIN q[b] = 1..Len(q[b]) /\ Len(q[b]) \in Nat
    BY <1>6, LenProperties
  <1>9. CASE timeout[a] = now
    <2>1. /\ timeout' = [timeout EXCEPT ![a] = 0] /\ timerq' = q /\ waking' = a
      BY <1>1, <1>3, <1>9 DEF TakeOut
    <2>2. timeout' \in [Actor -> Time]
      BY <1>4, <2>1
    <2>3. QED  BY <1>3, <1>5, <1>6, <1>7, <1>8, <1>9, <2>1, <2>2 DEF TakenFrom, Survives
  <1>10. CASE timeout[a] # now
    <2>1. PICK j \in Bucket : j = DiffMsb(timeout[a], now)
      BY <1>4, <1>10, DiffMsbBucket
    <2>2. /\ timerq' = [q EXCEPT ![j] = Append(q[j], a)]
          /\ waking' = NULL /\ timeout' = timeout
      BY <1>1, <1>3, <1>10, <2>1 DEF TakeOut
    <2>3. PICK t : t = Append(q[j], a)
      OBVIOUS
    <2>4. /\ t \in Seq(Actor) /\ Len(t) = Len(q[j]) + 1 /\ Len(q[j]) \in Nat
          /\ DOMAIN t = 1..(Len(q[j]) + 1)
          /\ \A k \in 1..Len(q[j]) : t[k] = q[j][k]
          /\ t[Len(q[j]) + 1] = a
      <3>1. q[j] \in Seq(Actor)
        BY <1>6
      <3>2. QED  BY <2>3, <3>1, AppendIs
    <2>5. /\ timerq' \in [Bucket -> Seq(Actor)] /\ timerq'[j] = t
          /\ \A b \in Bucket \ {j} : timerq'[b] = q[b]
      BY <1>6, <2>2, <2>3, <2>4
    <2>6. \A b \in Bucket : DOMAIN timerq'[b] = 1..Len(timerq'[b]) /\ Len(timerq'[b]) \in Nat
      BY <1>8, <2>4, <2>5
    <2>7. ASSUME NEW b \in Bucket, NEW k \in DOMAIN timerq'[b]
          PROVE  Survives(i, b, k) \/ Requeued(i, b, k, now)
      <3>1. CASE b = j
        <4>1. k \in 1..Len(q[j]) \/ k = Len(q[j]) + 1
          BY <2>4, <2>5, <3>1
        <4>2. CASE k \in 1..Len(q[j])
          BY <1>7, <2>4, <2>5, <3>1, <4>2 DEF Survives
        <4>3. CASE k = Len(q[j]) + 1
          BY <1>3, <1>10, <2>1, <2>2, <2>4, <2>5, <3>1, <4>3 DEF Requeued
        <4>4. QED  BY <4>1, <4>2, <4>3
      <3>2. CASE b # j
        BY <1>7, <1>8, <2>5, <3>2 DEF Survives
      <3>3. QED  BY <3>1, <3>2
    <2>8. ASSUME NEW b \in Bucket, NEW m \in DOMAIN timerq[b], ~(b = i /\ m = 1)
          PROVE  \E k \in DOMAIN timerq'[b] : m = Before(i, b, k) /\ Survives(i, b, k)
      <3>1. PICK k \in 1..Len(q[b]) : m = Before(i, b, k)
        BY <1>7, <2>8
      <3>2. k \in DOMAIN timerq'[b] /\ timerq'[b][k] = q[b][k]
        <4>1. CASE b = j
          BY <2>4, <2>5, <3>1, <4>1
        <4>2. CASE b # j
          BY <1>8, <2>5, <3>1, <4>2
        <4>3. QED  BY <4>1, <4>2
      <3>3. QED  BY <1>7, <3>1, <3>2 DEF Survives
    <2>9. Len(q[j]) + 1 \in DOMAIN timerq'[j] /\ timerq'[j][Len(q[j]) + 1] = a
      BY <2>4, <2>5
    <2>10. QED
      BY <1>3, <1>4, <1>5, <1>10, <2>2, <2>5, <2>6, <2>7, <2>8, <2>9 DEF TakenFrom
  <1>11. QED  BY <1>9, <1>10

-----------------------------------------------------------------------------
(***************************************************************************)
(* The body of the loop of mg_context_tick.                                *)
(***************************************************************************)
\* Before the body: the first p nodes of queue i are to be looked at, and the
\* others are in the right queue for the new time.
Prepared(i, now, p) ==
  /\ TypeOK /\ Once
  /\ i \in Bucket /\ timerq[i] # <<>> /\ now \in Time
  /\ p \in 0..Len(timerq[i])
  /\ \A b \in Bucket : \A k \in DOMAIN timerq[b] :
       \/ b = i /\ k <= p
       \/ timeout[timerq[b][k]] # now /\ DiffMsb(timeout[timerq[b][k]], now) = b
  /\ \A b \in Bucket : \A k \in DOMAIN timerq[b] :
       Remains(timeout[timerq[b][k]], now) <= MaxDelay

\* A node that survives is not the one that was taken out, and its actor is due
\* when it was.
LEMMA Survivors ==
  ASSUME NEW i, NEW now, NEW p, Prepared(i, now, p), TakenFrom(i, now),
         NEW b \in Bucket, NEW k \in DOMAIN timerq'[b], Survives(i, b, k)
  PROVE  /\ k \in Nat \ {0} /\ Before(i, b, k) \in DOMAIN timerq[b]
         /\ timerq'[b][k] = timerq[b][Before(i, b, k)]
         /\ timerq'[b][k] \in Actor /\ timerq'[b][k] # timerq[i][1]
         /\ timeout'[timerq'[b][k]] = timeout[timerq'[b][k]]
  <1>1. i \in Bucket /\ TypeOK /\ Once
    BY DEF Prepared
  <1>2. k \in Nat \ {0}
    BY DEF TakenFrom
  <1>3. PICK m : m = Before(i, b, k) /\ m \in DOMAIN timerq[b] /\ timerq'[b][k] = timerq[b][m]
    BY DEF Survives
  <1>4. b = i => m # 1
    BY <1>2, <1>3 DEF Before
  <1>5. 1 \in DOMAIN timerq[i]
    BY DEF TakenFrom
  <1>6. timerq[b][m] # timerq[i][1]
    BY <1>1, <1>3, <1>4, <1>5 DEF Once
  <1>7. timerq[b][m] \in Actor
    BY <1>1, <1>3, QueueNodes
  <1>8. timeout'[timerq[b][m]] = timeout[timerq[b][m]]
    BY <1>1, <1>6, <1>7 DEF TakenFrom, TypeOK
  <1>9. QED  BY <1>2, <1>3, <1>6, <1>7, <1>8

LEMMA OnceAfter ==
  ASSUME NEW i, NEW now, NEW p, Prepared(i, now, p), TakenFrom(i, now)
  PROVE  Once'
  <1>1. SUFFICES ASSUME NEW b \in Bucket, NEW c \in Bucket,
                        NEW k \in DOMAIN timerq'[b], NEW m \in DOMAIN timerq'[c],
                        timerq'[b][k] = timerq'[c][m]
                 PROVE  b = c /\ k = m
    BY DEF Once
  <1>2. /\ Survives(i, b, k) \/ Requeued(i, b, k, now)
        /\ Survives(i, c, m) \/ Requeued(i, c, m, now)
    BY DEF TakenFrom
  <1>3. CASE Survives(i, b, k) /\ Survives(i, c, m)
    <2>1. /\ k \in Nat /\ m \in Nat
          /\ Before(i, b, k) \in DOMAIN timerq[b] /\ Before(i, c, m) \in DOMAIN timerq[c]
          /\ timerq[b][Before(i, b, k)] = timerq[c][Before(i, c, m)]
      BY <1>1, <1>3, Survivors
    <2>2. b = c /\ Before(i, b, k) = Before(i, c, m)
      BY <2>1 DEF Prepared, Once
    <2>3. QED  BY <2>1, <2>2 DEF Before
  <1>4. CASE Survives(i, b, k) /\ Requeued(i, c, m, now)
    <2>1. timerq'[b][k] # timerq[i][1]
      BY <1>4, Survivors
    <2>2. QED  BY <1>1, <1>4, <2>1 DEF Requeued
  <1>5. CASE Requeued(i, b, k, now) /\ Survives(i, c, m)
    <2>1. timerq'[c][m] # timerq[i][1]
      BY <1>5, Survivors
    <2>2. QED  BY <1>1, <1>5, <2>1 DEF Requeued
  <1>6. CASE Requeued(i, b, k, now) /\ Requeued(i, c, m, now)
    BY <1>6 DEF Requeued
  <1>7. QED  BY <1>2, <1>3, <1>4, <1>5, <1>6

LEMMA TakeOutKeeps ==
  ASSUME NEW i, NEW now, NEW p, Prepared(i, now, p), TakenFrom(i, now),
         ticks' = now, bucket' = i, last' \in Actor \cup {NULL},
         p > 0, timerq[i][p] = last'
  PROVE  WheelInv'
  <1>1. /\ TypeOK /\ Once /\ i \in Bucket /\ now \in Time
        /\ p \in 0..Len(timerq[i]) /\ p \in Nat
    BY QueueNodes DEF Prepared
  <1>2. PICK a \in Actor : a = timerq[i][1] /\ head' = a /\ 1 \in DOMAIN timerq[i] /\ a # NULL
    BY WheelAssumption DEF TakenFrom
  <1>3. TypeOK'
    BY <1>1, <1>2 DEF TypeOK, TakenFrom
  <1>4. Once'
    BY OnceAfter
  <1>5. ASSUME NEW b \in Bucket, NEW k \in DOMAIN timerq'[b]
        PROVE  Survives(i, b, k) \/ Requeued(i, b, k, now)
    BY DEF TakenFrom
  <1>6. TakenOut'
    <2>1. SUFFICES ASSUME NEW b \in Bucket, NEW k \in DOMAIN timerq'[b]
                   PROVE  timerq'[b][k] # waking'
      BY DEF TakenOut
    <2>2. timerq'[b][k] \in Actor
      BY <1>2, <1>5, Survivors DEF Requeued
    <2>3. CASE waking' = NULL
      BY <2>2, <2>3, WheelAssumption
    <2>4. CASE waking' # NULL
      <3>1. Survives(i, b, k) /\ waking' = a
        BY <1>2, <1>5, <2>4 DEF Requeued, TakenFrom
      <3>2. QED  BY <1>2, <3>1, Survivors
    <2>5. QED  BY <2>3, <2>4
  <1>7. InTime'
    <2>1. SUFFICES ASSUME NEW b \in Bucket, NEW k \in DOMAIN timerq'[b]
                   PROVE  Remains(timeout'[timerq'[b][k]], now) <= MaxDelay
      BY <1>1 DEF InTime, Left, Remains, Wrap, MaxDelay
    <2>2. CASE Survives(i, b, k)
      <3>1. PICK m \in DOMAIN timerq[b] :
              timerq'[b][k] = timerq[b][m] /\ timeout'[timerq'[b][k]] = timeout[timerq[b][m]]
        BY <2>2, Survivors
      <3>2. Remains(timeout[timerq[b][m]], now) <= MaxDelay
        BY DEF Prepared
      <3>3. QED  BY <3>1, <3>2
    <2>3. CASE Requeued(i, b, k, now)
      <3>1. timerq'[b][k] = timerq[i][1] /\ timeout' = timeout
        BY <1>2, <2>3 DEF Requeued, TakenFrom
      <3>2. QED  BY <1>1, <1>2, <3>1 DEF Prepared
    <2>4. QED  BY <1>5, <2>2, <2>3
  <1>8. \E n \in Nat : StillToTake(n)'
    <2>1. PICK n \in Nat : n = p - 1 /\ p = n + 1
      BY <1>1
    <2>2. ASSUME n > 0
          PROVE  /\ p = n + 1 /\ n \in DOMAIN timerq'[i] /\ timerq'[i][n] = last'
                 /\ head' # last'
      <3>1. p = n + 1 /\ p \in DOMAIN timerq[i] /\ p # 1
        BY <1>1, <2>1, <2>2, QueueNodes
      <3>2. PICK k \in DOMAIN timerq'[i] : p = Before(i, i, k) /\ Survives(i, i, k)
        BY <1>1, <3>1 DEF TakenFrom
      <3>3. k = n
        <4>1. k \in Nat
          BY <1>1, <3>2 DEF TakenFrom
        <4>2. QED  BY <3>1, <3>2, <4>1 DEF Before
      <3>4. timerq'[i][n] = timerq[i][p]
        BY <3>2, <3>3 DEF Survives
      <3>5. timerq[i][p] # timerq[i][1]
        BY <1>1, <1>2, <3>1 DEF Once
      <3>6. QED  BY <1>1, <1>2, <3>1, <3>2, <3>3, <3>4, <3>5
    <2>3. n \in 0..Len(timerq'[i])
      BY <1>1, <2>1, <2>2 DEF TakenFrom
    <2>4. ASSUME NEW b \in Bucket, NEW k \in DOMAIN timerq'[b], ~(b = i /\ k <= n)
          PROVE  timeout'[timerq'[b][k]] # now /\ DiffMsb(timeout'[timerq'[b][k]], now) = b
      <3>1. CASE Survives(i, b, k)
        <4>1. /\ k \in Nat \ {0} /\ Before(i, b, k) \in DOMAIN timerq[b]
              /\ timerq'[b][k] = timerq[b][Before(i, b, k)]
              /\ timeout'[timerq'[b][k]] = timeout[timerq'[b][k]]
          BY <3>1, Survivors
        <4>2. ~(b = i /\ Before(i, b, k) <= p)
          BY <1>1, <2>1, <2>4, <4>1 DEF Before
        <4>3. QED  BY <4>1, <4>2 DEF Prepared
      <3>2. CASE Requeued(i, b, k, now)
        BY <1>2, <3>2 DEF Requeued, TakenFrom
      <3>3. QED  BY <1>5, <3>1, <3>2
    <2>5. (\A b \in Bucket : \A k \in DOMAIN timerq[b] :
              (b = bucket /\ k <= n) \/ Placed(timerq[b][k], b))'
      <3>1. ASSUME NEW b \in Bucket, NEW k \in DOMAIN timerq'[b], ~(b = i /\ k <= n)
            PROVE  Placed(timerq[b][k], b)'
        <4>1. timeout'[timerq'[b][k]] # ticks' /\ DiffMsb(timeout'[timerq'[b][k]], ticks') = b
          BY <2>4, <3>1
        <4>2. QED  BY <4>1 DEF Placed, DiffMsb, Capped
      <3>2. QED  BY <3>1
    <2>6. head' # NULL /\ (n = 0 => head' = last')
      BY <1>2, <2>1
    <2>7. StillToTake(n)'
      BY <2>2, <2>3, <2>5, <2>6 DEF StillToTake
    <2>8. QED  BY <2>7
  <1>9. QED  BY <1>2, <1>3, <1>4, <1>6, <1>7, <1>8 DEF WheelInv

-----------------------------------------------------------------------------
(***************************************************************************)
(* The actions.                                                            *)
(***************************************************************************)
LEMMA InitWheel == Init => WheelInv
  <1> SUFFICES ASSUME Init PROVE WheelInv
    OBVIOUS
  <1>1. 0 \in Time /\ 0 \in Bucket
    BY TimeBound, WheelAssumption DEF Time, Bucket
  <1>2. /\ timerq \in [Bucket -> Seq(Actor)] /\ head = NULL /\ waking = NULL
        /\ \A i \in Bucket : timerq[i] = <<>> /\ DOMAIN timerq[i] = {} /\ Len(timerq[i]) = 0
    <2>1. <<>> \in Seq(Actor) /\ DOMAIN <<>> = {} /\ Len(<<>>) = 0
      BY EmptySeq
    <2>2. QED  BY <2>1 DEF Init
  <1>3. TypeOK
    BY <1>1, <1>2 DEF Init, TypeOK
  <1>4. StillToTake(0)
    BY <1>1, <1>2 DEF Init, StillToTake
  <1>5. QED  BY <1>2, <1>3, <1>4 DEF WheelInv, Once, TakenOut, InTime

\* Between ticks every node is in the right queue.
LEMMA BetweenTicks ==
  ASSUME WheelInv, head = NULL, NEW b \in Bucket, NEW k \in DOMAIN timerq[b]
  PROVE  Placed(timerq[b][k], b)
  <1>1. PICK p \in Nat : StillToTake(p)
    BY DEF WheelInv
  <1>2. p = 0
    BY <1>1 DEF StillToTake
  <1>3. ~(k <= 0)
    BY QueueNodes DEF WheelInv
  <1>4. QED  BY <1>1, <1>2, <1>3 DEF StillToTake

\* What the next tick finds: what is left to each is one less, and all queues but
\* the one of the highest bit that flips are right.
LEMMA NextTick ==
  ASSUME WheelInv, head = NULL, NEW now, now = Wrap(ticks + 1)
  PROVE  /\ ticks \in Time /\ now \in Time /\ DiffMsb(ticks, now) \in Bucket
         /\ \A b \in Bucket : \A k \in DOMAIN timerq[b] :
              /\ Remains(timeout[timerq[b][k]], now) = Left(timerq[b][k]) - 1
              /\ Remains(timeout[timerq[b][k]], now) <= MaxDelay
              /\ Left(timerq[b][k]) \in Nat \ {0}
              /\ \/ b = DiffMsb(ticks, now)
                 \/ /\ timeout[timerq[b][k]] # now
                    /\ DiffMsb(timeout[timerq[b][k]], now) = b
  <1>1. ticks \in Time /\ TypeOK /\ MaxDelay \in Int
    BY TimeBound DEF WheelInv, TypeOK, MaxDelay
  <1>2. now \in Time /\ ticks # now
    BY <1>1, NextIs
  <1>3. DiffMsb(ticks, now) \in Bucket
    BY <1>1, <1>2, DiffMsbBucket
  <1>4. ASSUME NEW b \in Bucket, NEW k \in DOMAIN timerq[b]
        PROVE  /\ Remains(timeout[timerq[b][k]], now) = Left(timerq[b][k]) - 1
               /\ Remains(timeout[timerq[b][k]], now) <= MaxDelay
               /\ Left(timerq[b][k]) \in Nat \ {0}
               /\ \/ b = DiffMsb(ticks, now)
                  \/ /\ timeout[timerq[b][k]] # now
                     /\ DiffMsb(timeout[timerq[b][k]], now) = b
    <2>1. PICK x \in Time :
            x = timeout[timerq[b][k]] /\ x # ticks /\ DiffMsb(x, ticks) = b
      BY <1>1, BetweenTicks, QueueNodes DEF Placed
    <2>2. PICK left : left = Left(timerq[b][k]) /\ left = Remains(x, ticks) /\ left <= MaxDelay
      BY <2>1 DEF Left, WheelInv, InTime
    <2>3. left \in Nat \ {0}
      BY <1>1, <2>1, <2>2, RemainsIs, TimeBound
    <2>4. Remains(x, now) = left - 1
      BY <1>1, <2>1, <2>2, TickTakesOne
    <2>5. left - 1 <= MaxDelay
      BY <1>1, <2>2, <2>3
    <2>6. b # DiffMsb(ticks, now) => x # now /\ DiffMsb(x, now) = b
      BY <1>1, <2>1, <2>2, TickKeepsQueue
    <2>7. QED  BY <2>1, <2>2, <2>3, <2>4, <2>5, <2>6
  <1>5. QED  BY <1>1, <1>2, <1>3, <1>4

LEMMA TickEnterStep ==
  ASSUME WheelInv, TickEnter
  PROVE  WheelInv'
  <1>1. PICK now, i : now = Wrap(ticks + 1) /\ i = DiffMsb(ticks, now)
    OBVIOUS
  <1>2. head = NULL /\ ticks' = now
    BY <1>1 DEF TickEnter
  <1>3. /\ now \in Time /\ i \in Bucket
        /\ \A b \in Bucket : \A k \in DOMAIN timerq[b] :
             /\ Remains(timeout[timerq[b][k]], now) <= MaxDelay
             /\ \/ b = i
                \/ /\ timeout[timerq[b][k]] # now
                   /\ DiffMsb(timeout[timerq[b][k]], now) = b
    BY <1>1, <1>2, NextTick
  <1>4. TypeOK /\ Once /\ TakenOut /\ waking = NULL
    BY <1>2 DEF WheelInv
  <1>5. CASE timerq[i] = <<>> /\ UNCHANGED <<timerq, timeout, tickLocals>>
    <2>1. UNCHANGED <<timerq, timeout, bucket, last, head, waking>>
      BY <1>5 DEF tickLocals
    <2>2. TypeOK' /\ Once' /\ TakenOut'
      BY <1>2, <1>3, <1>4, <2>1 DEF TypeOK, Once, TakenOut
    <2>3. InTime'
      BY <1>2, <1>3, <2>1 DEF InTime, Left, Remains, Wrap, MaxDelay
    <2>4. DOMAIN timerq[i] = {}
      <3>1. DOMAIN <<>> = {}
        OBVIOUS
      <3>2. QED  BY <1>5, <3>1
    <2>5. ASSUME NEW b \in Bucket, NEW k \in DOMAIN timerq'[b]
          PROVE  Placed(timerq[b][k], b)'
      <3>1. b # i
        BY <2>1, <2>4, <2>5
      <3>2. timeout'[timerq'[b][k]] # ticks' /\ DiffMsb(timeout'[timerq'[b][k]], ticks') = b
        BY <1>2, <1>3, <2>1, <3>1
      <3>3. QED  BY <3>2 DEF Placed, DiffMsb, Capped
    <2>6. StillToTake(0)'
      <3>1. 0 \in 0..Len(timerq'[bucket'])
        BY <1>4, <2>1, QueueNodes DEF TypeOK
      <3>2. QED  BY <1>2, <2>1, <2>5, <3>1 DEF StillToTake
    <2>7. QED  BY <1>4, <2>1, <2>2, <2>3, <2>6 DEF WheelInv
  <1>6. CASE /\ timerq[i] # <<>> /\ bucket' = i
             /\ last' = timerq[i][Len(timerq[i])] /\ TakeOut(i, now)
    <2>1. PICK p \in Nat : p = Len(timerq[i]) /\ p > 0 /\ DOMAIN timerq[i] = 1..p
                           /\ timerq[i][p] \in Actor
      <3>1. Len(timerq[i]) \in Nat \ {0} /\ DOMAIN timerq[i] = 1..Len(timerq[i])
        BY <1>3, <1>4, <1>6, QueueNodes, EmptySeq
      <3>2. Len(timerq[i]) \in DOMAIN timerq[i]
        BY <3>1
      <3>3. QED  BY <1>3, <1>4, <3>1, <3>2, QueueNodes
    <2>2. Prepared(i, now, p)
      BY <1>3, <1>4, <1>6, <2>1 DEF Prepared
    <2>3. TakenFrom(i, now)
      BY <1>3, <1>4, <1>6, TakeOutMoves
    <2>4. QED  BY <1>2, <1>6, <2>1, <2>2, <2>3, TakeOutKeeps
  <1>7. QED  BY <1>1, <1>5, <1>6 DEF TickEnter

LEMMA ActivateStep ==
  ASSUME WheelInv, Activate
  PROVE  WheelInv'
  <1>1. /\ waking' = NULL
        /\ UNCHANGED <<ticks, timerq, timeout, bucket, last, head>>
    BY DEF Activate
  <1>2. TypeOK' /\ Once' /\ InTime'
    BY <1>1 DEF WheelInv, TypeOK, Once, InTime, Left, Remains, Wrap, MaxDelay
  <1>3. TakenOut'
    <2>1. ASSUME NEW b \in Bucket, NEW k \in DOMAIN timerq[b] PROVE timerq[b][k] # NULL
      BY QueueNodes, WheelAssumption DEF WheelInv
    <2>2. QED  BY <1>1, <2>1 DEF TakenOut
  <1>4. \E p \in Nat : StillToTake(p)'
    <2>1. PICK p \in Nat : StillToTake(p)
      BY DEF WheelInv
    <2>2. ASSUME NEW b \in Bucket, NEW k \in DOMAIN timerq[b], Placed(timerq[b][k], b)
          PROVE  Placed(timerq[b][k], b)'
      BY <1>1, <2>2 DEF Placed, DiffMsb, Capped
    <2>3. StillToTake(p)'
      BY <1>1, <2>1, <2>2 DEF StillToTake
    <2>4. QED  BY <2>3
  <1>5. QED  BY <1>1, <1>2, <1>3, <1>4 DEF WheelInv

LEMMA TickNextStep ==
  ASSUME WheelInv, TickNext
  PROVE  WheelInv'
  <1>1. PICK p \in Nat : StillToTake(p)
    BY DEF WheelInv
  <1>2. head # NULL /\ waking = NULL
    BY DEF TickNext
  <1>3. TypeOK /\ Once /\ TakenOut /\ InTime /\ bucket \in Bucket /\ ticks \in Time
    BY DEF WheelInv, TypeOK
  <1>4. CASE /\ head # last /\ timerq[bucket] # <<>>
             /\ TakeOut(bucket, ticks) /\ UNCHANGED <<ticks, bucket, last>>
    <2>1. Prepared(bucket, ticks, p)
      BY <1>1, <1>3, <1>4 DEF Prepared, StillToTake, Placed, InTime, Left
    <2>2. TakenFrom(bucket, ticks)
      BY <1>3, <1>4, TakeOutMoves
    <2>3. p > 0 /\ timerq[bucket][p] = last'
      <3>1. p # 0
        BY <1>1, <1>2, <1>4 DEF StillToTake
      <3>2. QED  BY <1>1, <1>4, <3>1 DEF StillToTake
    <2>4. last' \in Actor \cup {NULL}
      BY <1>3, <1>4 DEF TypeOK
    <2>5. QED  BY <1>4, <2>1, <2>2, <2>3, <2>4, TakeOutKeeps
  <1>5. CASE /\ head = last \/ timerq[bucket] = <<>>
             /\ head' = NULL /\ last' = NULL /\ bucket' = 0
             /\ UNCHANGED <<ticks, timerq, timeout, waking>>
    <2>1. p = 0
      <3>1. head = last => p = 0
        BY <1>1 DEF StillToTake
      <3>2. timerq[bucket] = <<>> => p \in 0..0
        BY <1>1, EmptySeq DEF StillToTake
      <3>3. QED  BY <1>5, <3>1, <3>2
    <2>2. 0 \in Bucket
      BY WheelAssumption DEF Bucket
    <2>3. TypeOK' /\ Once' /\ TakenOut' /\ InTime'
      BY <1>3, <1>5, <2>2
         DEF TypeOK, Once, TakenOut, InTime, Left, Remains, Wrap, MaxDelay
    <2>4. ASSUME NEW b \in Bucket, NEW k \in DOMAIN timerq[b]
          PROVE  Placed(timerq[b][k], b)
      <3>1. ~(k <= 0)
        BY <1>3, QueueNodes
      <3>2. QED  BY <1>1, <2>1, <3>1 DEF StillToTake
    <2>5. StillToTake(0)'
      <3>1. 0 \in 0..Len(timerq[0])
        BY <1>3, <2>2, QueueNodes
      <3>2. ASSUME NEW b \in Bucket, NEW k \in DOMAIN timerq[b]
            PROVE  Placed(timerq[b][k], b)'
        <4>1. Placed(timerq[b][k], b)
          BY <2>4
        <4>2. QED  BY <1>5, <4>1 DEF Placed, DiffMsb, Capped
      <3>3. QED  BY <1>5, <3>1, <3>2 DEF StillToTake
    <2>6. QED  BY <1>2, <1>5, <2>3, <2>5 DEF WheelInv
  <1>6. QED  BY <1>4, <1>5 DEF TickNext

\* What Sleep does: the actor is the last node of its queue, all others are where
\* they were.
LEMMA SleepMoves ==
  ASSUME TypeOK, NEW a \in Actor, NEW d \in 1..MaxDelay, Sleep(a, d)
  PROVE  /\ a \notin Linked /\ a # waking
         /\ UNCHANGED <<ticks, bucket, last, head, waking>>
         /\ timeout' \in [Actor -> Time] /\ timerq' \in [Bucket -> Seq(Actor)]
         /\ timeout'[a] # ticks /\ Left(a)' = d
         /\ \A b \in Actor \ {a} : timeout'[b] = timeout[b]
         /\ \A i \in Bucket : \A k \in DOMAIN timerq[i] :
              k \in DOMAIN timerq'[i] /\ timerq'[i][k] = timerq[i][k] /\ timerq[i][k] # a
         /\ \A i \in Bucket : \A k \in DOMAIN timerq'[i] :
              \/ k \in DOMAIN timerq[i]
              \/ /\ timerq'[i][k] = a /\ i = DiffMsb(timeout'[a], ticks)
                 /\ k = Len(timerq[i]) + 1
         /\ \E i \in Bucket : \E k \in DOMAIN timerq'[i] : timerq'[i][k] = a
         /\ \A i \in Bucket : Len(timerq[i]) \in Nat /\ Len(timerq'[i]) \in Nat
                              /\ Len(timerq[i]) <= Len(timerq'[i])
  <1>1. PICK due : due = Wrap(ticks + d)
    OBVIOUS
  <1>2. ticks \in Time /\ timeout \in [Actor -> Time] /\ timerq \in [Bucket -> Seq(Actor)]
    BY DEF TypeOK
  <1>3. due \in Time /\ due # ticks /\ Remains(due, ticks) = d
    BY <1>1, <1>2, SleepLeaves
  <1>4. PICK j : j = DiffMsb(ticks, due)
    OBVIOUS
  <1>5. j \in Bucket /\ j = DiffMsb(due, ticks)
    BY <1>2, <1>3, <1>4, DiffMsbBucket
  <1>6. PICK s : s = Append(timerq[j], a)
    OBVIOUS
  <1>7. /\ s \in Seq(Actor) /\ Len(s) = Len(timerq[j]) + 1
        /\ DOMAIN timerq[j] = 1..Len(timerq[j]) /\ DOMAIN s = 1..(Len(timerq[j]) + 1)
        /\ \A k \in 1..Len(timerq[j]) : s[k] = timerq[j][k]
        /\ s[Len(timerq[j]) + 1] = a
    BY <1>2, <1>5, <1>6, AppendIs
  <1>8. /\ a \notin Sleeping
        /\ timeout' = [timeout EXCEPT ![a] = due]
        /\ timerq' = [timerq EXCEPT ![j] = s]
        /\ UNCHANGED <<ticks, bucket, last, head, waking>>
    BY <1>1, <1>4, <1>6 DEF Sleep, tickLocals
  <1>9. a \notin Linked /\ a # waking
    BY <1>8, WheelAssumption DEF Sleeping
  <1>10. timeout' \in [Actor -> Time] /\ timerq' \in [Bucket -> Seq(Actor)]
    BY <1>2, <1>3, <1>5, <1>7, <1>8
  <1>11. timeout'[a] = due /\ \A b \in Actor \ {a} : timeout'[b] = timeout[b]
    BY <1>2, <1>8
  <1>12. Left(a)' = d
    <2>1. Left(a)' = Remains(timeout'[a], ticks')
      BY DEF Left, Remains, Wrap
    <2>2. QED  BY <1>3, <1>8, <1>11, <2>1
  <1>13. timerq'[j] = s /\ \A i \in Bucket \ {j} : timerq'[i] = timerq[i]
    BY <1>2, <1>5, <1>8
  <1>14. \A i \in Bucket : Len(timerq[i]) \in Nat /\ DOMAIN timerq[i] = 1..Len(timerq[i])
    BY QueueNodes
  <1>15. PICK n \in Nat : /\ n = Len(timerq[j]) /\ DOMAIN timerq[j] = 1..n
                          /\ DOMAIN s = 1..(n + 1) /\ Len(s) = n + 1 /\ s[n + 1] = a
                          /\ \A k \in 1..n : s[k] = timerq[j][k]
    BY <1>5, <1>7, <1>14
  <1>16. ASSUME NEW i \in Bucket, NEW k \in DOMAIN timerq[i]
         PROVE  k \in DOMAIN timerq'[i] /\ timerq'[i][k] = timerq[i][k] /\ timerq[i][k] # a
    <2>1. timerq[i][k] # a
      BY <1>9 DEF Linked
    <2>2. CASE i = j
      BY <1>13, <1>15, <2>1, <2>2
    <2>3. CASE i # j
      BY <1>13, <2>1, <2>3
    <2>4. QED  BY <2>2, <2>3
  <1>17. ASSUME NEW i \in Bucket, NEW k \in DOMAIN timerq'[i]
         PROVE  \/ k \in DOMAIN timerq[i]
                \/ timerq'[i][k] = a /\ i = j /\ k = Len(timerq[i]) + 1
    <2>1. CASE i = j
      <3>1. k \in 1..n \/ k = n + 1
        BY <1>13, <1>15, <2>1
      <3>2. QED  BY <1>13, <1>15, <2>1, <3>1
    <2>2. CASE i # j
      BY <1>13, <2>2
    <2>3. QED  BY <2>1, <2>2
  <1>18. n + 1 \in DOMAIN timerq'[j] /\ timerq'[j][n + 1] = a
    BY <1>13, <1>15
  <1>19. \A i \in Bucket : Len(timerq'[i]) \in Nat /\ Len(timerq[i]) <= Len(timerq'[i])
    <2>1. Len(timerq'[j]) = n + 1
      BY <1>13, <1>15
    <2>2. QED  BY <1>13, <1>14, <1>15, <2>1
  <1>20. \A i \in Bucket : \A k \in DOMAIN timerq'[i] :
           \/ k \in DOMAIN timerq[i]
           \/ timerq'[i][k] = a /\ i = DiffMsb(timeout'[a], ticks) /\ k = Len(timerq[i]) + 1
    BY <1>5, <1>11, <1>17
  <1>21. timeout'[a] # ticks
    BY <1>3, <1>11
  <1>22. QED
    BY <1>5, <1>8, <1>9, <1>10, <1>11, <1>12, <1>14, <1>16, <1>18, <1>19, <1>20, <1>21

LEMMA SleepStep ==
  ASSUME WheelInv, NEW a \in Actor, NEW d \in 1..MaxDelay, Sleep(a, d)
  PROVE  WheelInv'
  <1>1. TypeOK /\ Once /\ TakenOut /\ InTime
    BY DEF WheelInv
  <1>2. /\ a \notin Linked /\ a # waking
        /\ UNCHANGED <<ticks, bucket, last, head, waking>>
        /\ timeout' \in [Actor -> Time] /\ timerq' \in [Bucket -> Seq(Actor)]
        /\ timeout'[a] # ticks /\ Left(a)' = d
        /\ \A b \in Actor \ {a} : timeout'[b] = timeout[b]
        /\ \A i \in Bucket : \A k \in DOMAIN timerq[i] :
             k \in DOMAIN timerq'[i] /\ timerq'[i][k] = timerq[i][k] /\ timerq[i][k] # a
        /\ \A i \in Bucket : \A k \in DOMAIN timerq'[i] :
             \/ k \in DOMAIN timerq[i]
             \/ /\ timerq'[i][k] = a /\ i = DiffMsb(timeout'[a], ticks)
                /\ k = Len(timerq[i]) + 1
        /\ \A i \in Bucket : Len(timerq[i]) \in Nat /\ Len(timerq'[i]) \in Nat
                             /\ Len(timerq[i]) <= Len(timerq'[i])
    BY <1>1, SleepMoves
  <1>3. TypeOK'
    BY <1>1, <1>2 DEF TypeOK
  <1>4. Once'
    <2>1. SUFFICES ASSUME NEW i \in Bucket, NEW j \in Bucket,
                          NEW k \in DOMAIN timerq'[i], NEW m \in DOMAIN timerq'[j],
                          timerq'[i][k] = timerq'[j][m]
                   PROVE  i = j /\ k = m
      BY DEF Once
    <2>2. CASE k \in DOMAIN timerq[i] /\ m \in DOMAIN timerq[j]
      BY <1>1, <1>2, <2>1, <2>2 DEF Once
    <2>3. CASE k \notin DOMAIN timerq[i] /\ m \notin DOMAIN timerq[j]
      BY <1>2, <2>3
    <2>4. CASE k \in DOMAIN timerq[i] /\ m \notin DOMAIN timerq[j]
      BY <1>2, <2>1, <2>4
    <2>5. CASE k \notin DOMAIN timerq[i] /\ m \in DOMAIN timerq[j]
      BY <1>2, <2>1, <2>5
    <2>6. QED  BY <2>2, <2>3, <2>4, <2>5
  <1>5. TakenOut'
    <2>1. SUFFICES ASSUME NEW i \in Bucket, NEW k \in DOMAIN timerq'[i]
                   PROVE  timerq'[i][k] # waking'
      BY DEF TakenOut
    <2>2. CASE k \in DOMAIN timerq[i]
      BY <1>1, <1>2, <2>2 DEF TakenOut
    <2>3. CASE k \notin DOMAIN timerq[i]
      BY <1>2, <2>3
    <2>4. QED  BY <2>2, <2>3
  <1>6. \A b \in Actor \ {a} : Left(b)' = Left(b)
    BY <1>2 DEF Left, Remains, Wrap
  <1>7. InTime'
    <2>1. SUFFICES ASSUME NEW i \in Bucket, NEW k \in DOMAIN timerq'[i]
                   PROVE  (Left(timerq[i][k]) <= MaxDelay)'
      BY DEF InTime
    <2>2. CASE k \in DOMAIN timerq[i]
      <3>1. PICK b \in Actor \ {a} : b = timerq[i][k] /\ b = timerq'[i][k]
        BY <1>1, <1>2, <2>2, QueueNodes
      <3>2. Left(b) <= MaxDelay
        BY <1>1, <2>2, <3>1 DEF InTime
      <3>3. Left(b)' <= MaxDelay
        BY <1>6, <3>2
      <3>4. QED  BY <3>1, <3>3 DEF Left, Remains, Wrap, MaxDelay
    <2>3. CASE k \notin DOMAIN timerq[i]
      <3>1. Left(a)' <= MaxDelay
        BY <1>2, TimeBound DEF MaxDelay
      <3>2. timerq'[i][k] = a
        BY <1>2, <2>3
      <3>3. QED  BY <3>1, <3>2 DEF Left, Remains, Wrap, MaxDelay
    <2>4. QED  BY <2>2, <2>3
  <1>8. \E p \in Nat : StillToTake(p)'
    <2>1. PICK p \in Nat : StillToTake(p)
      BY DEF WheelInv
    <2>2. bucket \in Bucket
      BY <1>1 DEF TypeOK
    <2>3. p \in 0..Len(timerq'[bucket])
      <3>1. p \in 0..Len(timerq[bucket])
        BY <2>1 DEF StillToTake
      <3>2. QED  BY <1>2, <2>2, <3>1
    <2>4. p > 0 => head # NULL /\ head # last /\ timerq'[bucket][p] = last
      <3>1. p > 0 => p \in DOMAIN timerq[bucket]
        BY <1>1, <2>1, <2>2, QueueNodes DEF StillToTake
      <3>2. QED  BY <1>2, <2>1, <2>2, <3>1 DEF StillToTake
    <2>5. ASSUME NEW i \in Bucket, NEW k \in DOMAIN timerq'[i]
          PROVE  (i = bucket /\ k <= p) \/ Placed(timerq[i][k], i)'
      <3>1. CASE k \in DOMAIN timerq[i]
        <4>1. CASE i = bucket /\ k <= p
          BY <4>1
        <4>2. CASE Placed(timerq[i][k], i)
          <5>1. PICK b \in Actor \ {a} : b = timerq[i][k] /\ b = timerq'[i][k]
            BY <1>1, <1>2, <3>1, QueueNodes
          <5>2. timeout[b] # ticks /\ DiffMsb(timeout[b], ticks) = i
            BY <4>2, <5>1 DEF Placed
          <5>3. timeout'[b] # ticks /\ DiffMsb(timeout'[b], ticks) = i
            BY <1>2, <5>2
          <5>4. QED  BY <1>2, <5>1, <5>3 DEF Placed, DiffMsb, Capped
        <4>3. QED  BY <2>1, <3>1, <4>1, <4>2 DEF StillToTake
      <3>2. CASE k \notin DOMAIN timerq[i]
        <4>1. timerq'[i][k] = a /\ timeout'[a] # ticks /\ DiffMsb(timeout'[a], ticks) = i
          BY <1>2, <3>2
        <4>2. QED  BY <1>2, <4>1 DEF Placed, DiffMsb, Capped
      <3>3. QED  BY <3>1, <3>2
    <2>6. StillToTake(p)'
      BY <1>2, <2>1, <2>3, <2>4, <2>5 DEF StillToTake
    <2>7. QED  BY <2>6
  <1>9. head' = NULL => waking' = NULL
    BY <1>2 DEF WheelInv
  <1>10. QED  BY <1>3, <1>4, <1>5, <1>7, <1>8, <1>9 DEF WheelInv

LEMMA WheelStutter == WheelInv /\ UNCHANGED vars => WheelInv'
  <1> SUFFICES ASSUME WheelInv, UNCHANGED vars PROVE WheelInv'
    OBVIOUS
  <1>1. UNCHANGED <<ticks, timerq, timeout, bucket, last, head, waking>>
    BY DEF vars, tickLocals
  <1>2. TypeOK' /\ Once' /\ TakenOut' /\ InTime'
    BY <1>1 DEF WheelInv, TypeOK, Once, TakenOut, InTime, Left, Remains, Wrap, MaxDelay
  <1>3. PICK p \in Nat : StillToTake(p)
    BY DEF WheelInv
  <1>4. ASSUME NEW b \in Bucket, NEW k \in DOMAIN timerq[b], Placed(timerq[b][k], b)
        PROVE  Placed(timerq[b][k], b)'
    BY <1>1, <1>4 DEF Placed, DiffMsb, Capped
  <1>5. StillToTake(p)'
    BY <1>1, <1>3, <1>4 DEF StillToTake
  <1>6. QED  BY <1>1, <1>2, <1>5 DEF WheelInv

LEMMA WheelStep == WheelInv /\ [Next]_vars => WheelInv'
  <1> SUFFICES ASSUME WheelInv, [Next]_vars PROVE WheelInv'
    OBVIOUS
  <1>1. CASE UNCHANGED vars
    BY <1>1, WheelStutter
  <1>2. CASE TickEnter
    BY <1>2, TickEnterStep
  <1>3. CASE Activate
    BY <1>3, ActivateStep
  <1>4. CASE TickNext
    BY <1>4, TickNextStep
  <1>5. CASE \E a \in Actor, d \in 1..MaxDelay : Sleep(a, d)
    BY <1>5, SleepStep
  <1>6. QED  BY <1>1, <1>2, <1>3, <1>4, <1>5 DEF Next, Tick

\* Where every node is, and what is left to its actor: between ticks and while a
\* tick is taking its queue apart (magnesium.h:272-316).
THEOREM WheelInvariant == Spec => []WheelInv
  BY InitWheel, WheelStep, PTL DEF Spec

\* The variables of the timer queues have their types.
THEOREM WheelTypes == Spec => []TypeOK
  <1>1. WheelInv => TypeOK
    BY DEF WheelInv
  <1>2. QED  BY <1>1, WheelInvariant, PTL

\* Between ticks every sleeper is in the queue of the highest bit in which its due
\* time differs from the counter, for every width of the counter, every
\* MG_TIMERQ_MAX and any number of sleepers: the tick that flips that bit is the
\* next one that has to look at it.
THEOREM RightBucketInvariant == Spec => []RightBucket
  <1>1. ASSUME WheelInv PROVE RightBucket
    <2>1. ASSUME head = NULL, NEW b \in Bucket, NEW k \in DOMAIN timerq[b]
          PROVE  Placed(timerq[b][k], b)
      BY <1>1, <2>1, BetweenTicks
    <2>2. QED  BY <2>1 DEF RightBucket, Placed
  <1>2. QED  BY <1>1, WheelInvariant, PTL

\* The loop of the tick does not miss its stop: the node that was the last one when
\* the tick began stays ahead of it until it is taken out.
THEOREM LastAheadInvariant == Spec => []LastAhead
  <1>1. ASSUME WheelInv PROVE LastAhead
    <2>1. PICK p \in Nat : StillToTake(p)
      BY <1>1 DEF WheelInv
    <2>2. ASSUME head # NULL, head # last
          PROVE  \E k \in DOMAIN timerq[bucket] : timerq[bucket][k] = last
      <3>1. p # 0 /\ p \in 1..Len(timerq[bucket]) /\ timerq[bucket][p] = last
        BY <2>1, <2>2 DEF StillToTake
      <3>2. DOMAIN timerq[bucket] = 1..Len(timerq[bucket])
        BY <1>1, QueueNodes DEF WheelInv, TypeOK
      <3>3. QED  BY <3>1, <3>2
    <2>3. QED  BY <2>2 DEF LastAhead
  <1>2. QED  BY <1>1, WheelInvariant, PTL

-----------------------------------------------------------------------------
(***************************************************************************)
(* The timer queues implement the alarms.                                  *)
(***************************************************************************)
\* The ticks left to a sleeping actor.
LeftTo(a) == IF a = waking THEN 0 ELSE Left(a)

LEMMA SleepersAre ==
  ASSUME WheelInv
  PROVE  /\ waking = NULL => Sleeping = Linked
         /\ \A a \in Linked : a \in Actor /\ a # waking /\ timeout[a] \in Time
         /\ Linked \subseteq Sleeping
         /\ \A a \in Sleeping : a \in Linked \/ a = waking
         /\ NULL \notin Sleeping
  <1>1. ASSUME NEW a \in Linked
        PROVE  a \in Actor /\ a # waking /\ timeout[a] \in Time
    <2>0. PICK i \in Bucket : \E k \in DOMAIN timerq[i] : timerq[i][k] = a
      BY DEF Linked
    <2>1. PICK k \in DOMAIN timerq[i] : timerq[i][k] = a
      BY <2>0
    <2>2. a \in Actor /\ a # waking
      BY <2>1 DEF WheelInv, TakenOut, Linked
    <2>3. QED  BY <2>2 DEF WheelInv, TypeOK
  <1>2. NULL \notin Linked
    BY WheelAssumption DEF Linked
  <1>3. QED  BY <1>1, <1>2 DEF Sleeping

\* Taking a node out leaves everyone asleep and takes nothing away from anyone.
LEMMA TakenSleepOn ==
  ASSUME WheelInv, waking = NULL, NEW i \in Bucket, NEW now \in Time, ticks' = now,
         TakenFrom(i, now)
  PROVE  /\ Sleeping' = Sleeping
         /\ \A a \in Sleeping : LeftTo(a)' = Remains(timeout[a], now)
  <1>1. Sleeping = Linked /\ \A a \in Linked : a \in Actor /\ timeout[a] \in Time
    BY SleepersAre
  <1>2. PICK first \in Actor : first = timerq[i][1] /\ first \in Linked /\ first # NULL
    <2>1. timerq[i][1] \in Actor /\ 1 \in DOMAIN timerq[i]
      BY DEF TakenFrom
    <2>2. QED  BY <2>1, WheelAssumption DEF Linked
  <1>3. ASSUME NEW a \in Sleeping' PROVE a \in Sleeping
    <2>1. CASE a = waking' /\ a # NULL
      BY <1>1, <1>2, <2>1 DEF TakenFrom
    <2>2. CASE a \in Linked'
      <3>0. PICK b \in Bucket : \E k \in DOMAIN timerq'[b] : timerq'[b][k] = a
        BY <2>2 DEF Linked
      <3>1. PICK k \in DOMAIN timerq'[b] : timerq'[b][k] = a
        BY <3>0
      <3>2. CASE Survives(i, b, k)
        <4>1. PICK m \in DOMAIN timerq[b] : timerq[b][m] = a
          BY <3>1, <3>2 DEF Survives
        <4>2. a \in Actor
          BY <4>1, QueueNodes DEF WheelInv
        <4>3. QED  BY <1>1, <4>1, <4>2 DEF Linked
      <3>3. CASE Requeued(i, b, k, now)
        BY <1>1, <1>2, <3>1, <3>3 DEF Requeued
      <3>4. QED  BY <3>1, <3>2, <3>3 DEF TakenFrom
    <2>3. QED  BY <2>1, <2>2 DEF Sleeping
  <1>4. ASSUME NEW a \in Sleeping PROVE a \in Sleeping'
    <2>0. PICK b \in Bucket : \E m \in DOMAIN timerq[b] : timerq[b][m] = a
      BY <1>1 DEF Linked
    <2>1. PICK m \in DOMAIN timerq[b] : timerq[b][m] = a
      BY <2>0
    <2>2. CASE b = i /\ m = 1
      <3>1. CASE waking' = first
        BY <1>2, <2>1, <2>2, <3>1 DEF Sleeping
      <3>2. CASE waking' # first
        <4>0. PICK c \in Bucket : \E k \in DOMAIN timerq'[c] : timerq'[c][k] = first
          BY <1>2, <3>2 DEF TakenFrom
        <4>1. PICK k \in DOMAIN timerq'[c] : timerq'[c][k] = first
          BY <4>0
        <4>2. QED  BY <1>2, <2>1, <2>2, <4>1 DEF Sleeping, Linked
      <3>3. QED  BY <3>1, <3>2
    <2>3. CASE ~(b = i /\ m = 1)
      <3>1. PICK k \in DOMAIN timerq'[b] : m = Before(i, b, k) /\ Survives(i, b, k)
        BY <2>3 DEF TakenFrom
      <3>2. timerq'[b][k] = a
        BY <2>1, <3>1 DEF Survives
      <3>3. QED  BY <3>2 DEF Sleeping, Linked
    <2>4. QED  BY <2>2, <2>3
  <1>5. ASSUME NEW a \in Sleeping PROVE LeftTo(a)' = Remains(timeout[a], now)
    <2>1. a \in Actor /\ timeout[a] \in Time /\ a # NULL
      BY <1>1, WheelAssumption
    <2>2. CASE a = waking'
      <3>1. timeout[a] = now
        BY <2>1, <2>2 DEF TakenFrom
      <3>2. Remains(now, now) = 0
        <4>1. now >= now /\ now - now = 0
          BY TimeBound DEF Time
        <4>2. QED  BY <4>1, RemainsIs
      <3>3. LeftTo(a)' = 0
        BY <2>2 DEF LeftTo
      <3>4. QED  BY <3>1, <3>2, <3>3
    <2>3. CASE a # waking'
      <3>1. timeout'[a] = timeout[a]
        <4>1. timeout \in [Actor -> Time]
          BY DEF WheelInv, TypeOK
        <4>2. CASE waking' = first /\ timeout' = [timeout EXCEPT ![first] = 0]
          BY <2>1, <2>3, <4>1, <4>2
        <4>3. CASE timeout' = timeout
          BY <4>3
        <4>4. QED  BY <1>2, <4>2, <4>3 DEF TakenFrom
      <3>2. LeftTo(a)' = Left(a)'
        BY <2>3 DEF LeftTo, Left, Remains, Wrap
      <3>3. Left(a)' = Remains(timeout'[a], ticks')
        BY DEF Left, Remains, Wrap
      <3>4. QED  BY <3>1, <3>2, <3>3
    <2>4. QED  BY <2>2, <2>3
  <1>6. QED  BY <1>3, <1>4, <1>5

LEMMA AlarmsInit == Init => Alarms!Init
  <1> SUFFICES ASSUME Init PROVE Alarms!Init
    OBVIOUS
  <1>1. \A i \in Bucket : timerq[i] = <<>>
    BY DEF Init
  <1>2. DOMAIN <<>> = {}
    OBVIOUS
  <1>3. Linked = {}
    BY <1>1, <1>2 DEF Linked
  <1>4. Sleeping = {}
    BY <1>3 DEF Sleeping, Init
  <1>5. QED  BY <1>4 DEF Alarms!Init

\* What is left to the sleepers, as the alarms see it.
LeftToAll == [a \in Sleeping |-> LeftTo(a)]

LEMMA AlarmsSleep ==
  ASSUME WheelInv, NEW a \in Actor, NEW d \in 1..MaxDelay, Sleep(a, d)
  PROVE  Alarms!Sleep(a, d)
  <1>1. /\ a \notin Linked /\ a # waking
        /\ UNCHANGED <<ticks, bucket, last, head, waking>>
        /\ Left(a)' = d
        /\ \A b \in Actor \ {a} : timeout'[b] = timeout[b]
        /\ \A i \in Bucket : \A k \in DOMAIN timerq[i] :
             k \in DOMAIN timerq'[i] /\ timerq'[i][k] = timerq[i][k] /\ timerq[i][k] # a
        /\ \A i \in Bucket : \A k \in DOMAIN timerq'[i] :
             k \in DOMAIN timerq[i] \/ timerq'[i][k] = a
        /\ \E i \in Bucket : \E k \in DOMAIN timerq'[i] : timerq'[i][k] = a
    BY SleepMoves DEF WheelInv
  <1>2. Linked' = Linked \cup {a}
    <2>1. ASSUME NEW b \in Linked PROVE b \in Linked'
      BY <1>1, SleepersAre DEF Linked
    <2>2. a \in Linked'
      BY <1>1 DEF Linked
    <2>3. ASSUME NEW b \in Linked', b # a PROVE b \in Linked
      <3>0. PICK i \in Bucket : \E k \in DOMAIN timerq'[i] : timerq'[i][k] = b /\ b \in Actor
        BY DEF Linked
      <3>1. PICK k \in DOMAIN timerq'[i] : timerq'[i][k] = b /\ b \in Actor
        BY <3>0
      <3>2. k \in DOMAIN timerq[i] /\ timerq[i][k] = b
        BY <1>1, <2>3, <3>1
      <3>3. QED  BY <3>1, <3>2 DEF Linked
    <2>4. QED  BY <2>1, <2>2, <2>3
  <1>3. a \notin Sleeping /\ Sleeping' = Sleeping \cup {a}
    BY <1>1, <1>2 DEF Sleeping
  <1>4. LeftTo(a)' = d
    <2>1. LeftTo(a)' = Left(a)'
      BY <1>1 DEF LeftTo, Left, Remains, Wrap
    <2>2. QED  BY <1>1, <2>1
  <1>5. ASSUME NEW b \in Sleeping PROVE LeftTo(b)' = LeftTo(b)
    <2>1. b # a /\ (b = waking \/ b \in Actor)
      BY <1>3, SleepersAre
    <2>2. CASE b = waking
      BY <1>1, <2>2 DEF LeftTo
    <2>3. CASE b # waking
      <3>1. timeout'[b] = timeout[b] /\ ticks' = ticks /\ waking' = waking
        BY <1>1, <2>1, <2>3
      <3>2. QED  BY <2>3, <3>1 DEF LeftTo, Left, Remains, Wrap
    <2>4. QED  BY <2>2, <2>3
  <1>6. LeftToAll' = [b \in Sleeping \cup {a} |-> IF b = a THEN d ELSE LeftTo(b)]
    <2>1. LeftToAll' = [b \in Sleeping' |-> LeftTo(b)']
      BY DEF LeftToAll
    <2>2. QED  BY <1>3, <1>4, <1>5, <2>1
  <1>7. LeftToAll' = [b \in DOMAIN LeftToAll \cup {a} |-> IF b = a THEN d ELSE LeftToAll[b]]
    <2>1. DOMAIN LeftToAll = Sleeping /\ \A b \in Sleeping : LeftToAll[b] = LeftTo(b)
      BY DEF LeftToAll
    <2>2. QED  BY <1>3, <1>6, <2>1
  <1>8. QED  BY <1>3, <1>7 DEF Alarms!Sleep, LeftToAll, LeftTo, Left, Remains

LEMMA AlarmsTick ==
  ASSUME WheelInv, TickEnter
  PROVE  Alarms!Tick
  <1>1. PICK now : now = Wrap(ticks + 1)
    OBVIOUS
  <1>2. head = NULL /\ waking = NULL /\ ticks' = now
    BY <1>1 DEF TickEnter, WheelInv
  <1>3. now \in Time /\ DiffMsb(ticks, now) \in Bucket
    BY <1>1, <1>2, NextTick
  <1>4. ASSUME NEW a \in Sleeping
        PROVE  /\ LeftTo(a) \in Nat \ {0}
               /\ Remains(timeout[a], now) = LeftTo(a) - 1
    <2>1. a \in Linked /\ a # waking
      BY <1>2, SleepersAre
    <2>2. PICK b \in Bucket : \E k \in DOMAIN timerq[b] : timerq[b][k] = a
      BY <2>1 DEF Linked
    <2>3. PICK k \in DOMAIN timerq[b] : timerq[b][k] = a
      BY <2>2
    <2>4. Remains(timeout[a], now) = Left(a) - 1 /\ Left(a) \in Nat \ {0}
      BY <1>1, <1>2, <2>3, NextTick
    <2>5. QED  BY <2>1, <2>4 DEF LeftTo
  <1>5. /\ Sleeping' = Sleeping
        /\ \A a \in Sleeping : LeftTo(a)' = Remains(timeout[a], now)
    <2>1. PICK i \in Bucket : i = DiffMsb(ticks, now)
      BY <1>3
    <2>2. CASE UNCHANGED <<timerq, timeout, tickLocals>>
      <3>1. UNCHANGED <<timerq, timeout, waking>>
        BY <2>2 DEF tickLocals
      <3>2. Sleeping' = Sleeping
        BY <3>1 DEF Sleeping, Linked
      <3>3. ASSUME NEW a \in Sleeping PROVE LeftTo(a)' = Remains(timeout[a], now)
        <4>1. a # waking
          BY <1>2, SleepersAre
        <4>2. QED  BY <1>2, <3>1, <4>1 DEF LeftTo, Left, Remains, Wrap
      <3>4. QED  BY <3>2, <3>3
    <2>3. CASE timerq[i] # <<>> /\ TakeOut(i, now)
      <3>1. TakenFrom(i, now)
        BY <1>3, <2>3, TakeOutMoves DEF WheelInv
      <3>2. QED  BY <1>2, <1>3, <3>1, TakenSleepOn
    <2>4. QED  BY <1>1, <2>1, <2>2, <2>3 DEF TickEnter
  <1>6. LeftToAll' = [a \in Sleeping |-> LeftTo(a) - 1]
    <2>1. LeftToAll' = [a \in Sleeping' |-> LeftTo(a)']
      BY DEF LeftToAll
    <2>2. \A a \in Sleeping : LeftTo(a)' = LeftTo(a) - 1
      BY <1>4, <1>5
    <2>3. QED  BY <1>5, <2>1, <2>2
  <1>7. DOMAIN LeftToAll = Sleeping /\ \A a \in Sleeping : LeftToAll[a] = LeftTo(a)
    BY DEF LeftToAll
  <1>8. /\ \A a \in DOMAIN LeftToAll : LeftToAll[a] > 0
        /\ LeftToAll' = [a \in DOMAIN LeftToAll |-> LeftToAll[a] - 1]
    <2>1. \A a \in DOMAIN LeftToAll : LeftToAll[a] > 0
      BY <1>4, <1>7
    <2>2. LeftToAll' = [a \in DOMAIN LeftToAll |-> LeftToAll[a] - 1]
      BY <1>6, <1>7
    <2>3. QED  BY <2>1, <2>2
  <1>9. QED  BY <1>8 DEF Alarms!Tick, LeftToAll, LeftTo, Left, Remains

LEMMA AlarmsWake ==
  ASSUME WheelInv, Activate
  PROVE  \E a \in DOMAIN LeftToAll : Alarms!Wake(a)
  <1>1. /\ waking # NULL /\ waking' = NULL
        /\ UNCHANGED <<ticks, timerq, timeout>>
    BY DEF Activate
  <1>2. PICK woken : woken = waking /\ woken \in Sleeping
    BY <1>1 DEF Sleeping
  <1>3. Linked' = Linked
    BY <1>1 DEF Linked
  <1>4. Sleeping' = Sleeping \ {woken}
    <2>1. Sleeping' = Linked
      BY <1>1, <1>3 DEF Sleeping
    <2>2. waking \notin Linked
      BY SleepersAre
    <2>3. QED  BY <1>2, <2>1, <2>2 DEF Sleeping
  <1>5. ASSUME NEW a \in Sleeping', TRUE PROVE LeftTo(a)' = LeftTo(a)
    <2>1. a \in Sleeping /\ a # waking /\ a # NULL
      BY <1>2, <1>4, SleepersAre
    <2>2. QED  BY <1>1, <2>1 DEF LeftTo, Left, Remains, Wrap
  <1>6. DOMAIN LeftToAll = Sleeping /\ \A a \in Sleeping : LeftToAll[a] = LeftTo(a)
    BY DEF LeftToAll
  <1>7. LeftToAll' = [a \in DOMAIN LeftToAll \ {woken} |-> LeftToAll[a]]
    <2>1. LeftToAll' = [a \in Sleeping' |-> LeftTo(a)']
      BY DEF LeftToAll
    <2>2. \A a \in Sleeping \ {woken} : LeftTo(a)' = LeftToAll[a]
      BY <1>4, <1>5, <1>6
    <2>3. QED  BY <1>4, <1>6, <2>1, <2>2
  <1>8. LeftToAll[woken] = 0
    BY <1>2, <1>6 DEF LeftTo
  <1>9. Alarms!Wake(woken)
    BY <1>7, <1>8 DEF Alarms!Wake, LeftToAll, LeftTo, Left, Remains
  <1>10. QED  BY <1>2, <1>6, <1>9

LEMMA AlarmsTickNext ==
  ASSUME WheelInv, TickNext
  PROVE  UNCHANGED LeftToAll
  <1>1. head # NULL /\ waking = NULL /\ ticks' = ticks
    BY DEF TickNext
  <1>2. ticks \in Time /\ bucket \in Bucket
    BY DEF WheelInv, TypeOK
  <1>3. CASE timerq[bucket] # <<>> /\ TakeOut(bucket, ticks)
    <2>1. TakenFrom(bucket, ticks)
      BY <1>2, <1>3, TakeOutMoves DEF WheelInv
    <2>2. /\ Sleeping' = Sleeping
          /\ \A a \in Sleeping : LeftTo(a)' = Remains(timeout[a], ticks)
      BY <1>1, <1>2, <2>1, TakenSleepOn
    <2>3. \A a \in Sleeping : LeftTo(a) = Remains(timeout[a], ticks)
      BY <1>1, SleepersAre DEF LeftTo, Left
    <2>4. LeftToAll' = [a \in Sleeping' |-> LeftTo(a)']
      BY DEF LeftToAll
    <2>5. QED  BY <2>2, <2>3, <2>4 DEF LeftToAll
  <1>4. CASE UNCHANGED <<ticks, timerq, timeout, waking>>
    BY <1>4 DEF LeftToAll, LeftTo, Left, Remains, Wrap, Sleeping, Linked
  <1>5. QED  BY <1>1, <1>3, <1>4 DEF TickNext

LEMMA AlarmsStep == WheelInv /\ [Next]_vars => [Alarms!Next]_LeftToAll
  <1> SUFFICES ASSUME WheelInv, [Next]_vars PROVE [Alarms!Next]_LeftToAll
    OBVIOUS
  <1>1. CASE UNCHANGED vars
    <2>1. UNCHANGED <<ticks, timerq, timeout, waking>>
      BY <1>1 DEF vars, tickLocals
    <2>2. UNCHANGED LeftToAll
      BY <2>1 DEF LeftToAll, LeftTo, Left, Remains, Wrap, Sleeping, Linked
    <2>3. QED  BY <2>2
  <1>2. CASE TickEnter
    <2>1. Alarms!Tick
      BY <1>2, AlarmsTick
    <2>2. QED  BY <2>1 DEF Alarms!Next
  <1>3. CASE Activate
    <2>1. \E a \in DOMAIN LeftToAll : Alarms!Wake(a)
      BY <1>3, AlarmsWake
    <2>2. QED  BY <2>1 DEF Alarms!Next, LeftToAll, LeftTo, Left, Remains
  <1>4. CASE TickNext
    <2>1. UNCHANGED LeftToAll
      BY <1>4, AlarmsTickNext
    <2>2. QED  BY <2>1
  <1>5. CASE \E a \in Actor, d \in 1..MaxDelay : Sleep(a, d)
    <2>1. PICK a \in Actor, d \in 1..MaxDelay : Sleep(a, d)
      BY <1>5
    <2>2. Alarms!Sleep(a, d)
      BY <2>1, AlarmsSleep
    <2>3. QED  BY <2>2 DEF Alarms!Next
  <1>6. QED  BY <1>1, <1>2, <1>3, <1>4, <1>5 DEF Next, Tick

\* The timer queues implement the alarms: an actor that called mg_sleep_for(d) is
\* woken by the d-th tick from then and by no other, though a tick looks at one
\* queue only, lets actors fall asleep while it runs, and though the counter wraps
\* around (magnesium.h:272-316).
THEOREM AlarmRefinement == Spec => ImplementsAlarms
  <1>1. Init => Alarms!Init
    BY AlarmsInit
  <1>2. WheelInv /\ [Next]_vars =>
          [Alarms!Next]_[a \in Sleeping |-> IF a = waking THEN 0 ELSE Wrap(timeout[a] - ticks)]
    BY AlarmsStep DEF LeftToAll, LeftTo, Left, Remains
  <1>3. QED
    BY <1>1, <1>2, WheelInvariant, PTL DEF Spec, ImplementsAlarms, Alarms!Spec

-----------------------------------------------------------------------------
(***************************************************************************)
(* mg_port_clz of the ARMv6-M port, for every 32-bit word.                 *)
(***************************************************************************)
\* The bits that are at most n - 1 below one of v.
Reach(v, n) == {b \in Bit : \E c \in v : c - b \in 0..(n - 1)}

LEMMA ReachTwice ==
  ASSUME NEW v \in SUBSET Bit, NEW n \in Nat \ {0}
  PROVE  Reach(v, n) \cup ShiftRight(Reach(v, n), n) = Reach(v, 2 * n)
  <1>1. ASSUME NEW b \in Reach(v, n) PROVE b \in Reach(v, 2 * n)
    <2>1. PICK c \in v : c \in 0..31 /\ b \in 0..31 /\ c - b \in 0..(n - 1)
      BY DEF Reach, Bit
    <2>2. c - b \in 0..((2 * n) - 1)
      BY <2>1
    <2>3. QED  BY <2>1, <2>2 DEF Reach, Bit
  <1>2. ASSUME NEW b \in ShiftRight(Reach(v, n), n) PROVE b \in Reach(v, 2 * n)
    <2>1. PICK a \in Reach(v, n) : a >= n /\ b = a - n
      BY DEF ShiftRight
    <2>2. PICK c \in v : c \in 0..31 /\ a \in 0..31 /\ c - a \in 0..(n - 1)
      BY DEF Reach, Bit
    <2>3. b \in 0..31 /\ c - b \in 0..((2 * n) - 1)
      BY <2>1, <2>2
    <2>4. QED  BY <2>2, <2>3 DEF Reach, Bit
  <1>3. ASSUME NEW b \in Reach(v, 2 * n), b \notin Reach(v, n)
        PROVE  b \in ShiftRight(Reach(v, n), n)
    <2>1. PICK c \in v : c \in 0..31 /\ b \in 0..31 /\ c - b \in 0..((2 * n) - 1)
      BY DEF Reach, Bit
    <2>2. ~(c - b \in 0..(n - 1))
      BY <1>3, <2>1 DEF Reach, Bit
    <2>3. PICK a : a = b + n
      OBVIOUS
    <2>4. a \in 0..31 /\ c - a \in 0..(n - 1) /\ a >= n /\ b = a - n
      BY <2>1, <2>2, <2>3
    <2>5. a \in Reach(v, n)
      BY <2>1, <2>4 DEF Reach, Bit
    <2>6. QED  BY <2>4, <2>5 DEF ShiftRight
  <1>4. QED  BY <1>1, <1>2, <1>3

LEMMA SmearIs ==
  ASSUME NEW v \in SUBSET Bit, NEW m \in v, \A c \in v : c <= m
  PROVE  Smear(v) = 0..m
  <1>1. v = Reach(v, 1)
    <2>1. ASSUME NEW b \in v PROVE b \in Reach(v, 1)
      <3>1. b - b \in 0..(1 - 1) /\ b \in Bit
        BY DEF Bit
      <3>2. QED  BY <3>1 DEF Reach
    <2>2. ASSUME NEW b \in Reach(v, 1) PROVE b \in v
      <3>1. PICK c \in v : c \in 0..31 /\ b \in 0..31 /\ c - b \in 0..(1 - 1)
        BY DEF Reach, Bit
      <3>2. c = b
        BY <3>1
      <3>3. QED  BY <3>2
    <2>3. QED  BY <2>1, <2>2
  <1>2. \A n \in {1, 2, 4, 8, 16} :
          Reach(v, n) \cup ShiftRight(Reach(v, n), n) = Reach(v, 2 * n)
    BY ReachTwice
  <1>3. /\ Reach(v, 1) \cup ShiftRight(Reach(v, 1), 1) = Reach(v, 2)
        /\ Reach(v, 2) \cup ShiftRight(Reach(v, 2), 2) = Reach(v, 4)
        /\ Reach(v, 4) \cup ShiftRight(Reach(v, 4), 4) = Reach(v, 8)
        /\ Reach(v, 8) \cup ShiftRight(Reach(v, 8), 8) = Reach(v, 16)
        /\ Reach(v, 16) \cup ShiftRight(Reach(v, 16), 16) = Reach(v, 32)
    <2>1. 2 * 1 = 2 /\ 2 * 2 = 4 /\ 2 * 4 = 8 /\ 2 * 8 = 16 /\ 2 * 16 = 32
      OBVIOUS
    <2>2. QED  BY <1>2, <2>1
  <1>4. Smear(v) = Reach(v, 32)
    BY <1>1, <1>3 DEF Smear
  <1>5. ASSUME NEW b PROVE b \in Reach(v, 32) <=> b \in 0..m
    <2>1. m \in 0..31 /\ \A c \in v : c \in 0..31 /\ c <= m
      BY DEF Bit
    <2>2. ASSUME b \in 0..m PROVE b \in Reach(v, 32)
      <3>1. b \in 0..31 /\ m - b \in 0..(32 - 1)
        BY <2>1, <2>2
      <3>2. QED  BY <3>1 DEF Reach, Bit
    <2>3. ASSUME b \in Reach(v, 32) PROVE b \in 0..m
      <3>1. PICK c \in v : b \in 0..31 /\ c - b \in 0..(32 - 1)
        BY <2>3 DEF Reach, Bit
      <3>2. QED  BY <2>1, <3>1
    <2>4. QED  BY <2>2, <2>3
  <1>6. QED  BY <1>4, <1>5

LEMMA MsbOnlyIs ==
  ASSUME NEW v \in SUBSET Bit, NEW m \in v, \A c \in v : c <= m
  PROVE  MsbOnly(v) = {m}
  <1>1. m \in Nat
    BY DEF Bit
  <1>2. ASSUME NEW b PROVE b \in ShiftRight(0..m, 1) <=> b \in 0..(m - 1)
    <2>1. ASSUME b \in ShiftRight(0..m, 1) PROVE b \in 0..(m - 1)
      BY <1>1, <2>1 DEF ShiftRight
    <2>2. ASSUME b \in 0..(m - 1) PROVE b \in ShiftRight(0..m, 1)
      <3>1. b + 1 \in 0..m /\ b + 1 >= 1 /\ b = (b + 1) - 1
        BY <1>1, <2>2
      <3>2. QED  BY <3>1 DEF ShiftRight
    <2>3. QED  BY <2>1, <2>2
  <1>3. \A b : b \in 0..m /\ b \notin 0..(m - 1) <=> b = m
    BY <1>1
  <1>4. Smear(v) = 0..m
    BY SmearIs
  <1>5. QED  BY <1>2, <1>3, <1>4 DEF MsbOnly

\* The five highest bits of the product of the deBruijn sequence and bit m.
Ones(m, b) == IF b - m \in DeBruijn THEN 1 ELSE 0

Index(m) ==
  Ones(m, 27) + 2 * Ones(m, 28) + 4 * Ones(m, 29) + 8 * Ones(m, 30) + 16 * Ones(m, 31)

\* They are different for every bit, and the table undoes them.
LEMMA Indexes ==
  /\ Index(0) = 0 /\ Index(1) = 1 /\ Index(2) = 3 /\ Index(3) = 7 /\ Index(4) = 14
  /\ Index(5) = 29 /\ Index(6) = 27 /\ Index(7) = 23 /\ Index(8) = 15 /\ Index(9) = 31
  /\ Index(10) = 30 /\ Index(11) = 28 /\ Index(12) = 25 /\ Index(13) = 18 /\ Index(14) = 5
  /\ Index(15) = 11 /\ Index(16) = 22 /\ Index(17) = 13 /\ Index(18) = 26 /\ Index(19) = 21
  /\ Index(20) = 10 /\ Index(21) = 20 /\ Index(22) = 9 /\ Index(23) = 19 /\ Index(24) = 6
  /\ Index(25) = 12 /\ Index(26) = 24 /\ Index(27) = 17 /\ Index(28) = 2 /\ Index(29) = 4
  /\ Index(30) = 8 /\ Index(31) = 16
  BY DEF Index, Ones, DeBruijn

LEMMA Lookups ==
  /\ hash[1] = 31 /\ hash[2] = 30 /\ hash[4] = 29 /\ hash[8] = 28 /\ hash[15] = 27
  /\ hash[30] = 26 /\ hash[28] = 25 /\ hash[24] = 24 /\ hash[16] = 23 /\ hash[32] = 22
  /\ hash[31] = 21 /\ hash[29] = 20 /\ hash[26] = 19 /\ hash[19] = 18 /\ hash[6] = 17
  /\ hash[12] = 16 /\ hash[23] = 15 /\ hash[14] = 14 /\ hash[27] = 13 /\ hash[22] = 12
  /\ hash[11] = 11 /\ hash[21] = 10 /\ hash[10] = 9 /\ hash[20] = 8 /\ hash[7] = 7
  /\ hash[13] = 6 /\ hash[25] = 5 /\ hash[18] = 4 /\ hash[3] = 3 /\ hash[5] = 2
  /\ hash[9] = 1 /\ hash[17] = 0
  BY DEF hash

LEMMA HashUndoes == \A m \in Bit : hash[Index(m) + 1] = 31 - m
  <1>1. /\ hash[Index(0) + 1] = 31 /\ hash[Index(1) + 1] = 30 /\ hash[Index(2) + 1] = 29
        /\ hash[Index(3) + 1] = 28 /\ hash[Index(4) + 1] = 27 /\ hash[Index(5) + 1] = 26
        /\ hash[Index(6) + 1] = 25 /\ hash[Index(7) + 1] = 24 /\ hash[Index(8) + 1] = 23
        /\ hash[Index(9) + 1] = 22 /\ hash[Index(10) + 1] = 21 /\ hash[Index(11) + 1] = 20
        /\ hash[Index(12) + 1] = 19 /\ hash[Index(13) + 1] = 18 /\ hash[Index(14) + 1] = 17
        /\ hash[Index(15) + 1] = 16 /\ hash[Index(16) + 1] = 15 /\ hash[Index(17) + 1] = 14
        /\ hash[Index(18) + 1] = 13 /\ hash[Index(19) + 1] = 12 /\ hash[Index(20) + 1] = 11
        /\ hash[Index(21) + 1] = 10 /\ hash[Index(22) + 1] = 9 /\ hash[Index(23) + 1] = 8
        /\ hash[Index(24) + 1] = 7 /\ hash[Index(25) + 1] = 6 /\ hash[Index(26) + 1] = 5
        /\ hash[Index(27) + 1] = 4 /\ hash[Index(28) + 1] = 3 /\ hash[Index(29) + 1] = 2
        /\ hash[Index(30) + 1] = 1 /\ hash[Index(31) + 1] = 0
    BY Indexes, Lookups
  <1>2. ASSUME NEW m \in Bit PROVE hash[Index(m) + 1] = 31 - m
    <2>1. \/ m = 0 \/ m = 1 \/ m = 2 \/ m = 3 \/ m = 4 \/ m = 5 \/ m = 6 \/ m = 7
          \/ m = 8 \/ m = 9 \/ m = 10 \/ m = 11 \/ m = 12 \/ m = 13 \/ m = 14 \/ m = 15
          \/ m = 16 \/ m = 17 \/ m = 18 \/ m = 19 \/ m = 20 \/ m = 21 \/ m = 22 \/ m = 23
          \/ m = 24 \/ m = 25 \/ m = 26 \/ m = 27 \/ m = 28 \/ m = 29 \/ m = 30 \/ m = 31
      BY DEF Bit
    <2>2. QED  BY <1>1, <2>1
  <1>3. QED  BY <1>2

\* mg_port_clz counts the leading zeros of every 32-bit word but 0
\* (nvic_m0/mg_port.h:37-49).
THEOREM ClzCorrect ==
  ASSUME NEW v \in SUBSET Bit, NEW m \in v, \A c \in v : c <= m
  PROVE  mg_port_clz(v) = 31 - m
  <1>1. MsbOnly(v) = {m} /\ m \in 0..31
    BY MsbOnlyIs DEF Bit
  <1>2. PICK product : product = UNION {ShiftLeft(DeBruijn, b) : b \in MsbOnly(v)}
    OBVIOUS
  <1>3. product = ShiftLeft(DeBruijn, m)
    BY <1>1, <1>2
  <1>4. ASSUME NEW b \in 27..31 PROVE b \in product <=> b - m \in DeBruijn
    <2>1. DeBruijn \subseteq Nat
      BY DEF DeBruijn
    <2>2. ASSUME b \in product PROVE b - m \in DeBruijn
      <3>1. PICK c \in DeBruijn : b = c + m
        BY <1>3, <2>2 DEF ShiftLeft
      <3>2. c = b - m
        BY <1>1, <2>1, <3>1
      <3>3. QED  BY <3>2
    <2>3. ASSUME b - m \in DeBruijn PROVE b \in product
      <3>1. PICK c \in DeBruijn : c = b - m
        BY <2>3
      <3>2. b = c + m /\ c + m \in Bit
        BY <1>1, <2>1, <3>1 DEF Bit
      <3>3. QED  BY <1>3, <3>2 DEF ShiftLeft
    <2>4. QED  BY <2>2, <2>3
  <1>5. \A b \in {27, 28, 29, 30, 31} : (IF b \in product THEN 1 ELSE 0) = Ones(m, b)
    <2>1. {27, 28, 29, 30, 31} \subseteq 27..31
      OBVIOUS
    <2>2. QED  BY <1>4, <2>1 DEF Ones
  <1>6. mg_port_clz(v) = hash[Index(m) + 1]
    BY <1>2, <1>5 DEF mg_port_clz, Index
  <1>7. QED  BY <1>1, <1>6, HashUndoes DEF Bit

\* What the port finds in two times is the highest bit in which they differ, in
\* whichever bits of the word they are.
LEMMA PortIs ==
  ASSUME Width <= 32, NEW x \in Time, NEW y \in Time, NEW k, IsMsb(x, y, k)
  PROVE  PortMsb[x][y] = {k}
  <1>1. x \in Nat /\ y \in Nat /\ k \in 0..(Width - 1) /\ Width \in Nat \ {0} /\ x # y
    BY TimeBound, WheelAssumption DEF IsMsb, SameFrom
  <1>2. PICK differ : differ = {j \in 0..(Width - 1) : (x \div Pow2[j]) % 2 # (y \div Pow2[j]) % 2}
    OBVIOUS
  <1>3. k \in differ
    <2>1. x \div Pow2[k] \in Nat /\ y \div Pow2[k] \in Nat
      <3>1. Pow2[k] \in Nat \ {0}
        BY <1>1, Powers
      <3>2. QED  BY <1>1, <3>1, DivideNat
    <2>2. PICK a \in Nat, b \in Nat : a = x \div Pow2[k] /\ b = y \div Pow2[k]
      BY <2>1
    <2>3. a # b /\ a \div 2 = b \div 2
      BY <1>1, <2>2, DivideTwice DEF IsMsb, SameFrom
    <2>4. PICK q \in Int, r \in 0..1 : q = a \div 2 /\ r = a % 2 /\ a = q * 2 + r
      BY DivideParts
    <2>5. PICK u \in Int, s \in 0..1 : u = b \div 2 /\ s = b % 2 /\ b = u * 2 + s
      BY DivideParts
    <2>6. r # s
      BY <2>3, <2>4, <2>5
    <2>7. QED  BY <1>1, <1>2, <2>2, <2>4, <2>5, <2>6
  <1>4. ASSUME NEW j \in differ PROVE j \in 0..(Width - 1) /\ j <= k
    <2>1. j \in 0..(Width - 1) /\ ~SameFrom(x, y, j)
      BY <1>2 DEF SameFrom
    <2>2. j >= k + 1 => SameFrom(x, y, j)
      BY <1>1, <2>1, SameUpward DEF IsMsb
    <2>3. QED  BY <1>1, <2>1, <2>2
  <1>5. ASSUME NEW p \in 0..(32 - Width)
        PROVE  31 - mg_port_clz({p + j : j \in differ}) - p = k
    <2>1. PICK v, m : v = {p + j : j \in differ} /\ m = p + k
      OBVIOUS
    <2>2. v \in SUBSET Bit
      <3>1. \A j \in differ : p + j \in 0..31
        BY <1>1, <1>4
      <3>2. QED  BY <2>1, <3>1 DEF Bit
    <2>3. m \in v
      BY <1>3, <2>1
    <2>4. \A c \in v : c <= m
      <3>1. \A j \in differ : p + j <= p + k
        BY <1>1, <1>4
      <3>2. QED  BY <2>1, <3>1
    <2>5. mg_port_clz(v) = 31 - m
      BY <2>2, <2>3, <2>4, ClzCorrect
    <2>6. 31 - (31 - m) - p = k
      BY <1>1, <2>1
    <2>7. QED  BY <2>1, <2>5, <2>6
  <1>6. 0 \in 0..(32 - Width)
    BY <1>1
  <1>7. PortMsb[x][y] = {31 - mg_port_clz({p + j : j \in differ}) - p : p \in 0..(32 - Width)}
    BY <1>1, <1>2 DEF PortMsb
  <1>8. QED  BY <1>5, <1>6, <1>7

\* On a processor without an instruction for it the port finds that same queue, as
\* long as the counter fits the 32-bit words its mg_port_clz takes.
THEOREM PortFindsBucketInvariant == Width <= 32 => (Spec => []PortFindsBucket)
  <1> SUFFICES ASSUME Width <= 32 PROVE Spec => []PortFindsBucket
    OBVIOUS
  <1>1. ASSUME WheelInv PROVE PortFindsBucket
    <2>1. ASSUME head = NULL, NEW b \in Bucket, NEW k \in DOMAIN timerq[b]
          PROVE  {Capped(msb) : msb \in PortMsb[timeout[timerq[b][k]]][ticks]} = {b}
      <3>1. PICK x \in Time, t \in Time :
              x = timeout[timerq[b][k]] /\ t = ticks /\ x # t /\ DiffMsb(x, t) = b
        <4>1. timeout[timerq[b][k]] \in Time /\ ticks \in Time
          BY <1>1, QueueNodes DEF WheelInv, TypeOK
        <4>2. Placed(timerq[b][k], b)
          BY <1>1, <2>1, BetweenTicks
        <4>3. QED  BY <4>1, <4>2 DEF Placed
      <3>2. PICK msb \in 0..(Width - 1) : IsMsb(x, t, msb)
        BY <3>1, MsbExists
      <3>3. PortMsb[x][t] = {msb} /\ Capped(msb) = b
        BY <3>1, <3>2, PortIs, DiffMsbIs
      <3>4. QED  BY <3>1, <3>3
    <2>2. QED  BY <2>1 DEF PortFindsBucket
  <1>2. QED  BY <1>1, WheelInvariant, PTL
=============================================================================
