---------------------------- MODULE AvcPocProofs ----------------------------
(***************************************************************************)
(* Proofs about the AVC order-count tracker, for every width of the frame  *)
(* number and of the LSB, every set of sequence parameter sets (with       *)
(* cycles of any length and any offsets), counters and deltas.             *)
(***************************************************************************)
EXTENDS AvcPoc, WellFoundedInduction, TLAPS

(* Every nonempty set of numbers has a least one: what the inductions      *)
(* below rest on.                                                          *)
LEMMA LeastNumber ==
  ASSUME NEW T, T \subseteq Nat, T # {}
  PROVE  \E x \in T : \A y \in T : ~ (y < x)
<1>1. \E x \in T : \A y \in T : ~ (<<y, x>> \in OpToRel(<, Nat))
    BY WFMin, NatLessThanWellFounded, Zenon
<1>2. \A x, y \in Nat : y < x => <<y, x>> \in OpToRel(<, Nat)
    BY Zenon DEF OpToRel
<1> QED
    BY <1>1, <1>2, Zenon

-----------------------------------------------------------------------------
(* The sums of the first entries of a sequence, as recursive functions.    *)

Sums(f, g, n) == f = [i \in 0 .. n |-> IF i = 0 THEN 0 ELSE f[i - 1] + g[i]]

LEMMA SumsExist ==
  ASSUME NEW n \in Nat, NEW g, \A i \in 1 .. n : g[i] \in Int
  PROVE  \E f \in [0 .. n -> Int] : Sums(f, g, n)
<1> DEFINE T == {m \in 0 .. n : ~ \E f \in [0 .. m -> Int] : Sums(f, g, m)}
<1> SUFFICES ASSUME T # {} PROVE FALSE
    OBVIOUS
<1>1. PICK m \in T : \A k \in T : ~ (k < m)
  <2>1. T \subseteq Nat /\ T # {}
      OBVIOUS
  <2> HIDE DEF T
  <2> QED
      BY <2>1, LeastNumber
<1>2. CASE m = 0
  <2>1. [i \in 0 .. 0 |-> 0] \in [0 .. 0 -> Int] /\ Sums([i \in 0 .. 0 |-> 0], g, 0)
      BY DEF Sums
  <2> QED
      BY <1>1, <1>2, <2>1
<1>3. CASE m # 0
  <2>1. m - 1 \in 0 .. n /\ m \in 1 .. n /\ m - 1 < m
      BY <1>3
  <2>2. PICK f \in [0 .. m - 1 -> Int] : Sums(f, g, m - 1)
      BY <1>1, <2>1
  <2> DEFINE h == [i \in 0 .. m |-> IF i = m THEN f[m - 1] + g[m] ELSE f[i]]
  <2>3. h \in [0 .. m -> Int]
      BY <2>1
  <2>4. \A i \in 0 .. m : h[i] = IF i = 0 THEN 0 ELSE h[i - 1] + g[i]
    <3> SUFFICES ASSUME NEW i \in 0 .. m PROVE h[i] = IF i = 0 THEN 0 ELSE h[i - 1] + g[i]
        OBVIOUS
    <3>1. CASE i = m
        BY <2>1, <3>1
    <3>2. CASE i # m
      <4>1. i \in 0 .. m - 1 /\ h[i] = f[i]
          BY <2>1, <3>2
      <4>2. f[i] = IF i = 0 THEN 0 ELSE f[i - 1] + g[i]
          BY <2>2, <4>1 DEF Sums
      <4>3. i # 0 => i - 1 \in 0 .. m /\ i - 1 # m /\ h[i - 1] = f[i - 1]
          BY <2>1, <4>1
      <4> QED
          BY <4>1, <4>2, <4>3
    <3> QED
        BY <3>1, <3>2
  <2>5. h = [i \in 0 .. m |-> h[i]]
      OBVIOUS
  <2> HIDE DEF h
  <2>6. Sums(h, g, m)
      BY <2>4, <2>5 DEF Sums
  <2> QED
      BY <1>1, <2>3, <2>6
<1> QED
    BY <1>2, <1>3

LEMMA SumsStep ==
  ASSUME NEW n \in Nat, NEW f, NEW g, Sums(f, g, n)
  PROVE  f[0] = 0 /\ \A i \in 1 .. n : f[i] = f[i - 1] + g[i]
<1>1. \A i \in 0 .. n : f[i] = IF i = 0 THEN 0 ELSE f[i - 1] + g[i]
    BY DEF Sums
<1> QED
    BY <1>1

LEMMA SumsAgree ==
  ASSUME NEW m \in Nat, NEW n \in Nat, m <= n, NEW f, NEW e, NEW g, Sums(f, g, n), Sums(e, g, m)
  PROVE  \A i \in 0 .. m : f[i] = e[i]
<1> DEFINE T == {i \in 0 .. m : f[i] # e[i]}
<1> SUFFICES ASSUME T # {} PROVE FALSE
    OBVIOUS
<1>1. PICK i \in T : \A k \in T : ~ (k < i)
  <2>1. T \subseteq Nat /\ T # {}
      OBVIOUS
  <2> HIDE DEF T
  <2> QED
      BY <2>1, LeastNumber
<1>2. i # 0
    BY SumsStep, <1>1
<1>3. i - 1 \in 0 .. m /\ i - 1 < i /\ i \in 1 .. m /\ i \in 1 .. n
    BY <1>2
<1>4. f[i - 1] = e[i - 1]
    BY <1>1, <1>3
<1> QED
    BY <1>1, <1>3, <1>4, SumsStep

LEMMA SumOfFirstIs ==
  ASSUME NEW g, NEW n \in Nat, \A i \in 1 .. n : g[i] \in Int
  PROVE  \E f \in [0 .. n -> Int] : Sums(f, g, n) /\ SumOfFirst(g, n) = f[n]
<1> DEFINE F == CHOOSE f : f = [i \in 0 .. n |-> IF i = 0 THEN 0 ELSE f[i - 1] + g[i]]
<1>1. PICK e \in [0 .. n -> Int] : Sums(e, g, n)
    BY SumsExist
<1>2. F = [i \in 0 .. n |-> IF i = 0 THEN 0 ELSE F[i - 1] + g[i]]
    BY <1>1, Zenon DEF Sums
<1>3. SumOfFirst(g, n) = F[n]
    BY DEF SumOfFirst
<1> HIDE DEF F
<1>4. Sums(F, g, n) /\ DOMAIN F = 0 .. n /\ F = [i \in 0 .. n |-> F[i]]
    BY <1>2 DEF Sums
<1>5. \A i \in 0 .. n : F[i] \in Int
    BY <1>1, <1>4, SumsAgree
<1> QED
    BY <1>3, <1>4, <1>5

LEMMA SumOfFirstGrows ==
  ASSUME NEW g, NEW n \in Nat, \A i \in 1 .. n + 1 : g[i] \in Int
  PROVE  SumOfFirst(g, n + 1) = SumOfFirst(g, n) + g[n + 1]
<1>1. \A i \in 1 .. n : g[i] \in Int
    OBVIOUS
<1>2. PICK f \in [0 .. n + 1 -> Int] : Sums(f, g, n + 1) /\ SumOfFirst(g, n + 1) = f[n + 1]
    BY n + 1 \in Nat, SumOfFirstIs
<1>3. PICK e \in [0 .. n -> Int] : Sums(e, g, n) /\ SumOfFirst(g, n) = e[n]
    BY <1>1, SumOfFirstIs
<1>4. \A i \in 0 .. n : f[i] = e[i]
  <2>1. n \in Nat /\ n + 1 \in Nat /\ n <= n + 1
      OBVIOUS
  <2> QED
      BY <1>2, <1>3, <2>1, SumsAgree
<1>5. f[n + 1] = f[(n + 1) - 1] + g[n + 1]
  <2>1. n + 1 \in Nat /\ n + 1 \in 1 .. n + 1
      OBVIOUS
  <2> QED
      BY <1>2, <2>1, SumsStep
<1>6. (n + 1) - 1 = n /\ n \in 0 .. n
    OBVIOUS
<1> QED
    BY <1>2, <1>3, <1>4, <1>5, <1>6

LEMMA SumOfFirstSteps ==
  ASSUME NEW g \in Seq(Int)
  PROVE  /\ SumOfFirst(g, 0) = 0
         /\ \A n \in 0 .. Len(g) : SumOfFirst(g, n) \in Int
         /\ \A n \in 0 .. Len(g) - 1 : SumOfFirst(g, n + 1) = SumOfFirst(g, n) + g[n + 1]
<1>1. \A n \in 0 .. Len(g) : \A i \in 1 .. n : g[i] \in Int
    OBVIOUS
<1>2. ASSUME NEW n \in 0 .. Len(g) PROVE SumOfFirst(g, n) \in Int
    BY <1>1, SumOfFirstIs
<1>3. SumOfFirst(g, 0) = 0
  <2>1. PICK f \in [0 .. 0 -> Int] : Sums(f, g, 0) /\ SumOfFirst(g, 0) = f[0]
    <3>1. 0 \in Nat /\ \A i \in 1 .. 0 : g[i] \in Int
        OBVIOUS
    <3> QED
        BY <3>1, SumOfFirstIs
  <2> QED
      BY <2>1, SumsStep
<1>4. ASSUME NEW n \in 0 .. Len(g) - 1 PROVE SumOfFirst(g, n + 1) = SumOfFirst(g, n) + g[n + 1]
    BY <1>1, SumOfFirstGrows
<1> QED
    BY <1>2, <1>3, <1>4
-----------------------------------------------------------------------------
(* The reference frames' order counts, by whole cycles or one by one.      *)

(* A quotient and a rest below the divisor are \div and %.                 *)
LEMMA QuotientAndRest ==
  ASSUME NEW c \in Nat, c > 0, NEW q \in Int, NEW r \in 0 .. c - 1
  PROVE  (q * c + r) \div c = q /\ (q * c + r) % c = r
<1> DEFINE x == q * c + r
           d == (x \div c) - q
<1>1. x \in Int /\ x \div c \in Int /\ x % c \in 0 .. c - 1 /\ x = c * (x \div c) + (x % c)
    OBVIOUS
<1>2. d \in Int /\ c * d = c * (x \div c) - c * q
    BY <1>1
<1>3. c * d = r - (x % c)
  <2>1. c * q = q * c /\ q * c \in Int
      OBVIOUS
  <2> QED
      BY <1>1, <1>2, <2>1
<1>4. c * d < c /\ c * d > - c
    BY <1>1, <1>3
<1>5. d = 0
  <2>1. ASSUME d >= 1 PROVE FALSE
    <3>1. c * d >= c
        BY <1>2, <2>1
    <3> QED
        BY <3>1, <1>4, <1>2
  <2>2. ASSUME d <= -1 PROVE FALSE
    <3>1. c * d <= - c
        BY <1>2, <2>2
    <3> QED
        BY <3>1, <1>4, <1>2
  <2> QED
      BY <1>2, <2>1, <2>2
<1> QED
    BY <1>1, <1>2, <1>3, <1>5

(* The offset of the i-th frame: the cycle of offsets repeats for ever.    *)
Repeated(s) ==
  [i \in Nat \ {0} |-> s.refOffsets[((i - 1) % Len(s.refOffsets)) + 1]]

LEMMA RepeatedIs ==
  ASSUME NEW s \in Sps, Len(s.refOffsets) # 0
  PROVE  /\ Len(s.refOffsets) \in Nat /\ Len(s.refOffsets) > 0
         /\ s.refOffsets \in Seq(Int)
         /\ \A i \in Nat \ {0} : Repeated(s)[i] \in Int
<1>1. s.refOffsets \in Seq(Int)
    BY DEF Sps
<1>2. Len(s.refOffsets) \in Nat /\ Len(s.refOffsets) > 0
    BY <1>1
<1>3. ASSUME NEW i \in Nat \ {0} PROVE Repeated(s)[i] \in Int
  <2>2. ((i - 1) % Len(s.refOffsets)) + 1 \in 1 .. Len(s.refOffsets)
    <3> DEFINE c == Len(s.refOffsets)
               x == i - 1
    <3>1. c \in Nat /\ c > 0 /\ x \in Int
        BY <1>2
    <3> HIDE DEF c, x
    <3>2. (x % c) + 1 \in 1 .. c
        BY <3>1
    <3> QED
        BY <3>2 DEF c, x
  <2>3. s.refOffsets[((i - 1) % Len(s.refOffsets)) + 1] \in Int
      BY <1>1, <2>2
  <2> QED
      BY <2>3 DEF Repeated
<1> QED
    BY <1>1, <1>2, <1>3

(* ExpectedOneByOne is a sum of the repeated offsets.                      *)
LEMMA OneByOneIs ==
  ASSUME NEW s \in Sps, Len(s.refOffsets) # 0, NEW n \in Nat, n > 0
  PROVE  \E f \in [0 .. n -> Int] :
           Sums(f, Repeated(s), n) /\ ExpectedOneByOne(s, n) = f[n]
<1> DEFINE c == Len(s.refOffsets)
           F == CHOOSE f : f = [i \in 0 .. n |->
                  IF i = 0 THEN 0 ELSE f[i - 1] + s.refOffsets[((i - 1) % c) + 1]]
<1>1. PICK e \in [0 .. n -> Int] : Sums(e, Repeated(s), n)
  <2>1. \A i \in 1 .. n : Repeated(s)[i] \in Int
      BY RepeatedIs
  <2> QED
      BY <2>1, SumsExist
<1>2. ASSUME NEW f
      PROVE  [i \in 0 .. n |-> IF i = 0 THEN 0 ELSE f[i - 1] + Repeated(s)[i]]
             = [i \in 0 .. n |-> IF i = 0 THEN 0
                                ELSE f[i - 1] + s.refOffsets[((i - 1) % c) + 1]]
  <2>1. \A i \in 0 .. n : i # 0 => Repeated(s)[i] = s.refOffsets[((i - 1) % c) + 1]
      BY DEF Repeated
  <2> QED
      BY <2>1
<1>3. e = [i \in 0 .. n |-> IF i = 0 THEN 0 ELSE e[i - 1] + s.refOffsets[((i - 1) % c) + 1]]
    BY <1>1, <1>2, Zenon DEF Sums
<1>4. F = [i \in 0 .. n |-> IF i = 0 THEN 0 ELSE F[i - 1] + s.refOffsets[((i - 1) % c) + 1]]
    BY <1>3, Zenon
<1>5. ExpectedOneByOne(s, n) = F[n]
    BY DEF ExpectedOneByOne
<1> HIDE DEF F
<1>6. Sums(F, Repeated(s), n)
    BY <1>2, <1>4, Zenon DEF Sums
<1>7. F = [i \in 0 .. n |-> F[i]]
    BY <1>4
<1>8. \A i \in 0 .. n : F[i] = e[i]
    BY <1>1, <1>6, SumsAgree, n <= n
<1>9. \A i \in 0 .. n : F[i] \in Int
    BY <1>1, <1>8
<1> QED
    BY <1>5, <1>6, <1>7, <1>9

LEMMA OneByOneSteps ==
  ASSUME NEW s \in Sps, Len(s.refOffsets) # 0, NEW n \in Nat
  PROVE  /\ ExpectedOneByOne(s, 0) = 0
         /\ ExpectedOneByOne(s, n) \in Int
         /\ ExpectedOneByOne(s, n + 1) = ExpectedOneByOne(s, n) + Repeated(s)[n + 1]
<1>1. ExpectedOneByOne(s, 0) = 0
    BY DEF ExpectedOneByOne
<1>2. n + 1 \in Nat /\ n + 1 > 0 /\ n <= n + 1
    OBVIOUS
<1>3. PICK f \in [0 .. n + 1 -> Int] :
        Sums(f, Repeated(s), n + 1) /\ ExpectedOneByOne(s, n + 1) = f[n + 1]
    BY <1>2, OneByOneIs
<1>4. f[0] = 0 /\ f[n + 1] = f[n] + Repeated(s)[n + 1] /\ f[n] \in Int
  <2>1. f[n + 1] = f[(n + 1) - 1] + Repeated(s)[n + 1] /\ f[0] = 0
    <3>1. n + 1 \in 1 .. n + 1
        BY <1>2
    <3>2. f[0] = 0 /\ \A i \in 1 .. n + 1 : f[i] = f[i - 1] + Repeated(s)[i]
        BY <1>2, <1>3, SumsStep
    <3> QED
        BY <3>1, <3>2
  <2> QED
      BY <1>3, <2>1
<1>5. ExpectedOneByOne(s, n) = f[n]
  <2>1. CASE n = 0
      BY <1>1, <1>4, <2>1
  <2>2. CASE n # 0
    <3>1. PICK e \in [0 .. n -> Int] :
            Sums(e, Repeated(s), n) /\ ExpectedOneByOne(s, n) = e[n]
        BY <2>2, OneByOneIs
    <3>2. \A i \in 0 .. n : f[i] = e[i]
        BY <1>2, <1>3, <3>1, SumsAgree
    <3> QED
        BY <3>1, <3>2
  <2> QED
      BY <2>1, <2>2
<1> QED
    BY <1>1, <1>3, <1>4, <1>5

(* ExpectedCount takes the same steps: at the end of a cycle it moves to   *)
(* the next one, with one offset of it.                                    *)
LEMMA WholeCyclesStep ==
  ASSUME NEW s \in Sps, Len(s.refOffsets) # 0, NEW k \in Nat, k > 0
  PROVE  ExpectedCount(s, k + 1) = ExpectedCount(s, k) + Repeated(s)[k + 1]
<1> DEFINE c == Len(s.refOffsets)
           g == s.refOffsets
           q == (k - 1) \div c
           r == (k - 1) % c
<1>1. c \in Nat /\ c > 0 /\ g \in Seq(Int)
    BY RepeatedIs
<1>2. q \in Int /\ r \in 0 .. c - 1 /\ k = q * c + r + 1
  <2> HIDE DEF c
  <2>1. k - 1 = c * q + r /\ q \in Int /\ r \in 0 .. c - 1
      BY <1>1
  <2>2. c * q = q * c /\ q * c \in Int
      BY <1>1, <2>1
  <2> QED
      BY <2>1, <2>2
<1>3. /\ SumOfFirst(g, 0) = 0
      /\ \A n \in 0 .. c : SumOfFirst(g, n) \in Int
      /\ \A n \in 0 .. c - 1 : SumOfFirst(g, n + 1) = SumOfFirst(g, n) + g[n + 1]
    BY <1>1, SumOfFirstSteps
<1>4. ExpectedCount(s, k) = q * SumOfFirst(g, c) + SumOfFirst(g, r + 1)
    BY <1>1 DEF ExpectedCount
<1>5. /\ ExpectedCount(s, k + 1)
           = (k \div c) * SumOfFirst(g, c) + SumOfFirst(g, (k % c) + 1)
      /\ Repeated(s)[k + 1] = g[(k % c) + 1]
  <2>1. (k + 1) - 1 = k /\ k + 1 > 0 /\ k + 1 \in Nat \ {0}
      OBVIOUS
  <2> QED
      BY <1>1, <2>1 DEF ExpectedCount, Repeated
<1> HIDE DEF c, g, q, r
<1>6. CASE r + 1 # c
  <2>1. r + 1 \in 0 .. c - 1 /\ k = q * c + (r + 1)
    <3>1. q * c \in Int
        BY <1>1, <1>2
    <3> QED
        BY <1>1, <1>2, <1>6, <3>1
  <2>2. k \div c = q /\ k % c = r + 1
      BY <1>1, <1>2, <2>1, QuotientAndRest
  <2>3. /\ SumOfFirst(g, (r + 1) + 1) = SumOfFirst(g, r + 1) + g[(r + 1) + 1]
        /\ SumOfFirst(g, r + 1) \in Int /\ SumOfFirst(g, c) \in Int
        /\ SumOfFirst(g, (r + 1) + 1) \in Int
      BY <1>1, <1>3, <2>1
  <2>4. g[(r + 1) + 1] \in Int
    <3>1. (r + 1) + 1 \in 1 .. c
        BY <1>1, <2>1
    <3> QED
        BY <1>1, <3>1 DEF g, c
  <2>5. q * SumOfFirst(g, c) \in Int
      BY <1>2, <2>3
  <2>6. /\ ExpectedCount(s, k + 1) = q * SumOfFirst(g, c) + SumOfFirst(g, (r + 1) + 1)
        /\ Repeated(s)[k + 1] = g[(r + 1) + 1]
      BY <1>5, <2>2
  <2> QED
      BY <1>4, <2>3, <2>4, <2>5, <2>6
<1>7. CASE r + 1 = c
  <2>1. 0 \in 0 .. c - 1 /\ k = (q + 1) * c + 0 /\ q + 1 \in Int
    <3>1. (q + 1) * c = q * c + c /\ q * c \in Int
        BY <1>1, <1>2
    <3> QED
        BY <1>1, <1>2, <1>7, <3>1
  <2>2. k \div c = q + 1 /\ k % c = 0
      BY <1>1, <2>1, QuotientAndRest
  <2>3. SumOfFirst(g, 1) = g[1] /\ g[1] \in Int /\ SumOfFirst(g, c) \in Int
    <3>1. 0 + 1 = 1 /\ 1 \in 1 .. c /\ 0 \in 0 .. c - 1 /\ 1 \in 0 .. c /\ c \in 0 .. c
        BY <1>1
    <3>2. SumOfFirst(g, 0 + 1) = SumOfFirst(g, 0) + g[0 + 1]
        BY <1>3, <3>1
    <3>3. g[1] \in Int
        BY <1>1, <3>1 DEF g, c
    <3> QED
        BY <1>3, <3>1, <3>2, <3>3
  <2>4. (q + 1) * SumOfFirst(g, c) = q * SumOfFirst(g, c) + SumOfFirst(g, c)
        /\ q * SumOfFirst(g, c) \in Int
      BY <1>2, <2>3
  <2>5. /\ ExpectedCount(s, k + 1) = (q + 1) * SumOfFirst(g, c) + g[1]
        /\ Repeated(s)[k + 1] = g[1]
    <3>1. 0 + 1 = 1
        OBVIOUS
    <3> QED
        BY <1>5, <2>2, <2>3, <3>1
  <2>6. ExpectedCount(s, k) = q * SumOfFirst(g, c) + SumOfFirst(g, c)
      BY <1>4, <1>7
  <2> QED
      BY <2>3, <2>4, <2>5, <2>6
<1> QED
    BY <1>6, <1>7

(* ExpectedPicOrderCnt by whole cycles and a rest, the way the code        *)
(* computes it, is the sum of one offset per frame, for every cycle.       *)
THEOREM CyclesAndRest ==
  ASSUME NEW s \in Sps, NEW n \in Int
  PROVE  ExpectedCount(s, n) = ExpectedOneByOne(s, n) /\ ExpectedCount(s, n) \in Int
<1>1. CASE ~ (n > 0 /\ Len(s.refOffsets) # 0)
  <2>1. ExpectedCount(s, n) = 0
      BY <1>1, Zenon DEF ExpectedCount
  <2>2. ExpectedOneByOne(s, n) = 0
      BY <1>1, Zenon DEF ExpectedOneByOne
  <2> QED
      BY <2>1, <2>2
<1>2. CASE n > 0 /\ Len(s.refOffsets) # 0
  <2> DEFINE T == {k \in Nat : ExpectedCount(s, k) # ExpectedOneByOne(s, k)}
  <2>1. T = {}
    <3> SUFFICES ASSUME T # {} PROVE FALSE
        OBVIOUS
    <3>1. PICK m \in T : \A k \in T : ~ (k < m)
      <4>1. T \subseteq Nat /\ T # {}
          OBVIOUS
      <4> HIDE DEF T
      <4> QED
          BY <4>1, LeastNumber
    <3>2. m # 0
      <4>1. ~ (0 > 0)
          OBVIOUS
      <4>2. ExpectedCount(s, 0) = 0
          BY <4>1, Zenon DEF ExpectedCount
      <4>3. ExpectedOneByOne(s, 0) = 0
          BY <4>1, Zenon DEF ExpectedOneByOne
      <4> QED
          BY <3>1, <4>2, <4>3
    <3>3. m - 1 \in Nat /\ m - 1 < m /\ (m - 1) + 1 = m
        BY <3>2
    <3>4. ExpectedCount(s, m - 1) = ExpectedOneByOne(s, m - 1)
        BY <3>1, <3>3
    <3>5. ExpectedOneByOne(s, m) = ExpectedOneByOne(s, m - 1) + Repeated(s)[m]
      <4>1. ExpectedOneByOne(s, (m - 1) + 1)
              = ExpectedOneByOne(s, m - 1) + Repeated(s)[(m - 1) + 1]
          BY <1>2, <3>3, OneByOneSteps
      <4> QED
          BY <3>3, <4>1
    <3>6. CASE m - 1 > 0
      <4>1. ExpectedCount(s, (m - 1) + 1) = ExpectedCount(s, m - 1) + Repeated(s)[(m - 1) + 1]
          BY <1>2, <3>3, <3>6, WholeCyclesStep
      <4> QED
          BY <3>3, <3>4, <3>5, <4>1
    <3>7. CASE m = 1
      <4> DEFINE c == Len(s.refOffsets)
      <4>1. c \in Nat /\ c > 0 /\ s.refOffsets \in Seq(Int)
          BY <1>2, RepeatedIs
      <4>2. 0 \div c = 0 /\ 0 % c = 0
        <5> HIDE DEF c
        <5>1. 0 * c + 0 = 0 /\ 0 \in 0 .. c - 1
            BY <4>1
        <5>2. (0 * c + 0) \div c = 0 /\ (0 * c + 0) % c = 0
            BY <4>1, <5>1, QuotientAndRest
        <5> QED
            BY <5>1, <5>2
      <4>3. SumOfFirst(s.refOffsets, 0) = 0 /\ SumOfFirst(s.refOffsets, c) \in Int
            /\ SumOfFirst(s.refOffsets, 0 + 1) = SumOfFirst(s.refOffsets, 0) + s.refOffsets[0 + 1]
        <5>1. 0 \in 0 .. c - 1 /\ c \in 0 .. c
            BY <4>1
        <5> QED
            BY <4>1, <5>1, SumOfFirstSteps
      <4>4. 0 + 1 = 1 /\ s.refOffsets[1] \in Int /\ 1 - 1 = 0 /\ 1 > 0 /\ 1 \in Nat \ {0}
          BY <4>1
      <4>5. ExpectedCount(s, 1) = 0 * SumOfFirst(s.refOffsets, c) + SumOfFirst(s.refOffsets, 1)
        <5>1. ExpectedCount(s, 1) = ((1 - 1) \div c) * SumOfFirst(s.refOffsets, c)
                                   + SumOfFirst(s.refOffsets, ((1 - 1) % c) + 1)
            BY <1>2, <4>4, Zenon DEF ExpectedCount
        <5> QED
            BY <4>2, <4>4, <5>1
      <4>6. Repeated(s)[1] = s.refOffsets[1]
        <5>1. Repeated(s)[1] = s.refOffsets[((1 - 1) % c) + 1]
            BY <4>4 DEF Repeated
        <5> QED
            BY <4>2, <4>4, <5>1
      <4>7. ExpectedOneByOne(s, m - 1) = 0
          BY <3>7 DEF ExpectedOneByOne
      <4> QED
          BY <3>1, <3>5, <3>7, <4>3, <4>4, <4>5, <4>6, <4>7
    <3> QED
        BY <3>1, <3>2, <3>6, <3>7
  <2>2. ExpectedOneByOne(s, n) \in Int
      BY <1>2, OneByOneSteps
  <2> QED
      BY <1>2, <2>1, <2>2
<1> QED
    BY <1>1, <1>2

-----------------------------------------------------------------------------
(* What the tracker's operators return.                                    *)

(* What the constants and the SPSs in use are.                             *)
LEMMA Constants ==
  /\ MaxFrameNum \in Nat /\ MaxFrameNum > 0 /\ MaxLsb \in Nat /\ MaxLsb > 0
  /\ MaxLsb \div 2 \in Nat /\ 2 * (MaxLsb \div 2) = MaxLsb
  /\ \A s \in SpsSet :
       /\ s \in Sps /\ s.maxFrameNum = MaxFrameNum /\ s.maxLsb = MaxLsb
       /\ s.type \in {0, 1, 2} /\ ~ (s.maxLsb < MinLsbPeriod)
       /\ s.nonRefOffset \in Int /\ s.topToBottom \in Int
<1>1. /\ MaxFrameNum \in Nat /\ MaxFrameNum > 0 /\ MaxLsb \in Nat /\ MaxLsb > 0
      /\ MaxLsb \div 2 \in Nat /\ 2 * (MaxLsb \div 2) = MaxLsb
    BY PeriodAssumption
<1>2. ASSUME NEW s \in SpsSet
      PROVE  /\ s \in Sps /\ s.maxFrameNum = MaxFrameNum /\ s.maxLsb = MaxLsb
             /\ s.type \in {0, 1, 2} /\ ~ (s.maxLsb < MinLsbPeriod)
             /\ s.nonRefOffset \in Int /\ s.topToBottom \in Int
    BY InputAssumption, PeriodAssumption DEF Sps
<1> QED
    BY <1>1, <1>2

(* The number of reference frames before the picture, as the code counts   *)
(* it and as H.264 does, leads to the same ExpectedPicOrderCnt.            *)
LEMMA SameExpected ==
  ASSUME NEW s \in Sps, NEW p, NEW h, NEW n \in Nat,
         FrameNumOffset(p, s, h) + h.frameNum = n
  PROVE  /\ ExpectedCount(s, AbsFrameNum(p, s, h))
              = ExpectedOneByOne(s, IF h.reference \/ n = 0 THEN n ELSE n - 1)
         /\ ExpectedCount(s, AbsFrameNum(p, s, h)) \in Int
<1> DEFINE a == AbsFrameNum(p, s, h)
           m == IF h.reference \/ n = 0 THEN n ELSE n - 1
<1>1. CASE Len(s.refOffsets) = 0
  <2>1. ExpectedCount(s, a) = 0 /\ ExpectedOneByOne(s, m) = 0
      BY <1>1, Zenon DEF ExpectedCount, ExpectedOneByOne
  <2> QED
      BY <2>1
<1>2. CASE Len(s.refOffsets) # 0
  <2>1. a = IF ~ h.reference /\ n > 0 THEN n - 1 ELSE n
      BY <1>2, Zenon DEF AbsFrameNum
  <2>2. n > 0 <=> n # 0
      OBVIOUS
  <2>3. a = m
      BY <2>1, <2>2, Zenon
  <2>4. m \in Int
      OBVIOUS
  <2> HIDE DEF a, m
  <2>5. ExpectedCount(s, m) = ExpectedOneByOne(s, m) /\ ExpectedCount(s, m) \in Int
      BY <2>4, CyclesAndRest
  <2> QED
      BY <2>3, <2>5 DEF a, m
<1> QED
    BY <1>1, <1>2

(* If the tracker rebuilds the counter n, derive() returns the order count *)
(* H.264 gives a picture with that counter.                                *)
LEMMA CountMatches ==
  ASSUME NEW s \in SpsSet, NEW p, NEW h \in Picture, NEW n \in Int,
         s.type = 0 => PocMsb(p, s, h) + h.lsb = n,
         s.type # 0 => FrameNumOffset(p, s, h) + h.frameNum = n /\ n >= 0
  PROVE  Derived(p, s, h) = OrderCount(s, h, n) /\ Derived(p, s, h) \in Int
<1>1. /\ h.structure \in {"frame", "top", "bottom"}
      /\ h.deltaBottom \in Int /\ h.delta[1] \in Int /\ h.delta[2] \in Int
      /\ h.idr \in BOOLEAN /\ h.reference \in BOOLEAN
    BY DEF Picture, Structures
<1>2. CASE h.idr
    BY <1>2 DEF Derived, OrderCount
<1>3. CASE ~ h.idr /\ s.type = 0
    BY <1>1, <1>3 DEF Derived, OrderCount, TopFieldCount, BottomFieldCount, SmallerOf
<1>4. CASE ~ h.idr /\ s.type = 1
  <2> DEFINE e == ExpectedOneByOne(s, IF h.reference \/ n = 0 THEN n ELSE n - 1)
             t == e + h.delta[1] + (IF h.reference THEN 0 ELSE s.nonRefOffset)
  <2>1. ExpectedCount(s, AbsFrameNum(p, s, h)) = e /\ e \in Int
      BY <1>4, Constants, SameExpected
  <2>2. TopFieldCount(p, s, h) = t
      BY <1>4, <2>1 DEF TopFieldCount
  <2>3. t \in Int /\ s.topToBottom \in Int
      BY <2>1, <1>1, Constants
  <2>4. BottomFieldCount(p, s, h)
          = t + (s.topToBottom + (IF h.structure = "frame" THEN h.delta[2] ELSE 0))
      BY <1>4, <2>2 DEF BottomFieldCount
  <2>5. OrderCount(s, h, n) =
          CASE h.structure = "top"    -> t
            [] h.structure = "bottom" -> t + s.topToBottom
            [] h.structure = "frame"  -> SmallerOf(t, t + s.topToBottom + h.delta[2])
    <3>1. s.type # 0 /\ s.type # 2
        BY <1>4
    <3>2. /\ (CASE s.type = 0 -> n [] s.type = 1 -> t
                [] s.type = 2 -> IF h.reference THEN 2 * n ELSE 2 * n - 1) = t
          /\ (CASE s.type = 0 -> t [] s.type = 1 -> t + s.topToBottom
                [] s.type = 2 -> t) = t + s.topToBottom
          /\ (CASE s.type = 0 -> (t + s.topToBottom) + h.deltaBottom
                [] s.type = 1 -> (t + s.topToBottom) + h.delta[2]
                [] s.type = 2 -> t + s.topToBottom) = t + s.topToBottom + h.delta[2]
        BY <1>4, <3>1, Zenon
    <3> QED
        BY <1>4, <3>2, Zenon DEF OrderCount
  <2> HIDE DEF t
  <2> QED
      BY <1>1, <1>4, <2>2, <2>3, <2>4, <2>5 DEF Derived, SmallerOf
<1>5. CASE ~ h.idr /\ s.type = 2
    BY <1>1, <1>5 DEF Derived, OrderCount, TopFieldCount, BottomFieldCount, SmallerOf
<1> QED
    BY <1>1, <1>2, <1>3, <1>4, <1>5, Constants

(* Deriving a second time from the members the first call left yields the  *)
(* same order count and the same members.                                  *)
LEMMA DeriveTwice ==
  ASSUME NEW s \in SpsSet, NEW p \in Prev, NEW h \in Picture
  PROVE  LET u == Advanced(p, s, h)
         IN Derived(u, s, h) = Derived(p, s, h) /\ Advanced(u, s, h) = u
<1> DEFINE u == Advanced(p, s, h)
<1>1. CASE h.idr
    BY <1>1, Zenon DEF Advanced, Derived
<1>2. CASE ~ h.idr /\ ~ h.reference
    BY <1>2, Zenon DEF Advanced
<1>3. CASE ~ h.idr /\ h.reference /\ s.type = 0
  <2>1. u = [p EXCEPT !.msb = PocMsb(p, s, h), !.lsb = h.lsb]
      BY <1>3, Zenon DEF Advanced
  <2>2. u.msb = PocMsb(p, s, h) /\ u.lsb = h.lsb
      BY <2>1 DEF Prev
  <2>3. PocMsb(u, s, h) = PocMsb(p, s, h)
    <3>1. ~ (h.lsb < h.lsb) /\ ~ (h.lsb > h.lsb) /\ ~ (s.maxLsb < MinLsbPeriod)
        BY Constants DEF Picture
    <3> QED
        BY <2>2, <3>1, Zenon DEF PocMsb
  <2>4. TopFieldCount(u, s, h) = TopFieldCount(p, s, h)
      BY <1>3, <2>3 DEF TopFieldCount
  <2>5. Derived(u, s, h) = Derived(p, s, h)
      BY <1>3, <2>4 DEF Derived, BottomFieldCount
  <2>6. Advanced(u, s, h) = [u EXCEPT !.msb = PocMsb(u, s, h), !.lsb = h.lsb]
      BY <1>3, Zenon DEF Advanced
  <2>7. Advanced(u, s, h) = u
      BY <2>1, <2>3, <2>6 DEF Prev
  <2> QED
      BY <2>5, <2>7
<1>4. CASE ~ h.idr /\ h.reference /\ s.type # 0
  <2>1. u = [p EXCEPT !.frameNum = h.frameNum, !.frameNumOffset = FrameNumOffset(p, s, h)]
      BY <1>4, Zenon DEF Advanced
  <2>2. u.frameNum = h.frameNum /\ u.frameNumOffset = FrameNumOffset(p, s, h)
      BY <2>1 DEF Prev
  <2>3. FrameNumOffset(u, s, h) = FrameNumOffset(p, s, h)
    <3>1. ~ (h.frameNum > h.frameNum) /\ FrameNumOffset(p, s, h) \in Int
        BY Constants DEF Picture, Prev, FrameNumOffset
    <3> QED
        BY <2>2, <3>1 DEF FrameNumOffset
  <2>4. AbsFrameNum(u, s, h) = AbsFrameNum(p, s, h)
      BY <2>3, Zenon DEF AbsFrameNum
  <2>5. TopFieldCount(u, s, h) = TopFieldCount(p, s, h)
      BY <1>4, <2>3, <2>4, Constants DEF TopFieldCount
  <2>6. Derived(u, s, h) = Derived(p, s, h)
      BY <1>4, <2>5 DEF Derived, BottomFieldCount
  <2>7. Advanced(u, s, h) =
          [u EXCEPT !.frameNum = h.frameNum, !.frameNumOffset = FrameNumOffset(u, s, h)]
      BY <1>4, Zenon DEF Advanced
  <2>8. Advanced(u, s, h) = u
      BY <2>1, <2>3, <2>7 DEF Prev
  <2> QED
      BY <2>6, <2>8
<1> QED
    BY <1>1, <1>2, <1>3, <1>4

-----------------------------------------------------------------------------
(* Rebuilding the counter.                                                 *)

(* Whole periods, as % tells them and as multiples.                        *)
LEMMA Multiples ==
  ASSUME NEW m \in Nat, m > 0
  PROVE  /\ \A x \in Int : (x % m) = 0 => \E k \in Int : x = k * m
         /\ \A k \in Int : ((k * m) % m) = 0
<1>1. ASSUME NEW x \in Int, (x % m) = 0 PROVE \E k \in Int : x = k * m
  <2>1. x = m * (x \div m) + (x % m) /\ (x \div m) \in Int
      OBVIOUS
  <2>2. x = (x \div m) * m
      BY <2>1, <1>1
  <2> QED
      BY <2>1, <2>2
<1>2. ASSUME NEW k \in Int PROVE ((k * m) % m) = 0
  <2>1. k * m + 0 = k * m /\ 0 \in 0 .. m - 1
      OBVIOUS
  <2> QED
      BY <2>1, QuotientAndRest
<1> QED
    BY <1>1, <1>2

(* A counter is a whole number of periods and the rest that is sent.       *)
LEMMA PeriodAndRest ==
  ASSUME NEW m \in Nat, m > 0, NEW n \in Int
  PROVE  (n % m) \in 0 .. m - 1 /\ \E k \in Int : n = k * m + (n % m)
<1>1. n = m * (n \div m) + (n % m) /\ (n \div m) \in Int /\ (n % m) \in 0 .. m - 1
    OBVIOUS
<1>2. m * (n \div m) = (n \div m) * m /\ (n \div m) * m \in Int
    BY <1>1
<1> QED
    BY <1>1, <1>2

(* If a picture lies in the window around the anchor, the MSB moves by the *)
(* distance between their LSB periods (d of them).                         *)
LEMMA MsbDistance ==
  ASSUME NEW s \in SpsSet, NEW p, NEW h, NEW d \in Int,
         p.msb \in Int, p.lsb \in 0 .. MaxLsb - 1, h.lsb \in 0 .. MaxLsb - 1,
         2 * (d * MaxLsb + h.lsb - p.lsb) > - MaxLsb,
         2 * (d * MaxLsb + h.lsb - p.lsb) <= MaxLsb
  PROVE  PocMsb(p, s, h) = p.msb + d * MaxLsb
<1>1. /\ p.lsb \in Int /\ h.lsb \in Int /\ 0 <= p.lsb /\ p.lsb < MaxLsb
      /\ 0 <= h.lsb /\ h.lsb < MaxLsb
    BY Constants
<1>2. d \in {-1, 0, 1}
  <2>1. ASSUME d >= 2 PROVE FALSE
    <3>1. d * MaxLsb >= 2 * MaxLsb
        BY <2>1, Constants
    <3> QED
        BY <3>1, <1>1, Constants
  <2>2. ASSUME d <= -2 PROVE FALSE
    <3>1. d * MaxLsb <= -2 * MaxLsb
        BY <2>2, Constants
    <3> QED
        BY <3>1, <1>1, Constants
  <2> QED
      BY <2>1, <2>2
<1>3. s.maxLsb = MaxLsb /\ ~ (s.maxLsb < MinLsbPeriod)
    BY Constants
<1> QED
    BY <1>1, <1>2, <1>3, Constants DEF PocMsb

(* If less than MaxFrameNum frames have passed since the anchor, the       *)
(* offset moves by the distance between their periods (d of them).         *)
LEMMA OffsetDistance ==
  ASSUME NEW s \in SpsSet, NEW p, NEW h, NEW d \in Int, p.frameNumOffset \in Int,
         p.frameNum \in 0 .. MaxFrameNum - 1, h.frameNum \in 0 .. MaxFrameNum - 1,
         d * MaxFrameNum + h.frameNum - p.frameNum >= 0,
         d * MaxFrameNum + h.frameNum - p.frameNum < MaxFrameNum
  PROVE  /\ FrameNumOffset(p, s, h) = p.frameNumOffset + d * MaxFrameNum
         /\ FrameNumOffset(p, s, h) >= p.frameNumOffset
<1>1. /\ p.frameNum \in Int /\ h.frameNum \in Int
      /\ 0 <= p.frameNum /\ p.frameNum < MaxFrameNum
      /\ 0 <= h.frameNum /\ h.frameNum < MaxFrameNum
    BY Constants
<1>2. d \in {0, 1}
  <2>1. ASSUME d >= 2 PROVE FALSE
    <3>1. d * MaxFrameNum >= 2 * MaxFrameNum
        BY <2>1, Constants
    <3> QED
        BY <3>1, <1>1, Constants
  <2>2. ASSUME d <= -1 PROVE FALSE
    <3>1. d * MaxFrameNum <= - MaxFrameNum
        BY <2>2, Constants
    <3> QED
        BY <3>1, <1>1, Constants
  <2> QED
      BY <2>1, <2>2
<1>3. s.maxFrameNum = MaxFrameNum
    BY Constants
<1> QED
    BY <1>1, <1>2, <1>3, Constants DEF FrameNumOffset

(* The periods of a picture and of the tracker lie a whole number of them  *)
(* apart, whatever the skew.                                               *)
WholeApart(m, high, low, a, j, n) ==
  \E d \in Int :
    /\ n - a = d * m + (n % m) - low
    /\ high + d * m + (n % m) = n + j
    /\ (high + d * m) % m = 0

LEMMA WholeDistance ==
  ASSUME NEW m \in Nat, m > 0, NEW high \in Int, NEW low \in Int, NEW a \in Int,
         NEW j \in Int, high % m = 0, j % m = 0, high + low = a + j, NEW n \in Int
  PROVE  WholeApart(m, high, low, a, j, n)
<1>1. PICK x \in Int : high = x * m
    BY Multiples
<1>2. PICK y \in Int : j = y * m
    BY Multiples
<1>3. PICK z \in Int : n = z * m + (n % m)
    BY PeriodAndRest
<1>4. n % m \in Int
    BY PeriodAndRest
<1>5. /\ (z + y - x) * m = z * m + y * m - x * m
      /\ (z + y) * m = z * m + y * m
      /\ z * m \in Int /\ y * m \in Int /\ x * m \in Int
    OBVIOUS
<1>6. ((z + y) * m) % m = 0
    BY Multiples
<1>7. z + y - x \in Int /\ high + (z + y - x) * m = (z + y) * m
    BY <1>1, <1>5
<1>8. n - a = (z + y - x) * m + (n % m) - low
    BY <1>1, <1>2, <1>3, <1>4, <1>5
<1>9. high + (z + y - x) * m + (n % m) = n + j
    BY <1>1, <1>2, <1>3, <1>4, <1>5
<1> QED
    BY <1>6, <1>7, <1>8, <1>9 DEF WholeApart

-----------------------------------------------------------------------------
(* The inductive invariant.                                                *)

(* The headers the encoder writes for a picture whose counter is n.        *)
LEMMA HeaderIs ==
  ASSUME NEW n \in Int, NEW h \in Headers(n)
  PROVE  /\ h \in Picture /\ ~ h.idr
         /\ h.frameNum = n % MaxFrameNum /\ h.frameNum \in 0 .. MaxFrameNum - 1
         /\ h.lsb = n % MaxLsb /\ h.lsb \in 0 .. MaxLsb - 1
<1>1. n % MaxFrameNum \in 0 .. MaxFrameNum - 1 /\ n % MaxLsb \in 0 .. MaxLsb - 1
    BY Constants, PeriodAndRest
<1>2. Deltas \subseteq Int
    BY InputAssumption
<1> QED
    BY <1>1, <1>2 DEF Headers, Picture

(* An SPS and a picture the tracker has just been handed are settled: the  *)
(* next slice of that picture finds nothing to change.                     *)
LEMMA DeliverSettles ==
  ASSUME NEW s \in SpsSet, NEW h \in Picture, prev \in Prev, Deliver(s, h)
  PROVE  Settled'
<1>1. /\ Derived(Advanced(prev, s, h), s, h) = Derived(prev, s, h)
      /\ Advanced(Advanced(prev, s, h), s, h) = Advanced(prev, s, h)
    BY DeriveTwice
<1>2. sps' = s /\ pic' = h /\ prev' = Advanced(prev, s, h) /\ derived' = Derived(prev, s, h)
    BY DEF Deliver
<1> QED
    BY <1>1, <1>2, Zenon DEF Settled

(* The tracker and its user start from the same place.                     *)
LEMMA InvInit == Init => IInv
<1> SUFFICES ASSUME Init PROVE IInv
    OBVIOUS
<1>1. /\ prev = NoPrevious /\ derived = 0 /\ pic = NoPicture /\ sps \in SpsSet
      /\ started = FALSE /\ count = 0 /\ anchor = 0 /\ skew = 0
    BY Zenon DEF Init
<1>2. NoPrevious \in Prev /\ NoPicture \in Picture
    BY Constants DEF NoPrevious, NoPicture, Prev, Picture, Structures
<1>3. TypeOK
  <2>1. started \in BOOLEAN
      BY <1>1, Zenon
  <2> QED
      BY <1>1, <1>2, <2>1, Constants DEF TypeOK, NoPrevious
<1>4. WholePeriods
  <2>1. 0 % MaxLsb = 0 /\ 0 % MaxFrameNum = 0
    <3>1. 0 * MaxLsb = 0 /\ 0 * MaxFrameNum = 0
        BY Constants
    <3> QED
        BY <3>1, Constants, Multiples
  <2> QED
      BY <1>1, <2>1 DEF WholePeriods, NoPrevious
<1>5. Settled
  <2>1. NoPicture.idr
      BY Zenon DEF NoPicture
  <2> QED
      BY <1>1, <2>1, Zenon DEF Settled, Derived, Advanced
<1>6. ~ started
    BY <1>1, Zenon
<1> QED
    BY <1>1, <1>3, <1>4, <1>5, <1>6, Zenon
    DEF IInv, DerivedFollowsTimeline, TrackerHoldsAnchor

(* An IDR picture puts everything back to zero, whatever its SPS.          *)
LEMMA InvIdrPicture ==
  ASSUME IInv, NEW s \in SpsSet, NEW structure \in Structures, IdrPicture(s, structure)
  PROVE  IInv'
<1> DEFINE h == [NoPicture EXCEPT !.structure = structure]
<1>1. h \in Picture /\ h.idr
  <2>1. NoPicture \in Picture /\ NoPicture.idr
      BY Constants DEF NoPicture, Picture, Structures
  <2>2. structure \in Structures
      OBVIOUS
  <2> HIDE DEF h
  <2>3. h = [NoPicture EXCEPT !.structure = structure]
      BY DEF h
  <2> QED
      BY <2>1, <2>2, <2>3 DEF Picture
<1> HIDE DEF h
<1>2. /\ prev' = NoPrevious /\ derived' = 0 /\ pic' = h /\ sps' = s
      /\ started' = TRUE /\ count' = 0 /\ anchor' = 0 /\ skew' = 0
    BY <1>1, Zenon DEF IdrPicture, Deliver, Advanced, Derived, h
<1>3. NoPrevious \in Prev
    BY DEF NoPrevious, Prev
<1>4. TypeOK'
  <2>1. started' \in BOOLEAN
      BY <1>2, Zenon
  <2> QED
      BY <1>1, <1>2, <1>3, <2>1, Constants DEF TypeOK, NoPrevious
<1>5. 0 % MaxLsb = 0 /\ 0 % MaxFrameNum = 0
  <2>1. 0 * MaxLsb = 0 /\ 0 * MaxFrameNum = 0
      BY Constants
  <2> QED
      BY <2>1, Constants, Multiples
<1>6. WholePeriods'
    BY <1>2, <1>5 DEF WholePeriods, NoPrevious
<1>7. Settled'
  <2>1. prev \in Prev /\ Deliver(s, h)
      BY Zenon DEF IInv, TypeOK, IdrPicture, h
  <2> QED
      BY <1>1, <2>1, DeliverSettles
<1>8. DerivedFollowsTimeline'
    BY <1>1, <1>2, Zenon DEF DerivedFollowsTimeline, OrderCount
<1>9. TrackerHoldsAnchor'
    BY <1>2, <1>5 DEF TrackerHoldsAnchor, TrackedCount, Period, NoPrevious
<1>10. started'
    BY <1>2, Zenon
<1> QED
    BY <1>4, <1>6, <1>7, <1>8, <1>9, <1>10, Zenon DEF IInv

(* The picture of a counter n that the tracker places at n + k, with the   *)
(* high part m, keeps the invariant: as the anchor if it is a reference    *)
(* picture, and leaving the members alone if it is not.                    *)
LEMMA InvPlaced ==
  ASSUME TypeOK, NEW s \in SpsSet, NEW n \in Int, NEW h \in Headers(n),
         NEW k \in Int, NEW m \in Int, k % Period(s) = 0, m % Period(s) = 0,
         s.type = 0 => PocMsb(prev, s, h) = m /\ m + h.lsb = n + k,
         s.type # 0 => FrameNumOffset(prev, s, h) = m /\ m + h.frameNum = n + k /\ m >= 0,
         IF s.type = 0 THEN prev.frameNum = 0 /\ prev.frameNumOffset = 0
                       ELSE prev.msb = 0 /\ prev.lsb = 0,
         Deliver(s, h), WholePeriods, started', count' = n, skew' = k,
         h.reference => anchor' = n,
         ~ h.reference => TrackerHoldsAnchor /\ started /\ sps = s /\ anchor' = anchor /\ skew = k,
         started' \in BOOLEAN
  PROVE  IInv'
<1>1. /\ h \in Picture /\ ~ h.idr /\ s \in Sps
      /\ h.frameNum \in 0 .. MaxFrameNum - 1 /\ h.lsb \in 0 .. MaxLsb - 1
      /\ h.frameNum \in Nat /\ h.lsb \in Nat
      /\ prev \in Prev /\ anchor \in Int
  <2>1. /\ h \in Picture /\ ~ h.idr
        /\ h.frameNum \in 0 .. MaxFrameNum - 1 /\ h.lsb \in 0 .. MaxLsb - 1
      BY HeaderIs
  <2> QED
      BY <2>1, Constants DEF TypeOK
<1>2. sps' = s /\ pic' = h /\ prev' = Advanced(prev, s, h) /\ derived' = Derived(prev, s, h)
    BY DEF Deliver
<1>3. derived' = OrderCount(s, h, n + k) /\ derived' \in Int
  <2>1. n + k \in Int
      OBVIOUS
  <2>2. s.type # 0 => FrameNumOffset(prev, s, h) + h.frameNum = n + k /\ n + k >= 0
      BY <1>1
  <2>3. s.type = 0 => PocMsb(prev, s, h) + h.lsb = n + k
      OBVIOUS
  <2>4. Derived(prev, s, h) = OrderCount(s, h, n + k) /\ Derived(prev, s, h) \in Int
      BY <1>1, <2>1, <2>2, <2>3, CountMatches
  <2> QED
      BY <1>2, <2>4
<1>4. DerivedFollowsTimeline'
    BY <1>2, <1>3 DEF DerivedFollowsTimeline
<1>5. Settled'
    BY <1>1, DeliverSettles
<1>6. CASE ~ h.reference
  <2>1. prev' = prev
      BY <1>1, <1>2, <1>6, Zenon DEF Advanced
  <2>2. TypeOK'
      BY <1>1, <1>2, <1>3, <1>6, <2>1 DEF TypeOK
  <2>3. TrackerHoldsAnchor' /\ WholePeriods'
      BY <1>2, <1>6, <2>1 DEF TrackerHoldsAnchor, WholePeriods
  <2> QED
      BY <1>4, <1>5, <2>2, <2>3 DEF IInv
<1>7. CASE h.reference /\ s.type = 0
  <2>1. prev' = [prev EXCEPT !.msb = m, !.lsb = h.lsb]
      BY <1>1, <1>2, <1>7, Zenon DEF Advanced
  <2>2. /\ prev' \in Prev /\ prev'.msb = m /\ prev'.lsb = h.lsb
        /\ prev'.frameNum = prev.frameNum /\ prev'.frameNumOffset = prev.frameNumOffset
      BY <1>1, <2>1 DEF Prev
  <2>3. TypeOK'
    <3>1. prev'.frameNum < MaxFrameNum /\ prev'.lsb < MaxLsb
        BY <1>1, <2>2, Constants DEF TypeOK
    <3> QED
        BY <1>1, <1>2, <1>3, <1>7, <2>2, <3>1, Zenon DEF TypeOK
  <2>4. Period(s) = MaxLsb
      BY <1>7 DEF Period
  <2>5. TrackerHoldsAnchor'
    <3>1. TrackedCount(prev', s) = n + k
        BY <1>7, <2>2 DEF TrackedCount
    <3> QED
        BY <1>2, <1>7, <2>2, <3>1 DEF TrackerHoldsAnchor
  <2>6. WholePeriods'
      BY <2>2, <2>4 DEF WholePeriods
  <2> QED
      BY <1>4, <1>5, <2>3, <2>5, <2>6 DEF IInv
<1>8. CASE h.reference /\ s.type # 0
  <2>1. prev' = [prev EXCEPT !.frameNum = h.frameNum, !.frameNumOffset = m]
      BY <1>1, <1>2, <1>8, Zenon DEF Advanced
  <2>2. /\ prev' \in Prev /\ prev'.frameNum = h.frameNum /\ prev'.frameNumOffset = m
        /\ prev'.msb = prev.msb /\ prev'.lsb = prev.lsb
      BY <1>1, <2>1 DEF Prev
  <2>3. TypeOK'
    <3>1. prev'.frameNum < MaxFrameNum /\ prev'.lsb < MaxLsb
        BY <1>1, <2>2, Constants DEF TypeOK
    <3> QED
        BY <1>1, <1>2, <1>3, <1>8, <2>2, <3>1, Zenon DEF TypeOK
  <2>4. Period(s) = MaxFrameNum
      BY <1>8 DEF Period
  <2>5. TrackerHoldsAnchor'
    <3>1. TrackedCount(prev', s) = n + k
        BY <1>8, <2>2 DEF TrackedCount
    <3> QED
        BY <1>2, <1>8, <2>2, <3>1 DEF TrackerHoldsAnchor
  <2>6. WholePeriods'
      BY <1>8, <2>2, <2>4 DEF WholePeriods
  <2> QED
      BY <1>4, <1>5, <2>3, <2>5, <2>6 DEF IInv
<1> QED
    BY <1>6, <1>7, <1>8

(* The first picture of a stream joined in the middle is taken for one of  *)
(* the first period, or of the one before it.                              *)
LEMMA InvTuneIn ==
  ASSUME IInv, NEW s \in SpsSet, NEW n \in Int, NEW h \in Headers(n), TuneIn(s, h, n)
  PROVE  IInv'
<1>1. /\ ~ started /\ h.reference /\ Deliver(s, h) /\ started' = TRUE
      /\ count' = n /\ anchor' = n /\ skew' = TrackedCount(prev', s) - n
    BY Zenon DEF TuneIn
<1>2. TypeOK /\ WholePeriods /\ prev = NoPrevious
    BY <1>1, Zenon DEF IInv
<1>3. /\ ~ h.idr /\ h.frameNum = n % MaxFrameNum /\ h.frameNum \in 0 .. MaxFrameNum - 1
      /\ h.lsb = n % MaxLsb /\ h.lsb \in 0 .. MaxLsb - 1
    BY HeaderIs
<1>4. /\ prev.msb = 0 /\ prev.lsb = 0 /\ prev.frameNum = 0 /\ prev.frameNumOffset = 0
      /\ prev \in Prev
    BY <1>2 DEF NoPrevious, TypeOK
<1>5. prev' = Advanced(prev, s, h)
    BY <1>1 DEF Deliver
<1>6. CASE s.type = 0
  <2>1. PICK z \in Int : n = z * MaxLsb + h.lsb
    <3>1. PICK z \in Int : n = z * MaxLsb + (n % MaxLsb)
        BY Constants, PeriodAndRest
    <3> QED
        BY <1>3, <3>1
  <2>2. PICK d \in {0, -1} : PocMsb(prev, s, h) = d * MaxLsb
    <3>1. s.maxLsb = MaxLsb /\ ~ (s.maxLsb < MinLsbPeriod)
        BY Constants
    <3>2. PocMsb(prev, s, h) \in {0, - MaxLsb}
        BY <1>3, <1>4, <3>1, Constants DEF PocMsb
    <3> QED
        BY <3>2, Constants
  <2>3. d \in Int /\ d * MaxLsb \in Int /\ z * MaxLsb \in Int /\ h.lsb \in Int
      BY <1>3, <2>2, Constants
  <2>4. prev' = [prev EXCEPT !.msb = d * MaxLsb, !.lsb = h.lsb]
      BY <1>1, <1>3, <1>5, <1>6, <2>2, Zenon DEF Advanced
  <2>5. TrackedCount(prev', s) = d * MaxLsb + h.lsb
      BY <1>4, <1>6, <2>4 DEF TrackedCount, Prev
  <2>6. skew' = (d - z) * MaxLsb /\ skew' \in Int
    <3>1. (d - z) * MaxLsb = d * MaxLsb - z * MaxLsb
        BY <2>1, <2>3, Constants
    <3> QED
        BY <1>1, <2>1, <2>3, <2>5, <3>1
  <2>7. Period(s) = MaxLsb
      BY <1>6 DEF Period
  <2>8. skew' % Period(s) = 0 /\ (d * MaxLsb) % Period(s) = 0
    <3>1. d - z \in Int
        BY <2>1, <2>3
    <3> QED
        BY <2>3, <2>6, <2>7, <3>1, Constants, Multiples
  <2>9. d * MaxLsb + h.lsb = n + skew'
      BY <1>1, <2>3, <2>5
  <2>10. PICK k \in Int, m \in Int : k = skew' /\ m = d * MaxLsb
      BY <2>3, <2>6
  <2>11. started' /\ started' \in BOOLEAN
      BY <1>1, Zenon
  <2> QED
      BY <1>1, <1>2, <1>4, <1>6, <2>2, <2>8, <2>9, <2>10, <2>11, InvPlaced
<1>7. CASE s.type # 0
  <2>1. PICK z \in Int : n = z * MaxFrameNum + h.frameNum
    <3>1. PICK z \in Int : n = z * MaxFrameNum + (n % MaxFrameNum)
        BY Constants, PeriodAndRest
    <3> QED
        BY <1>3, <3>1
  <2>2. FrameNumOffset(prev, s, h) = 0
      BY <1>3, <1>4, Constants DEF FrameNumOffset
  <2>3. z * MaxFrameNum \in Int /\ h.frameNum \in Int
      BY <1>3, Constants
  <2>4. prev' = [prev EXCEPT !.frameNum = h.frameNum, !.frameNumOffset = 0]
      BY <1>1, <1>3, <1>5, <1>7, <2>2, Zenon DEF Advanced
  <2>5. TrackedCount(prev', s) = 0 + h.frameNum
      BY <1>4, <1>7, <2>4 DEF TrackedCount, Prev
  <2>6. skew' = (- z) * MaxFrameNum /\ skew' \in Int
    <3>1. (- z) * MaxFrameNum = - (z * MaxFrameNum)
        BY <2>1, <2>3, Constants
    <3> QED
        BY <1>1, <2>1, <2>3, <2>5, <3>1
  <2>7. Period(s) = MaxFrameNum
      BY <1>7 DEF Period
  <2>8. skew' % Period(s) = 0 /\ 0 % Period(s) = 0
    <3>1. - z \in Int /\ 0 * MaxFrameNum = 0
        BY <2>1, Constants
    <3> QED
        BY <2>6, <2>7, <3>1, Constants, Multiples
  <2>9. 0 + h.frameNum = n + skew' /\ 0 >= 0
      BY <1>1, <2>3, <2>5, <2>6
  <2>10. PICK k \in Int, m \in Int : k = skew' /\ m = 0
      BY <2>6
  <2>11. started' /\ started' \in BOOLEAN
      BY <1>1, Zenon
  <2> QED
      BY <1>1, <1>2, <1>4, <1>7, <2>2, <2>8, <2>9, <2>10, <2>11, InvPlaced
<1> QED
    BY <1>6, <1>7

(* Any other picture is put where its transmitted part identifies it.      *)
LEMMA InvCodedPicture ==
  ASSUME IInv, NEW n \in Int, NEW h \in Headers(n), CodedPicture(h, n)
  PROVE  IInv'
<1>1. /\ started /\ Identifiable(sps, n) /\ Deliver(sps, h) /\ count' = n
      /\ anchor' = (IF h.reference THEN n ELSE anchor)
      /\ started' = started /\ skew' = skew
    BY Zenon DEF CodedPicture
<1>2. TypeOK /\ WholePeriods /\ TrackerHoldsAnchor /\ started \in BOOLEAN
    BY Zenon DEF IInv, TypeOK
<1>3. /\ h.frameNum = n % MaxFrameNum /\ h.frameNum \in 0 .. MaxFrameNum - 1
      /\ h.lsb = n % MaxLsb /\ h.lsb \in 0 .. MaxLsb - 1
    BY HeaderIs
<1>4. /\ sps \in SpsSet /\ anchor \in Int /\ skew \in Int /\ prev \in Prev
      /\ prev.msb \in Int /\ prev.frameNumOffset \in Int
      /\ prev.lsb \in 0 .. MaxLsb - 1 /\ prev.lsb \in Int
      /\ prev.frameNum \in 0 .. MaxFrameNum - 1 /\ prev.frameNum \in Int
    BY <1>2, Constants DEF TypeOK, Prev
<1>5. /\ TrackedCount(prev, sps) = anchor + skew
      /\ skew % Period(sps) = 0
      /\ IF sps.type = 0 THEN prev.frameNum = 0 /\ prev.frameNumOffset = 0
                         ELSE prev.msb = 0 /\ prev.lsb = 0
    BY <1>1, <1>2, Zenon DEF TrackerHoldsAnchor
<1>6. CASE sps.type = 0
  <2>1. Period(sps) = MaxLsb /\ prev.msb + prev.lsb = anchor + skew
        /\ prev.msb % MaxLsb = 0
      BY <1>2, <1>5, <1>6 DEF Period, TrackedCount, WholePeriods
  <2>2. PICK d \in Int : /\ n - anchor = d * MaxLsb + h.lsb - prev.lsb
                         /\ prev.msb + d * MaxLsb + h.lsb = n + skew
                         /\ (prev.msb + d * MaxLsb) % MaxLsb = 0
    <3>1. skew % MaxLsb = 0 /\ MaxLsb \in Nat /\ MaxLsb > 0
        BY <1>5, <2>1, Constants
    <3>2. WholeApart(MaxLsb, prev.msb, prev.lsb, anchor, skew, n)
        BY <1>4, <2>1, <3>1, WholeDistance
    <3> QED
        BY <1>3, <3>2 DEF WholeApart
  <2>3. 2 * (n - anchor) > - MaxLsb /\ 2 * (n - anchor) <= MaxLsb
      BY <1>1, <1>6 DEF Identifiable
  <2>4. PocMsb(prev, sps, h) = prev.msb + d * MaxLsb
      BY <1>3, <1>4, <2>2, <2>3, MsbDistance
  <2>5. PICK m \in Int : m = prev.msb + d * MaxLsb
      BY <1>4, Constants
  <2>6. started' /\ started' \in BOOLEAN
      BY <1>1, <1>2, Zenon
  <2> QED
      BY <1>1, <1>2, <1>4, <1>5, <1>6, <2>1, <2>2, <2>4, <2>5, <2>6, InvPlaced
<1>7. CASE sps.type # 0
  <2>1. Period(sps) = MaxFrameNum /\ prev.frameNumOffset + prev.frameNum = anchor + skew
        /\ prev.frameNumOffset % MaxFrameNum = 0 /\ prev.frameNumOffset >= 0
      BY <1>2, <1>5, <1>7 DEF Period, TrackedCount, WholePeriods
  <2>2. PICK d \in Int : /\ n - anchor = d * MaxFrameNum + h.frameNum - prev.frameNum
                         /\ prev.frameNumOffset + d * MaxFrameNum + h.frameNum = n + skew
                         /\ (prev.frameNumOffset + d * MaxFrameNum) % MaxFrameNum = 0
    <3>1. skew % MaxFrameNum = 0 /\ MaxFrameNum \in Nat /\ MaxFrameNum > 0
        BY <1>5, <2>1, Constants
    <3>2. WholeApart(MaxFrameNum, prev.frameNumOffset, prev.frameNum, anchor, skew, n)
        BY <1>4, <2>1, <3>1, WholeDistance
    <3> QED
        BY <1>3, <3>2 DEF WholeApart
  <2>3. n - anchor >= 0 /\ n - anchor < MaxFrameNum
      BY <1>1, <1>4, <1>7 DEF Identifiable
  <2>4. /\ FrameNumOffset(prev, sps, h) = prev.frameNumOffset + d * MaxFrameNum
        /\ FrameNumOffset(prev, sps, h) >= prev.frameNumOffset
      BY <1>3, <1>4, <2>2, <2>3, OffsetDistance
  <2>5. PICK m \in Int : m = prev.frameNumOffset + d * MaxFrameNum /\ m >= 0
      BY <1>4, <2>1, <2>4, Constants
  <2>6. started' /\ started' \in BOOLEAN
      BY <1>1, <1>2, Zenon
  <2> QED
      BY <1>1, <1>2, <1>4, <1>5, <1>7, <2>1, <2>2, <2>4, <2>5, <2>6, InvPlaced
<1> QED
    BY <1>6, <1>7

(* Every step of the tracker and its user preserves the invariant.         *)
LEMMA InvNext == IInv /\ [Next]_vars => IInv'
<1> SUFFICES ASSUME IInv, [Next]_vars PROVE IInv'
    OBVIOUS
<1>1. ASSUME NEW s \in SpsSet, NEW n \in Counts, NEW h \in Headers(n), TuneIn(s, h, n)
      PROVE  IInv'
    BY <1>1, InputAssumption, InvTuneIn
<1>2. ASSUME NEW s \in SpsSet, NEW structure \in Structures, IdrPicture(s, structure)
      PROVE  IInv'
    BY <1>2, InvIdrPicture
<1>3. ASSUME NEW n \in Counts, NEW h \in Headers(n), CodedPicture(h, n)
      PROVE  IInv'
    BY <1>3, InputAssumption, InvCodedPicture
<1>4. CASE RepeatSlice
  <2>1. prev' = prev /\ derived' = derived /\ pic' = pic /\ sps' = sps
      BY <1>4, Zenon DEF IInv, Settled, RepeatSlice, Deliver
  <2> QED
      BY <1>4, <2>1
      DEF RepeatSlice, encoder, IInv, TypeOK, DerivedFollowsTimeline,
          TrackerHoldsAnchor, WholePeriods, Settled
<1>5. CASE Clear
  <2>1. Init'
      BY <1>5, Zenon DEF Clear, Init, IInv, TypeOK
  <2>2. (Init => IInv)'
      BY InvInit, PTL
  <2> QED
      BY <2>1, <2>2
<1>6. CASE UNCHANGED vars
    BY <1>6
    DEF vars, IInv, TypeOK, DerivedFollowsTimeline, TrackerHoldsAnchor,
        WholePeriods, Settled
<1> QED
    BY <1>1, <1>2, <1>3, <1>4, <1>5, <1>6 DEF Next

(* The invariant holds of every behaviour.                                 *)
THEOREM Invariant == Spec => []IInv
BY InvInit, InvNext, PTL DEF Spec

(* The four members keep their types: the frame number and the LSB stay    *)
(* below MaxFrameNum and MaxPicOrderCntLsb, whatever is delivered.         *)
THEOREM TypeCorrect == Spec => []TypeOK
<1>1. IInv => TypeOK
    BY DEF IInv
<1> QED
    BY <1>1, Invariant, PTL

(* Every derived_poc is the order count H.264 gives the encoder's counter  *)
(* displaced by the skew, for all three types, frames and fields.          *)
THEOREM FollowsTimeline == Spec => []DerivedFollowsTimeline
<1>1. IInv => DerivedFollowsTimeline
    BY DEF IInv
<1> QED
    BY <1>1, Invariant, PTL

(* The members hold the counter of the last reference picture, displaced   *)
(* by whole periods; those of the other order-count types are zero.        *)
THEOREM HoldsAnchor == Spec => []TrackerHoldsAnchor
<1>1. IInv => TrackerHoldsAnchor
    BY DEF IInv
<1> QED
    BY <1>1, Invariant, PTL

(* Deriving again from a further slice of a picture changes neither the    *)
(* order count nor the members.                                            *)
THEOREM Idempotence == Spec => RepeatedSliceIsIdempotent
<1>1. IInv /\ [Next]_vars => [RepeatSlice => UNCHANGED <<prev, derived>>]_vars
    BY Zenon DEF IInv, Settled, RepeatSlice, Deliver
<1> QED
    BY <1>1, Invariant, PTL DEF Spec, RepeatedSliceIsIdempotent
=============================================================================
