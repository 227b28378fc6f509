-------------------------- MODULE NalFramingProofs --------------------------
(***************************************************************************)
(* Proofs about the framers, for every width of the machine word, of the   *)
(* length prefixes, of the ULEB128 sizes and of the headers, and for every *)
(* buffer: those the searching framers get are arbitrary bytes, those the  *)
(* others get are whatever a muxer wrote, cut off anywhere.  A turn of     *)
(* every framer is a step of UnitStream: it hands out the next unit, or    *)
(* nothing, or ends when there is none.                                    *)
(***************************************************************************)
EXTENDS NalFraming, FiniteSetTheorems, TLAPS

-----------------------------------------------------------------------------
(* Numbers, least elements and recursive functions.                        *)

(* Every nonempty set of numbers has a least one: Min.                     *)
LEMMA MinIs ==
  ASSUME NEW T, T \subseteq Nat, T # {}
  PROVE  Min(T) \in T /\ \A y \in T : Min(T) <= y
<1>1. \E x \in T : \A y \in T : ~ (<<y, x>> \in OpToRel(<, Nat))
    BY WFMin, NatLessThanWellFounded, Zenon
<1>2. \A x, y \in Nat : y < x => <<y, x>> \in OpToRel(<, Nat)
    BY Zenon DEF OpToRel
<1>3. \E x \in T : \A y \in T : ~ (y < x)
    BY <1>1, <1>2, Zenon
<1>4. \E x \in T : \A y \in T : x =< y
    BY <1>3
<1> QED
    BY <1>4, Zenon DEF Min

LEMMA MaxIs ==
  ASSUME NEW a \in Nat, NEW b \in Nat
  PROVE  Max({a, b}) \in {a, b} /\ Max({a, b}) >= a /\ Max({a, b}) >= b
<1>1. \E x \in {a, b} : \A y \in {a, b} : x >= y
    OBVIOUS
<1>2. Max({a, b}) \in {a, b} /\ \A y \in {a, b} : Max({a, b}) >= y
    BY <1>1, Zenon DEF Max
<1> QED
    BY <1>2

(* The values a function takes that begins with a and goes on by step[k].  *)
Goes(f, a, step, n) ==
  f = [k \in 0 .. n |-> IF k = 0 THEN a ELSE step[k][f[k - 1]]]

(* Such a function exists: there is no least n without one.                *)
LEMMA GoesOn ==
  ASSUME NEW V, NEW a \in V, NEW n \in Nat, NEW step \in [1 .. n -> [V -> V]]
  PROVE  \E f \in [0 .. n -> V] : Goes(f, a, step, n)
<1> DEFINE T == {m \in 0 .. n : ~ \E f \in [0 .. m -> V] : Goes(f, a, step, m)}
<1> SUFFICES ASSUME T # {} PROVE FALSE
    OBVIOUS
<1>1. PICK m \in T : \A k \in T : m <= k
  <2>1. T \subseteq Nat /\ T # {}
      OBVIOUS
  <2> HIDE DEF T
  <2> QED
      BY <2>1, MinIs
<1>2. CASE m = 0
  <2>1. [k \in 0 .. 0 |-> a] \in [0 .. 0 -> V] /\ Goes([k \in 0 .. 0 |-> a], a, step, 0)
      BY DEF Goes
  <2> QED
      BY <1>1, <1>2, <2>1
<1>3. CASE m # 0
  <2>1. m - 1 \in 0 .. n /\ m \in 1 .. n /\ m - 1 < m /\ m \in Nat
      BY <1>3
  <2>2. PICK f \in [0 .. m - 1 -> V] : Goes(f, a, step, m - 1)
      BY <1>1, <2>1
  <2> DEFINE h == [k \in 0 .. m |-> IF k = m THEN step[m][f[m - 1]] ELSE f[k]]
  <2>3. h \in [0 .. m -> V]
    <3>1. f[m - 1] \in V /\ step[m] \in [V -> V]
        BY <2>1
    <3>2. step[m][f[m - 1]] \in V
        BY <3>1
    <3>3. \A k \in 0 .. m : k # m => f[k] \in V
        BY <2>1
    <3> QED
        BY <3>2, <3>3
  <2>4. \A k \in 0 .. m : h[k] = IF k = 0 THEN a ELSE step[k][h[k - 1]]
    <3> SUFFICES ASSUME NEW k \in 0 .. m PROVE h[k] = IF k = 0 THEN a ELSE step[k][h[k - 1]]
        OBVIOUS
    <3>1. CASE k = m
      <4>1. k - 1 \in 0 .. m /\ k - 1 # m /\ k # 0
          BY <2>1, <3>1
      <4>2. h[k] = step[m][f[m - 1]] /\ h[k - 1] = f[k - 1]
          BY <3>1, <4>1
      <4> QED
          BY <3>1, <4>1, <4>2
    <3>2. CASE k # m
      <4>1. k \in 0 .. m - 1 /\ h[k] = f[k]
          BY <2>1, <3>2
      <4>2. f[k] = IF k = 0 THEN a ELSE step[k][f[k - 1]]
          BY <2>2, <4>1 DEF Goes
      <4>3. k # 0 => k - 1 \in 0 .. m /\ k - 1 # m /\ h[k - 1] = f[k - 1]
          BY <2>1, <4>1
      <4> QED
          BY <4>1, <4>2, <4>3
    <3> QED
        BY <3>1, <3>2
  <2>5. h = [k \in 0 .. m |-> h[k]]
      OBVIOUS
  <2> HIDE DEF h
  <2>6. Goes(h, a, step, m)
      BY <2>4, <2>5 DEF Goes
  <2> QED
      BY <1>1, <2>3, <2>6
<1> QED
    BY <1>2, <1>3

(* What every step keeps holds of all values.                              *)
LEMMA AllIn ==
  ASSUME NEW V, NEW n \in Nat, NEW f, f[0] \in V,
         \A k \in 1 .. n : f[k - 1] \in V => f[k] \in V
  PROVE  \A k \in 0 .. n : f[k] \in V
<1> DEFINE T == {k \in 0 .. n : ~ f[k] \in V}
<1> SUFFICES ASSUME T # {} PROVE FALSE
    OBVIOUS
<1>1. PICK m \in T : \A k \in T : m <= k
  <2>1. T \subseteq Nat /\ T # {}
      OBVIOUS
  <2> HIDE DEF T
  <2> QED
      BY <2>1, MinIs
<1>2. m # 0
    BY <1>1
<1>3. m - 1 \in 0 .. n /\ ~ (m <= m - 1) /\ m \in 1 .. n
    BY <1>2
<1> QED
    BY <1>1, <1>3

(* What holds of 0 and goes from a number to the next holds of all.        *)
LEMMA Everywhere ==
  ASSUME NEW n \in Nat, NEW S, 0 \in S, \A k \in 1 .. n : k - 1 \in S => k \in S
  PROVE  \A k \in 0 .. n : k \in S
<1> DEFINE f == [k \in 0 .. n |-> k]
<1>1. f[0] \in S
    OBVIOUS
<1>2. ASSUME NEW k \in 1 .. n, f[k - 1] \in S PROVE f[k] \in S
  <2>1. f[k - 1] = k - 1 /\ f[k] = k
      OBVIOUS
  <2> QED
      BY <1>2, <2>1
<1>3. \A k \in 0 .. n : f[k] = k
    OBVIOUS
<1> HIDE DEF f
<1>4. \A k \in 0 .. n : f[k] \in S
    BY <1>1, <1>2, AllIn
<1> QED
    BY <1>3, <1>4

(* The numbers its first digits make, one digit after the other.           *)
Grows(F, d, n, base) ==
  /\ F \in [0 .. n -> Nat]
  /\ F[0] = 0
  /\ \A k \in 1 .. n : F[k] = F[k - 1] * base + d[k]
  /\ Number(d, n, base) = F[n]

LEMMA NumberIs ==
  ASSUME NEW n \in Nat, NEW base \in Nat, NEW d, \A k \in 1 .. n : d[k] \in Nat
  PROVE  \E F : Grows(F, d, n, base)
<1> DEFINE step == [k \in 1 .. n |-> [v \in Nat |-> v * base + d[k]]]
           F == CHOOSE f : f = [k \in 0 .. n |-> IF k = 0 THEN 0 ELSE f[k - 1] * base + d[k]]
<1>1. step \in [1 .. n -> [Nat -> Nat]]
    OBVIOUS
<1>2. \A v \in Nat, k \in 1 .. n : step[k][v] = v * base + d[k]
    OBVIOUS
<1> HIDE DEF step
<1>3. PICK f \in [0 .. n -> Nat] : Goes(f, 0, step, n)
    BY <1>1, GoesOn
<1>4. f = [k \in 0 .. n |-> IF k = 0 THEN 0 ELSE f[k - 1] * base + d[k]]
  <2>1. ASSUME NEW k \in 0 .. n
        PROVE  f[k] = IF k = 0 THEN 0 ELSE f[k - 1] * base + d[k]
    <3>1. f[k] = IF k = 0 THEN 0 ELSE step[k][f[k - 1]]
        BY <1>3 DEF Goes
    <3>2. k # 0 => k \in 1 .. n /\ f[k - 1] \in Nat
        OBVIOUS
    <3> QED
        BY <1>2, <3>1, <3>2
  <2> QED
      BY <2>1
<1>5. F = [k \in 0 .. n |-> IF k = 0 THEN 0 ELSE F[k - 1] * base + d[k]]
    BY <1>4, Zenon
<1>6. Number(d, n, base) = F[n]
    BY DEF Number
<1> HIDE DEF F
<1>7. F[0] = 0 /\ 0 \in Nat
    BY <1>5
<1>8. \A k \in 1 .. n : F[k] = F[k - 1] * base + d[k]
    BY <1>5
<1>9. ASSUME NEW k \in 1 .. n, F[k - 1] \in Nat PROVE F[k] \in Nat
  <2>1. F[k] = F[k - 1] * base + d[k]
      BY <1>8
  <2>2. F[k - 1] * base \in Nat
      BY <1>9
  <2> QED
      BY <2>1, <2>2
<1>10. \A k \in 0 .. n : F[k] \in Nat
    BY <1>7, <1>9, AllIn
<1>11. F \in [0 .. n -> Nat]
    BY <1>5, <1>10
<1> QED
    BY <1>6, <1>7, <1>8, <1>11, Zenon DEF Grows

(* A number written with digits is a number.                               *)
LEMMA NumberType ==
  ASSUME NEW n \in Nat, NEW base \in Nat, NEW d, \A k \in 1 .. n : d[k] \in Nat
  PROVE  Number(d, n, base) \in Nat
<1>1. PICK F : Grows(F, d, n, base)
    BY NumberIs
<1> QED
    BY <1>1 DEF Grows

(* They are the only ones that go from one to the next like that.          *)
LEMMA NumberOf ==
  ASSUME NEW n \in Nat, NEW base \in Nat, NEW d, \A k \in 1 .. n : d[k] \in Nat,
         NEW G, G[0] = 0, \A k \in 1 .. n : G[k] = G[k - 1] * base + d[k]
  PROVE  Number(d, n, base) = G[n]
<1>0. PICK F : Grows(F, d, n, base)
    BY NumberIs
<1>1. /\ F \in [0 .. n -> Nat]
      /\ F[0] = 0
      /\ \A k \in 1 .. n : F[k] = F[k - 1] * base + d[k]
      /\ Number(d, n, base) = F[n]
    BY <1>0, Zenon DEF Grows
<1> DEFINE S == {k \in 0 .. n : F[k] = G[k]}
<1>2. 0 \in S
    BY <1>1
<1>3. ASSUME NEW k \in 1 .. n, k - 1 \in S PROVE k \in S
    BY <1>1, <1>3
<1> HIDE DEF S
<1>4. \A k \in 0 .. n : k \in S
    BY <1>2, <1>3, Everywhere
<1>5. n \in S
    BY <1>4
<1> QED
    BY <1>1, <1>5 DEF S

LEMMA DivMod ==
  ASSUME NEW x \in Nat, NEW b \in Nat, b > 0
  PROVE  x \div b \in Nat /\ x % b \in Nat /\ x = (x \div b) * b + (x % b)
OBVIOUS

(* The quotient of a number that stays below the next multiple.            *)
LEMMA Quotient ==
  ASSUME NEW q \in Nat, NEW r \in Nat, NEW m \in Nat, NEW b \in Nat, b > 0,
         q * b + r <= m * b + (b - 1)
  PROVE  q <= m
<1> SUFFICES ASSUME q > m PROVE FALSE
    OBVIOUS
<1>1. PICK e \in Nat : q = m + 1 + e
  <2>1. q - m - 1 \in Nat /\ q = m + 1 + (q - m - 1)
      OBVIOUS
  <2> QED
      BY <2>1
<1>2. q * b = m * b + b + e * b
    BY <1>1
<1>3. e * b \in Nat /\ m * b \in Nat
    OBVIOUS
<1> QED
    BY <1>2, <1>3

(* What is left of a number whose lowest digits are taken away.            *)
Shrinks(F, x, n, base) ==
  /\ F \in [0 .. n -> Nat]
  /\ F[0] = x
  /\ \A k \in 1 .. n : F[k] = F[k - 1] \div base
  /\ Digits(x, base, n) = [k \in 1 .. n |-> F[k - 1] % base]

LEMMA DigitsAre ==
  ASSUME NEW x \in Nat, NEW base \in Nat, base > 0, NEW n \in Nat
  PROVE  \E F : Shrinks(F, x, n, base)
<1> DEFINE step == [k \in 1 .. n |-> [v \in Nat |-> v \div base]]
           F == CHOOSE f : f = [k \in 0 .. n |-> IF k = 0 THEN x ELSE f[k - 1] \div base]
<1>1. step \in [1 .. n -> [Nat -> Nat]]
  <2>1. ASSUME NEW v \in Nat PROVE v \div base \in Nat
      BY <2>1
  <2> QED
      BY <2>1
<1>2. \A v \in Nat, k \in 1 .. n : step[k][v] = v \div base
    OBVIOUS
<1> HIDE DEF step
<1>3. PICK f \in [0 .. n -> Nat] : Goes(f, x, step, n)
    BY <1>1, GoesOn
<1>4. f = [k \in 0 .. n |-> IF k = 0 THEN x ELSE f[k - 1] \div base]
  <2>1. ASSUME NEW k \in 0 .. n PROVE f[k] = IF k = 0 THEN x ELSE f[k - 1] \div base
    <3>1. f[k] = IF k = 0 THEN x ELSE step[k][f[k - 1]]
        BY <1>3 DEF Goes
    <3>2. k # 0 => k \in 1 .. n /\ f[k - 1] \in Nat
        OBVIOUS
    <3> QED
        BY <1>2, <3>1, <3>2
  <2> QED
      BY <2>1
<1>5. F = [k \in 0 .. n |-> IF k = 0 THEN x ELSE F[k - 1] \div base]
    BY <1>4, Zenon
<1>6. Digits(x, base, n) = [k \in 1 .. n |-> F[k - 1] % base]
    BY DEF Digits
<1> HIDE DEF F
<1>7. F[0] = x /\ \A k \in 1 .. n : F[k] = F[k - 1] \div base
  <2>1. \A k \in 1 .. n : k \in 0 .. n /\ k # 0
      OBVIOUS
  <2>2. 0 \in 0 .. n
      OBVIOUS
  <2> QED
      BY <1>5, <2>1, <2>2, Zenon
<1>8. ASSUME NEW k \in 1 .. n, F[k - 1] \in Nat PROVE F[k] \in Nat
  <2>1. F[k] = F[k - 1] \div base
      BY <1>7
  <2>2. PICK v \in Nat : v = F[k - 1]
      BY <1>8
  <2>3. v \div base \in Nat
      OBVIOUS
  <2> QED
      BY <2>1, <2>2, <2>3
<1>9. \A k \in 0 .. n : F[k] \in Nat
    BY <1>7, <1>8, AllIn
<1>10. F \in [0 .. n -> Nat]
    BY <1>5, <1>9
<1> QED
    BY <1>6, <1>7, <1>10, Zenon DEF Shrinks

LEMMA DigitsType ==
  ASSUME NEW x \in Nat, NEW base \in Nat, base > 0, NEW n \in Nat
  PROVE  Digits(x, base, n) \in [1 .. n -> Nat]
<1>1. PICK F : Shrinks(F, x, n, base)
    BY DigitsAre
<1>2. ASSUME NEW k \in 1 .. n PROVE F[k - 1] % base \in Nat
  <2>1. F[k - 1] \in Nat
      BY <1>1 DEF Shrinks
  <2> QED
      BY <2>1, DivMod
<1> QED
    BY <1>1, <1>2 DEF Shrinks

(* A number that the digits can hold is read as it was written.            *)
LEMMA ReadsAsWritten ==
  ASSUME NEW n \in Nat, NEW base \in Nat, base > 0, NEW x \in Nat,
         x <= Number(Filled(n, base - 1), n, base)
  PROVE  Number(Reverse(Digits(x, base, n)), n, base) = x
<1> DEFINE d == Reverse(Digits(x, base, n))
<1>0. PICK R : Shrinks(R, x, n, base)
    BY DigitsAre
<1>1. /\ R \in [0 .. n -> Nat]
      /\ R[0] = x
      /\ \A k \in 1 .. n : R[k] = R[k - 1] \div base
      /\ Digits(x, base, n) = [k \in 1 .. n |-> R[k - 1] % base]
    BY <1>0, Zenon DEF Shrinks
<1>2. \A k \in 1 .. n : Filled(n, base - 1)[k] = base - 1 /\ base - 1 \in Nat
    BY DEF Filled
<1>3. PICK M \in [0 .. n -> Nat] :
        /\ M[0] = 0
        /\ \A k \in 1 .. n : M[k] = M[k - 1] * base + (base - 1)
        /\ Number(Filled(n, base - 1), n, base) = M[n]
  <2>1. PICK M : Grows(M, Filled(n, base - 1), n, base)
      BY <1>2, NumberIs
  <2>2. M \in [0 .. n -> Nat] /\ M[0] = 0 /\ Number(Filled(n, base - 1), n, base) = M[n]
      BY <2>1 DEF Grows
  <2>3. ASSUME NEW k \in 1 .. n PROVE M[k] = M[k - 1] * base + (base - 1)
    <3>1. M[k] = M[k - 1] * base + Filled(n, base - 1)[k]
        BY <2>1, Zenon DEF Grows
    <3> QED
        BY <1>2, <3>1
  <2> QED
      BY <2>2, <2>3
<1>4. R[n] = 0
  <2> DEFINE S == {j \in 0 .. n : R[j] <= M[n - j]}
  <2>1. 0 \in S
      BY <1>1, <1>3
  <2>2. ASSUME NEW k \in 1 .. n, k - 1 \in S PROVE k \in S
    <3>1. R[k - 1] \in Nat /\ M[n - k] \in Nat /\ n - k \in 0 .. n /\ n - (k - 1) \in 1 .. n
          /\ (n - (k - 1)) - 1 = n - k
        BY <1>1, <1>3
    <3>2. R[k - 1] <= M[n - k] * base + (base - 1)
        BY <1>3, <2>2, <3>1
    <3>3. R[k] \in Nat /\ R[k - 1] % base \in Nat /\ R[k - 1] = R[k] * base + (R[k - 1] % base)
      <4>1. R[k] = R[k - 1] \div base
          BY <1>1
      <4>2. PICK v \in Nat : v = R[k - 1]
          BY <3>1
      <4>3. v \div base \in Nat /\ v % base \in Nat /\ v = (v \div base) * base + (v % base)
          BY DivMod
      <4> QED
          BY <4>1, <4>2, <4>3, Zenon
    <3>4. R[k] * base + (R[k - 1] % base) <= M[n - k] * base + (base - 1)
        BY <3>2, <3>3
    <3> HIDE DEF S
    <3>5. R[k] <= M[n - k]
        BY <3>1, <3>3, <3>4, Quotient
    <3> QED
        BY <3>5 DEF S
  <2>3. \A k \in 0 .. n : k \in S
    <3> HIDE DEF S
    <3> QED
        BY <2>1, <2>2, Everywhere
  <2>4. n \in S /\ n - n = 0
      BY <2>3
  <2>5. R[n] <= M[0] /\ R[n] \in Nat
      BY <1>1, <2>4
  <2> QED
      BY <1>3, <2>5
<1>5. \A k \in 1 .. n : d[k] = R[n - k] % base /\ d[k] \in Nat
  <2> DEFINE e == [k \in 1 .. n |-> R[k - 1] % base]
  <2>1. Len(e) = n
      OBVIOUS
  <2>2. d = [k \in 1 .. n |-> e[(n - k) + 1]]
      BY <1>1, <2>1, Zenon DEF Reverse
  <2>3. ASSUME NEW k \in 1 .. n PROVE d[k] = R[n - k] % base /\ d[k] \in Nat
    <3>1. (n - k) + 1 \in 1 .. n /\ ((n - k) + 1) - 1 = n - k /\ R[n - k] \in Nat
        BY <1>1
    <3>2. d[k] = R[n - k] % base
        BY <2>2, <3>1
    <3>3. R[n - k] % base \in Nat
        BY <3>1, DivMod
    <3> QED
        BY <3>2, <3>3
  <2> QED
      BY <2>3
<1> HIDE DEF d
<1> DEFINE G == [k \in 0 .. n |-> R[n - k]]
<1>6. G[0] = 0 /\ G[n] = x
    BY <1>1, <1>4
<1>7. ASSUME NEW k \in 1 .. n PROVE G[k] = G[k - 1] * base + d[k]
  <2>1. n - k \in 0 .. n /\ n - (k - 1) \in 1 .. n /\ (n - (k - 1)) - 1 = n - k
        /\ R[n - k] \in Nat
      BY <1>1
  <2>2. R[n - (k - 1)] = R[n - k] \div base
      BY <1>1, <2>1
  <2>3. R[n - k] = R[n - (k - 1)] * base + (R[n - k] % base)
      BY <2>1, <2>2, DivMod
  <2>4. G[k] = R[n - k] /\ G[k - 1] = R[n - (k - 1)]
      OBVIOUS
  <2> QED
      BY <1>5, <2>3, <2>4
<1> HIDE DEF G
<1>8. Number(d, n, base) = G[n]
    BY <1>5, <1>6, <1>7, NumberOf
<1> QED
    BY <1>6, <1>8 DEF d

-----------------------------------------------------------------------------
(* Sequences that are joined, and what the muxers write: bytes.            *)

(* What the first k of n sequences make together.                          *)
Joins(F, s, n) ==
  /\ F \in [0 .. n -> Seq(Nat)]
  /\ F[0] = << >>
  /\ \A k \in 1 .. n : F[k] = F[k - 1] \o s[k]
  /\ FlattenSeq(s) = F[n]

LEMMA FlattenIs ==
  ASSUME NEW n \in Nat, NEW s \in [1 .. n -> Seq(Nat)]
  PROVE  \E F : Joins(F, s, n)
<1>1. Len(s) = n
    OBVIOUS
<1>0. << >> \in Seq(Nat) /\ \A v \in Seq(Nat) : << >> \o v = v
    OBVIOUS
<1>2. CASE n = 0
  <2>1. s = << >>
      BY <1>2
  <2>2. FlattenSeq(s) = s
      BY <1>1, <1>2, Zenon DEF FlattenSeq
  <2> DEFINE F == [k \in 0 .. n |-> << >>]
  <2>3. F \in [0 .. n -> Seq(Nat)] /\ F[0] = << >> /\ F[n] = << >>
      BY <1>0
  <2>4. \A k \in 1 .. n : F[k] = F[k - 1] \o s[k]
      BY <1>2
  <2> HIDE DEF F
  <2> QED
      BY <2>1, <2>2, <2>3, <2>4 DEF Joins
<1>3. CASE n # 0
  <2> DEFINE step == [k \in 1 .. n |-> [v \in Seq(Nat) |-> v \o s[k]]]
             F == CHOOSE f : f = [k \in 1 .. n |-> IF k = 1 THEN s[k] ELSE f[k - 1] \o s[k]]
  <2>1. step \in [1 .. n -> [Seq(Nat) -> Seq(Nat)]]
    <3>1. ASSUME NEW k \in 1 .. n, NEW v \in Seq(Nat) PROVE v \o s[k] \in Seq(Nat)
      <4>1. s[k] \in Seq(Nat)
          OBVIOUS
      <4> QED
          BY <4>1
    <3> QED
        BY <3>1
  <2>2. \A v \in Seq(Nat), k \in 1 .. n : step[k][v] = v \o s[k]
      OBVIOUS
  <2> HIDE DEF step
  <2>3. PICK e \in [0 .. n -> Seq(Nat)] : Goes(e, << >>, step, n)
      BY <1>0, <2>1, GoesOn
  <2>4. ASSUME NEW k \in 1 .. n PROVE e[k] = e[k - 1] \o s[k] /\ e[0] = << >>
    <3>1. k \in 0 .. n /\ k # 0 /\ 0 \in 0 .. n
        OBVIOUS
    <3>2. e = [x \in 0 .. n |-> IF x = 0 THEN << >> ELSE step[x][e[x - 1]]]
        BY <2>3, Zenon DEF Goes
    <3>3. e[k] = step[k][e[k - 1]] /\ e[0] = << >>
        BY <3>1, <3>2, Zenon
    <3>4. e[k - 1] \in Seq(Nat)
        OBVIOUS
    <3> QED
        BY <2>2, <3>3, <3>4
  <2> DEFINE f == [k \in 1 .. n |-> e[k]]
  <2>5. f = [k \in 1 .. n |-> IF k = 1 THEN s[k] ELSE f[k - 1] \o s[k]]
    <3>1. ASSUME NEW k \in 1 .. n PROVE e[k] = IF k = 1 THEN s[k] ELSE e[k - 1] \o s[k]
      <4>1. s[k] \in Seq(Nat)
          OBVIOUS
      <4>2. CASE k = 1
        <5>1. k - 1 = 0
            BY <4>2
        <5>2. e[k] = << >> \o s[k]
            BY <2>4, <5>1
        <5> QED
            BY <1>0, <4>1, <4>2, <5>2
      <4> QED
          BY <2>4, <4>2
    <3>2. ASSUME NEW k \in 1 .. n, k # 1 PROVE f[k - 1] = e[k - 1]
        BY <3>2
    <3> QED
        BY <3>1, <3>2
  <2> HIDE DEF f
  <2>6. F = [k \in 1 .. n |-> IF k = 1 THEN s[k] ELSE F[k - 1] \o s[k]]
      BY <2>5, Zenon
  <2>7. FlattenSeq(s) = F[n]
      BY <1>1, <1>3, Zenon DEF FlattenSeq
  <2> HIDE DEF F
  <2> DEFINE g == [k \in 0 .. n |-> IF k = 0 THEN << >> ELSE F[k]]
  <2>8. g[0] = << >> /\ g[n] = F[n]
      BY <1>3
  <2>9. ASSUME NEW k \in 1 .. n PROVE g[k] = g[k - 1] \o s[k]
    <3>1. s[k] \in Seq(Nat) /\ g[k] = F[k]
        OBVIOUS
    <3>2. CASE k = 1
      <4>1. g[k - 1] = << >>
          BY <3>2
      <4>2. F[k] = s[k]
          BY <2>6, <3>2
      <4> QED
          BY <1>0, <3>1, <4>1, <4>2
    <3>3. CASE k # 1
      <4>1. g[k - 1] = F[k - 1]
          BY <3>3
      <4>2. F[k] = F[k - 1] \o s[k]
          BY <2>6, <3>3
      <4> QED
          BY <3>1, <4>1, <4>2
    <3> QED
        BY <3>2, <3>3
  <2>10. \E h : g = [k \in 0 .. n |-> h[k]]
      OBVIOUS
  <2> HIDE DEF g
  <2>11. ASSUME NEW k \in 1 .. n, g[k - 1] \in Seq(Nat) PROVE g[k] \in Seq(Nat)
    <3>1. s[k] \in Seq(Nat) /\ g[k] = g[k - 1] \o s[k]
        BY <2>9
    <3>2. g[k - 1] \o s[k] \in Seq(Nat)
        BY <2>11, <3>1
    <3> QED
        BY <3>1, <3>2
  <2>12. \A k \in 0 .. n : g[k] \in Seq(Nat)
      BY <1>0, <2>8, <2>11, AllIn
  <2>13. g \in [0 .. n -> Seq(Nat)]
      BY <2>10, <2>12
  <2> QED
      BY <2>7, <2>8, <2>9, <2>13, Zenon DEF Joins
<1> QED
    BY <1>2, <1>3

LEMMA FlattenType ==
  ASSUME NEW n \in Nat, NEW s \in [1 .. n -> Seq(Nat)]
  PROVE  FlattenSeq(s) \in Seq(Nat)
<1>1. PICK F : Joins(F, s, n)
    BY FlattenIs
<1> QED
    BY <1>1 DEF Joins

(* The kth of them begins where those before it end.                       *)
LEMMA FlattenPlaces ==
  ASSUME NEW n \in Nat, NEW s \in [1 .. n -> Seq(Nat)],
         NEW T \in [0 .. n -> Nat], T[0] = 0, \A k \in 1 .. n : T[k] = T[k - 1] + Len(s[k])
  PROVE  /\ Len(FlattenSeq(s)) = T[n]
         /\ \A k \in 1 .. n : \A j \in 1 .. Len(s[k]) : FlattenSeq(s)[T[k - 1] + j] = s[k][j]
<1>0. PICK F : Joins(F, s, n)
    BY FlattenIs
<1>1. /\ F \in [0 .. n -> Seq(Nat)] /\ F[0] = << >> /\ FlattenSeq(s) = F[n]
      /\ \A k \in 1 .. n : F[k] = F[k - 1] \o s[k]
    BY <1>0, Zenon DEF Joins
<1> DEFINE Laid(k) ==
             \A m \in 1 .. k : T[m] <= T[k] /\ \A j \in 1 .. Len(s[m]) : F[k][T[m - 1] + j] = s[m][j]
           S == {k \in 0 .. n : Len(F[k]) = T[k] /\ Laid(k)}
<1>2. 0 \in S
    BY <1>1
<1>3. ASSUME NEW k \in 1 .. n, k - 1 \in S PROVE k \in S
  <2>1. Len(F[k - 1]) = T[k - 1] /\ Laid(k - 1) /\ F[k - 1] \in Seq(Nat) /\ s[k] \in Seq(Nat)
      BY <1>1, <1>3
  <2>2. F[k] = F[k - 1] \o s[k] /\ T[k] = T[k - 1] + Len(s[k])
        /\ T[k] \in Nat /\ T[k - 1] \in Nat /\ Len(s[k]) \in Nat
    <3>1. F[k] = F[k - 1] \o s[k] /\ T[k] = T[k - 1] + Len(s[k])
        BY <1>1
    <3>2. T[k] \in Nat /\ T[k - 1] \in Nat
        OBVIOUS
    <3>3. Len(s[k]) \in Nat
        BY <2>1
    <3> QED
        BY <3>1, <3>2, <3>3
  <2>3. Len(F[k]) = T[k]
      BY <2>1, <2>2
  <2>4. ASSUME NEW m \in 1 .. k
        PROVE  T[m] <= T[k] /\ \A j \in 1 .. Len(s[m]) : F[k][T[m - 1] + j] = s[m][j]
    <3>1. CASE m = k
      <4>1. ASSUME NEW j \in 1 .. Len(s[k]) PROVE F[k][T[k - 1] + j] = s[k][j]
        <5>1. PICK a \in Seq(Nat), b \in Seq(Nat) : a = F[k - 1] /\ b = s[k]
            BY <2>1
        <5>2. j \in Nat /\ Len(a) + j \in (Len(a) + 1) .. (Len(a) + Len(b))
            BY <5>1
        <5>3. (a \o b)[Len(a) + j] = b[j]
            BY <5>2
        <5> QED
            BY <2>1, <2>2, <5>1, <5>3, Zenon
      <4>2. T[k] <= T[k]
          BY <2>2
      <4> QED
          BY <3>1, <4>1, <4>2, Zenon
    <3>2. CASE m # k
      <4>1. m \in 1 .. k - 1 /\ m \in 1 .. n
          BY <3>2
      <4>2. T[m] <= T[k - 1] /\ \A j \in 1 .. Len(s[m]) : F[k - 1][T[m - 1] + j] = s[m][j]
          BY <2>1, <4>1
      <4>3. T[m] \in Nat /\ T[m - 1] \in Nat /\ T[m] = T[m - 1] + Len(s[m]) /\ s[m] \in Seq(Nat)
          BY <4>1
      <4>4. ASSUME NEW j \in 1 .. Len(s[m]) PROVE F[k][T[m - 1] + j] = s[m][j]
        <5>1. Len(s[m]) \in Nat
            BY <4>3
        <5>2. T[m - 1] + j \in 1 .. T[k - 1]
          <6>1. PICK x \in Nat, y \in Nat, z \in Nat, l \in Nat :
                  x = T[m - 1] /\ y = T[m] /\ z = T[k - 1] /\ l = Len(s[m])
              BY <2>2, <4>3, <5>1
          <6>2. j \in 1 .. l /\ y = x + l /\ y <= z
              BY <4>2, <4>3, <6>1
          <6>3. x + j \in 1 .. z
              BY <6>2
          <6> QED
              BY <6>1, <6>3
        <5>3. PICK a \in Seq(Nat), b \in Seq(Nat) : a = F[k - 1] /\ b = s[k]
            BY <2>1
        <5>4. PICK p \in 1 .. Len(a) : p = T[m - 1] + j
            BY <2>1, <5>2, <5>3
        <5>5. (a \o b)[p] = a[p]
            OBVIOUS
        <5> QED
            BY <2>2, <4>2, <5>3, <5>4, <5>5, Zenon
      <4>5. T[m] <= T[k]
          BY <2>2, <4>2, <4>3
      <4> QED
          BY <4>4, <4>5, Zenon
    <3> QED
        BY <3>1, <3>2, Zenon
  <2> QED
      BY <2>3, <2>4
<1> HIDE DEF S
<1>4. \A k \in 0 .. n : k \in S
    BY <1>2, <1>3, Everywhere
<1>5. n \in S
    BY <1>4
<1>6. Len(F[n]) = T[n] /\ Laid(n)
    BY <1>5 DEF S
<1> QED
    BY <1>1, <1>6

LEMMA Widths ==
  /\ LengthSize \in 1 .. 8 /\ LebBytes \in 1 .. 8
  /\ LengthBase \in Nat /\ LengthBase > 0 /\ LebBase \in Nat /\ LebBase > 0
  /\ FileHeader \in Nat /\ FrameHeader \in Nat /\ FrameHeader >= LengthSize
  /\ FrameHeader - LengthSize \in Nat
  /\ Payloads \subseteq Nat /\ MaxSize \in Nat /\ MaxUnits \in Nat /\ Bytes \subseteq 0 .. 255
  /\ LaneBytes \in Nat /\ LaneBytes >= 3
BY WidthsAssumption, BuffersAssumption, LaneBytesAssumption

-----------------------------------------------------------------------------
(* What the muxers write, and where in the buffer each unit is.            *)

SizedModes == {"LengthPrefixed", "Obu", "Ivf"}

LEMMA DigitsSeq ==
  ASSUME NEW x \in Nat, NEW base \in Nat, base > 0, NEW n \in Nat
  PROVE  /\ Digits(x, base, n) \in Seq(Nat) /\ Len(Digits(x, base, n)) = n
         /\ Reverse(Digits(x, base, n)) \in Seq(Nat) /\ Len(Reverse(Digits(x, base, n))) = n
         /\ \A j \in 1 .. n : Reverse(Digits(x, base, n))[j] = Digits(x, base, n)[(n - j) + 1]
<1>1. PICK d \in [1 .. n -> Nat] : d = Digits(x, base, n)
    BY DigitsType
<1>2. d \in Seq(Nat) /\ Len(d) = n
    OBVIOUS
<1>3. Reverse(d) = [j \in 1 .. n |-> d[(n - j) + 1]]
    BY <1>2, Zenon DEF Reverse
<1>4. [j \in 1 .. n |-> d[(n - j) + 1]] \in [1 .. n -> Nat]
    OBVIOUS
<1>5. Reverse(d) \in Seq(Nat) /\ Len(Reverse(d)) = n
    BY <1>3, <1>4
<1> QED
    BY <1>1, <1>2, <1>3, <1>5

(* Two and three sequences joined.                                         *)
LEMMA JoinOf ==
  ASSUME NEW a \in Seq(Nat), NEW b \in Seq(Nat)
  PROVE  /\ a \o b \in Seq(Nat) /\ Len(a \o b) = Len(a) + Len(b)
         /\ \A j \in 1 .. Len(a) : (a \o b)[j] = a[j]
         /\ \A j \in 1 .. Len(b) : (a \o b)[Len(a) + j] = b[j]
OBVIOUS

LEMMA FilledIs ==
  ASSUME NEW n \in Nat, NEW b \in Nat
  PROVE  Filled(n, b) \in Seq(Nat) /\ Len(Filled(n, b)) = n
BY DEF Filled

(* A unit of the muxers: its bytes begin with its head, which says p.      *)
WrittenAs(u, head, p, open) ==
  /\ u.bytes \in Seq(Nat) /\ Len(u.bytes) = Len(head) + p
  /\ \A j \in 1 .. Len(head) : u.bytes[j] = head[j]
  /\ u.open = open

LEMMA HeadIs ==
  ASSUME NEW u, NEW a \in Seq(Nat), NEW p \in Nat, NEW open,
         u.bytes = a \o Filled(p, 1), u.open = open
  PROVE  WrittenAs(u, a, p, open)
<1>1. PICK c \in Seq(Nat) : c = Filled(p, 1) /\ Len(c) = p
    BY FilledIs
<1>2. PICK w : w = u.bytes
    OBVIOUS
<1>3. w \in Seq(Nat) /\ Len(w) = Len(a) + p /\ \A j \in 1 .. Len(a) : w[j] = a[j]
  <2>1. w = a \o c
      BY <1>1, <1>2
  <2> QED
      BY <1>1, <2>1, JoinOf
<1> QED
    BY <1>2, <1>3, Zenon DEF WrittenAs

LEMMA PrefixedIs ==
  ASSUME NEW u \in WrittenUnits("LengthPrefixed")
  PROVE  \E p \in Payloads :
           /\ Fits(p, LengthBase, LengthSize)
           /\ WrittenAs(u, Reverse(Digits(p, LengthBase, LengthSize)), p, FALSE)
<1>1. PICK p \in Payloads : u = Prefixed(p)
    BY DEF WrittenUnits
<1>2. p \in Nat /\ LengthSize \in Nat /\ LengthBase \in Nat /\ LengthBase > 0
    BY Widths
<1>3. PICK a \in Seq(Nat) : a = Reverse(Digits(p, LengthBase, LengthSize))
    BY <1>2, DigitsSeq
<1>4. u.bytes = a \o Filled(p, 1) /\ u.open = FALSE
    BY <1>1, <1>3 DEF Prefixed
<1>5. WrittenAs(u, a, p, FALSE)
    BY <1>2, <1>4, HeadIs
<1> QED
    BY <1>3, <1>5, PayloadsAssumption

LEMMA FrameIs ==
  ASSUME NEW u \in WrittenUnits("Ivf")
  PROVE  \E p \in Payloads :
           /\ Fits(p, LengthBase, LengthSize)
           /\ WrittenAs(u, Digits(p, LengthBase, LengthSize) \o Filled(FrameHeader - LengthSize, 0),
                       p, FALSE)
<1>1. PICK p \in Payloads : u = Frame(p)
    BY DEF WrittenUnits
<1>2. p \in Nat /\ LengthSize \in Nat /\ LengthBase \in Nat /\ LengthBase > 0
      /\ FrameHeader - LengthSize \in Nat
    BY Widths
<1>3. PICK a \in Seq(Nat), b \in Seq(Nat) :
        a = Digits(p, LengthBase, LengthSize) /\ b = Filled(FrameHeader - LengthSize, 0)
    BY <1>2, DigitsSeq, FilledIs
<1>4. u.bytes = (a \o b) \o Filled(p, 1) /\ u.open = FALSE
    BY <1>1, <1>3 DEF Frame
<1>5. PICK h \in Seq(Nat) : h = a \o b
    BY JoinOf
<1>6. WrittenAs(u, h, p, FALSE)
    BY <1>2, <1>4, <1>5, HeadIs
<1> QED
    BY <1>3, <1>5, <1>6, PayloadsAssumption

LEMMA SingleIs ==
  ASSUME NEW b \in Nat
  PROVE  <<b>> \in Seq(Nat) /\ Len(<<b>>) = 1 /\ <<b>>[1] = b /\ <<b>> \o << >> = <<b>>
OBVIOUS

LEMMA HeaderLength ==
  ASSUME NEW x \in BOOLEAN, NEW y \in BOOLEAN
  PROVE  /\ ObuHeader(x, y) \in Seq(Nat)
         /\ Len(ObuHeader(x, y)) = IF x THEN 2 ELSE 1
         /\ ObuHeader(x, y)[1] = 8 + (IF x THEN 4 ELSE 0) + (IF y THEN 2 ELSE 0)
<1> DEFINE b == 8 + (IF x THEN 4 ELSE 0) + (IF y THEN 2 ELSE 0)
<1>1. b \in Nat
    OBVIOUS
<1> HIDE DEF b
<1>2. ObuHeader(x, y) = <<b>> \o (IF x THEN <<1>> ELSE <<>>)
    BY DEF ObuHeader, b
<1>3. CASE x
  <2>1. PICK v \in Seq(Nat), w \in Seq(Nat) :
          v = <<b>> /\ w = <<1>> /\ Len(v) = 1 /\ Len(w) = 1 /\ v[1] = b
      BY <1>1, SingleIs
  <2>2. ObuHeader(x, y) = v \o w
      BY <1>2, <1>3, <2>1, Zenon
  <2>3. 1 \in 1 .. Len(v) /\ Len(v) + Len(w) = 2
      BY <2>1
  <2>4. v \o w \in Seq(Nat) /\ Len(v \o w) = 2 /\ (v \o w)[1] = b
    <3>1. /\ v \o w \in Seq(Nat) /\ Len(v \o w) = Len(v) + Len(w)
          /\ \A j \in 1 .. Len(v) : (v \o w)[j] = v[j]
        BY JoinOf
    <3> QED
        BY <2>1, <2>3, <3>1, Zenon
  <2> QED
      BY <1>3, <2>2, <2>4, Zenon DEF b
<1>4. CASE ~ x
  <2>1. ObuHeader(x, y) = <<b>> \o << >>
      BY <1>2, <1>4, Zenon
  <2>2. <<b>> \in Seq(Nat) /\ Len(<<b>>) = 1 /\ <<b>>[1] = b /\ <<b>> \o << >> = <<b>>
      BY <1>1, SingleIs
  <2> QED
      BY <1>4, <2>1, <2>2, Zenon DEF b
<1> QED
    BY <1>3, <1>4, Zenon

LEMMA LebIs ==
  ASSUME NEW p \in Nat, NEW l \in 1 .. LebBytes
  PROVE  Leb(p, l) \in Seq(Nat) /\ Len(Leb(p, l)) = l
<1>1. l \in Nat
    BY Widths
<1>2. PICK d \in [1 .. l -> Nat] : d = Digits(p, LebBase, l)
    BY <1>1, DigitsType, Widths
<1>3. Leb(p, l) = [k \in 1 .. l |-> d[k] + (IF k < l THEN LebBase ELSE 0)]
    BY <1>2, Zenon DEF Leb
<1>4. \A k \in 1 .. l : d[k] + (IF k < l THEN LebBase ELSE 0) \in Nat
    BY Widths
<1>5. [k \in 1 .. l |-> d[k] + (IF k < l THEN LebBase ELSE 0)] \in [1 .. l -> Nat]
    BY <1>4
<1> QED
    BY <1>1, <1>3, <1>5

LEMMA ObuIs ==
  ASSUME NEW u \in WrittenUnits("Obu")
  PROVE  \E p \in Payloads, x \in BOOLEAN :
           \/ WrittenAs(u, ObuHeader(x, FALSE), p, TRUE)
           \/ \E l \in 1 .. LebBytes :
                Fits(p, LebBase, l) /\ WrittenAs(u, ObuHeader(x, TRUE) \o Leb(p, l), p, FALSE)
<1>1. \A x, y \in BOOLEAN : ObuHeader(x, y) \in Seq(Nat)
    BY HeaderLength
<1>2. \/ \E l \in 1 .. LebBytes : \E n \in {p \in Payloads : Fits(p, LebBase, l)}, x \in BOOLEAN :
           u = SizedObu(n, x, l)
      \/ \E n \in Payloads, x \in BOOLEAN : u = OpenObu(n, x)
  <2>1. u \in OpenObus \cup UNION {SizedObus(l) : l \in 1 .. LebBytes}
      BY DEF WrittenUnits
  <2>2. \/ u \in OpenObus
        \/ \E l \in 1 .. LebBytes : u \in SizedObus(l)
      BY <2>1, Zenon
  <2>3. u \in OpenObus => \E n \in Payloads, x \in BOOLEAN : u = OpenObu(n, x)
      BY Zenon DEF OpenObus
  <2>4. \A l \in 1 .. LebBytes : u \in SizedObus(l) =>
          \E n \in {p \in Payloads : Fits(p, LebBase, l)}, x \in BOOLEAN : u = SizedObu(n, x, l)
      BY Zenon DEF SizedObus
  <2> QED
      BY <2>2, <2>3, <2>4, Zenon
<1>3. ASSUME NEW l \in 1 .. LebBytes, NEW p \in Payloads, NEW x \in BOOLEAN,
             Fits(p, LebBase, l), u = SizedObu(p, x, l)
      PROVE  WrittenAs(u, ObuHeader(x, TRUE) \o Leb(p, l), p, FALSE)
  <2>1. p \in Nat /\ l \in Nat
      BY Widths
  <2>2. Leb(p, l) \in Seq(Nat)
      BY <2>1, LebIs
  <2>3. PICK a \in Seq(Nat), b \in Seq(Nat) : a = ObuHeader(x, TRUE) /\ b = Leb(p, l)
      BY <1>1, <2>2
  <2>4. u.bytes = (a \o b) \o Filled(p, 1) /\ u.open = FALSE
      BY <1>3, <2>3 DEF SizedObu
  <2>5. PICK h \in Seq(Nat) : h = a \o b
      BY JoinOf
  <2>6. WrittenAs(u, h, p, FALSE)
      BY <2>1, <2>4, <2>5, HeadIs
  <2> QED
      BY <2>3, <2>5, <2>6, Zenon
<1>4. ASSUME NEW p \in Payloads, NEW x \in BOOLEAN, u = OpenObu(p, x)
      PROVE  WrittenAs(u, ObuHeader(x, FALSE), p, TRUE)
  <2>1. p \in Nat
      BY Widths
  <2>2. PICK a \in Seq(Nat) : a = ObuHeader(x, FALSE)
      BY <1>1
  <2>3. u.bytes = a \o Filled(p, 1) /\ u.open = TRUE
      BY <1>4, <2>2 DEF OpenObu
  <2>4. WrittenAs(u, a, p, TRUE)
      BY <2>1, <2>3, HeadIs
  <2> QED
      BY <2>2, <2>4, Zenon
<1> QED
    BY <1>2, <1>3, <1>4, Zenon

(* Every unit has bytes, and those before it that are skipped.             *)
LEMMA LengthOf ==
  ASSUME NEW u, NEW h \in Seq(Nat), NEW p \in Nat, NEW open, WrittenAs(u, h, p, open),
         NEW low \in Nat, Len(h) >= low
  PROVE  u.bytes \in Seq(Nat) /\ Len(u.bytes) \in Nat /\ Len(u.bytes) >= low /\ u.open = open
<1>1. u.bytes \in Seq(Nat) /\ Len(u.bytes) = Len(h) + p /\ u.open = open
    BY Zenon DEF WrittenAs
<1>2. Len(h) \in Nat
    OBVIOUS
<1>3. Len(u.bytes) \in Nat /\ Len(u.bytes) >= low
    BY <1>1, <1>2
<1> QED
    BY <1>1, <1>3, Zenon

LEMMA UnitLengths ==
  ASSUME NEW m \in SizedModes, NEW u \in WrittenUnits(m)
  PROVE  /\ u.bytes \in Seq(Nat) /\ Len(u.bytes) \in Nat
         /\ Len(u.bytes) >= 1 /\ Len(u.bytes) >= Skip(m)
         /\ u.open \in BOOLEAN /\ (u.open => m = "Obu")
<1>0. \A v, w \in Nat : v >= 1 => v + w >= 1
    OBVIOUS
<1>1. LengthBase \in Nat /\ LengthBase > 0 /\ LengthSize \in Nat /\ LengthSize >= 1
      /\ FrameHeader \in Nat /\ FrameHeader - LengthSize \in Nat /\ Payloads \subseteq Nat
      /\ FrameHeader >= 1
    BY Widths
<1>2. CASE m = "LengthPrefixed"
  <2>1. PICK p \in Payloads : WrittenAs(u, Reverse(Digits(p, LengthBase, LengthSize)), p, FALSE)
      BY <1>2, PrefixedIs
  <2>2. p \in Nat
      BY <1>1
  <2>3. PICK h \in Seq(Nat) : h = Reverse(Digits(p, LengthBase, LengthSize)) /\ Len(h) = LengthSize
      BY <1>1, <2>2, DigitsSeq
  <2>4. WrittenAs(u, h, p, FALSE) /\ Len(h) >= LengthSize
    <3>1. WrittenAs(u, h, p, FALSE)
        BY <2>1, <2>3, Zenon
    <3>2. Len(h) >= LengthSize
        BY <1>1, <2>3
    <3> QED
        BY <3>1, <3>2, Zenon
  <2>5. u.bytes \in Seq(Nat) /\ Len(u.bytes) \in Nat /\ Len(u.bytes) >= LengthSize /\ u.open = FALSE
      BY <1>1, <2>2, <2>4, LengthOf
  <2>6. Skip(m) = LengthSize
      BY <1>2 DEF Skip
  <2>7. Len(u.bytes) >= 1
      BY <1>1, <2>5
  <2> QED
      BY <2>5, <2>6, <2>7, Zenon
<1>3. CASE m = "Ivf"
  <2>1. PICK p \in Payloads :
          WrittenAs(u, Digits(p, LengthBase, LengthSize) \o Filled(FrameHeader - LengthSize, 0), p, FALSE)
      BY <1>3, FrameIs
  <2>2. p \in Nat
      BY <1>1
  <2>3. PICK a \in Seq(Nat), b \in Seq(Nat) :
          /\ a = Digits(p, LengthBase, LengthSize) /\ Len(a) = LengthSize
          /\ b = Filled(FrameHeader - LengthSize, 0) /\ Len(b) = FrameHeader - LengthSize
    <3>1. /\ Digits(p, LengthBase, LengthSize) \in Seq(Nat)
          /\ Len(Digits(p, LengthBase, LengthSize)) = LengthSize
        BY <1>1, <2>2, DigitsSeq
    <3>2. /\ Filled(FrameHeader - LengthSize, 0) \in Seq(Nat)
          /\ Len(Filled(FrameHeader - LengthSize, 0)) = FrameHeader - LengthSize
        BY <1>1, FilledIs
    <3> QED
        BY <3>1, <3>2, Zenon
  <2>4. PICK h \in Seq(Nat) : h = a \o b /\ Len(h) = Len(a) + Len(b)
      BY JoinOf
  <2>5. WrittenAs(u, h, p, FALSE) /\ Len(h) >= FrameHeader
    <3>1. WrittenAs(u, h, p, FALSE)
        BY <2>1, <2>3, <2>4, Zenon
    <3>2. Len(h) >= FrameHeader
        BY <1>1, <2>3, <2>4
    <3> QED
        BY <3>1, <3>2, Zenon
  <2>6. u.bytes \in Seq(Nat) /\ Len(u.bytes) \in Nat /\ Len(u.bytes) >= FrameHeader /\ u.open = FALSE
      BY <1>1, <2>2, <2>5, LengthOf
  <2>7. Skip(m) = FrameHeader
      BY <1>3 DEF Skip
  <2>8. Len(u.bytes) >= 1
      BY <1>1, <2>6
  <2> QED
      BY <2>6, <2>7, <2>8, Zenon
<1>4. CASE m = "Obu"
  <2>1. Skip(m) = 0 /\ 1 \in Nat
      BY <1>4 DEF Skip
  <2>2. PICK p \in Payloads, x \in BOOLEAN :
           \/ WrittenAs(u, ObuHeader(x, FALSE), p, TRUE)
           \/ \E l \in 1 .. LebBytes :
                Fits(p, LebBase, l) /\ WrittenAs(u, ObuHeader(x, TRUE) \o Leb(p, l), p, FALSE)
      BY <1>4, ObuIs
  <2>3. p \in Nat
      BY <1>1
  <2>4. \A y \in BOOLEAN : ObuHeader(x, y) \in Seq(Nat) /\ Len(ObuHeader(x, y)) >= 1
    <3> TAKE y \in BOOLEAN
    <3>1. ObuHeader(x, y) \in Seq(Nat) /\ Len(ObuHeader(x, y)) = IF x THEN 2 ELSE 1
        BY HeaderLength
    <3> QED
        BY <3>1
  <2>5. Len(u.bytes) \in Nat /\ Len(u.bytes) >= 1 => Len(u.bytes) >= Skip(m)
      BY <2>1
  <2>6. CASE WrittenAs(u, ObuHeader(x, FALSE), p, TRUE)
    <3>1. u.bytes \in Seq(Nat) /\ Len(u.bytes) \in Nat /\ Len(u.bytes) >= 1 /\ u.open = TRUE
        BY <2>1, <2>3, <2>4, <2>6, LengthOf
    <3> QED
        BY <1>4, <2>5, <3>1, Zenon
  <2>7. ASSUME NEW l \in 1 .. LebBytes, WrittenAs(u, ObuHeader(x, TRUE) \o Leb(p, l), p, FALSE)
        PROVE  u.bytes \in Seq(Nat) /\ Len(u.bytes) \in Nat /\ Len(u.bytes) >= 1 /\ u.open = FALSE
    <3>1. PICK a \in Seq(Nat) : a = ObuHeader(x, TRUE) /\ Len(a) >= 1
        BY <2>4
    <3>2. PICK b \in Seq(Nat) : b = Leb(p, l)
        BY <2>3, LebIs
    <3>3. PICK h \in Seq(Nat) : h = a \o b /\ Len(h) = Len(a) + Len(b)
        BY JoinOf
    <3>4. Len(a) \in Nat /\ Len(b) \in Nat
        OBVIOUS
    <3>5. Len(h) >= 1
        BY <1>0, <3>1, <3>3, <3>4, Zenon
    <3>6. WrittenAs(u, h, p, FALSE)
        BY <2>7, <3>1, <3>2, <3>3, Zenon
    <3> QED
        BY <2>1, <2>3, <3>5, <3>6, LengthOf
  <2>8. CASE \E l \in 1 .. LebBytes : WrittenAs(u, ObuHeader(x, TRUE) \o Leb(p, l), p, FALSE)
    <3>1. u.bytes \in Seq(Nat) /\ Len(u.bytes) \in Nat /\ Len(u.bytes) >= 1 /\ u.open = FALSE
        BY <2>7, <2>8
    <3> QED
        BY <2>5, <3>1, Zenon
  <2> QED
      BY <2>2, <2>6, <2>8, Zenon
<1> QED
    BY <1>2, <1>3, <1>4 DEF SizedModes

(* The units of a stream follow one another without a gap.                 *)
Placed(m, s) ==
  /\ Len(s) \in Nat /\ FileStart(m) \in Nat /\ Skip(m) \in Nat
  /\ Written(m, s) \in Seq(Nat)
  /\ EndOf(m, s, 0) = FileStart(m)
  /\ EndOf(m, s, Len(s)) = Len(Written(m, s))
  /\ \A k \in 0 .. Len(s) : EndOf(m, s, k) \in Nat
  /\ \A k \in 1 .. Len(s) :
       /\ s[k] \in WrittenUnits(m)
       /\ k < Len(s) => ~ s[k].open
       /\ EndOf(m, s, k) = EndOf(m, s, k - 1) + Len(s[k].bytes)
       /\ \A j \in 1 .. Len(s[k].bytes) :
            Written(m, s)[EndOf(m, s, k - 1) + j] = s[k].bytes[j]

LEMMA UnitPlaces ==
  ASSUME NEW m \in SizedModes, NEW s \in Streams(m)
  PROVE  Placed(m, s)
<1>1. PICK n \in 0 .. MaxUnits : s \in [1 .. n -> WrittenUnits(m)]
    BY DEF Streams
<1>2. n \in Nat /\ Len(s) = n
    BY <1>1, Widths
<1>3. ASSUME NEW k \in 1 .. n
      PROVE  s[k] \in WrittenUnits(m) /\ s[k].bytes \in Seq(Nat) /\ Len(s[k].bytes) \in Nat
  <2>1. s[k] \in WrittenUnits(m)
      BY <1>1
  <2> QED
      BY <2>1, UnitLengths
<1>3a. FileStart(m) \in Nat /\ Skip(m) \in Nat
    BY Widths DEF FileStart, Skip, SizedModes
<1> DEFINE q == [k \in 1 .. n |-> s[k].bytes]
           d(k) == [j \in 1 .. k |-> Len(s[j].bytes)]
<1>4. q \in [1 .. n -> Seq(Nat)] /\ \A k \in 1 .. n : q[k] = s[k].bytes
    BY <1>3
<1>5. \A k \in 0 .. n : Len(d(k)) = k /\ k \in Nat /\ \A j \in 1 .. k : d(k)[j] = Len(s[j].bytes) /\ d(k)[j] \in Nat
    BY <1>2, <1>3
<1> HIDE DEF q, d
<1>6. PICK T : Grows(T, d(n), n, 1)
    BY <1>2, <1>5, NumberIs
<1>7. T \in [0 .. n -> Nat] /\ T[0] = 0 /\ \A k \in 1 .. n : T[k] = T[k - 1] + Len(s[k].bytes)
  <2>1. T \in [0 .. n -> Nat] /\ T[0] = 0 /\ \A k \in 1 .. n : T[k] = T[k - 1] * 1 + d(n)[k]
      BY <1>6, Zenon DEF Grows
  <2>2. ASSUME NEW k \in 1 .. n PROVE T[k] = T[k - 1] + Len(s[k].bytes)
    <3>1. T[k - 1] \in Nat /\ n \in 0 .. n
        BY <2>1
    <3>2. T[k] = T[k - 1] * 1 + d(n)[k] /\ d(n)[k] = Len(s[k].bytes)
        BY <1>5, <2>1, <3>1
    <3> QED
        BY <3>1, <3>2
  <2> QED
      BY <2>1, <2>2
<1>8. ASSUME NEW k \in 0 .. n PROVE EndOf(m, s, k) = FileStart(m) + T[k]
  <2>1. Total(d(k)) = Number(d(k), k, 1)
      BY <1>5 DEF Total
  <2>2. ASSUME NEW j \in 1 .. k PROVE T[j] = T[j - 1] * 1 + d(k)[j]
    <3>1. j \in 1 .. n /\ T[j - 1] \in Nat
        BY <1>7
    <3>2. T[j] = T[j - 1] + Len(s[j].bytes)
        BY <1>7, <3>1
    <3>3. d(k)[j] = Len(s[j].bytes)
        BY <1>5
    <3> QED
        BY <3>1, <3>2, <3>3
  <2>3. Number(d(k), k, 1) = T[k]
    <3>1. k \in Nat /\ 1 \in Nat /\ \A j \in 1 .. k : d(k)[j] \in Nat
        BY <1>5
    <3>2. PICK e : e = d(k)
        OBVIOUS
    <3>3. \A j \in 1 .. k : T[j] = T[j - 1] * 1 + e[j] /\ e[j] \in Nat
        BY <2>2, <3>1, <3>2, Zenon
    <3>4. T[0] = 0
        BY <1>7
    <3>5. Number(e, k, 1) = T[k]
        BY <3>1, <3>3, <3>4, NumberOf
    <3> QED
        BY <3>2, <3>5
  <2>4. EndOf(m, s, k) = FileStart(m) + Total(d(k))
      BY Zenon DEF EndOf, d
  <2> QED
      BY <2>1, <2>3, <2>4
<1>9. /\ Len(FlattenSeq(q)) = T[n] /\ FlattenSeq(q) \in Seq(Nat)
      /\ \A k \in 1 .. n : \A j \in 1 .. Len(q[k]) : FlattenSeq(q)[T[k - 1] + j] = q[k][j]
  <2>1. \A k \in 1 .. n : T[k] = T[k - 1] + Len(q[k])
      BY <1>4, <1>7
  <2> QED
      BY <1>2, <1>4, <1>7, <2>1, FlattenPlaces, FlattenType
<1>10. PICK a \in Seq(Nat), b \in Seq(Nat) :
         /\ a = Filled(FileStart(m), 0) /\ b = FlattenSeq(q)
         /\ Len(a) = FileStart(m) /\ Len(b) = T[n] /\ Written(m, s) = a \o b
  <2>1. Written(m, s) = Filled(FileStart(m), 0) \o FlattenSeq(q)
      BY <1>2 DEF Written, q
  <2> QED
      BY <1>3a, <1>9, <2>1, FilledIs
<1>11. 0 \in 0 .. n /\ n \in 0 .. n /\ \A k \in 1 .. n : k \in 0 .. n /\ k - 1 \in 0 .. n
    BY <1>2
<1>12. EndOf(m, s, 0) = FileStart(m) /\ EndOf(m, s, n) = Len(Written(m, s))
       /\ Written(m, s) \in Seq(Nat)
  <2>1. Len(a \o b) = FileStart(m) + T[n] /\ a \o b \in Seq(Nat)
      BY <1>10
  <2> QED
      BY <1>3a, <1>7, <1>8, <1>10, <1>11, <2>1
<1>13. \A k \in 0 .. n : EndOf(m, s, k) \in Nat
    BY <1>3a, <1>7, <1>8
<1>14. ASSUME NEW k \in 1 .. n
       PROVE  /\ EndOf(m, s, k) = EndOf(m, s, k - 1) + Len(s[k].bytes)
              /\ \A j \in 1 .. Len(s[k].bytes) : Written(m, s)[EndOf(m, s, k - 1) + j] = s[k].bytes[j]
  <2>1. /\ EndOf(m, s, k) = FileStart(m) + T[k] /\ EndOf(m, s, k - 1) = FileStart(m) + T[k - 1]
        /\ T[k - 1] \in Nat /\ T[k] \in Nat /\ T[k] = T[k - 1] + Len(s[k].bytes)
      BY <1>7, <1>8, <1>11
  <2>2. EndOf(m, s, k) = EndOf(m, s, k - 1) + Len(s[k].bytes)
    <3>1. PICK f \in Nat, t \in Nat, l \in Nat : f = FileStart(m) /\ t = T[k - 1] /\ l = Len(s[k].bytes)
        BY <1>3, <1>3a, <2>1
    <3>2. EndOf(m, s, k) = f + (t + l) /\ EndOf(m, s, k - 1) = f + t
        BY <2>1, <3>1, Zenon
    <3>3. f + (t + l) = (f + t) + l
        OBVIOUS
    <3> QED
        BY <3>1, <3>2, <3>3, Zenon
  <2>3. ASSUME NEW j \in 1 .. Len(s[k].bytes)
        PROVE  Written(m, s)[EndOf(m, s, k - 1) + j] = s[k].bytes[j]
    <3>1. b[T[k - 1] + j] = s[k].bytes[j]
        BY <1>4, <1>9, <1>10
    <3>2. T[k] <= T[n]
      <4> DEFINE S == {x \in 0 .. n : x >= k => T[k] <= T[x]}
      <4>1. 0 \in S
          BY <1>2
      <4>2. ASSUME NEW x \in 1 .. n, x - 1 \in S PROVE x \in S
        <5>1. T[x] = T[x - 1] + Len(s[x].bytes) /\ Len(s[x].bytes) \in Nat
            BY <1>3, <1>7
        <5>2. PICK v \in Nat, w \in Nat, t \in Nat : v = T[x] /\ w = T[x - 1] /\ t = T[k]
            BY <1>7, <1>11
        <5>3. v = w + Len(s[x].bytes)
            BY <5>1, <5>2
        <5>4. w <= v
            BY <5>1, <5>3
        <5>5. x >= k => x = k \/ x - 1 >= k
            OBVIOUS
        <5>6. x - 1 >= k => t <= w
            BY <4>2, <5>2
        <5>7. x >= k => T[k] <= T[x]
            BY <5>2, <5>4, <5>5, <5>6
        <5> QED
            BY <5>7
      <4> HIDE DEF S
      <4>3. \A x \in 0 .. n : x \in S
          BY <1>2, <4>1, <4>2, Everywhere
      <4>4. n \in S
          BY <4>3
      <4> QED
          BY <1>2, <4>4 DEF S
    <3>3. PICK y \in 1 .. Len(b) : y = T[k - 1] + j
      <4>1. PICK l \in Nat : l = Len(s[k].bytes)
          BY <1>3
      <4>2. PICK t \in Nat, v \in Nat : t = T[k - 1] /\ v = T[n]
          BY <1>7
      <4>3. t + j \in 1 .. v
        <5>1. PICK w \in Nat : w = T[k]
            BY <2>1
        <5>2. w = t + l /\ w <= v /\ j \in 1 .. l
            BY <2>1, <3>2, <4>1, <4>2, <5>1
        <5> QED
            BY <5>2
      <4> QED
          BY <1>10, <4>2, <4>3
    <3>4. (a \o b)[Len(a) + y] = b[y]
        OBVIOUS
    <3>5. EndOf(m, s, k - 1) + j = Len(a) + y
      <4>1. PICK t \in Nat : t = T[k - 1]
          BY <2>1
      <4>2. j \in Nat
          BY <1>3
      <4> QED
          BY <1>3a, <1>10, <2>1, <3>3, <4>1, <4>2
    <3> QED
        BY <1>10, <3>1, <3>3, <3>4, <3>5
  <2> QED
      BY <2>2, <2>3
<1>15. \A k \in 1 .. Len(s) : k < Len(s) => ~ s[k].open
  <2>1. \A k \in 1 .. (Len(s) - 1) : ~ s[k].open
      BY DEF Streams
  <2> QED
      BY <1>2, <2>1
<1> QED
    BY <1>2, <1>3, <1>3a, <1>12, <1>13, <1>14, <1>15, Zenon DEF Placed

(* Size is the length of the buffer.                                       *)
LEMMA SizeIs ==
  ASSUME NEW n \in Nat, DOMAIN data = 0 .. (n - 1)
  PROVE  Size = n
<1>1. 0 \in Int /\ n - 1 \in Int
    OBVIOUS
<1>2. Cardinality(0 .. (n - 1)) = IF 0 > n - 1 THEN 0 ELSE (n - 1) - 0 + 1
    BY <1>1, FS_Interval
<1>3. Cardinality(0 .. (n - 1)) = n
    BY <1>2
<1> QED
    BY <1>3, Zenon DEF Size

(* Every buffer is bytes, and Size is its length.                          *)
LEMMA InitData == Init => DataTyped
<1>1. ASSUME NEW n \in Nat, NEW V, V \subseteq Nat, data \in [0 .. (n - 1) -> V]
      PROVE  Size = n /\ data \in [0 .. (Size - 1) -> V] /\ data \in [0 .. (Size - 1) -> Nat]
  <2>1. DOMAIN data = 0 .. (n - 1)
      BY <1>1
  <2> QED
      BY <1>1, <2>1, SizeIs
<1>2. ASSUME InitSearched PROVE DataTyped
  <2>1. data \in Buffers
      BY <1>2 DEF InitSearched
  <2>2. PICK n \in 0 .. MaxSize : data \in [0 .. (n - 1) -> Bytes]
      BY <2>1 DEF Buffers
  <2>3. n \in Nat /\ Bytes \subseteq Nat
      BY Widths
  <2>4. Size = n /\ data \in [0 .. (Size - 1) -> Bytes] /\ data \in [0 .. (Size - 1) -> Nat]
      BY <1>1, <2>2, <2>3
  <2>5. data \in [0 .. (Size - 1) -> 0 .. 255]
      BY <2>4, Widths
  <2> QED
      BY <2>3, <2>4, <2>5 DEF DataTyped
<1>3. ASSUME InitSized PROVE DataTyped
  <2>1. PICK m \in {"LengthPrefixed", "Obu", "Ivf"} : \E s \in Streams(m) :
          \E n \in 0 .. Len(Written(m, s)) :
            mode = m /\ data = ByteFunction(SubSeq(Written(m, s), 1, n))
      BY <1>3, Zenon DEF InitSized
  <2>2. PICK s \in Streams(m) : \E n \in 0 .. Len(Written(m, s)) :
            mode = m /\ data = ByteFunction(SubSeq(Written(m, s), 1, n))
      BY <2>1
  <2>3. PICK n \in 0 .. Len(Written(m, s)) :
            mode = m /\ data = ByteFunction(SubSeq(Written(m, s), 1, n))
      BY <2>2
  <2>4. Written(m, s) \in Seq(Nat)
      BY <2>2, UnitPlaces DEF Placed, SizedModes
  <2>5. PICK w \in Seq(Nat) : w = Written(m, s)
      BY <2>4
  <2>6. n \in 0 .. Len(w) /\ data = ByteFunction(SubSeq(w, 1, n))
      BY <2>3, <2>5
  <2>7. SubSeq(w, 1, n) \in Seq(Nat) /\ Len(SubSeq(w, 1, n)) = n
      BY <2>6
  <2>8. data \in [0 .. (n - 1) -> Nat] /\ n \in Nat
      BY <2>6, <2>7 DEF ByteFunction
  <2>9. Size = n /\ data \in [0 .. (Size - 1) -> Nat]
      BY <1>1, <2>8
  <2>10. mode # "AnnexB"
      BY <2>3
  <2> QED
      BY <2>8, <2>9, <2>10 DEF DataTyped
<1> QED
    BY <1>2, <1>3 DEF Init

-----------------------------------------------------------------------------
(* The search by lanes finds what a search by bytes would find.            *)

LEMMA LaneBits ==
  ASSUME NEW j \in Lanes, NEW t \in 0 .. 7
  PROVE  8 * j + t \in Bits /\ (8 * j + t) \div 8 = j /\ (8 * j + t) % 8 = t
BY Widths DEF Lanes, Bits

(* One smearing step, bit by bit within a byte.                            *)
LEMMA SmearIs ==
  ASSUME NEW w, NEW k \in 1 .. 7, NEW j \in Lanes, NEW t \in 0 .. 7
  PROVE  Smear(w, k)[8 * j + t] <=> w[8 * j + t] \/ (t >= k /\ w[8 * j + (t - k)])
<1>1. 8 * j + t \in Bits /\ (8 * j + t) % 8 = t /\ (8 * j + t) - k = 8 * j + (t - k)
  <2>1. (8 * j + t) - k = 8 * j + (t - k)
      BY Widths DEF Lanes
  <2> QED
      BY <2>1, LaneBits
<1>2. Smear(w, k)[8 * j + t]
        <=> (w[8 * j + t] \/ ((8 * j + t) % 8 >= k /\ w[(8 * j + t) - k]))
    BY <1>1, Zenon DEF Smear
<1> QED
    BY <1>1, <1>2, Zenon

(* Bit 7 of a lane collects all bits of its byte, and of no other.         *)
LEMMA ZeroLanesAre ==
  ASSUME NEW w, NEW j \in Lanes
  PROVE  j \in ZeroLanes(w) <=> \A t \in 0 .. 7 : ~ w[8 * j + t]
<1> DEFINE a == Smear(w, 1)
           b == Smear(a, 2)
           c == Smear(b, 4)
<1>1. j \in ZeroLanes(w) <=> ~ c[8 * j + 7]
    BY Zenon DEF ZeroLanes
<1>2. ASSUME NEW x, NEW k \in {1, 2, 4}, NEW t \in 0 .. 7, t >= k
      PROVE  Smear(x, k)[8 * j + t] <=> x[8 * j + t] \/ x[8 * j + (t - k)]
  <2>1. k \in 1 .. 7
      OBVIOUS
  <2> QED
      BY <1>2, <2>1, SmearIs, Zenon
<1>3. /\ c[8 * j + 7] <=> b[8 * j + 7] \/ b[8 * j + 3]
      /\ b[8 * j + 7] <=> a[8 * j + 7] \/ a[8 * j + 5]
      /\ b[8 * j + 3] <=> a[8 * j + 3] \/ a[8 * j + 1]
      /\ a[8 * j + 7] <=> w[8 * j + 7] \/ w[8 * j + 6]
      /\ a[8 * j + 5] <=> w[8 * j + 5] \/ w[8 * j + 4]
      /\ a[8 * j + 3] <=> w[8 * j + 3] \/ w[8 * j + 2]
      /\ a[8 * j + 1] <=> w[8 * j + 1] \/ w[8 * j + 0]
  <2>1. /\ 7 - 4 = 3 /\ 7 - 2 = 5 /\ 3 - 2 = 1 /\ 7 - 1 = 6 /\ 5 - 1 = 4 /\ 3 - 1 = 2
        /\ 1 - 1 = 0 /\ 7 >= 4 /\ 7 >= 2 /\ 3 >= 2 /\ 7 >= 1 /\ 5 >= 1 /\ 3 >= 1 /\ 1 >= 1
        /\ {1, 3, 5, 7} \subseteq 0 .. 7
      OBVIOUS
  <2> HIDE DEF a, b, c
  <2>2. c = Smear(b, 4) /\ b = Smear(a, 2) /\ a = Smear(w, 1)
      BY DEF a, b, c
  <2>3. c[8 * j + 7] <=> b[8 * j + 7] \/ b[8 * j + (7 - 4)]
      BY <1>2, <2>1, <2>2, Zenon
  <2>4. b[8 * j + 7] <=> a[8 * j + 7] \/ a[8 * j + (7 - 2)]
      BY <1>2, <2>1, <2>2, Zenon
  <2>5. b[8 * j + 3] <=> a[8 * j + 3] \/ a[8 * j + (3 - 2)]
      BY <1>2, <2>1, <2>2, Zenon
  <2>6. a[8 * j + 7] <=> w[8 * j + 7] \/ w[8 * j + (7 - 1)]
      BY <1>2, <2>1, <2>2, Zenon
  <2>7. a[8 * j + 5] <=> w[8 * j + 5] \/ w[8 * j + (5 - 1)]
      BY <1>2, <2>1, <2>2, Zenon
  <2>8. a[8 * j + 3] <=> w[8 * j + 3] \/ w[8 * j + (3 - 1)]
      BY <1>2, <2>1, <2>2, Zenon
  <2>9. a[8 * j + 1] <=> w[8 * j + 1] \/ w[8 * j + (1 - 1)]
      BY <1>2, <2>1, <2>2, Zenon
  <2> QED
      BY <2>1, <2>3, <2>4, <2>5, <2>6, <2>7, <2>8, <2>9, Zenon
<1> HIDE DEF a, b, c
<1>4. j \in ZeroLanes(w) <=>
        ~ (w[8 * j + 0] \/ w[8 * j + 1] \/ w[8 * j + 2] \/ w[8 * j + 3]
           \/ w[8 * j + 4] \/ w[8 * j + 5] \/ w[8 * j + 6] \/ w[8 * j + 7])
    BY <1>1, <1>3, Zenon
<1>5. 0 .. 7 = {0, 1, 2, 3, 4, 5, 6, 7}
    OBVIOUS
<1> QED
    BY <1>4, <1>5, Zenon

(* A byte is zero, or one, if its bits say so.                             *)
LEMMA ByteBits ==
  ASSUME NEW x \in 0 .. 255
  PROVE  /\ x = 0 <=> \A t \in 0 .. 7 : ~ ((x \div 2^t) % 2 = 1)
         /\ x = 1 <=> \A t \in 0 .. 7 : ~ (IF t = 0 THEN ~ ((x \div 2^t) % 2 = 1)
                                                     ELSE (x \div 2^t) % 2 = 1)
<1>1. /\ 2^0 = 1 /\ 2^1 = 2 /\ 2^2 = 4 /\ 2^3 = 8 /\ 2^4 = 16 /\ 2^5 = 32
      /\ 2^6 = 64 /\ 2^7 = 128
    OBVIOUS
<1>2. 0 .. 7 = {0, 1, 2, 3, 4, 5, 6, 7}
    OBVIOUS
<1>3. x = 0 <=> /\ (x \div 1) % 2 # 1 /\ (x \div 2) % 2 # 1 /\ (x \div 4) % 2 # 1
                /\ (x \div 8) % 2 # 1 /\ (x \div 16) % 2 # 1 /\ (x \div 32) % 2 # 1
                /\ (x \div 64) % 2 # 1 /\ (x \div 128) % 2 # 1
    OBVIOUS
<1>4. x = 1 <=> /\ (x \div 1) % 2 = 1 /\ (x \div 2) % 2 # 1 /\ (x \div 4) % 2 # 1
                /\ (x \div 8) % 2 # 1 /\ (x \div 16) % 2 # 1 /\ (x \div 32) % 2 # 1
                /\ (x \div 64) % 2 # 1 /\ (x \div 128) % 2 # 1
    OBVIOUS
<1>6. (\A t \in 0 .. 7 : ~ ((x \div 2^t) % 2 = 1)) <=>
        /\ (x \div 1) % 2 # 1 /\ (x \div 2) % 2 # 1 /\ (x \div 4) % 2 # 1
        /\ (x \div 8) % 2 # 1 /\ (x \div 16) % 2 # 1 /\ (x \div 32) % 2 # 1
        /\ (x \div 64) % 2 # 1 /\ (x \div 128) % 2 # 1
    BY <1>1, <1>2
<1>7. (\A t \in 0 .. 7 : ~ (IF t = 0 THEN ~ ((x \div 2^t) % 2 = 1)
                                     ELSE (x \div 2^t) % 2 = 1)) <=>
        /\ (x \div 1) % 2 = 1 /\ (x \div 2) % 2 # 1 /\ (x \div 4) % 2 # 1
        /\ (x \div 8) % 2 # 1 /\ (x \div 16) % 2 # 1 /\ (x \div 32) % 2 # 1
        /\ (x \div 64) % 2 # 1 /\ (x \div 128) % 2 # 1
    BY <1>1, <1>2
<1> QED
    BY <1>3, <1>4, <1>6, <1>7, Zenon

LEMMA WordBits ==
  ASSUME NEW p, NEW j \in Lanes, NEW t \in 0 .. 7
  PROVE  /\ Word(p)[8 * j + t] <=> (data[p + j] \div 2^t) % 2 = 1
         /\ FlipOnes(Word(p))[8 * j + t] <=>
              IF t = 0 THEN ~ ((data[p + j] \div 2^t) % 2 = 1)
                       ELSE (data[p + j] \div 2^t) % 2 = 1
<1>1. 8 * j + t \in Bits /\ (8 * j + t) \div 8 = j /\ (8 * j + t) % 8 = t
    BY LaneBits
<1>2. Word(p)[8 * j + t] <=> (data[p + j] \div 2^t) % 2 = 1
    BY <1>1, Zenon DEF Word
<1>3. FlipOnes(Word(p))[8 * j + t] =
        IF (8 * j + t) % 8 = 0 THEN ~ Word(p)[8 * j + t] ELSE Word(p)[8 * j + t]
    BY <1>1, Zenon DEF FlipOnes
<1> QED
    BY <1>1, <1>2, <1>3, Zenon

(* The matches are the start codes that lie within the word at p.          *)
THEOREM MatchesAreStartCodes ==
  ASSUME DataTyped, mode = "AnnexB", NEW p \in Nat, p + LaneBytes <= Size
  PROVE  Matches(p) = {j \in Lanes : j >= 2 /\ ShortCode(data, p + j - 2)}
<1>1. ASSUME NEW j \in Lanes
      PROVE  /\ j \in ZeroLanes(Word(p)) <=> data[p + j] = 0
             /\ j \in ZeroLanes(FlipOnes(Word(p))) <=> data[p + j] = 1
  <2>1. data[p + j] \in 0 .. 255
    <3>1. p + j \in 0 .. (Size - 1)
        BY Widths DEF DataTyped, Lanes
    <3> QED
        BY <3>1 DEF DataTyped
  <2>2. j \in ZeroLanes(Word(p)) <=> \A t \in 0 .. 7 : ~ ((data[p + j] \div 2^t) % 2 = 1)
      BY ZeroLanesAre, WordBits, Zenon
  <2>3. j \in ZeroLanes(FlipOnes(Word(p))) <=>
          \A t \in 0 .. 7 : ~ (IF t = 0 THEN ~ ((data[p + j] \div 2^t) % 2 = 1)
                                       ELSE (data[p + j] \div 2^t) % 2 = 1)
      BY ZeroLanesAre, WordBits, Zenon
  <2> QED
      BY <2>1, <2>2, <2>3, ByteBits, Zenon
<1>2. \A w : ZeroLanes(w) \subseteq Lanes
    BY Zenon DEF ZeroLanes
<1>3. Matches(p) \subseteq Lanes
    BY <1>2, Zenon DEF Matches
<1>4. ASSUME NEW j \in Lanes
      PROVE  j \in Matches(p) <=> j >= 2 /\ ShortCode(data, p + j - 2)
  <2>1. j \in Matches(p) <=> /\ j \in ZeroLanes(FlipOnes(Word(p))) /\ j >= 2
                             /\ j - 1 \in ZeroLanes(Word(p)) /\ j - 2 \in ZeroLanes(Word(p))
      BY Zenon DEF Matches
  <2>2. CASE ~ (j >= 2)
      BY <2>1, <2>2, Zenon
  <2>3. CASE j >= 2
    <3>1. j - 1 \in Lanes /\ j - 2 \in Lanes
        BY <2>3, Widths DEF Lanes
    <3>2. j \in Matches(p) <=> data[p + j] = 1 /\ data[p + (j - 1)] = 0 /\ data[p + (j - 2)] = 0
        BY <1>1, <2>1, <2>3, <3>1, Zenon
    <3>3. /\ p + (j - 1) = p + j - 2 + 1 /\ p + (j - 2) = p + j - 2
          /\ p + j = p + j - 2 + 2
        BY Widths DEF Lanes
    <3>4. {p + j - 2, p + j - 2 + 1, p + j - 2 + 2} \subseteq DOMAIN data
      <4>1. DOMAIN data = 0 .. (Size - 1) /\ Size \in Nat
          BY DEF DataTyped
      <4> QED
          BY <2>3, <4>1, Widths DEF Lanes
    <3>5. ShortCode(data, p + j - 2) <=>
            data[p + j] = 1 /\ data[p + (j - 1)] = 0 /\ data[p + (j - 2)] = 0
        BY <3>3, <3>4, Zenon DEF ShortCode
    <3> QED
        BY <2>3, <3>2, <3>5, Zenon
  <2> QED
      BY <2>2, <2>3
<1> QED
    BY <1>3, <1>4

-----------------------------------------------------------------------------
(* One turn of the search for start codes.                                 *)

LEMMA ShortCodeIn ==
  ASSUME DataTyped, NEW p, ShortCode(data, p)
  PROVE  p \in Nat /\ p + 3 <= Size
<1>1. DOMAIN data = 0 .. (Size - 1) /\ Size \in Nat
    BY DEF DataTyped
<1>2. p \in DOMAIN data /\ p + 2 \in DOMAIN data
    BY DEF ShortCode
<1> QED
    BY <1>1, <1>2

LEMMA StartCodeSizeIs ==
  ASSUME DataTyped, NEW p \in Nat
  PROVE  /\ StartCodeSize(p) \in {0, 3, 4}
         /\ p <= Size => p + StartCodeSize(p) <= Size
         /\ p + 3 <= Size /\ StartCodeSize(p) = 0 => ~ ShortCode(data, p)
<1>1. CASE p + 4 <= Size /\ data[p] = 0 /\ ShortCode(data, p + 1)
  <2>1. StartCodeSize(p) = 4
    <3>1. ~ ShortCode(data, p)
      <4>1. p + 1 + 1 = p + 2
          OBVIOUS
      <4> QED
          BY <1>1, <4>1 DEF ShortCode
    <3> QED
        BY <1>1, <3>1, Zenon DEF StartCodeSize
  <2> QED
      BY <1>1, <2>1
<1>2. CASE ~ (p + 4 <= Size /\ data[p] = 0 /\ ShortCode(data, p + 1))
           /\ p + 3 <= Size /\ ShortCode(data, p)
  <2>1. StartCodeSize(p) = 3
      BY <1>2, Zenon DEF StartCodeSize
  <2> QED
      BY <1>2, <2>1
<1>3. CASE ~ (p + 4 <= Size /\ data[p] = 0 /\ ShortCode(data, p + 1))
           /\ ~ (p + 3 <= Size /\ ShortCode(data, p))
  <2>1. StartCodeSize(p) = 0
      BY <1>3, Zenon DEF StartCodeSize
  <2> QED
      BY <1>3, <2>1 DEF DataTyped
<1> QED
    BY <1>1, <1>2, <1>3, Zenon

(* A step that changes neither the buffer nor the mode.                    *)
Kept == data' = data /\ units' = units /\ mode' = mode /\ cut' = cut

LEMMA KeptData ==
  ASSUME DataTyped, Kept
  PROVE  DataTyped' /\ Size' = Size /\ \A p : ShortCode(data, p)' = ShortCode(data, p)
BY DEF DataTyped, Kept, Size, ShortCode

LEMMA Bounds ==
  ASSUME DataTyped
  PROVE  /\ Size \in Nat /\ Max({Size, FileHeader}) \in Nat
         /\ Max({Size, FileHeader}) >= Size /\ Max({Size, FileHeader}) >= FileHeader
BY MaxIs, Widths DEF DataTyped

(* What the search needs to know of a state that it leaves.                *)
LEMMA SearchKeeps ==
  ASSUME IInv, mode = "AnnexB", Kept,
         pc' \in {"start", "end", "trim", "ready", "finished"},
         i' \in 0 .. Size, begin' \in Nat, end' \in Nat, current' \in 0 .. Size,
         pc' \in {"end", "trim"} => begin' <= Size,
         pc' \in {"trim", "ready"} => end' <= Size,
         pc' = "ready" => begin' <= end',
         handed' \in Seq(Spans(data)),
         pc' = "start" => \A p \in current' .. (i' - 1) : ~ ShortCode(data, p),
         pc' = "end" => \A p \in begin' .. (i' - 1) : ~ ShortCode(data, p)
  PROVE  IInv'
<1>1. DataTyped' /\ Size' = Size /\ data' = data /\ mode' = mode /\ cut' = cut
    BY KeptData DEF IInv, Kept
<1>2. current' \in 0 .. Max({Size, FileHeader})
    BY Bounds DEF IInv
<1>3. TypeOK'
  <2>1. cut \in BOOLEAN
      BY Zenon DEF IInv, TypeOK
  <2>2. cut' \in BOOLEAN /\ current' \in 0 .. Max({Size', FileHeader})
        /\ handed' \in Seq(Spans(data')) /\ i' \in 0 .. Size'
      BY <1>1, <1>2, <2>1, Zenon
  <2>3. pc' \in {"start", "end", "trim", "ready", "finished", "failed"}
      OBVIOUS
  <2>4. pc' = "ready" => begin' <= end' /\ end' <= Size'
      BY <1>1
  <2>5. mode' \in {"AnnexB", "LengthPrefixed", "Obu", "ObuStartCodes", "Ivf"}
        /\ (pc' \in {"end", "trim"} => mode' = "AnnexB")
      BY <1>1
  <2> QED
      BY <2>2, <2>3, <2>4, <2>5, Zenon DEF TypeOK
<1>4. SearchPlace'
    BY <1>1 DEF SearchPlace
<1>5. NoStartCodeMissed'
    BY <1>1, KeptData DEF NoStartCodeMissed, IInv
<1>6. NothingMore'
    BY <1>1 DEF NothingMore, Ended
<1> QED
    BY <1>1, <1>3, <1>4, <1>5, <1>6, Zenon DEF IInv

(* The state of the search.                                                *)
LEMMA SearchState ==
  ASSUME IInv, mode = "AnnexB"
  PROVE  /\ DataTyped /\ Size \in Nat /\ i \in 0 .. Size /\ current \in 0 .. Size
         /\ begin \in Nat /\ end \in Nat /\ handed \in Seq(Spans(data))
         /\ pc \in {"end", "trim"} => begin <= Size
         /\ pc = "trim" => end <= Size
         /\ pc = "start" => \A p \in current .. (i - 1) : ~ ShortCode(data, p)
         /\ pc = "end" => \A p \in begin .. (i - 1) : ~ ShortCode(data, p)
<1>1. DataTyped /\ TypeOK /\ SearchPlace /\ NoStartCodeMissed
    BY Zenon DEF IInv
<1>2. Size \in Nat /\ Max({Size, FileHeader}) \in Nat
    BY <1>1, Bounds
<1>3. current \in 0 .. Size
    BY <1>1, <1>2 DEF TypeOK, SearchPlace
<1> QED
    BY <1>1, <1>2, <1>3, Zenon DEF TypeOK, SearchPlace, NoStartCodeMissed

LEMMA InvLocated ==
  ASSUME IInv, mode = "AnnexB", Searching, NEW p \in 0 .. Size, Located(p),
         Kept, handed' = handed
  PROVE  IInv'
<1>1. /\ DataTyped /\ Size \in Nat /\ i \in 0 .. Size /\ current \in 0 .. Size
      /\ begin \in Nat /\ end \in Nat /\ handed \in Seq(Spans(data))
      /\ pc \in {"end", "trim"} => begin <= Size
    BY SearchState
<1>2. CASE pc = "start" /\ p = Size /\ pc' = "finished" /\ begin' = Size /\ end' = Size
           /\ UNCHANGED <<i, current>>
    BY <1>1, <1>2, SearchKeeps
<1>3. CASE pc = "start" /\ p # Size /\ begin' = p + StartCodeSize(p)
           /\ i' = p + StartCodeSize(p) /\ pc' = "end" /\ UNCHANGED <<current, end>>
  <2>1. StartCodeSize(p) \in Nat /\ p + StartCodeSize(p) \in 0 .. Size
      BY <1>1, StartCodeSizeIs
  <2>2. \A q \in begin' .. (i' - 1) : FALSE
      BY <1>3, <2>1
  <2>3. begin' \in 0 .. Size /\ i' \in 0 .. Size /\ begin' \in Nat /\ begin' <= Size
      BY <1>1, <1>3, <2>1
  <2> QED
      BY <1>1, <1>3, <2>2, <2>3, SearchKeeps
<1>4. CASE pc = "end" /\ end' = p /\ current' = p /\ pc' = "trim" /\ UNCHANGED <<i, begin>>
    BY <1>1, <1>4, SearchKeeps
<1> QED
    BY <1>2, <1>3, <1>4, Zenon DEF Located

LEMMA InvScanLanes ==
  ASSUME IInv, mode = "AnnexB", ScanLanes, UNCHANGED <<mode, cut>>
  PROVE  IInv'
<1>1. /\ DataTyped /\ Size \in Nat /\ i \in 0 .. Size /\ current \in 0 .. Size
      /\ begin \in Nat /\ end \in Nat /\ handed \in Seq(Spans(data))
      /\ pc \in {"end", "trim"} => begin <= Size
      /\ pc = "start" => \A p \in current .. (i - 1) : ~ ShortCode(data, p)
      /\ pc = "end" => \A p \in begin .. (i - 1) : ~ ShortCode(data, p)
    BY SearchState
<1>2. /\ Searching /\ i + LaneBytes <= Size /\ handed' = handed /\ Kept
      /\ IF Matches(i) = {} THEN i' = i + Stride /\ UNCHANGED <<pc, current, begin, end>>
                            ELSE Located(i + Min(Matches(i)) - 2)
    BY Zenon DEF ScanLanes, Kept
<1>3. Matches(i) = {j \in Lanes : j >= 2 /\ ShortCode(data, i + j - 2)}
    BY <1>1, <1>2, MatchesAreStartCodes
<1>4. CASE Matches(i) = {}
  <2>1. Stride \in Nat /\ Stride = LaneBytes - 2
      BY Widths DEF Stride
  <2>2. i' = i + Stride /\ pc' = pc /\ current' = current /\ begin' = begin /\ end' = end
      BY <1>2, <1>4
  <2>3. ASSUME NEW p \in Nat, p \in i .. (i' - 1) PROVE ~ ShortCode(data, p)
    <3>1. p - i + 2 \in Lanes /\ p - i + 2 >= 2 /\ i + (p - i + 2) - 2 = p
        BY <1>1, <2>1, <2>2, <2>3, Widths DEF Lanes
    <3>2. ~ (p - i + 2 >= 2 /\ ShortCode(data, i + (p - i + 2) - 2))
        BY <1>3, <1>4, <3>1, Zenon
    <3> QED
        BY <3>1, <3>2
  <2>4. i' \in 0 .. Size
      BY <1>1, <1>2, <2>1, <2>2, Widths
  <2>5. \A lo \in Nat : \A p \in lo .. (i' - 1) : p \in Nat /\ (p \in lo .. (i - 1) \/ p \in i .. (i' - 1))
    <3>1. \A x, y, lo \in Nat : \A p \in lo .. (y - 1) :
            p \in Nat /\ (p \in lo .. (x - 1) \/ p \in x .. (y - 1))
        OBVIOUS
    <3>2. i \in Nat /\ i' \in Nat
        BY <1>1, <2>4
    <3> QED
        BY <3>1, <3>2, Zenon

  <2>6. pc' = "start" => \A p \in current' .. (i' - 1) : ~ ShortCode(data, p)
    <3>1. current \in Nat
        BY <1>1
    <3> QED
        BY <1>1, <2>2, <2>3, <2>5, <3>1, Zenon
  <2>7. pc' = "end" => \A p \in begin' .. (i' - 1) : ~ ShortCode(data, p)
      BY <1>1, <2>2, <2>3, <2>5, Zenon
  <2>8. pc' \in {"start", "end"}
      BY <1>2, <2>2 DEF Searching
  <2> QED
      BY <1>1, <1>2, <2>2, <2>4, <2>6, <2>7, <2>8, SearchKeeps
<1>5. CASE Matches(i) # {}
  <2>1. Min(Matches(i)) \in Matches(i)
    <3>1. Matches(i) \subseteq Nat
        BY <1>3, Widths DEF Lanes
    <3> QED
        BY <1>5, <3>1, MinIs
  <2>2. Min(Matches(i)) \in Lanes /\ Min(Matches(i)) >= 2
      BY <1>3, <2>1
  <2>3. i + Min(Matches(i)) - 2 \in 0 .. Size
      BY <1>1, <1>2, <2>2, Widths DEF Lanes
  <2> QED
      BY <1>2, <1>5, <2>3, InvLocated
<1> QED
    BY <1>4, <1>5

LEMMA InvScanBytes ==
  ASSUME IInv, mode = "AnnexB", ScanBytes \/ NotFound, UNCHANGED <<mode, cut>>
  PROVE  IInv'
<1>1. /\ DataTyped /\ Size \in Nat /\ i \in 0 .. Size /\ current \in 0 .. Size
      /\ begin \in Nat /\ end \in Nat /\ handed \in Seq(Spans(data))
      /\ pc \in {"end", "trim"} => begin <= Size
      /\ pc = "start" => \A p \in current .. (i - 1) : ~ ShortCode(data, p)
      /\ pc = "end" => \A p \in begin .. (i - 1) : ~ ShortCode(data, p)
    BY SearchState
<1>2. Searching /\ handed' = handed /\ Kept
    BY Zenon DEF ScanBytes, NotFound, Kept
<1>3. CASE NotFound
  <2>1. Located(Size) /\ Size \in 0 .. Size
      BY <1>1, <1>3 DEF NotFound
  <2> QED
      BY <1>2, <2>1, InvLocated
<1>4. CASE ScanBytes /\ StartCodeSize(i) # 0
  <2>1. Located(i)
      BY <1>4, Zenon DEF ScanBytes
  <2> QED
      BY <1>1, <1>2, <2>1, InvLocated
<1>5. CASE ScanBytes /\ StartCodeSize(i) = 0
  <2>1. i' = i + 1 /\ pc' = pc /\ current' = current /\ begin' = begin /\ end' = end
        /\ i + 3 <= Size
      BY <1>5, Zenon DEF ScanBytes
  <2>2. ~ ShortCode(data, i) /\ i' \in 0 .. Size
      BY <1>1, <1>5, <2>1, StartCodeSizeIs
  <2>3. \A lo \in Nat : \A p \in lo .. (i' - 1) : p \in lo .. (i - 1) \/ p = i
      BY <1>1, <2>1
  <2>4. pc' = "start" => \A p \in current' .. (i' - 1) : ~ ShortCode(data, p)
    <3>1. current \in Nat
        BY <1>1
    <3> QED
        BY <1>1, <2>1, <2>2, <2>3, <3>1, Zenon
  <2>5. pc' = "end" => \A p \in begin' .. (i' - 1) : ~ ShortCode(data, p)
      BY <1>1, <2>1, <2>2, <2>3, Zenon
  <2>6. pc' \in {"start", "end"}
      BY <1>2, <2>1 DEF Searching
  <2> QED
      BY <1>1, <1>2, <2>1, <2>2, <2>4, <2>5, <2>6, SearchKeeps
<1> QED
    BY <1>3, <1>4, <1>5

LEMMA InvTrimAndYield ==
  ASSUME IInv, mode = "AnnexB", Trim \/ SkipEmpty \/ Yield \/ Advance, UNCHANGED <<mode, cut>>
  PROVE  IInv'
<1>1. /\ DataTyped /\ Size \in Nat /\ i \in 0 .. Size /\ current \in 0 .. Size
      /\ begin \in Nat /\ end \in Nat /\ handed \in Seq(Spans(data))
      /\ pc \in {"end", "trim"} => begin <= Size
      /\ pc = "trim" => end <= Size
    BY SearchState
<1>2. Kept
    BY Zenon DEF Trim, SkipEmpty, Yield, Advance, Kept
<1>3. CASE Trim
  <2>1. /\ pc = "trim" /\ pc' = "trim" /\ end > begin /\ end' = end - 1
        /\ i' = i /\ current' = current /\ begin' = begin /\ handed' = handed
      BY <1>3 DEF Trim, TrailingZero
  <2>2. end' \in Nat /\ end' <= Size
      BY <1>1, <2>1
  <2> QED
      BY <1>1, <1>2, <2>1, <2>2, SearchKeeps
<1>4. CASE SkipEmpty \/ Advance
  <2>1. /\ pc' = "start" /\ i' = current
        /\ current' = current /\ begin' = begin /\ end' = end /\ handed' = handed
      BY <1>4 DEF SkipEmpty, Advance
  <2>2. \A p \in current' .. (i' - 1) : FALSE
      BY <1>1, <2>1
  <2> QED
      BY <1>1, <1>2, <2>1, <2>2, SearchKeeps
<1>5. CASE Yield
  <2>1. /\ pc = "trim" /\ pc' = "ready" /\ begin < end
        /\ i' = i /\ current' = current /\ begin' = begin /\ end' = end
        /\ handed' = Append(handed, <<begin, end>>)
      BY <1>5 DEF Yield
  <2>2. <<begin, end>> \in Spans(data)
      BY <1>1, <2>1 DEF Spans, Size
  <2>3. handed' \in Seq(Spans(data))
      BY <1>1, <2>1, <2>2
  <2> QED
      BY <1>1, <1>2, <2>1, <2>3, SearchKeeps
<1> QED
    BY <1>3, <1>4, <1>5

-----------------------------------------------------------------------------
(* One turn of the framers that read sizes.                                *)

(* The state of a framer that does not search.                             *)
LEMMA SizedState ==
  ASSUME IInv, mode # "AnnexB"
  PROVE  /\ DataTyped /\ Size \in Nat /\ current \in Nat
         /\ current \in 0 .. Max({Size, FileHeader}) /\ i \in 0 .. Size
         /\ begin \in Nat /\ end \in Nat /\ handed \in Seq(Spans(data))
         /\ pc \in {"start", "ready", "finished", "failed"}
         /\ mode \in {"LengthPrefixed", "Obu", "ObuStartCodes", "Ivf"}
         /\ \A p \in 0 .. (Size - 1) : data[p] \in Nat
<1>1. DataTyped /\ TypeOK
    BY Zenon DEF IInv
<1>2. Size \in Nat /\ \A p \in 0 .. (Size - 1) : data[p] \in Nat
    BY <1>1 DEF DataTyped
<1>3. /\ current \in 0 .. Max({Size, FileHeader}) /\ i \in 0 .. Size
      /\ begin \in Nat /\ end \in Nat /\ handed \in Seq(Spans(data))
      /\ pc \in {"start", "end", "trim", "ready", "finished", "failed"}
      /\ pc \in {"end", "trim"} => mode = "AnnexB"
      /\ mode \in {"AnnexB", "LengthPrefixed", "Obu", "ObuStartCodes", "Ivf"}
    BY <1>1, Zenon DEF TypeOK
<1>4. current \in Nat
    BY <1>1, <1>3, Bounds
<1>5. pc \in {"start", "ready", "finished", "failed"}
    BY <1>3
<1>6. mode \in {"LengthPrefixed", "Obu", "ObuStartCodes", "Ivf"}
    BY <1>3
<1> QED
    BY <1>1, <1>2, <1>3, <1>4, <1>5, <1>6

(* Sizes read from the buffer are numbers.                                 *)
LEMMA SizesAre ==
  ASSUME NEW p \in Nat, NEW n \in Nat, Size \in Nat, p + n <= Size,
         \A k \in 0 .. (Size - 1) : data[k] \in Nat
  PROVE  BigEndian(p, n) \in Nat /\ LittleEndian(p, n) \in Nat /\ LebValue(p, n) \in Nat
<1>1. \A k \in 1 .. n : p + k - 1 \in 0 .. (Size - 1) /\ p + n - k \in 0 .. (Size - 1)
    OBVIOUS
<1>2. BigEndian(p, n) \in Nat
  <2> DEFINE d == [k \in 1 .. n |-> data[p + k - 1]]
  <2>1. \A k \in 1 .. n : d[k] \in Nat
      BY <1>1
  <2> HIDE DEF d
  <2>2. Number(d, n, LengthBase) \in Nat
      BY <2>1, NumberType, Widths
  <2> QED
      BY <2>2 DEF BigEndian, d
<1>3. LittleEndian(p, n) \in Nat
  <2> DEFINE d == [k \in 1 .. n |-> data[p + n - k]]
  <2>1. \A k \in 1 .. n : d[k] \in Nat
      BY <1>1
  <2> HIDE DEF d
  <2>2. Number(d, n, LengthBase) \in Nat
      BY <2>1, NumberType, Widths
  <2> QED
      BY <2>2 DEF LittleEndian, d
<1>4. LebValue(p, n) \in Nat
  <2> DEFINE d == [k \in 1 .. n |-> data[p + n - k] % LebBase]
  <2>1. ASSUME NEW k \in 1 .. n PROVE d[k] \in Nat
    <3>1. PICK v \in Nat : v = data[p + n - k]
        BY <1>1
    <3>2. v % LebBase \in Nat
        BY Widths
    <3> QED
        BY <3>1, <3>2
  <2> HIDE DEF d
  <2>2. Number(d, n, LebBase) \in Nat
      BY <2>1, NumberType, Widths
  <2> QED
      BY <2>2 DEF LebValue, d
<1> QED
    BY <1>2, <1>3, <1>4

LEMMA LebLengthIs ==
  ASSUME NEW p \in Nat, Size \in Nat
  PROVE  LebLength(p) \in Nat /\ (LebLength(p) > 0 => p + LebLength(p) <= Size)
<1> DEFINE ends == {k \in 1 .. LebBytes : p + k <= Size /\ data[p + k - 1] < LebBase}
<1>1. LebLength(p) = IF ends = {} THEN 0 ELSE Min(ends)
    BY DEF LebLength
<1>2. ends \subseteq Nat
    OBVIOUS
<1>3. \A k \in ends : p + k <= Size
    OBVIOUS
<1> HIDE DEF ends
<1>4. CASE ends = {}
    BY <1>1, <1>4
<1>5. CASE ends # {}
  <2>1. Min(ends) \in ends
      BY <1>2, <1>5, MinIs
  <2> QED
      BY <1>1, <1>2, <1>3, <1>5, <2>1
<1> QED
    BY <1>4, <1>5

(* The first start code from a place on, or the end of the buffer.         *)
LEMMA FoundCode ==
  ASSUME DataTyped, NEW from \in Nat
  PROVE  /\ FindShortCode(from) \in Nat /\ FindShortCode(from) <= Size
         /\ FindShortCode(from) = Size
              \/ (ShortCode(data, FindShortCode(from)) /\ from <= FindShortCode(from))
         /\ \A p \in from .. (FindShortCode(from) - 1) : ~ ShortCode(data, p)
<1> DEFINE at == {p \in from .. Size : ShortCode(data, p)}
<1>1. FindShortCode(from) = IF at = {} THEN Size ELSE Min(at)
    BY DEF FindShortCode
<1>2. Size \in Nat
    BY DEF DataTyped
<1>3. at \subseteq Nat /\ \A p \in at : p <= Size /\ from <= p /\ ShortCode(data, p)
    BY <1>2
<1>4. \A p \in from .. Size : ShortCode(data, p) => p \in at
    OBVIOUS
<1> HIDE DEF at
<1>5. CASE at = {}
    BY <1>1, <1>2, <1>4, <1>5
<1>6. CASE at # {}
  <2>1. Min(at) \in at /\ \A p \in at : Min(at) <= p
      BY <1>3, <1>6, MinIs
  <2>2. FindShortCode(from) = Min(at)
      BY <1>1, <1>6
  <2>3. Min(at) \in Nat /\ Min(at) <= Size /\ from <= Min(at) /\ ShortCode(data, Min(at))
      BY <1>3, <2>1
  <2>4. \A p \in from .. (Min(at) - 1) : ~ ShortCode(data, p)
    <3> SUFFICES ASSUME NEW p \in from .. (Min(at) - 1), ShortCode(data, p) PROVE FALSE
        OBVIOUS
    <3>1. p \in at
        BY <1>2, <1>4, <2>3
    <3> QED
        BY <2>1, <2>3, <3>1
  <2> QED
      BY <2>2, <2>3, <2>4
<1> QED
    BY <1>5, <1>6

(* The four outcomes of a turn.                                            *)
Stops == pc' = "finished" /\ UNCHANGED <<current, handed>> /\ begin' \in Nat /\ end' \in Nat

HandsOut ==
  \E b, e \in Nat : b <= e /\ e <= Size /\ YieldSpan(b, e)

Skips == current' \in 0 .. Size /\ UNCHANGED <<pc, begin, end, handed>>

(* Whether a turn stops is decided by Ended, for the framers that may be   *)
(* asked again.                                                            *)
LEMMA IvfTurn ==
  ASSUME IInv, mode = "Ivf", LocateIvf
  PROVE  (Ended /\ Stops) \/ (~ Ended /\ HandsOut)
<1> DEFINE b == current + FrameHeader
           len == LittleEndian(current, LengthSize)
<1>1. Size \in Nat /\ current \in Nat /\ begin \in Nat /\ end \in Nat
      /\ \A p \in 0 .. (Size - 1) : data[p] \in Nat
    BY SizedState
<1>2. b \in Nat
    BY <1>1, Widths
<1>3. b <= Size => len \in Nat
  <2>1. b <= Size => current + LengthSize <= Size
      BY <1>1, Widths
  <2>2. LengthSize \in Nat
      BY Widths
  <2> QED
      BY <1>1, <2>1, <2>2, SizesAre
<1>4. Ended <=> b > Size \/ b + len > Size
    BY DEF Ended
<1>5. \/ b > Size /\ Finish
      \/ b <= Size /\ b + len > Size /\ FinishWith(b, b + len)
      \/ b <= Size /\ b + len <= Size /\ YieldSpan(b, b + len)
    BY DEF LocateIvf
<1> HIDE DEF b, len
<1>6. CASE b > Size /\ Finish
    BY <1>1, <1>4, <1>6 DEF Finish, FinishWith, Stops
<1>7. CASE b <= Size /\ b + len > Size /\ FinishWith(b, b + len)
    BY <1>2, <1>3, <1>4, <1>7 DEF FinishWith, Stops
<1>8. CASE b <= Size /\ b + len <= Size /\ YieldSpan(b, b + len)
  <2>1. len \in Nat /\ b + len \in Nat /\ b <= b + len
      BY <1>2, <1>3, <1>8
  <2>2. ~ (b > Size) /\ ~ (b + len > Size)
      BY <1>1, <1>2, <1>8, <2>1
  <2> QED
      BY <1>2, <1>4, <1>8, <2>1, <2>2 DEF HandsOut
<1> QED
    BY <1>5, <1>6, <1>7, <1>8

LEMMA ObuTurn ==
  ASSUME IInv, mode \in {"Obu", "ObuStartCodes"}, LowOverhead, LocateObu
  PROVE  (Ended /\ Stops) \/ (~ Ended /\ (HandsOut \/ Throw))
<1> DEFINE p == SizePosition
           n == LebLength(p)
           e == p + n + LebValue(p, n)
<1>1. Size \in Nat /\ current \in Nat /\ begin \in Nat /\ end \in Nat
      /\ \A k \in 0 .. (Size - 1) : data[k] \in Nat
    BY SizedState
<1>2. p \in {current + 1, current + 2} /\ p \in Nat /\ p > current
    BY <1>1 DEF SizePosition
<1>3. n \in Nat /\ (n > 0 => p + n <= Size)
  <2> HIDE DEF p
  <2> QED
      BY <1>1, <1>2, LebLengthIs
<1>4. n > 0 => LebValue(p, n) \in Nat /\ e \in Nat /\ current <= e
  <2> HIDE DEF p, n
  <2>1. n > 0 => LebValue(p, n) \in Nat
      BY <1>1, <1>2, <1>3, SizesAre
  <2> QED
      BY <1>1, <1>2, <1>3, <2>1
<1>5. Ended <=> current >= Size \/ (HasSize(data[current]) /\ n > 0 /\ e > Size)
    BY Zenon DEF Ended
<1>6. \/ current >= Size /\ Finish
      \/ current < Size /\ ~ HasSize(data[current]) /\ YieldSpan(current, Size)
      \/ current < Size /\ HasSize(data[current]) /\ n = 0 /\ Throw
      \/ current < Size /\ HasSize(data[current]) /\ n > 0 /\ e > Size /\ FinishWith(current, e)
      \/ current < Size /\ HasSize(data[current]) /\ n > 0 /\ e <= Size /\ YieldSpan(current, e)
    BY Zenon DEF LocateObu
<1> HIDE DEF p, n, e
<1>7. CASE current >= Size /\ Finish
    BY <1>1, <1>5, <1>7 DEF Finish, FinishWith, Stops
<1>8. CASE current < Size /\ ~ HasSize(data[current]) /\ YieldSpan(current, Size)
  <2>1. ~ (current >= Size) /\ current <= Size
      BY <1>1, <1>8
  <2>2. HandsOut
      BY <1>1, <1>8, <2>1 DEF HandsOut
  <2> QED
      BY <1>5, <1>8, <2>1, <2>2, Zenon
<1>9. CASE current < Size /\ HasSize(data[current]) /\ n = 0 /\ Throw
  <2>1. ~ (current >= Size) /\ ~ (n > 0)
      BY <1>1, <1>9
  <2> QED
      BY <1>5, <1>9, <2>1, Zenon
<1>10. CASE current < Size /\ HasSize(data[current]) /\ n > 0 /\ e > Size /\ FinishWith(current, e)
  <2>1. Stops
      BY <1>1, <1>4, <1>10 DEF FinishWith, Stops
  <2> QED
      BY <1>5, <1>10, <2>1, Zenon
<1>11. CASE current < Size /\ HasSize(data[current]) /\ n > 0 /\ e <= Size /\ YieldSpan(current, e)
  <2>1. ~ (current >= Size) /\ ~ (e > Size)
      BY <1>1, <1>4, <1>11
  <2>2. HandsOut
      BY <1>1, <1>4, <1>11 DEF HandsOut
  <2> QED
      BY <1>5, <2>1, <2>2, Zenon
<1> QED
    BY <1>6, <1>7, <1>8, <1>9, <1>10, <1>11

LEMMA ObuStartCodesTurn ==
  ASSUME IInv, mode \in {"Obu", "ObuStartCodes"}, ~ LowOverhead, LocateObuStartCodes
  PROVE  (Ended /\ Stops) \/ (~ Ended /\ (HandsOut \/ Skips))
<1> DEFINE start == FindShortCode(current)
           next == FindShortCode(start + 3)
<1>1. DataTyped /\ Size \in Nat /\ current \in Nat /\ begin \in Nat /\ end \in Nat
    BY SizedState
<1>2. start \in 0 .. Size
    BY <1>1, FoundCode
<1>3. next \in 0 .. Size
  <2>1. start + 3 \in Nat
      BY <1>1, <1>2
  <2> HIDE DEF start
  <2> QED
      BY <1>1, <2>1, FoundCode
<1>4. Ended <=> start = Size
    BY Zenon DEF Ended
<1>5. \/ start = Size /\ Finish
      \/ start < Size /\ start + 3 >= next /\ current' = next /\ UNCHANGED <<pc, begin, end, handed>>
      \/ start < Size /\ start + 3 < next /\ YieldSpan(start + 3, next)
    BY Zenon DEF LocateObuStartCodes
<1> HIDE DEF start, next
<1>6. CASE start = Size /\ Finish
    BY <1>1, <1>4, <1>6 DEF Finish, FinishWith, Stops
<1>7. CASE start < Size /\ start + 3 >= next /\ current' = next /\ UNCHANGED <<pc, begin, end, handed>>
    BY <1>1, <1>2, <1>3, <1>4, <1>7 DEF Skips
<1>8. CASE start < Size /\ start + 3 < next /\ YieldSpan(start + 3, next)
  <2>1. start # Size /\ start + 3 \in Nat /\ next \in Nat /\ start + 3 <= next /\ next <= Size
      BY <1>1, <1>2, <1>3, <1>8
  <2>2. HandsOut
      BY <1>8, <2>1 DEF HandsOut
  <2> QED
      BY <1>4, <2>1, <2>2, Zenon
<1> QED
    BY <1>5, <1>6, <1>7, <1>8

LEMMA LengthPrefixedTurn ==
  ASSUME IInv, mode = "LengthPrefixed", LocateLengthPrefixed
  PROVE  Stops \/ HandsOut \/ Skips \/ Throw
<1> DEFINE b == current + LengthSize
           len == BigEndian(current, LengthSize)
<1>1. Size \in Nat /\ current \in Nat /\ begin \in Nat /\ end \in Nat
      /\ \A p \in 0 .. (Size - 1) : data[p] \in Nat
    BY SizedState
<1>2. b \in Nat /\ LengthSize \in Nat
    BY <1>1, Widths
<1>3. b <= Size => len \in Nat
    BY <1>1, <1>2, SizesAre
<1>4. \/ current >= Size /\ FinishWith(Size, Size)
      \/ Throw
      \/ b <= Size /\ b + len <= Size /\ len = 0 /\ current' = b /\ UNCHANGED <<pc, begin, end, handed>>
      \/ b <= Size /\ b + len <= Size /\ len > 0 /\ YieldSpan(b, b + len)
    BY Zenon DEF LocateLengthPrefixed
<1> HIDE DEF b, len
<1>5. CASE current >= Size /\ FinishWith(Size, Size)
    BY <1>1, <1>5 DEF FinishWith, Stops
<1>6. CASE b <= Size /\ b + len <= Size /\ len = 0 /\ current' = b /\ UNCHANGED <<pc, begin, end, handed>>
    BY <1>1, <1>2, <1>6 DEF Skips
<1>7. CASE b <= Size /\ b + len <= Size /\ len > 0 /\ YieldSpan(b, b + len)
  <2>1. b + len \in Nat /\ b <= b + len
      BY <1>2, <1>3, <1>7
  <2> QED
      BY <1>2, <1>7, <2>1 DEF HandsOut
<1> QED
    BY <1>4, <1>5, <1>6, <1>7

LEMMA SizedTurn ==
  ASSUME IInv, mode # "AnnexB", LocateSized
  PROVE  /\ Kept /\ i' = i
         /\ Stops \/ HandsOut \/ Skips \/ Throw
         /\ mode # "LengthPrefixed" =>
              (Ended /\ Stops) \/ (~ Ended /\ (HandsOut \/ Skips \/ Throw))
<1>1. Kept /\ i' = i
    BY Zenon DEF LocateSized, Kept
<1>2. \/ mode = "LengthPrefixed" /\ LocateLengthPrefixed
      \/ mode = "Ivf" /\ LocateIvf
      \/ mode \in {"Obu", "ObuStartCodes"} /\ LowOverhead /\ LocateObu
      \/ mode \in {"Obu", "ObuStartCodes"} /\ ~LowOverhead /\ LocateObuStartCodes
    BY Zenon DEF LocateSized
<1>3. CASE mode = "LengthPrefixed" /\ LocateLengthPrefixed
    BY <1>1, <1>3, LengthPrefixedTurn
<1>4. CASE mode = "Ivf" /\ LocateIvf
    BY <1>1, <1>4, IvfTurn
<1>5. CASE mode \in {"Obu", "ObuStartCodes"} /\ LowOverhead /\ LocateObu
    BY <1>1, <1>5, ObuTurn
<1>6. CASE mode \in {"Obu", "ObuStartCodes"} /\ ~LowOverhead /\ LocateObuStartCodes
    BY <1>1, <1>6, ObuStartCodesTurn
<1> QED
    BY <1>2, <1>3, <1>4, <1>5, <1>6, Zenon

(* Ended speaks of the buffer, the framer and the place only.              *)
LEMMA EndedKept ==
  ASSUME Kept, current' = current
  PROVE  Ended' <=> Ended
<1>1. data' = data /\ mode' = mode /\ Size' = Size
    BY DEF Kept, Size
<1>2. LittleEndian(current, LengthSize)' = LittleEndian(current, LengthSize)
    BY <1>1, Zenon DEF LittleEndian
<1>3. (LowOverhead' <=> LowOverhead) /\ (HasSize(data[current])' <=> HasSize(data[current]))
    BY <1>1, Zenon DEF LowOverhead, ShortCode, HasSize
<1>4. SizePosition' = SizePosition
    BY <1>1, Zenon DEF SizePosition, HasExtension
<1>5. LebLength(SizePosition)' = LebLength(SizePosition)
    BY <1>1, <1>4, Zenon DEF LebLength
<1>6. LebValue(SizePosition, LebLength(SizePosition))'
        = LebValue(SizePosition, LebLength(SizePosition))
    BY <1>1, <1>4, <1>5, Zenon DEF LebValue
<1>7. FindShortCode(current)' = FindShortCode(current)
    BY <1>1, Zenon DEF FindShortCode, ShortCode
<1> QED
    BY <1>1, <1>2, <1>3, <1>4, <1>5, <1>6, <1>7, Zenon DEF Ended

(* What a framer that reads sizes needs to know of a state that it leaves. *)
LEMMA SizedKeeps ==
  ASSUME IInv, mode # "AnnexB", Kept, i' = i,
         pc' \in {"start", "ready", "finished", "failed"},
         current' \in 0 .. Max({Size, FileHeader}), begin' \in Nat, end' \in Nat,
         pc' = "ready" => begin' <= end' /\ end' <= Size,
         handed' \in Seq(Spans(data)),
         pc' = "finished" => Ended /\ current' = current
  PROVE  IInv'
<1>1. DataTyped' /\ Size' = Size /\ data' = data /\ mode' = mode /\ cut' = cut
    BY KeptData DEF IInv, Kept
<1>2. TypeOK'
  <2>1. cut \in BOOLEAN /\ i \in 0 .. Size
        /\ mode \in {"AnnexB", "LengthPrefixed", "Obu", "ObuStartCodes", "Ivf"}
      BY Zenon DEF IInv, TypeOK
  <2>2. cut' \in BOOLEAN /\ current' \in 0 .. Max({Size', FileHeader})
        /\ handed' \in Seq(Spans(data')) /\ i' \in 0 .. Size'
        /\ mode' \in {"AnnexB", "LengthPrefixed", "Obu", "ObuStartCodes", "Ivf"}
        /\ (pc' = "ready" => begin' <= end' /\ end' <= Size')
      BY <1>1, <2>1, Zenon
  <2>3. pc' \in {"start", "end", "trim", "ready", "finished", "failed"}
        /\ (pc' \in {"end", "trim"} => mode' = "AnnexB")
      OBVIOUS
  <2> QED
      BY <2>2, <2>3, Zenon DEF TypeOK
<1>3. SearchPlace' /\ NoStartCodeMissed'
    BY <1>1 DEF SearchPlace, NoStartCodeMissed
<1>4. NothingMore'
    BY EndedKept, Zenon DEF NothingMore
<1> QED
    BY <1>1, <1>2, <1>3, <1>4, Zenon DEF IInv

LEMMA InvSized ==
  ASSUME IInv, mode # "AnnexB", LocateSized,
         pc = "start" \/ (pc = "finished" /\ mode # "LengthPrefixed")
  PROVE  IInv' /\ (pc = "finished" => pc' = "finished")
<1>1. /\ Size \in Nat /\ current \in 0 .. Max({Size, FileHeader})
      /\ begin \in Nat /\ end \in Nat /\ handed \in Seq(Spans(data))
      /\ Max({Size, FileHeader}) \in Nat /\ Max({Size, FileHeader}) >= Size
    BY SizedState, Bounds
<1>2. pc = "finished" => Ended
    BY Zenon DEF IInv, NothingMore
<1>3. mode = "LengthPrefixed" => Ended
    BY DEF Ended
<1>4. Kept /\ i' = i
    BY SizedTurn
<1>5. CASE Stops
  <2>1. mode # "LengthPrefixed" => Ended
    <3>1. pc' = "finished"
        BY <1>5 DEF Stops
    <3>2. ASSUME HandsOut \/ Skips \/ Throw, ~ Ended PROVE FALSE
      <4>1. pc # "finished"
          BY <1>2, <3>2
      <4> QED
          BY <3>1, <3>2, <4>1 DEF HandsOut, YieldSpan, Skips, Throw
    <3> QED
        BY <3>2, SizedTurn, Zenon
  <2> QED
      BY <1>1, <1>3, <1>4, <1>5, <2>1, SizedKeeps DEF Stops
<1>6. CASE ~ Stops /\ HandsOut
  <2>1. pc # "finished"
      BY <1>2, <1>6, SizedTurn, Zenon
  <2>2. PICK b \in Nat : \E e \in Nat : b <= e /\ e <= Size /\ YieldSpan(b, e)
      BY <1>6, Zenon DEF HandsOut
  <2>3. PICK e \in Nat : b <= e /\ e <= Size /\ YieldSpan(b, e)
      BY <2>2, Zenon
  <2>4. begin' = b /\ end' = e /\ current' = e /\ pc' = "ready"
        /\ handed' = Append(handed, <<b, e>>)
      BY <2>3 DEF YieldSpan
  <2>5. <<b, e>> \in Spans(data)
      BY <1>1, <2>3 DEF Spans, Size
  <2>6. handed' \in Seq(Spans(data))
      BY <1>1, <2>4, <2>5
  <2>7. current' \in 0 .. Max({Size, FileHeader})
      BY <1>1, <2>3, <2>4
  <2> QED
      BY <1>4, <2>1, <2>3, <2>4, <2>6, <2>7, SizedKeeps
<1>7. CASE ~ Stops /\ (Skips \/ Throw)
  <2>1. pc # "finished"
      BY <1>2, <1>7, SizedTurn, Zenon
  <2>2. current' \in 0 .. Max({Size, FileHeader})
      BY <1>1, <1>7 DEF Skips, Throw
  <2>3. begin' = begin /\ end' = end /\ handed' = handed
      BY <1>7 DEF Skips, Throw
  <2>4. pc' \in {"start", "failed"} \/ pc = "finished"
      BY <1>7 DEF Skips, Throw
  <2> QED
      BY <1>1, <1>4, <2>1, <2>2, <2>3, <2>4, SizedKeeps
<1> QED
    BY <1>5, <1>6, <1>7, SizedTurn, Zenon

(* A step that changes nothing.                                            *)
LEMMA InvStutter ==
  ASSUME IInv, UNCHANGED allVars
  PROVE  IInv'
<1>1. Kept /\ i' = i /\ pc' = pc /\ current' = current /\ begin' = begin /\ end' = end
      /\ handed' = handed
    BY DEF allVars, vars, framer, Kept
<1>2. TypeOK
    BY Zenon DEF IInv
<1>3. pc = "ready" => begin <= end /\ end <= Size
    BY <1>2, Zenon DEF TypeOK
<1>4. CASE mode = "AnnexB"
  <2>1. pc \in {"start", "end", "trim", "ready", "finished"}
      BY <1>2, <1>4 DEF IInv, SearchPlace, TypeOK
  <2> QED
      BY <1>1, <1>3, <1>4, <2>1, SearchState, SearchKeeps
<1>5. CASE mode # "AnnexB"
  <2>1. pc = "finished" => Ended
      BY Zenon DEF IInv, NothingMore
  <2> QED
      BY <1>1, <1>3, <1>5, <2>1, SizedState, SizedKeeps
<1> QED
    BY <1>4, <1>5

-----------------------------------------------------------------------------
(* The invariant.                                                          *)

LEMMA InvInit == Init => IInv
<1> SUFFICES ASSUME Init PROVE IInv
    OBVIOUS
<1>1. DataTyped
    BY InitData
<1>2. /\ pc = "start" /\ i = 0 /\ begin = 0 /\ end = 0 /\ handed = <<>>
      /\ current = FileStart(mode)
    BY DEF Init
<1>3. mode \in {"AnnexB", "LengthPrefixed", "Obu", "ObuStartCodes", "Ivf"} /\ cut \in BOOLEAN
  <2>1. CASE InitSearched
      BY <2>1 DEF InitSearched
  <2>2. CASE InitSized
    <3>1. mode \in {"LengthPrefixed", "Obu", "Ivf"} /\ \E m, s, n : cut = IsCut(m, s, n)
        BY <2>2, Zenon DEF InitSized
    <3>2. \A m, s, n : IsCut(m, s, n) \in BOOLEAN
        BY DEF IsCut
    <3> QED
        BY <3>1, <3>2
  <2> QED
      BY <2>1, <2>2 DEF Init
<1>4. current \in 0 .. Max({Size, FileHeader}) /\ (mode = "AnnexB" => current = 0)
    BY <1>1, <1>2, Bounds, Widths DEF FileStart
<1>5. i \in 0 .. Size /\ Size \in Nat
    BY <1>1, <1>2, Bounds
<1>6. handed \in Seq(Spans(data))
    BY <1>2
<1>7. TypeOK
    BY <1>2, <1>3, <1>4, <1>5, <1>6 DEF TypeOK
<1>8. SearchPlace
    BY <1>2, <1>4, <1>5 DEF SearchPlace
<1>9. NoStartCodeMissed
    BY <1>2, <1>4 DEF NoStartCodeMissed
<1>10. NothingMore
    BY <1>2 DEF NothingMore
<1> QED
    BY <1>1, <1>7, <1>8, <1>9, <1>10, Zenon DEF IInv

LEMMA InvNext == IInv /\ [Next]_allVars => IInv' /\ (pc = "finished" => pc' = "finished")
<1> SUFFICES ASSUME IInv, [Next]_allVars
             PROVE  IInv' /\ (pc = "finished" => pc' = "finished")
    OBVIOUS
<1>1. CASE SearchAnnexB
  <2>1. mode = "AnnexB" /\ Locate /\ UNCHANGED <<mode, cut>>
      BY <1>1 DEF SearchAnnexB
  <2>2. pc # "finished"
      BY <2>1 DEF Locate, ScanLanes, ScanBytes, NotFound, Searching, Trim, SkipEmpty, Yield, Advance
  <2>3. CASE ScanLanes
      BY <2>1, <2>2, <2>3, InvScanLanes
  <2>4. CASE ScanBytes \/ NotFound
      BY <2>1, <2>2, <2>4, InvScanBytes
  <2>5. CASE Trim \/ SkipEmpty \/ Yield \/ Advance
      BY <2>1, <2>2, <2>5, InvTrimAndYield
  <2> QED
      BY <2>1, <2>3, <2>4, <2>5 DEF Locate
<1>2. CASE LocateNext
    BY <1>2, InvSized DEF LocateNext
<1>3. CASE NextUnit
  <2>1. mode # "AnnexB" /\ pc = "ready" /\ pc' = "start" /\ Kept /\ i' = i
        /\ current' = current /\ begin' = begin /\ end' = end /\ handed' = handed
      BY <1>3 DEF NextUnit, Kept
  <2> QED
      BY <2>1, SizedState, SizedKeeps
<1>4. CASE NextAtEnd
  <2>1. CASE mode \in {"AnnexB", "LengthPrefixed"}
    <3>1. UNCHANGED allVars
        BY <1>4, <2>1, Zenon DEF NextAtEnd
    <3>2. pc' = pc
        BY <3>1 DEF allVars, vars, framer
    <3> QED
        BY <3>1, <3>2, InvStutter
  <2>2. CASE mode \notin {"AnnexB", "LengthPrefixed"}
    <3>1. pc = "finished" /\ LocateSized
        BY <1>4, <2>2, Zenon DEF NextAtEnd
    <3> QED
        BY <2>2, <3>1, InvSized
  <2> QED
      BY <2>1, <2>2
<1>5. CASE GivenUp \/ UNCHANGED allVars
  <2>1. UNCHANGED allVars
      BY <1>5 DEF GivenUp
  <2>2. pc' = pc
      BY <2>1 DEF allVars, vars, framer
  <2> QED
      BY <2>1, <2>2, InvStutter
<1> QED
    BY <1>1, <1>2, <1>3, <1>4, <1>5 DEF Next

-----------------------------------------------------------------------------
(* Spans in the order they begin in, and what a turn means to the caller.  *)

(* Spans of a set, in the order they begin in.                             *)

(* A finite set of spans, no two of which begin together.                  *)
Distinct(U) ==
  /\ IsFiniteSet(U)
  /\ \A u \in U : u[1] \in Nat
  /\ \A u, v \in U : u[1] = v[1] => u = v

Before(U, b) == {t \in U : t[1] < b}

LEMMA BeforeType ==
  ASSUME NEW U, Distinct(U), NEW b
  PROVE  /\ IsFiniteSet(Before(U, b)) /\ Cardinality(Before(U, b)) \in Nat
         /\ Cardinality(U) \in Nat /\ Cardinality(Before(U, b)) <= Cardinality(U)
<1>1. IsFiniteSet(U) /\ Before(U, b) \in SUBSET U
    BY DEF Distinct, Before
<1>2. IsFiniteSet(Before(U, b)) /\ Cardinality(Before(U, b)) <= Cardinality(U)
    BY <1>1, FS_Subset
<1> QED
    BY <1>1, <1>2, FS_CardinalityType

(* One that begins from a on makes more begin before b than before a.      *)
LEMMA BeforeGrows ==
  ASSUME NEW U, Distinct(U), NEW a \in Nat, NEW b \in Nat,
         NEW x \in U, a <= x[1], x[1] < b
  PROVE  Cardinality(Before(U, a)) < Cardinality(Before(U, b))
<1>1. x[1] \in Nat /\ \A u \in U : u[1] \in Nat
    BY DEF Distinct
<1>2. x \notin Before(U, a) /\ x \in Before(U, b)
    BY <1>1 DEF Before
<1>3. Before(U, a) \in SUBSET Before(U, b)
    BY <1>1 DEF Before
<1>4. /\ Cardinality(Before(U, a)) <= Cardinality(Before(U, b))
      /\ Cardinality(Before(U, b)) = Cardinality(Before(U, a)) => Before(U, b) = Before(U, a)
    BY <1>3, BeforeType, FS_Subset
<1> QED
    BY <1>2, <1>4, BeforeType

(* The kth of them is the one that k - 1 begin before.                     *)
LEMMA InOrderIs ==
  ASSUME NEW U, Distinct(U)
  PROVE  /\ Len(InOrder(U)) = Cardinality(U)
         /\ InOrder(U) \in Seq(U)
         /\ \A x \in U : /\ Cardinality(Before(U, x[1])) < Cardinality(U)
                         /\ InOrder(U)[Cardinality(Before(U, x[1])) + 1] = x
<1> DEFINE n == Cardinality(U)
           r == [x \in U |-> Cardinality(Before(U, x[1]))]
<1>1. n \in Nat /\ IsFiniteSet(U)
    BY BeforeType DEF Distinct
<1>2. ASSUME NEW x \in U PROVE Cardinality(Before(U, x[1])) \in 0 .. (n - 1)
  <2>1. x \notin Before(U, x[1]) /\ Before(U, x[1]) \in SUBSET U
    <3>1. x[1] \in Nat
        BY DEF Distinct
    <3> QED
        BY <3>1 DEF Before
  <2>2. Cardinality(U) = Cardinality(Before(U, x[1])) => U = Before(U, x[1])
      BY <1>1, <2>1, FS_Subset
  <2>3. Cardinality(Before(U, x[1])) # n
      BY <2>1, <2>2
  <2> QED
      BY <1>1, <2>3, BeforeType
<1>3. ASSUME NEW x \in U, NEW y \in U, r[x] = r[y] PROVE x = y
  <2>1. x[1] \in Nat /\ y[1] \in Nat /\ (x[1] = y[1] => x = y)
      BY DEF Distinct
  <2>2. ~ (x[1] < y[1])
    <3> SUFFICES ASSUME x[1] < y[1] PROVE FALSE
        OBVIOUS
    <3>1. Cardinality(Before(U, x[1])) < Cardinality(Before(U, y[1]))
        BY <2>1, BeforeGrows
    <3> QED
        BY <1>2, <1>3, <3>1
  <2>3. ~ (y[1] < x[1])
    <3> SUFFICES ASSUME y[1] < x[1] PROVE FALSE
        OBVIOUS
    <3>1. Cardinality(Before(U, y[1])) < Cardinality(Before(U, x[1]))
        BY <2>1, BeforeGrows
    <3> QED
        BY <1>2, <1>3, <3>1
  <2> QED
      BY <2>1, <2>2, <2>3
<1>4. r \in [U -> 0 .. (n - 1)]
    BY <1>2
<1>5. \A x \in U : r[x] = Cardinality(Before(U, x[1]))
    OBVIOUS
<1> HIDE DEF r
<1>6. r \in Injection(U, 0 .. (n - 1))
    BY <1>3, <1>4 DEF Injection, IsInjective
<1>7. IsFiniteSet(0 .. (n - 1)) /\ Cardinality(0 .. (n - 1)) = n
  <2> HIDE DEF n
  <2>1. 0 \in Int /\ n - 1 \in Int
      BY <1>1
  <2> QED
      BY <1>1, <2>1, FS_Interval
<1>8. r \in Surjection(U, 0 .. (n - 1))
    BY <1>6, <1>7, FS_Injection
<1>9. ASSUME NEW k \in 1 .. n PROVE \E x \in U : Cardinality(Before(U, x[1])) = k - 1
  <2>1. k - 1 \in 0 .. (n - 1)
      BY <1>1
  <2> QED
      BY <1>5, <1>8, <2>1 DEF Surjection
<1>10. InOrder(U) = [k \in 1 .. n |-> CHOOSE x \in U : Cardinality(Before(U, x[1])) = k - 1]
    BY Zenon DEF InOrder, Before
<1>11. ASSUME NEW k \in 1 .. n
       PROVE  InOrder(U)[k] \in U /\ Cardinality(Before(U, InOrder(U)[k][1])) = k - 1
  <2>1. InOrder(U)[k] = CHOOSE x \in U : Cardinality(Before(U, x[1])) = k - 1
      BY <1>10
  <2> QED
      BY <1>9, <2>1, Zenon
<1>12. ASSUME NEW x \in U PROVE InOrder(U)[Cardinality(Before(U, x[1])) + 1] = x
  <2>1. PICK k \in 1 .. n : k = Cardinality(Before(U, x[1])) + 1
      BY <1>1, <1>2
  <2>2. Cardinality(Before(U, x[1])) = k - 1
      BY <1>1, <1>2, <2>1
  <2>3. InOrder(U)[k] \in U /\ r[InOrder(U)[k]] = r[x]
      BY <1>5, <1>11, <2>2
  <2> QED
      BY <1>3, <1>5, <2>1, <2>3
<1>13. InOrder(U) \in [1 .. n -> U]
    BY <1>10, <1>11
<1>14. InOrder(U) \in Seq(U) /\ Len(InOrder(U)) = n
    BY <1>1, <1>13
<1> QED
    BY <1>1, <1>2, <1>12, <1>14

Open == pc \notin {"finished", "failed"}

(* What a turn means to the caller: nothing, a unit, or the end.           *)
PassesOver(U) ==
  /\ Open /\ Open' /\ handed' = handed
  /\ Mark <= Mark'
  /\ \A u \in U : ~ (Mark <= u[1] /\ u[1] < Mark')

Takes(U, x) ==
  /\ Open /\ Open' /\ handed' = Append(handed, x)
  /\ Mark <= x[1] /\ x[1] < Mark'
  /\ \A u \in U : Mark <= u[1] /\ u[1] < Mark' => u = x

Ends(U) ==
  /\ Open /\ ~ Open' /\ handed' = handed
  /\ pc' = "failed" => cut
  /\ Mark' = Mark
  /\ \A u \in U : u[1] < Mark

Means(U) == PassesOver(U) \/ (\E x \in U : Takes(U, x)) \/ Ends(U)

StreamStep == [Stream!Next]_(Stream!vars)

LEMMA StreamStutter ==
  ASSUME Kept, handed' = handed, pc' = pc \/ (Open /\ Open')
  PROVE  StreamStep
<1>1. units' = units /\ cut' = cut /\ handed' = handed
    BY DEF Kept
<1>2. (CASE pc = "finished" -> "stopped" [] pc = "failed" -> "failed" [] OTHER -> "open")'
       = CASE pc = "finished" -> "stopped" [] pc = "failed" -> "failed" [] OTHER -> "open"
  <2>1. CASE pc' = pc
      BY <2>1
  <2>2. CASE Open /\ Open'
      BY <2>2 DEF Open
  <2> QED
      BY <2>1, <2>2
<1>3. UNCHANGED Stream!vars
    BY <1>1, <1>2, Zenon DEF Stream!vars
<1> QED
    BY <1>3, Zenon DEF StreamStep

LEMMA StreamFollows ==
  ASSUME NEW U, Distinct(U), Kept, Counted(U), Mark \in Nat, Mark' \in Nat,
         handed \in Seq(Spans(data)), Means(U)
  PROVE  /\ StreamStep
         /\ units' = InOrder(U) /\ Len(handed') = Cardinality(Before(U, Mark'))
<1>1. units' = units /\ cut' = cut
    BY DEF Kept
<1>2. units = InOrder(U) /\ Len(handed) = Cardinality(Before(U, Mark))
    BY Zenon DEF Counted, Before
<1>3. Len(units) = Cardinality(U)
    BY <1>2, InOrderIs
<1>4. \A u \in U : u[1] \in Nat
    BY DEF Distinct
<1>5. CASE PassesOver(U)
  <2>1. StreamStep
      BY <1>5, StreamStutter DEF PassesOver
  <2>2. Before(U, Mark') = Before(U, Mark)
    <3>1. ASSUME NEW u \in U PROVE u[1] < Mark' <=> u[1] < Mark
        BY <1>4, <1>5 DEF PassesOver
    <3> QED
        BY <3>1, Zenon DEF Before
  <2> QED
      BY <1>1, <1>2, <1>5, <2>1, <2>2, Zenon DEF PassesOver
<1>6. CASE \E x \in U : Takes(U, x)
  <2>1. PICK x \in U : Takes(U, x)
      BY <1>6
  <2>2. Before(U, Mark') = Before(U, Mark) \cup {x} /\ x \notin Before(U, Mark)
    <3>1. ASSUME NEW u \in U PROVE u[1] < Mark' <=> u[1] < Mark \/ u = x
        BY <1>4, <2>1 DEF Takes
    <3>2. x \notin Before(U, Mark)
        BY <1>4, <2>1 DEF Before, Takes
    <3> QED
        BY <3>1, <3>2, Zenon DEF Before
  <2>3. Cardinality(Before(U, Mark')) = Len(handed) + 1
      BY <1>2, <2>2, BeforeType, FS_AddElement
  <2>4. handed' = Append(handed, x) /\ Len(handed') = Len(handed) + 1
      BY <2>1 DEF Takes
  <2>5. Before(U, x[1]) = Before(U, Mark)
    <3>1. ASSUME NEW u \in U PROVE u[1] < x[1] <=> u[1] < Mark
        BY <1>4, <2>1 DEF Takes
    <3> QED
        BY <3>1, Zenon DEF Before
  <2>6. Len(handed) < Cardinality(U) /\ InOrder(U)[Len(handed) + 1] = x
    <3>1. /\ Cardinality(Before(U, x[1])) < Cardinality(U)
          /\ InOrder(U)[Cardinality(Before(U, x[1])) + 1] = x
        BY InOrderIs
    <3>2. Cardinality(Before(U, x[1])) = Len(handed)
        BY <1>2, <2>5
    <3> QED
        BY <3>1, <3>2
  <2>7. Len(handed) # Len(units) /\ handed' = Append(handed, units[Len(handed) + 1])
      BY <1>2, <1>3, <2>4, <2>6, BeforeType
  <2>8. Stream!HandOut
    <3>1. (CASE pc = "finished" -> "stopped" [] pc = "failed" -> "failed" [] OTHER -> "open") = "open"
          /\ (CASE pc = "finished" -> "stopped" [] pc = "failed" -> "failed" [] OTHER -> "open")' = "open"
        BY <2>1 DEF Takes, Open
    <3> QED
        BY <1>1, <2>7, <3>1, Zenon DEF Stream!HandOut, Stream!AllHanded
  <2> QED
      BY <1>1, <1>2, <2>3, <2>4, <2>8, Zenon DEF StreamStep, Stream!Next
<1>7. CASE Ends(U)
  <2>1. Before(U, Mark) = U /\ Mark' = Mark /\ handed' = handed
    <3>1. \A u \in U : u[1] < Mark
        BY <1>7 DEF Ends
    <3> QED
        BY <1>7, <3>1, Zenon DEF Before, Ends
  <2>2. Len(handed) = Len(units)
      BY <1>2, <1>3, <2>1
  <2>3. Stream!Stop \/ Stream!Fail
    <3>1. (CASE pc = "finished" -> "stopped" [] pc = "failed" -> "failed" [] OTHER -> "open") = "open"
        BY <1>7 DEF Ends, Open
    <3>2. CASE pc' = "finished"
      <4>1. (CASE pc = "finished" -> "stopped" [] pc = "failed" -> "failed" [] OTHER -> "open")' = "stopped"
          BY <3>2
      <4> QED
          BY <1>1, <2>1, <2>2, <3>1, <4>1, Zenon DEF Stream!Stop, Stream!AllHanded
    <3>3. CASE pc' = "failed"
      <4>1. (CASE pc = "finished" -> "stopped" [] pc = "failed" -> "failed" [] OTHER -> "open")' = "failed"
          BY <3>3
      <4>2. cut
          BY <1>7, <3>3 DEF Ends
      <4> QED
          BY <1>1, <2>1, <2>2, <3>1, <4>1, <4>2, Zenon DEF Stream!Fail, Stream!AllHanded
    <3> QED
        BY <1>7, <3>2, <3>3 DEF Ends, Open
  <2> QED
      BY <1>1, <1>2, <2>1, <2>3, Zenon DEF StreamStep, Stream!Next
<1> QED
    BY <1>5, <1>6, <1>7 DEF Means

-----------------------------------------------------------------------------
(* The search for start codes, turn by turn.                               *)

(* A start code of three or of four bytes.                                 *)
LEMMA StartCodeAt ==
  ASSUME DataTyped, NEW p \in Nat, StartCodeSize(p) # 0
  PROVE  \/ StartCodeSize(p) = 3 /\ ShortCode(data, p)
         \/ StartCodeSize(p) = 4 /\ data[p] = 0 /\ ShortCode(data, p + 1) /\ ~ ShortCode(data, p)
<1>1. CASE p + 4 <= Size /\ data[p] = 0 /\ ShortCode(data, p + 1)
  <2>1. ~ ShortCode(data, p)
    <3>1. p + 1 + 1 = p + 2
        OBVIOUS
    <3> QED
        BY <1>1, <3>1 DEF ShortCode
  <2>2. StartCodeSize(p) = 4
      BY <1>1, <2>1, Zenon DEF StartCodeSize
  <2> QED
      BY <1>1, <2>1, <2>2
<1>2. CASE ~ (p + 4 <= Size /\ data[p] = 0 /\ ShortCode(data, p + 1))
           /\ p + 3 <= Size /\ ShortCode(data, p)
  <2>1. StartCodeSize(p) = 3
      BY <1>2, Zenon DEF StartCodeSize
  <2> QED
      BY <1>2, <2>1
<1>3. CASE ~ (p + 4 <= Size /\ data[p] = 0 /\ ShortCode(data, p + 1))
           /\ ~ (p + 3 <= Size /\ ShortCode(data, p))
  <2>1. StartCodeSize(p) = 0
      BY <1>3, Zenon DEF StartCodeSize
  <2> QED
      BY <2>1
<1> QED
    BY <1>1, <1>2, <1>3, Zenon

(* Two start codes do not overlap.                                         *)
LEMMA StartCodesApart ==
  ASSUME NEW p \in Nat, ShortCode(data, p)
  PROVE  ~ ShortCode(data, p + 1) /\ ~ ShortCode(data, p + 2)
<1>1. p + 1 + 1 = p + 2
    OBVIOUS
<1> QED
    BY <1>1 DEF ShortCode

(* A span of the buffer, and of those sets of them that are told apart by  *)
(* where they begin.                                                       *)
LEMMA SpansDistinct ==
  ASSUME DataTyped, NEW U, U \subseteq Spans(data),
         \A b, e, f \in Nat : <<b, e>> \in U /\ <<b, f>> \in U => e = f
  PROVE  /\ Distinct(U)
         /\ \A u \in U : u = <<u[1], u[2]>> /\ u[1] \in Nat /\ u[2] \in Nat /\ u[1] <= u[2]
                         /\ u[2] <= Size
<1>1. Size \in Nat /\ Size = Cardinality(DOMAIN data)
    BY DEF DataTyped, Size
<1>2. Spans(data) = {s \in (0 .. Size) \X (0 .. Size) : s[1] <= s[2]}
    BY <1>1, Zenon DEF Spans
<1>3. \A u \in U : u = <<u[1], u[2]>> /\ u[1] \in 0 .. Size /\ u[2] \in 0 .. Size /\ u[1] <= u[2]
    BY <1>2
<1>4. \A u \in U : u[1] \in Nat /\ u[2] \in Nat
    BY <1>1, <1>3
<1>5. IsFiniteSet(U)
  <2>1. 0 \in Int /\ Size \in Int
      BY <1>1
  <2>2. IsFiniteSet(0 .. Size)
      BY <2>1, FS_Interval
  <2>3. IsFiniteSet((0 .. Size) \X (0 .. Size))
      BY <2>2, FS_Product
  <2>4. U \in SUBSET ((0 .. Size) \X (0 .. Size))
      BY <1>2
  <2> QED
      BY <2>3, <2>4, FS_Subset
<1>6. ASSUME NEW u \in U, NEW v \in U, u[1] = v[1] PROVE u = v
  <2>1. u = <<u[1], u[2]>> /\ v = <<u[1], v[2]>> /\ u[1] \in Nat /\ u[2] \in Nat /\ v[2] \in Nat
      BY <1>3, <1>4, <1>6
  <2>2. u[2] = v[2]
      BY <2>1, Zenon
  <2> QED
      BY <2>1, <2>2
<1> QED
    BY <1>1, <1>3, <1>4, <1>5, <1>6 DEF Distinct

(* What a unit is, where the length of the buffer is its Size.             *)
ReachesTo(e, b, m) ==
  /\ m = Size \/ ShortCode(data, m)
  /\ \A k \in e .. (m - 1) : data[k] = 0
  /\ \A k \in b .. (m - 1) : ~ ShortCode(data, k)

LEMMA UnitIs ==
  ASSUME NEW b, NEW e
  PROVE  IsUnit(data, b, e) <=>
           /\ b >= 3 /\ ShortCode(data, b - 3) /\ b < e /\ data[e - 1] # 0
           /\ \E m \in e .. Size : ReachesTo(e, b, m)
BY Zenon DEF IsUnit, Size, ReachesTo

LEMMA UnitSpansAre ==
  ASSUME DataTyped
  PROVE  /\ Distinct(UnitSpans(data))
         /\ \A u \in UnitSpans(data) :
              /\ u = <<u[1], u[2]>> /\ u[1] \in Nat /\ u[2] \in Nat
              /\ IsUnit(data, u[1], u[2])
         /\ \A b, e \in Nat : e <= Size /\ IsUnit(data, b, e) /\ b <= e => <<b, e>> \in UnitSpans(data)
<1>1. Size \in Nat /\ Size = Cardinality(DOMAIN data)
    BY DEF DataTyped, Size
<1>2. ASSUME NEW b \in Nat, NEW e \in Nat, NEW f \in Nat,
             IsUnit(data, b, e), IsUnit(data, b, f)
      PROVE  ~ (e < f)
  <2> SUFFICES ASSUME e < f PROVE FALSE
      OBVIOUS
  <2>1. PICK m \in e .. Size : ReachesTo(e, b, m)
      BY <1>2, UnitIs
  <2>2. PICK n \in f .. Size : ReachesTo(f, b, n)
      BY <1>2, UnitIs
  <2>3. b < e /\ b < f /\ data[f - 1] # 0
      BY <1>2, UnitIs
  <2>4. CASE f <= m
    <3>1. f - 1 \in e .. (m - 1)
        BY <1>1, <2>1, <2>4
    <3> QED
        BY <2>1, <2>3, <3>1 DEF ReachesTo
  <2>5. CASE m < f
    <3>1. m # Size /\ m \in b .. (n - 1)
        BY <1>1, <2>1, <2>2, <2>3, <2>5
    <3> QED
        BY <2>1, <2>2, <3>1 DEF ReachesTo
  <2> QED
      BY <1>1, <2>1, <2>4, <2>5
<1>3. ASSUME NEW b \in Nat, NEW e \in Nat
      PROVE  <<b, e>> \in UnitSpans(data) <=> b <= e /\ e <= Size /\ IsUnit(data, b, e)
  <2>1. <<b, e>>[1] = b /\ <<b, e>>[2] = e
      OBVIOUS
  <2>2. <<b, e>> \in Spans(data) <=> b <= e /\ e <= Size
      BY <1>1 DEF Spans
  <2>3. <<b, e>> \in UnitSpans(data) <=> <<b, e>> \in Spans(data) /\ IsUnit(data, <<b, e>>[1], <<b, e>>[2])
      BY Zenon DEF UnitSpans
  <2> QED
      BY <2>1, <2>2, <2>3, Zenon
<1>4. UnitSpans(data) \subseteq Spans(data) /\ \A u \in UnitSpans(data) : IsUnit(data, u[1], u[2])
    BY Zenon DEF UnitSpans
<1>5. ASSUME NEW b \in Nat, NEW e \in Nat, NEW f \in Nat,
             <<b, e>> \in UnitSpans(data), <<b, f>> \in UnitSpans(data)
      PROVE  e = f
  <2>1. ~ (e < f) /\ ~ (f < e)
      BY <1>2, <1>3, <1>5, Zenon
  <2> QED
      BY <2>1
<1>6. /\ Distinct(UnitSpans(data))
      /\ \A u \in UnitSpans(data) : u = <<u[1], u[2]>> /\ u[1] \in Nat /\ u[2] \in Nat
  <2> DEFINE U == UnitSpans(data)
  <2>1. U \subseteq Spans(data) /\ \A b, e, f \in Nat : <<b, e>> \in U /\ <<b, f>> \in U => e = f
      BY <1>4, <1>5
  <2> HIDE DEF U
  <2>2. /\ Distinct(U)
        /\ \A u \in U : u = <<u[1], u[2]>> /\ u[1] \in Nat /\ u[2] \in Nat
      BY <2>1, SpansDistinct
  <2> QED
      BY <2>2 DEF U
<1> QED
    BY <1>3, <1>4, <1>6, Zenon

(* A unit begins behind a start code.                                      *)
LEMMA UnitBegins ==
  ASSUME DataTyped, NEW u \in UnitSpans(data)
  PROVE  /\ u[1] \in Nat /\ u[1] >= 3 /\ ShortCode(data, u[1] - 3) /\ u[1] - 3 \in Nat
         /\ u[1] <= Size
<1>1. IsUnit(data, u[1], u[2]) /\ u[1] \in Nat
    BY UnitSpansAre
<1>2. u[1] >= 3 /\ ShortCode(data, u[1] - 3)
    BY <1>1, UnitIs
<1>3. u[1] - 3 + 3 <= Size
    BY <1>1, <1>2, ShortCodeIn
<1> QED
    BY <1>1, <1>2, <1>3 DEF DataTyped

(* The state of the search, with what holds at its places.                 *)
LEMMA AnnexBState ==
  ASSUME IInv, AtStartCode, mode = "AnnexB"
  PROVE  /\ DataTyped /\ Size \in Nat /\ i \in Nat /\ i <= Size /\ current \in Nat /\ current <= Size
         /\ begin \in Nat /\ end \in Nat /\ Mark \in Nat
         /\ handed \in Seq(Spans(data))
         /\ BetweenStartCodes /\ Counted(UnitSpans(data))
         /\ pc = "start" => \A p \in current .. (i - 1) : ~ ShortCode(data, p)
         /\ pc = "end" => \A p \in begin .. (i - 1) : ~ ShortCode(data, p)
         /\ Mark = IF pc \in {"end", "trim"} THEN begin ELSE current + 3
<1>1. /\ DataTyped /\ Size \in Nat /\ i \in 0 .. Size /\ current \in 0 .. Size
      /\ begin \in Nat /\ end \in Nat /\ handed \in Seq(Spans(data))
      /\ pc = "start" => \A p \in current .. (i - 1) : ~ ShortCode(data, p)
      /\ pc = "end" => \A p \in begin .. (i - 1) : ~ ShortCode(data, p)
    BY SearchState
<1>2. BetweenStartCodes /\ Counted(UnitSpans(data))
    BY Zenon DEF AtStartCode
<1>3. Mark = IF pc \in {"end", "trim"} THEN begin ELSE current + 3
    BY DEF Mark, Skip
<1>4. Mark \in Nat
    BY <1>1, <1>3
<1> QED
    BY <1>1, <1>2, <1>3, <1>4

(* Where no start code is, no unit begins.                                 *)
LEMMA LocatedMeans ==
  ASSUME IInv, AtStartCode, mode = "AnnexB", Searching, Kept, handed' = handed,
         NEW p \in Nat, i <= p, p <= Size, p = Size \/ StartCodeSize(p) # 0,
         \A q \in i .. (p - 1) : ~ ShortCode(data, q),
         Located(p)
  PROVE  Means(UnitSpans(data)) /\ BetweenStartCodes' /\ Mark' \in Nat
<1>1. /\ DataTyped /\ Size \in Nat /\ i \in Nat /\ i <= Size /\ current \in Nat /\ current <= Size
      /\ begin \in Nat /\ end \in Nat /\ BetweenStartCodes
      /\ pc = "start" => \A q \in current .. (i - 1) : ~ ShortCode(data, q)
      /\ pc = "end" => \A q \in begin .. (i - 1) : ~ ShortCode(data, q)
      /\ Mark = IF pc \in {"end", "trim"} THEN begin ELSE current + 3
    BY AnnexBState
<1>2. Size' = Size /\ mode' = "AnnexB" /\ data' = data /\ \A q : ShortCode(data, q)' = ShortCode(data, q)
    BY <1>1, KeptData DEF Kept
<1>3. Mark' = IF pc' \in {"end", "trim"} THEN begin' ELSE current' + 3
    BY <1>2 DEF Mark, Skip
<1>4. pc = "start" => current <= i /\ \A q \in current .. (p - 1) : ~ ShortCode(data, q)
  <2> SUFFICES ASSUME pc = "start"
               PROVE  current <= i /\ \A q \in current .. (p - 1) : ~ ShortCode(data, q)
      OBVIOUS
  <2>1. current <= i
      BY <1>1 DEF BetweenStartCodes
  <2>2. \A q \in current .. (p - 1) : q \in current .. (i - 1) \/ q \in i .. (p - 1)
      BY <1>1
  <2> QED
      BY <1>1, <2>1, <2>2
<1>5. CASE pc = "start" /\ p = Size /\ pc' = "finished" /\ begin' = Size /\ end' = Size
           /\ UNCHANGED <<i, current>>
  <2>1. Mark' = Mark /\ Mark = current + 3
      BY <1>1, <1>3, <1>5
  <2>2. ASSUME NEW u \in UnitSpans(data) PROVE u[1] < Mark
    <3>1. u[1] \in Nat /\ u[1] >= 3 /\ ShortCode(data, u[1] - 3) /\ u[1] - 3 \in Nat /\ u[1] <= Size
        BY <1>1, UnitBegins
    <3>2. u[1] - 3 \notin current .. (p - 1)
        BY <1>4, <1>5, <3>1
    <3> QED
        BY <1>1, <1>5, <2>1, <3>1, <3>2
  <2>3. Ends(UnitSpans(data))
      BY <1>5, <2>1, <2>2 DEF Ends, Open
  <2>4. BetweenStartCodes'
      BY <1>5 DEF BetweenStartCodes
  <2> QED
      BY <1>1, <2>1, <2>3, <2>4 DEF Means
<1>6. CASE pc = "start" /\ p # Size /\ begin' = p + StartCodeSize(p)
           /\ i' = p + StartCodeSize(p) /\ pc' = "end" /\ UNCHANGED <<current, end>>
  <2>1. \/ StartCodeSize(p) = 3 /\ ShortCode(data, p)
        \/ StartCodeSize(p) = 4 /\ ShortCode(data, p + 1) /\ ~ ShortCode(data, p)
      BY <1>1, <1>6, StartCodeAt
  <2>2. Mark' = begin' /\ Mark = current + 3 /\ begin' \in Nat /\ begin' >= p + 3 /\ i' = begin'
      BY <1>1, <1>3, <1>6, <2>1
  <2>3. Mark <= Mark'
      BY <1>1, <1>4, <1>6, <2>2
  <2>4. ASSUME NEW u \in UnitSpans(data), Mark <= u[1], u[1] < Mark' PROVE FALSE
    <3>1. u[1] \in Nat /\ u[1] >= 3 /\ ShortCode(data, u[1] - 3) /\ u[1] - 3 \in Nat
        BY <1>1, UnitBegins
    <3>2. u[1] - 3 \notin current .. (p - 1)
        BY <1>4, <1>6, <3>1
    <3>3. u[1] - 3 = p /\ StartCodeSize(p) = 4
        BY <1>1, <1>6, <2>1, <2>2, <2>4, <3>1, <3>2
    <3> QED
        BY <2>1, <3>1, <3>3
  <2>5. PassesOver(UnitSpans(data))
      BY <1>6, <2>3, <2>4 DEF PassesOver, Open
  <2>6. begin' >= 3 /\ ShortCode(data, begin' - 3)
      BY <1>6, <2>1
  <2>7. BetweenStartCodes'
    <3>1. ShortCode(data', begin' - 3)
        BY <1>2, <2>6
    <3> QED
        BY <1>6, <2>2, <2>6, <3>1 DEF BetweenStartCodes
  <2> QED
      BY <2>2, <2>5, <2>7 DEF Means
<1>7. CASE pc = "end" /\ end' = p /\ current' = p /\ pc' = "trim" /\ UNCHANGED <<i, begin>>
  <2>1. Mark' = begin /\ Mark = begin
      BY <1>1, <1>3, <1>7
  <2>2. PassesOver(UnitSpans(data))
    <3>1. \A u \in UnitSpans(data) : u[1] \in Nat
        BY <1>1, UnitBegins
    <3> QED
        BY <1>1, <1>7, <2>1, <3>1 DEF PassesOver, Open
  <2>3. begin >= 3 /\ ShortCode(data, begin - 3) /\ begin <= i
      BY <1>1, <1>7 DEF BetweenStartCodes
  <2>4. \A q \in begin .. (p - 1) : ~ ShortCode(data, q)
    <3>1. \A q \in begin .. (p - 1) : q \in begin .. (i - 1) \/ q \in i .. (p - 1)
        BY <1>1
    <3> QED
        BY <1>1, <1>7, <3>1
  <2>5. StartCodeSize(p)' = StartCodeSize(p)
      BY <1>2, Zenon DEF StartCodeSize, ShortCode
  <2>6. /\ begin' = begin /\ end' = p /\ current' = p
        /\ ShortCode(data', begin' - 3)
        /\ current' = Size' \/ StartCodeSize(p)' # 0
        /\ \A q \in begin' .. (current' - 1) : ~ ShortCode(data', q)
        /\ \A q \in end' .. (current' - 1) : data'[q] = 0
    <3>1. \A q \in p .. (p - 1) : data'[q] = 0
        OBVIOUS
    <3> QED
        BY <1>2, <1>7, <2>3, <2>4, <2>5, <3>1
  <2>7. BetweenStartCodes'
    <3>1. StartCodeSize(current)' = StartCodeSize(p)'
        BY <1>2, <1>7, Zenon DEF StartCodeSize, ShortCode
    <3> QED
        BY <1>1, <1>7, <2>3, <2>6, <3>1 DEF BetweenStartCodes
  <2> QED
      BY <1>1, <2>1, <2>2, <2>7 DEF Means
<1> QED
    BY <1>5, <1>6, <1>7, Zenon DEF Located

(* A turn that only moves on.                                              *)
LEMMA SearchGoesOn ==
  ASSUME IInv, AtStartCode, mode = "AnnexB", Searching, Kept, handed' = handed,
         i' \in Nat, i <= i', pc' = pc, current' = current, begin' = begin, end' = end
  PROVE  Means(UnitSpans(data)) /\ BetweenStartCodes' /\ Mark' \in Nat
<1>1. DataTyped /\ Size \in Nat /\ i \in Nat /\ current \in Nat /\ begin \in Nat /\ end \in Nat
      /\ BetweenStartCodes /\ Mark \in Nat
    BY AnnexBState
<1>2. data' = data /\ mode' = mode
    BY DEF Kept
<1>3. Mark' = Mark
    BY <1>2 DEF Mark, Skip
<1>4. PassesOver(UnitSpans(data))
  <2>1. \A u \in UnitSpans(data) : u[1] \in Nat
      BY <1>1, UnitBegins
  <2> QED
      BY <1>1, <1>3, <2>1 DEF PassesOver, Open, Searching
<1>5. BetweenStartCodes'
  <2>1. ShortCode(data', begin') <=> ShortCode(data, begin)
      BY <1>2
  <2>2. pc' \in {"start", "end"}
      BY DEF Searching
  <2>3. /\ pc = "start" => current <= i
        /\ pc = "end" => begin >= 3 /\ ShortCode(data, begin - 3) /\ begin <= i
      BY <1>1 DEF BetweenStartCodes
  <2>4. /\ pc' = "start" => current' <= i'
        /\ pc' = "end" => begin' >= 3 /\ ShortCode(data', begin' - 3) /\ begin' <= i'
      BY <1>1, <1>2, <2>3
  <2> QED
      BY <2>2, <2>4 DEF BetweenStartCodes
<1> QED
    BY <1>1, <1>3, <1>4, <1>5 DEF Means

LEMMA ScanLanesMeans ==
  ASSUME IInv, AtStartCode, mode = "AnnexB", ScanLanes, UNCHANGED <<mode, cut>>
  PROVE  Means(UnitSpans(data)) /\ BetweenStartCodes' /\ Mark' \in Nat
<1>1. DataTyped /\ Size \in Nat /\ i \in Nat /\ i <= Size
    BY AnnexBState
<1>2. /\ Searching /\ i + LaneBytes <= Size /\ handed' = handed /\ Kept
      /\ IF Matches(i) = {} THEN i' = i + Stride /\ UNCHANGED <<pc, current, begin, end>>
                            ELSE Located(i + Min(Matches(i)) - 2)
    BY Zenon DEF ScanLanes, Kept
<1>3. Matches(i) = {j \in Lanes : j >= 2 /\ ShortCode(data, i + j - 2)}
    BY <1>1, <1>2, MatchesAreStartCodes
<1>4. CASE Matches(i) = {}
  <2>1. Stride \in Nat
      BY Widths DEF Stride
  <2>2. i' = i + Stride /\ pc' = pc /\ current' = current /\ begin' = begin /\ end' = end
      BY <1>2, <1>4
  <2> QED
      BY <1>1, <1>2, <2>1, <2>2, SearchGoesOn
<1>5. CASE Matches(i) # {}
  <2> DEFINE p == i + Min(Matches(i)) - 2
  <2>1. Min(Matches(i)) \in Matches(i) /\ \A j \in Matches(i) : Min(Matches(i)) <= j
    <3>1. Matches(i) \subseteq Nat
        BY <1>3, Widths DEF Lanes
    <3> QED
        BY <1>5, <3>1, MinIs
  <2>2. Min(Matches(i)) \in Lanes /\ Min(Matches(i)) >= 2 /\ ShortCode(data, p)
      BY <1>3, <2>1
  <2>3. p \in Nat /\ i <= p /\ p + 3 <= Size /\ Min(Matches(i)) = p - i + 2
      BY <1>1, <2>2, ShortCodeIn, Widths DEF Lanes
  <2>4. StartCodeSize(p) # 0
    <3> HIDE DEF p
    <3> QED
        BY <1>1, <2>2, <2>3, StartCodeSizeIs
  <2>5. ASSUME NEW q \in i .. (p - 1) PROVE ~ ShortCode(data, q)
    <3>1. q - i + 2 \in Lanes /\ q - i + 2 >= 2 /\ i + (q - i + 2) - 2 = q /\ q - i + 2 < p - i + 2
        BY <1>1, <2>2, <2>3, Widths DEF Lanes
    <3>2. q - i + 2 \notin Matches(i)
        BY <1>1, <2>1, <2>2, <2>3, <3>1, Widths DEF Lanes
    <3> QED
        BY <1>3, <3>1, <3>2
  <2>6. Located(p)
      BY <1>2, <1>5
  <2>7. p <= Size
      BY <1>1, <2>3
  <2> HIDE DEF p
  <2> QED
      BY <1>2, <2>3, <2>4, <2>5, <2>6, <2>7, LocatedMeans
<1> QED
    BY <1>4, <1>5

LEMMA ScanBytesMeans ==
  ASSUME IInv, AtStartCode, mode = "AnnexB", ScanBytes \/ NotFound, UNCHANGED <<mode, cut>>
  PROVE  Means(UnitSpans(data)) /\ BetweenStartCodes' /\ Mark' \in Nat
<1>1. DataTyped /\ Size \in Nat /\ i \in Nat /\ i <= Size
    BY AnnexBState
<1>2. Searching /\ handed' = handed /\ Kept
    BY Zenon DEF ScanBytes, NotFound, Kept
<1>3. CASE NotFound
  <2>1. Located(Size) /\ i + 3 > Size
      BY <1>3 DEF NotFound
  <2>2. ASSUME NEW q \in i .. (Size - 1) PROVE ~ ShortCode(data, q)
      BY <1>1, <2>1, ShortCodeIn
  <2> QED
      BY <1>1, <1>2, <2>1, <2>2, LocatedMeans
<1>4. CASE ScanBytes /\ StartCodeSize(i) # 0
  <2>1. Located(i) /\ \A q \in i .. (i - 1) : ~ ShortCode(data, q)
      BY <1>1, <1>4 DEF ScanBytes
  <2> QED
      BY <1>1, <1>2, <1>4, <2>1, LocatedMeans
<1>5. CASE ScanBytes /\ StartCodeSize(i) = 0
  <2>1. i' = i + 1 /\ pc' = pc /\ current' = current /\ begin' = begin /\ end' = end
      BY <1>5, Zenon DEF ScanBytes
  <2> QED
      BY <1>1, <1>2, <2>1, SearchGoesOn
<1> QED
    BY <1>3, <1>4, <1>5

(* The trimmed unit between two start codes.                               *)
LEMMA TrimState ==
  ASSUME IInv, AtStartCode, mode = "AnnexB", pc = "trim"
  PROVE  /\ begin >= 3 /\ ShortCode(data, begin - 3) /\ begin <= end /\ end <= current
         /\ current = Size \/ StartCodeSize(current) # 0
         /\ \A p \in begin .. (current - 1) : ~ShortCode(data, p)
         /\ \A p \in end .. (current - 1) : data[p] = 0
         /\ Mark = begin
         /\ \A u \in UnitSpans(data) : begin <= u[1] /\ u[1] < current + 3 => u[1] = begin
<1>1. /\ DataTyped /\ Size \in Nat /\ current \in Nat /\ current <= Size
      /\ begin \in Nat /\ end \in Nat /\ BetweenStartCodes /\ Mark = begin
    BY AnnexBState
<1>2. /\ begin >= 3 /\ ShortCode(data, begin - 3) /\ begin <= end /\ end <= current
      /\ current = Size \/ StartCodeSize(current) # 0
      /\ \A p \in begin .. (current - 1) : ~ShortCode(data, p)
      /\ \A p \in end .. (current - 1) : data[p] = 0
    BY <1>1, Zenon DEF BetweenStartCodes
<1>3. ASSUME NEW u \in UnitSpans(data), begin <= u[1], u[1] < current + 3 PROVE u[1] = begin
  <2>1. u[1] \in Nat /\ u[1] >= 3 /\ ShortCode(data, u[1] - 3) /\ u[1] - 3 \in Nat
      BY <1>1, UnitBegins
  <2>2. u[1] - 3 \notin begin .. (current - 1)
      BY <1>2, <2>1
  <2>3. begin - 3 \in Nat /\ ~ ShortCode(data, begin - 3 + 1) /\ ~ ShortCode(data, begin - 3 + 2)
      BY <1>1, <1>2, StartCodesApart
  <2>4. u[1] - 3 \in {begin - 3, begin - 3 + 1, begin - 3 + 2}
      BY <1>1, <1>3, <2>1, <2>2
  <2>5. u[1] - 3 = begin - 3
      BY <2>1, <2>3, <2>4
  <2> QED
      BY <1>1, <2>1, <2>5
<1> QED
    BY <1>1, <1>2, <1>3, Zenon

LEMMA TrimMeans ==
  ASSUME IInv, AtStartCode, mode = "AnnexB", Trim, UNCHANGED <<mode, cut>>
  PROVE  Means(UnitSpans(data)) /\ BetweenStartCodes' /\ Mark' \in Nat
<1>1. /\ DataTyped /\ Size \in Nat /\ current \in Nat /\ current <= Size
      /\ begin \in Nat /\ end \in Nat /\ Mark \in Nat
    BY AnnexBState
<1>2. /\ pc = "trim" /\ pc' = "trim" /\ end > begin /\ end' = end - 1 /\ data[end - 1] = 0
      /\ i' = i /\ current' = current /\ begin' = begin /\ handed' = handed
      /\ data' = data /\ mode' = mode
    BY DEF Trim, TrailingZero
<1>3. /\ begin >= 3 /\ ShortCode(data, begin - 3) /\ begin <= end /\ end <= current
      /\ current = Size \/ StartCodeSize(current) # 0
      /\ \A p \in begin .. (current - 1) : ~ShortCode(data, p)
      /\ \A p \in end .. (current - 1) : data[p] = 0
      /\ Mark = begin
    BY <1>2, TrimState
<1>4. Mark' = begin
    BY <1>2 DEF Mark
<1>5. PassesOver(UnitSpans(data))
  <2>1. \A u \in UnitSpans(data) : u[1] \in Nat
      BY <1>1, UnitBegins
  <2> QED
      BY <1>1, <1>2, <1>3, <1>4, <2>1 DEF PassesOver, Open
<1>6. BetweenStartCodes'
  <2>1. \A p \in (end - 1) .. (current - 1) : p \in end .. (current - 1) \/ p = end - 1
      BY <1>1
  <2>2. \A p \in end' .. (current - 1) : data[p] = 0
      BY <1>2, <1>3, <2>1
  <2>3. StartCodeSize(current)' = StartCodeSize(current) /\ Size' = Size
      BY <1>2, Zenon DEF StartCodeSize, ShortCode, Size
  <2>4. begin' <= end' /\ end' <= current'
      BY <1>1, <1>2, <1>3
  <2>5. /\ begin' >= 3 /\ ShortCode(data', begin' - 3)
        /\ current' = Size' \/ StartCodeSize(current)' # 0
        /\ \A p \in begin' .. (current' - 1) : ~ShortCode(data', p)
        /\ \A p \in end' .. (current' - 1) : data'[p] = 0
      BY <1>2, <1>3, <2>2, <2>3, Zenon
  <2> QED
      BY <1>2, <2>4, <2>5 DEF BetweenStartCodes
<1> QED
    BY <1>1, <1>4, <1>5, <1>6 DEF Means

(* What has been trimmed to nothing is no unit.                            *)
LEMMA SkipEmptyMeans ==
  ASSUME IInv, AtStartCode, mode = "AnnexB", SkipEmpty, UNCHANGED <<mode, cut>>
  PROVE  Means(UnitSpans(data)) /\ BetweenStartCodes' /\ Mark' \in Nat
<1>1. /\ DataTyped /\ Size \in Nat /\ current \in Nat /\ current <= Size
      /\ begin \in Nat /\ end \in Nat /\ Mark \in Nat
    BY AnnexBState
<1>2. /\ pc = "trim" /\ pc' = "start" /\ begin >= end /\ i' = current
      /\ current' = current /\ begin' = begin /\ end' = end /\ handed' = handed
      /\ data' = data /\ mode' = mode
    BY DEF SkipEmpty
<1>3. /\ begin >= 3 /\ ShortCode(data, begin - 3) /\ begin <= end /\ end <= current
      /\ current = Size \/ StartCodeSize(current) # 0
      /\ \A p \in begin .. (current - 1) : ~ShortCode(data, p)
      /\ \A p \in end .. (current - 1) : data[p] = 0
      /\ Mark = begin
      /\ \A u \in UnitSpans(data) : begin <= u[1] /\ u[1] < current + 3 => u[1] = begin
    BY <1>2, TrimState
<1>4. Mark' = current + 3
    BY <1>2 DEF Mark, Skip
<1>5. ASSUME NEW u \in UnitSpans(data), Mark <= u[1], u[1] < Mark' PROVE FALSE
  <2>1. u[1] = begin
      BY <1>3, <1>4, <1>5
  <2>2. IsUnit(data, begin, u[2]) /\ u[2] \in Nat
      BY <1>1, <2>1, UnitSpansAre
  <2>3. begin < u[2] /\ data[u[2] - 1] # 0 /\ \E m \in u[2] .. Size : ReachesTo(u[2], begin, m)
      BY <2>2, UnitIs
  <2>4. PICK m \in u[2] .. Size : ReachesTo(u[2], begin, m)
      BY <2>3
  <2>5. \A p \in begin .. (m - 1) : ~ ShortCode(data, p)
      BY <2>4 DEF ReachesTo
  <2>6. current < u[2]
    <3> SUFFICES ASSUME u[2] <= current PROVE FALSE
        BY <1>1, <2>2
    <3>1. u[2] - 1 \in end .. (current - 1)
        BY <1>1, <1>2, <1>3, <2>2, <2>3
    <3> QED
        BY <1>3, <2>3, <3>1
  <2>7. current # Size
      BY <1>1, <2>2, <2>4, <2>6
  <2>8. CASE ShortCode(data, current)
    <3>1. current \in begin .. (m - 1)
        BY <1>1, <1>3, <2>2, <2>4, <2>6
    <3> QED
        BY <2>5, <2>8, <3>1
  <2>9. CASE data[current] = 0 /\ ShortCode(data, current + 1)
    <3>1. current + 1 \notin begin .. (m - 1)
        BY <2>5, <2>9
    <3>2. u[2] - 1 = current
        BY <1>1, <1>3, <2>2, <2>4, <2>6, <3>1
    <3> QED
        BY <2>3, <2>9, <3>2
  <2> QED
      BY <1>1, <1>3, <2>7, <2>8, <2>9, StartCodeAt
<1>6. PassesOver(UnitSpans(data))
  <2>1. Mark <= Mark'
      BY <1>1, <1>3, <1>4
  <2> QED
      BY <1>2, <1>5, <2>1 DEF PassesOver, Open
<1>7. BetweenStartCodes'
    BY <1>1, <1>2 DEF BetweenStartCodes
<1> QED
    BY <1>1, <1>4, <1>6, <1>7 DEF Means

LEMMA YieldMeans ==
  ASSUME IInv, AtStartCode, mode = "AnnexB", Yield, UNCHANGED <<mode, cut>>
  PROVE  Means(UnitSpans(data)) /\ BetweenStartCodes' /\ Mark' \in Nat
<1>1. /\ DataTyped /\ Size \in Nat /\ current \in Nat /\ current <= Size
      /\ begin \in Nat /\ end \in Nat /\ Mark \in Nat
    BY AnnexBState
<1>2. /\ pc = "trim" /\ pc' = "ready" /\ begin < end /\ ~ (end > begin /\ data[end - 1] = 0)
      /\ i' = i /\ current' = current /\ begin' = begin /\ end' = end
      /\ handed' = Append(handed, <<begin, end>>)
      /\ data' = data /\ mode' = mode
    BY DEF Yield, TrailingZero
<1>3. /\ begin >= 3 /\ ShortCode(data, begin - 3) /\ begin <= end /\ end <= current
      /\ current = Size \/ StartCodeSize(current) # 0
      /\ \A p \in begin .. (current - 1) : ~ShortCode(data, p)
      /\ \A p \in end .. (current - 1) : data[p] = 0
      /\ Mark = begin
      /\ \A u \in UnitSpans(data) : begin <= u[1] /\ u[1] < current + 3 => u[1] = begin
    BY <1>2, TrimState
<1>4. Mark' = current + 3
    BY <1>2 DEF Mark, Skip
<1>5. \E m \in end .. Size : ReachesTo(end, begin, m)
  <2>1. CASE current = Size \/ ShortCode(data, current)
    <3>1. ReachesTo(end, begin, current) /\ current \in end .. Size
        BY <1>1, <1>3, <2>1 DEF ReachesTo
    <3> QED
        BY <3>1
  <2>2. CASE data[current] = 0 /\ ShortCode(data, current + 1) /\ ~ ShortCode(data, current)
    <3>1. current + 1 + 3 <= Size
        BY <1>1, <2>2, ShortCodeIn
    <3>2. PICK m \in Nat : m = current + 1
        BY <1>1
    <3>3. ReachesTo(end, begin, m)
      <4>1. /\ \A k \in end .. (m - 1) : k \in end .. (current - 1) \/ k = current
            /\ \A k \in begin .. (m - 1) : k \in begin .. (current - 1) \/ k = current
          BY <1>1, <3>2
      <4>2. \A k \in end .. (m - 1) : data[k] = 0
          BY <1>3, <2>2, <4>1, Zenon
      <4>3. \A k \in begin .. (m - 1) : ~ ShortCode(data, k)
          BY <1>3, <2>2, <4>1, Zenon
      <4> QED
          BY <2>2, <3>2, <4>2, <4>3, Zenon DEF ReachesTo
    <3>4. m \in end .. Size
        BY <1>1, <1>3, <3>1, <3>2
    <3> QED
        BY <3>3, <3>4
  <2> QED
      BY <1>1, <1>3, <2>1, <2>2, StartCodeAt
<1>6. data[end - 1] # 0
    BY <1>1, <1>2
<1>7. IsUnit(data, begin, end)
    BY <1>2, <1>3, <1>5, <1>6, UnitIs
<1>8. <<begin, end>> \in UnitSpans(data)
  <2>1. end <= Size
      BY <1>1, <1>3
  <2> QED
      BY <1>1, <1>3, <1>7, <2>1, UnitSpansAre
<1>9. Takes(UnitSpans(data), <<begin, end>>)
  <2> DEFINE x == <<begin, end>>
  <2>1. x[1] = begin /\ x \in UnitSpans(data)
      BY <1>8
  <2>2. ASSUME NEW u \in UnitSpans(data), Mark <= u[1], u[1] < Mark' PROVE u = x
    <3>1. u[1] = x[1]
        BY <1>3, <1>4, <2>1, <2>2
    <3> HIDE DEF x
    <3> QED
        BY <1>1, <2>1, <3>1, UnitSpansAre DEF Distinct
  <2>3. Mark <= x[1] /\ x[1] < Mark'
      BY <1>1, <1>3, <1>4, <2>1
  <2>4. handed' = Append(handed, x)
      BY <1>2
  <2> HIDE DEF x
  <2>5. Takes(UnitSpans(data), x)
      BY <1>2, <2>2, <2>3, <2>4 DEF Takes, Open
  <2> QED
      BY <2>5 DEF x
<1>10. BetweenStartCodes'
    BY <1>2 DEF BetweenStartCodes
<1> QED
    BY <1>1, <1>4, <1>8, <1>9, <1>10 DEF Means

LEMMA AdvanceMeans ==
  ASSUME IInv, AtStartCode, mode = "AnnexB", Advance, UNCHANGED <<mode, cut>>
  PROVE  Means(UnitSpans(data)) /\ BetweenStartCodes' /\ Mark' \in Nat
<1>1. /\ DataTyped /\ current \in Nat /\ Mark \in Nat
    BY AnnexBState
<1>2. /\ pc = "ready" /\ pc' = "start" /\ i' = current
      /\ current' = current /\ handed' = handed /\ data' = data /\ mode' = mode
    BY DEF Advance
<1>3. Mark' = Mark
    BY <1>2 DEF Mark, Skip
<1>4. PassesOver(UnitSpans(data))
  <2>1. \A u \in UnitSpans(data) : u[1] \in Nat
      BY <1>1, UnitBegins
  <2> QED
      BY <1>1, <1>2, <1>3, <2>1 DEF PassesOver, Open
<1>5. BetweenStartCodes'
    BY <1>1, <1>2 DEF BetweenStartCodes
<1> QED
    BY <1>1, <1>3, <1>4, <1>5 DEF Means

(* Every turn of the search is a step of the stream.                       *)
LEMMA SearchFollows ==
  ASSUME IInv, AtStartCode, SearchAnnexB
  PROVE  StreamStep /\ AtStartCode'
<1>1. mode = "AnnexB" /\ Locate /\ UNCHANGED <<mode, cut>>
    BY DEF SearchAnnexB
<1>2. Means(UnitSpans(data)) /\ BetweenStartCodes' /\ Mark' \in Nat
    BY <1>1, ScanLanesMeans, ScanBytesMeans, TrimMeans, SkipEmptyMeans, YieldMeans, AdvanceMeans
       DEF Locate
<1>3. Kept
    BY <1>1 DEF Locate, ScanLanes, ScanBytes, NotFound, Trim, SkipEmpty, Yield, Advance, Kept
<1>4. Counted(UnitSpans(data)) /\ Mark \in Nat /\ handed \in Seq(Spans(data)) /\ DataTyped
    BY <1>1, AnnexBState
<1>5. Distinct(UnitSpans(data))
    BY <1>4, UnitSpansAre
<1>6. StreamStep /\ units' = InOrder(UnitSpans(data))
      /\ Len(handed') = Cardinality(Before(UnitSpans(data), Mark'))
    BY <1>2, <1>3, <1>4, <1>5, StreamFollows
<1>7. UnitSpans(data)' = UnitSpans(data) /\ data' = data
    BY <1>3, Zenon DEF Kept, UnitSpans
<1>8. Counted(UnitSpans(data))'
  <2>1. InOrder(UnitSpans(data))' = InOrder(UnitSpans(data))
      BY <1>7
  <2>2. {u \in UnitSpans(data) : u[1] < Mark}' = Before(UnitSpans(data), Mark')
      BY <1>7, Zenon DEF Before
  <2> QED
      BY <1>6, <2>1, <2>2, Zenon DEF Counted
<1> QED
    BY <1>2, <1>6, <1>8, Zenon DEF AtStartCode

-----------------------------------------------------------------------------
(* The search for OBUs between start codes.                                *)

(* The OBUs between start codes.                                           *)
IsObu(b, e) ==
  /\ b >= 3 /\ ShortCode(data, b - 3) /\ b < e
  /\ e = Size \/ ShortCode(data, e)
  /\ \A k \in b .. (e - 1) : ~ ShortCode(data, k)

LEMMA ObusAre ==
  ASSUME DataTyped
  PROVE  /\ Distinct(ObusBetweenStartCodes(data))
         /\ \A u \in ObusBetweenStartCodes(data) :
              /\ u = <<u[1], u[2]>> /\ u[1] \in Nat /\ u[2] \in Nat /\ u[2] <= Size
              /\ IsObu(u[1], u[2])
         /\ \A b, e \in Nat : e <= Size /\ IsObu(b, e) => <<b, e>> \in ObusBetweenStartCodes(data)
<1>1. Size \in Nat /\ Size = Cardinality(DOMAIN data)
    BY DEF DataTyped, Size
<1>2. ASSUME NEW b \in Nat, NEW e \in Nat, NEW f \in Nat, IsObu(b, e), IsObu(b, f), f <= Size
      PROVE  ~ (e < f)
  <2> SUFFICES ASSUME e < f PROVE FALSE
      OBVIOUS
  <2>1. e # Size /\ ShortCode(data, e) /\ b < e
      BY <1>1, <1>2 DEF IsObu
  <2>2. e \in b .. (f - 1)
      BY <2>1
  <2> QED
      BY <1>2, <2>1, <2>2 DEF IsObu
<1>3. ObusBetweenStartCodes(data) = {s \in Spans(data) : IsObu(s[1], s[2])}
    BY <1>1, Zenon DEF ObusBetweenStartCodes, IsObu
<1>4. ASSUME NEW b \in Nat, NEW e \in Nat
      PROVE  <<b, e>> \in ObusBetweenStartCodes(data) <=> b <= e /\ e <= Size /\ IsObu(b, e)
  <2>1. <<b, e>>[1] = b /\ <<b, e>>[2] = e
      OBVIOUS
  <2>2. <<b, e>> \in Spans(data) <=> b <= e /\ e <= Size
      BY <1>1 DEF Spans
  <2>3. <<b, e>> \in ObusBetweenStartCodes(data)
          <=> <<b, e>> \in Spans(data) /\ IsObu(<<b, e>>[1], <<b, e>>[2])
      BY <1>3, Zenon
  <2> QED
      BY <2>1, <2>2, <2>3, Zenon
<1>5. ASSUME NEW b \in Nat, NEW e \in Nat, NEW f \in Nat,
             <<b, e>> \in ObusBetweenStartCodes(data), <<b, f>> \in ObusBetweenStartCodes(data)
      PROVE  e = f
  <2>1. ~ (e < f) /\ ~ (f < e)
      BY <1>2, <1>4, <1>5, Zenon
  <2> QED
      BY <2>1
<1>6. /\ Distinct(ObusBetweenStartCodes(data))
      /\ \A u \in ObusBetweenStartCodes(data) :
           u = <<u[1], u[2]>> /\ u[1] \in Nat /\ u[2] \in Nat /\ u[2] <= Size
  <2> DEFINE U == ObusBetweenStartCodes(data)
  <2>1. U \subseteq Spans(data) /\ \A b, e, f \in Nat : <<b, e>> \in U /\ <<b, f>> \in U => e = f
      BY <1>3, <1>5
  <2> HIDE DEF U
  <2>2. /\ Distinct(U)
        /\ \A u \in U : u = <<u[1], u[2]>> /\ u[1] \in Nat /\ u[2] \in Nat /\ u[2] <= Size
      BY <2>1, SpansDistinct
  <2> QED
      BY <2>2 DEF U
<1>7. \A u \in ObusBetweenStartCodes(data) : IsObu(u[1], u[2])
    BY <1>3, Zenon
<1>8. \A b, e \in Nat : IsObu(b, e) => b <= e
    BY DEF IsObu
<1> QED
    BY <1>4, <1>6, <1>7, <1>8, Zenon

LEMMA ObuMeans ==
  ASSUME IInv, AtObu, mode = "ObuStartCodes", pc = "start", LocateObuStartCodes, Kept
  PROVE  Means(ObusBetweenStartCodes(data)) /\ Mark' \in Nat
<1> DEFINE start == FindShortCode(current)
           next == FindShortCode(start + 3)
           U == ObusBetweenStartCodes(data)
<1>1. DataTyped /\ Size \in Nat /\ current \in Nat
    BY SizedState
<1>2. Mark = current + 3 /\ Mark' = current' + 3
    BY DEF Mark, Skip, LocateObuStartCodes, Finish, FinishWith, YieldSpan, Kept
<1>3. /\ start \in Nat /\ start <= Size
      /\ start = Size \/ (ShortCode(data, start) /\ current <= start)
      /\ \A p \in current .. (start - 1) : ~ ShortCode(data, p)
    BY <1>1, FoundCode
<1>4. /\ next \in Nat /\ next <= Size
      /\ next = Size \/ (ShortCode(data, next) /\ start + 3 <= next)
      /\ \A p \in (start + 3) .. (next - 1) : ~ ShortCode(data, p)
  <2>1. start + 3 \in Nat
      BY <1>3
  <2> HIDE DEF start
  <2> QED
      BY <1>1, <2>1, FoundCode
<1>5. \A u \in U : /\ u = <<u[1], u[2]>> /\ u[1] \in Nat /\ u[2] \in Nat /\ u[2] <= Size
                   /\ u[1] >= 3 /\ ShortCode(data, u[1] - 3) /\ u[1] < u[2]
                   /\ \A k \in u[1] .. (u[2] - 1) : ~ ShortCode(data, k)
    BY <1>1, ObusAre, Zenon DEF IsObu
<1>6. \/ start = Size /\ Finish
      \/ start < Size /\ start + 3 >= next /\ current' = next /\ UNCHANGED <<pc, begin, end, handed>>
      \/ start < Size /\ start + 3 < next /\ YieldSpan(start + 3, next)
    BY Zenon DEF LocateObuStartCodes
<1>7. Distinct(U) /\ \A b, e \in Nat : e <= Size /\ IsObu(b, e) => <<b, e>> \in U
    BY <1>1, ObusAre
<1> HIDE DEF start, next, U
<1>8. CASE start = Size /\ Finish
  <2>1. pc' = "finished" /\ current' = current /\ handed' = handed
      BY <1>8 DEF Finish, FinishWith
  <2>2. ASSUME NEW u \in U PROVE u[1] < Mark
    <3>1. u[1] \in Nat /\ u[1] >= 3 /\ ShortCode(data, u[1] - 3) /\ u[1] < u[2] /\ u[2] <= Size
          /\ u[2] \in Nat
        BY <1>5
    <3>2. u[1] - 3 \notin current .. (start - 1)
        BY <1>3, <3>1
    <3> QED
        BY <1>1, <1>2, <1>8, <3>1, <3>2
  <2>3. Ends(U)
      BY <1>2, <2>1, <2>2 DEF Ends, Open
  <2> QED
      BY <1>1, <1>2, <2>1, <2>3 DEF Means, U
<1>9. ASSUME start < Size, NEW u \in U, current + 3 <= u[1], u[1] < next + 3
      PROVE  u[1] = start + 3
  <2>1. u[1] \in Nat /\ u[1] >= 3 /\ ShortCode(data, u[1] - 3) /\ u[1] - 3 \in Nat
      BY <1>5
  <2>2. u[1] - 3 \notin current .. (start - 1) /\ u[1] - 3 \notin (start + 3) .. (next - 1)
      BY <1>3, <1>4, <2>1, Zenon
  <2>3. ~ ShortCode(data, start + 1) /\ ~ ShortCode(data, start + 2)
      BY <1>1, <1>3, <1>9, StartCodesApart
  <2>4. u[1] - 3 \in {start, start + 1, start + 2}
      BY <1>1, <1>3, <1>4, <1>9, <2>1, <2>2
  <2>5. u[1] - 3 = start
      BY <2>1, <2>3, <2>4
  <2> QED
      BY <1>3, <2>1, <2>5
<1>10. CASE start < Size /\ start + 3 >= next /\ current' = next /\ UNCHANGED <<pc, begin, end, handed>>
  <2>1. next = start + 3
      BY <1>1, <1>3, <1>4, <1>10, ShortCodeIn
  <2>2. ASSUME NEW u \in U, Mark <= u[1], u[1] < Mark' PROVE FALSE
    <3>1. u[1] = next /\ u[1] < u[2] /\ u[2] <= Size /\ u[2] \in Nat
          /\ \A k \in u[1] .. (u[2] - 1) : ~ ShortCode(data, k)
        BY <1>2, <1>5, <1>9, <1>10, <2>1, <2>2
    <3>2. next \in u[1] .. (u[2] - 1)
        BY <1>4, <3>1
    <3> QED
        BY <1>1, <1>4, <3>1, <3>2
  <2>3. Mark <= Mark'
      BY <1>1, <1>2, <1>3, <1>10, <2>1
  <2>4. PassesOver(U)
      BY <1>10, <2>2, <2>3 DEF PassesOver, Open
  <2> QED
      BY <1>2, <1>4, <1>10, <2>4 DEF Means, U
<1>11. CASE start < Size /\ start + 3 < next /\ YieldSpan(start + 3, next)
  <2> DEFINE x == <<start + 3, next>>
  <2>1. pc' = "ready" /\ current' = next /\ handed' = Append(handed, x)
      BY <1>11 DEF YieldSpan
  <2>2. IsObu(start + 3, next)
      BY <1>1, <1>3, <1>4, <1>11 DEF IsObu
  <2>3. x \in U /\ x[1] = start + 3
    <3>1. start + 3 \in Nat
        BY <1>3
    <3> QED
        BY <1>4, <1>7, <2>2, <3>1
  <2> HIDE DEF x
  <2>4. ASSUME NEW u \in U, Mark <= u[1], u[1] < Mark' PROVE u = x
    <3>1. u[1] = x[1]
        BY <1>2, <1>9, <1>11, <2>1, <2>3, <2>4
    <3> QED
        BY <1>7, <2>3, <3>1 DEF Distinct
  <2>5. Mark <= x[1] /\ x[1] < Mark'
      BY <1>1, <1>2, <1>3, <1>4, <1>11, <2>1, <2>3
  <2>6. Takes(U, x)
      BY <2>1, <2>4, <2>5 DEF Takes, Open
  <2> QED
      BY <1>2, <1>4, <2>1, <2>3, <2>6 DEF Means, U
<1> QED
    BY <1>6, <1>8, <1>10, <1>11

-----------------------------------------------------------------------------
(* The units of a muxer, and a turn that begins where one of them ends.    *)

(* The kth unit of a stream, as the buffer holds it.                       *)
Begins(m, s, k) == EndOf(m, s, k - 1) + Skip(m)
Until(m, s, k)  == IF EndOf(m, s, k) <= Size THEN EndOf(m, s, k) ELSE Size
UnitAt(m, s, k) == <<Begins(m, s, k), Until(m, s, k)>>

IsWhole(m, s, k) ==
  /\ EndOf(m, s, k) <= Size \/ (s[k].open /\ Begins(m, s, k) < Size)
  /\ m = "LengthPrefixed" => Begins(m, s, k) < Until(m, s, k)

LEMMA WholeUnitsAre ==
  ASSUME NEW m, NEW s
  PROVE  /\ \A u \in WholeUnits(m, s, Size) : \E k \in 1 .. Len(s) : IsWhole(m, s, k) /\ u = UnitAt(m, s, k)
         /\ \A k \in 1 .. Len(s) : IsWhole(m, s, k) => UnitAt(m, s, k) \in WholeUnits(m, s, Size)
<1>1. WholeUnits(m, s, Size) = {UnitAt(m, s, k) : k \in {j \in 1 .. Len(s) : IsWhole(m, s, j)}}
  <2>1. WholeUnits(m, s, Size)
          = {UnitAt(m, s, k) :
               k \in {k \in {k \in 1 .. Len(s) :
                               EndOf(m, s, k) <= Size \/ (s[k].open /\ Begins(m, s, k) < Size)} :
                        m = "LengthPrefixed" => Begins(m, s, k) < Until(m, s, k)}}
      BY Zenon DEF WholeUnits, UnitAt, Begins, Until
  <2>2. {k \in {k \in 1 .. Len(s) :
                  EndOf(m, s, k) <= Size \/ (s[k].open /\ Begins(m, s, k) < Size)} :
           m = "LengthPrefixed" => Begins(m, s, k) < Until(m, s, k)}
          = {j \in 1 .. Len(s) : IsWhole(m, s, j)}
      BY Zenon DEF IsWhole
  <2> QED
      BY <2>1, <2>2, Zenon
<1> QED
    BY <1>1, Zenon

(* The places of a stream grow.                                            *)
LEMMA EndsGrow ==
  ASSUME NEW m \in SizedModes, NEW s \in Streams(m)
  PROVE  /\ \A k \in 1 .. Len(s) :
              /\ EndOf(m, s, k - 1) \in Nat /\ EndOf(m, s, k) \in Nat
              /\ EndOf(m, s, k - 1) < EndOf(m, s, k)
              /\ Begins(m, s, k) \in Nat /\ Begins(m, s, k) <= EndOf(m, s, k)
              /\ s[k].open \in BOOLEAN /\ (s[k].open => m = "Obu" /\ k = Len(s))
         /\ \A j, k \in 0 .. Len(s) : EndOf(m, s, j) \in Nat /\ (j <= k => EndOf(m, s, j) <= EndOf(m, s, k))
         /\ \A j, k \in 0 .. Len(s) : EndOf(m, s, j) < EndOf(m, s, k) <=> j < k
<1>1. Placed(m, s)
    BY UnitPlaces
<1>2. PICK n \in Nat : n = Len(s)
    BY <1>1 DEF Placed
<1>3. ASSUME NEW k \in 1 .. n
      PROVE  /\ EndOf(m, s, k - 1) \in Nat /\ EndOf(m, s, k) \in Nat
             /\ EndOf(m, s, k - 1) < EndOf(m, s, k)
             /\ Begins(m, s, k) \in Nat /\ Begins(m, s, k) <= EndOf(m, s, k)
             /\ s[k].open \in BOOLEAN /\ (s[k].open => m = "Obu" /\ k = n)
  <2>1. k - 1 \in 0 .. n /\ k \in 0 .. n
      BY <1>2
  <2>2. /\ EndOf(m, s, k - 1) \in Nat /\ EndOf(m, s, k) \in Nat /\ Skip(m) \in Nat
        /\ s[k] \in WrittenUnits(m) /\ (k < n => ~ s[k].open)
        /\ EndOf(m, s, k) = EndOf(m, s, k - 1) + Len(s[k].bytes)
      BY <1>1, <1>2, <2>1, Zenon DEF Placed
  <2>3. /\ Len(s[k].bytes) \in Nat /\ Len(s[k].bytes) >= 1 /\ Len(s[k].bytes) >= Skip(m)
        /\ s[k].open \in BOOLEAN /\ (s[k].open => m = "Obu")
      BY <2>2, UnitLengths
  <2>4. PICK l \in Nat, a \in Nat, b \in Nat, f \in Nat :
          l = Len(s[k].bytes) /\ a = EndOf(m, s, k - 1) /\ b = EndOf(m, s, k) /\ f = Skip(m)
      BY <2>2, <2>3
  <2>5. b = a + l /\ l >= 1 /\ l >= f
      BY <2>2, <2>3, <2>4
  <2>6. a < b /\ a + f \in Nat /\ a + f <= b
      BY <2>5
  <2>7. Begins(m, s, k) = a + f
      BY <2>4 DEF Begins
  <2>8. k < n \/ k = n
      BY <1>2
  <2> QED
      BY <2>2, <2>3, <2>4, <2>6, <2>7, <2>8, Zenon
<1>4. \A k \in 0 .. n : EndOf(m, s, k) \in Nat
    BY <1>1, <1>2 DEF Placed
<1>5. ASSUME NEW j \in 0 .. n, NEW k \in 0 .. n
      PROVE  /\ j <= k => EndOf(m, s, j) <= EndOf(m, s, k)
             /\ j < k => EndOf(m, s, j) < EndOf(m, s, k)
  <2> DEFINE S == {x \in 0 .. n : /\ j <= x => EndOf(m, s, j) <= EndOf(m, s, x)
                                  /\ j < x => EndOf(m, s, j) < EndOf(m, s, x)}
  <2>1. 0 \in S
      BY <1>2, <1>4
  <2>2. ASSUME NEW x \in 1 .. n, x - 1 \in S PROVE x \in S
    <3>1. PICK v \in Nat, w \in Nat, t \in Nat :
            v = EndOf(m, s, x) /\ w = EndOf(m, s, x - 1) /\ t = EndOf(m, s, j) /\ w < v
        BY <1>3, <1>4
    <3>2. j <= x - 1 => t <= w
        BY <2>2, <3>1
    <3>3. j < x => t < v
        BY <3>1, <3>2
    <3>4. j = x => t = v
        BY <3>1
    <3>5. j <= x => t <= v
        BY <3>1, <3>3, <3>4
    <3>6. x \in 0 .. n
        BY <1>2
    <3> QED
        BY <3>1, <3>3, <3>5, <3>6
  <2> HIDE DEF S
  <2>3. \A x \in 0 .. n : x \in S
      BY <1>2, <2>1, <2>2, Everywhere
  <2>4. k \in S
      BY <2>3
  <2> QED
      BY <2>4 DEF S
<1>6. ASSUME NEW j \in 0 .. n, NEW k \in 0 .. n
      PROVE  EndOf(m, s, j) < EndOf(m, s, k) <=> j < k
  <2> SUFFICES ASSUME EndOf(m, s, j) < EndOf(m, s, k), ~ (j < k) PROVE FALSE
      BY <1>5
  <2>1. k <= j
      OBVIOUS
  <2>2. EndOf(m, s, k) <= EndOf(m, s, j)
      BY <1>5, <2>1
  <2> QED
      BY <1>4, <2>2
<1> QED
    BY <1>2, <1>3, <1>4, <1>5, <1>6, Zenon

(* They are spans of the buffer, told apart by where they begin.           *)
LEMMA WholeUnitsDistinct ==
  ASSUME DataTyped, NEW m \in SizedModes, NEW s \in Streams(m)
  PROVE  /\ Distinct(WholeUnits(m, s, Size)) /\ WholeUnits(m, s, Size) \subseteq Spans(data)
         /\ \A k \in 0 .. Len(s) : \A j \in 1 .. Len(s) :
              Begins(m, s, j) < EndOf(m, s, k) + Skip(m) <=> j <= k
<1> DEFINE U == WholeUnits(m, s, Size)
<1>0. Len(s) \in Nat /\ Skip(m) \in Nat
  <2>1. Placed(m, s)
      BY UnitPlaces
  <2> QED
      BY <2>1, Zenon DEF Placed
<1>1. Size \in Nat /\ Size = Cardinality(DOMAIN data)
    BY DEF DataTyped, Size
<1>2. Spans(data) = {x \in (0 .. Size) \X (0 .. Size) : x[1] <= x[2]}
    BY <1>1, Zenon DEF Spans
<1>3. \A u \in U : \E k \in 1 .. Len(s) : IsWhole(m, s, k) /\ u = UnitAt(m, s, k)
    BY WholeUnitsAre
<1> HIDE DEF U
<1>4. ASSUME NEW k \in 1 .. Len(s), IsWhole(m, s, k) PROVE UnitAt(m, s, k) \in Spans(data)
  <2>1. PICK a \in Nat, e \in Nat : a = Begins(m, s, k) /\ e = EndOf(m, s, k) /\ a <= e
      BY EndsGrow
  <2>2. PICK f : f = Until(m, s, k)
      OBVIOUS
  <2>3. e <= Size \/ a < Size
      BY <1>4, <2>1, Zenon DEF IsWhole
  <2>4. f = IF e <= Size THEN e ELSE Size
      BY <2>1, <2>2, Zenon DEF Until
  <2>5. a \in 0 .. Size /\ f \in 0 .. Size /\ a <= f
      BY <1>1, <2>1, <2>3, <2>4
  <2>6. <<a, f>> \in Spans(data)
      BY <1>2, <2>5
  <2> QED
      BY <2>1, <2>2, <2>6, Zenon DEF UnitAt
<1>5. U \subseteq Spans(data)
    BY <1>3, <1>4
<1>6. ASSUME NEW k \in 0 .. Len(s), NEW j \in 1 .. Len(s)
      PROVE  Begins(m, s, j) < EndOf(m, s, k) + Skip(m) <=> j <= k
  <2>0. j - 1 \in 0 .. Len(s)
      BY <1>0
  <2>1. /\ EndOf(m, s, j - 1) < EndOf(m, s, k) <=> j - 1 < k
        /\ k <= j - 1 => EndOf(m, s, k) <= EndOf(m, s, j - 1)
        /\ EndOf(m, s, j - 1) \in Nat /\ EndOf(m, s, k) \in Nat
      BY <2>0, EndsGrow
  <2>2. PICK a \in Nat, b \in Nat, f \in Nat :
          a = EndOf(m, s, j - 1) /\ b = EndOf(m, s, k) /\ f = Skip(m)
      BY <1>0, <2>1
  <2>3. a < b <=> j <= k
      BY <1>0, <2>1, <2>2
  <2>4. a + f < b + f <=> a < b
      BY <2>2
  <2> QED
      BY <2>2, <2>3, <2>4, Zenon DEF Begins
<1>7. ASSUME NEW b \in Nat, NEW e \in Nat, NEW f \in Nat, <<b, e>> \in U, <<b, f>> \in U
      PROVE  e = f
  <2>1. PICK j \in 1 .. Len(s) : <<b, e>> = UnitAt(m, s, j)
      BY <1>3, <1>7
  <2>2. PICK k \in 1 .. Len(s) : <<b, f>> = UnitAt(m, s, k)
      BY <1>3, <1>7
  <2>3. b = Begins(m, s, j) /\ e = Until(m, s, j) /\ b = Begins(m, s, k) /\ f = Until(m, s, k)
      BY <2>1, <2>2 DEF UnitAt
  <2>4. j \in 0 .. Len(s) /\ k \in 0 .. Len(s) /\ j - 1 \in 0 .. Len(s) /\ k - 1 \in 0 .. Len(s)
      BY <1>0
  <2>5. /\ Begins(m, s, j) < EndOf(m, s, k - 1) + Skip(m) <=> j <= k - 1
        /\ Begins(m, s, k) < EndOf(m, s, j - 1) + Skip(m) <=> k <= j - 1
      BY <1>6, <2>4
  <2>6. EndOf(m, s, k - 1) + Skip(m) = b /\ EndOf(m, s, j - 1) + Skip(m) = b
      BY <2>3 DEF Begins
  <2>7. ~ (j <= k - 1) /\ ~ (k <= j - 1)
      BY <2>3, <2>5, <2>6
  <2>8. j = k
      BY <1>0, <2>7
  <2> QED
      BY <2>3, <2>8
<1>8. Distinct(U)
    BY <1>5, <1>7, SpansDistinct
<1> QED
    BY <1>5, <1>6, <1>8, Zenon DEF U

(* A turn that begins where the kth unit of the stream ends.               *)
TurnAt(s, k) ==
  /\ DataTyped /\ Kept /\ pc = "start"
  /\ mode \in SizedModes /\ s \in Streams(mode)
  /\ k \in 0 .. Len(s) /\ current = EndOf(mode, s, k)

LEMMA TurnIs ==
  ASSUME NEW s, NEW k, TurnAt(s, k)
  PROVE  /\ Len(s) \in Nat /\ Skip(mode) \in Nat /\ current \in Nat /\ Size \in Nat /\ k \in Nat
         /\ Mark = current + Skip(mode) /\ Mark \in Nat
         /\ pc' \notin {"end", "trim"} => Mark' = current' + Skip(mode)
         /\ \A j \in 1 .. Len(s) : Begins(mode, s, j) < Mark <=> j <= k
<1>1. Placed(mode, s)
    BY UnitPlaces DEF TurnAt
<1>2. Len(s) \in Nat /\ Skip(mode) \in Nat /\ current \in Nat /\ Size \in Nat
    BY <1>1 DEF Placed, TurnAt, DataTyped
<1>3. k \in Nat
    BY <1>2 DEF TurnAt
<1>4. Mark = current + Skip(mode)
    BY DEF Mark, TurnAt
<1>5. Mark \in Nat
    BY <1>2, <1>4
<1>6. pc' \notin {"end", "trim"} => Mark' = current' + Skip(mode)
  <2>1. mode' = mode
      BY DEF TurnAt, Kept
  <2>2. Skip(mode)' = Skip(mode)
      BY <2>1, Zenon DEF Skip
  <2>3. SUFFICES ASSUME pc' \notin {"end", "trim"} PROVE Mark' = current' + Skip(mode)
      OBVIOUS
  <2>4. Mark' = current' + Skip(mode)'
      BY <2>3, Zenon DEF Mark
  <2> QED
      BY <2>2, <2>4, Zenon
<1>7. \A j \in 1 .. Len(s) : Begins(mode, s, j) < Mark <=> j <= k
  <2>1. \A x \in 0 .. Len(s) : \A j \in 1 .. Len(s) :
              Begins(mode, s, j) < EndOf(mode, s, x) + Skip(mode) <=> j <= x
      BY WholeUnitsDistinct DEF TurnAt
  <2> QED
      BY <1>4, <2>1, Zenon DEF TurnAt
<1> QED
    BY <1>2, <1>3, <1>4, <1>5, <1>6, <1>7, Zenon

(* The unit after the kth is handed out.                                   *)
LEMMA UnitTaken ==
  ASSUME NEW s, NEW k, TurnAt(s, k), k < Len(s), IsWhole(mode, s, k + 1),
         EndOf(mode, s, k + 1) <= Size,
         YieldSpan(Begins(mode, s, k + 1), EndOf(mode, s, k + 1))
  PROVE  /\ Means(WholeUnits(mode, s, Size)) /\ Mark' \in Nat
         /\ current' = EndOf(mode, s, k + 1) /\ k + 1 \in 0 .. Len(s)
<1> DEFINE x == UnitAt(mode, s, k + 1)
<1>1. /\ Len(s) \in Nat /\ Skip(mode) \in Nat /\ current \in Nat /\ k \in Nat
      /\ Mark = current + Skip(mode) /\ Mark \in Nat
      /\ pc' \notin {"end", "trim"} => Mark' = current' + Skip(mode)
      /\ \A j \in 1 .. Len(s) : Begins(mode, s, j) < Mark <=> j <= k
    BY TurnIs
<1>2. PICK n \in 1 .. Len(s) : n = k + 1 /\ n \in 0 .. Len(s) /\ n - 1 = k
    BY <1>1
<1>3. /\ pc' = "ready" /\ current' = EndOf(mode, s, n)
      /\ handed' = Append(handed, <<Begins(mode, s, n), EndOf(mode, s, n)>>)
    BY <1>2 DEF YieldSpan
<1>4. EndOf(mode, s, n) \in Nat /\ Begins(mode, s, n) = Mark /\ current < EndOf(mode, s, n)
  <2>1. EndOf(mode, s, n) \in Nat /\ EndOf(mode, s, n - 1) < EndOf(mode, s, n)
      BY EndsGrow DEF TurnAt
  <2>2. Begins(mode, s, n) = EndOf(mode, s, k) + Skip(mode) /\ EndOf(mode, s, k) = current
      BY <1>2, Zenon DEF Begins, TurnAt
  <2> QED
      BY <1>1, <1>2, <2>1, <2>2, Zenon
<1>5. x = <<Begins(mode, s, n), EndOf(mode, s, n)>>
    BY <1>2, Zenon DEF UnitAt, Until
<1>6. x[1] = Mark
    BY <1>4, <1>5
<1>7. x \in WholeUnits(mode, s, Size)
    BY <1>2, WholeUnitsAre, Zenon
<1>8. Mark' = EndOf(mode, s, n) + Skip(mode) /\ Mark' \in Nat /\ Mark < Mark'
  <2>1. PICK a \in Nat, b \in Nat, f \in Nat :
          a = current /\ b = EndOf(mode, s, n) /\ f = Skip(mode)
      BY <1>1, <1>4
  <2>2. Mark = a + f /\ Mark' = b + f /\ a < b
      BY <1>1, <1>3, <1>4, <2>1
  <2>3. b + f \in Nat /\ a + f < b + f
      BY <2>1, <2>2
  <2> QED
      BY <2>1, <2>2, <2>3, Zenon
<1>9. ASSUME NEW u \in WholeUnits(mode, s, Size), Mark <= u[1], u[1] < Mark' PROVE u = x
  <2>1. PICK j \in 1 .. Len(s) : u = UnitAt(mode, s, j)
      BY WholeUnitsAre
  <2>2. u[1] = Begins(mode, s, j)
      BY <2>1 DEF UnitAt
  <2>3. Begins(mode, s, j) < EndOf(mode, s, n) + Skip(mode) <=> j <= n
      BY <1>2, WholeUnitsDistinct DEF TurnAt
  <2>4. j <= n
      BY <1>8, <1>9, <2>2, <2>3, Zenon
  <2>5. ~ (j <= k)
    <3>1. Begins(mode, s, j) \in Nat
        BY EndsGrow DEF TurnAt
    <3>2. ~ (Begins(mode, s, j) < Mark)
        BY <1>1, <1>9, <2>2, <3>1
    <3> QED
        BY <1>1, <3>2, Zenon
  <2>6. j = n
      BY <1>1, <1>2, <2>4, <2>5
  <2> QED
      BY <1>2, <2>1, <2>6, Zenon
<1> HIDE DEF x
<1>10. Takes(WholeUnits(mode, s, Size), x)
  <2>1. Mark <= x[1] /\ x[1] < Mark'
      BY <1>1, <1>6, <1>8
  <2>2. Open /\ Open'
      BY <1>3 DEF Open, TurnAt
  <2>3. handed' = Append(handed, x)
      BY <1>3, <1>5, Zenon
  <2> QED
      BY <1>9, <2>1, <2>2, <2>3, Zenon DEF Takes
<1> QED
    BY <1>2, <1>3, <1>7, <1>8, <1>10, Zenon DEF Means

(* It is empty, and is passed over.                                        *)
LEMMA EmptyPassed ==
  ASSUME NEW s, NEW k, TurnAt(s, k), k < Len(s), mode = "LengthPrefixed",
         Begins(mode, s, k + 1) = EndOf(mode, s, k + 1), EndOf(mode, s, k + 1) <= Size,
         current' = EndOf(mode, s, k + 1), pc' = pc, handed' = handed
  PROVE  Means(WholeUnits(mode, s, Size)) /\ Mark' \in Nat /\ k + 1 \in 0 .. Len(s)
<1>1. /\ Len(s) \in Nat /\ Skip(mode) \in Nat /\ current \in Nat /\ k \in Nat
      /\ Mark = current + Skip(mode) /\ Mark \in Nat
      /\ pc' \notin {"end", "trim"} => Mark' = current' + Skip(mode)
      /\ \A j \in 1 .. Len(s) : Begins(mode, s, j) < Mark <=> j <= k
    BY TurnIs
<1>2. PICK n \in 1 .. Len(s) : n = k + 1 /\ n \in 0 .. Len(s) /\ n - 1 = k
    BY <1>1
<1>3. EndOf(mode, s, n) \in Nat /\ current < EndOf(mode, s, n)
    BY <1>2, EndsGrow DEF TurnAt
<1>4. Mark' = EndOf(mode, s, n) + Skip(mode) /\ Mark' \in Nat /\ Mark <= Mark'
  <2>1. PICK a \in Nat, b \in Nat, f \in Nat :
          a = current /\ b = EndOf(mode, s, n) /\ f = Skip(mode)
      BY <1>1, <1>3
  <2>2. Mark = a + f /\ Mark' = b + f /\ a < b
      BY <1>1, <1>2, <1>3, <2>1 DEF TurnAt
  <2>3. b + f \in Nat /\ a + f <= b + f
      BY <2>1, <2>2
  <2> QED
      BY <2>1, <2>2, <2>3, Zenon
<1>5. ASSUME NEW u \in WholeUnits(mode, s, Size), Mark <= u[1], u[1] < Mark' PROVE FALSE
  <2>1. PICK j \in 1 .. Len(s) : u = UnitAt(mode, s, j) /\ IsWhole(mode, s, j)
      BY WholeUnitsAre
  <2>2. u[1] = Begins(mode, s, j)
      BY <2>1 DEF UnitAt
  <2>3. Begins(mode, s, j) < EndOf(mode, s, n) + Skip(mode) <=> j <= n
      BY <1>2, WholeUnitsDistinct DEF TurnAt
  <2>4. j <= n
      BY <1>4, <1>5, <2>2, <2>3, Zenon
  <2>5. ~ (j <= k)
    <3>1. Begins(mode, s, j) \in Nat
        BY EndsGrow DEF TurnAt
    <3>2. ~ (Begins(mode, s, j) < Mark)
        BY <1>1, <1>5, <2>2, <3>1
    <3> QED
        BY <1>1, <3>2, Zenon
  <2>6. j = n
      BY <1>1, <1>2, <2>4, <2>5
  <2>7. Begins(mode, s, n) < Until(mode, s, n) /\ Until(mode, s, n) = EndOf(mode, s, n)
      BY <1>2, <2>1, <2>6, Zenon DEF IsWhole, Until
  <2> QED
      BY <1>2, <1>3, <2>7
<1>6. PassesOver(WholeUnits(mode, s, Size))
  <2>1. Open /\ Open'
      BY DEF Open, TurnAt
  <2> QED
      BY <1>4, <1>5, <2>1, Zenon DEF PassesOver
<1> QED
    BY <1>2, <1>4, <1>6, Zenon DEF Means

(* Nothing whole is left, and the framer ends.                             *)
LEMMA NothingLeft ==
  ASSUME NEW s, NEW k, TurnAt(s, k),
         k < Len(s) => EndOf(mode, s, k + 1) > Size /\ ~ IsWhole(mode, s, k + 1),
         pc' \in {"finished", "failed"}, current' = current, handed' = handed,
         pc' = "failed" => cut
  PROVE  Means(WholeUnits(mode, s, Size)) /\ Mark' \in Nat
<1>1. /\ Len(s) \in Nat /\ Skip(mode) \in Nat /\ current \in Nat /\ k \in Nat /\ Size \in Nat
      /\ Mark = current + Skip(mode) /\ Mark \in Nat
      /\ pc' \notin {"end", "trim"} => Mark' = current' + Skip(mode)
      /\ \A j \in 1 .. Len(s) : Begins(mode, s, j) < Mark <=> j <= k
    BY TurnIs
<1>2. Mark' = Mark
    BY <1>1
<1>3. ASSUME NEW u \in WholeUnits(mode, s, Size) PROVE u[1] < Mark
  <2>1. PICK j \in 1 .. Len(s) : u = UnitAt(mode, s, j) /\ IsWhole(mode, s, j)
      BY WholeUnitsAre
  <2>2. u[1] = Begins(mode, s, j)
      BY <2>1 DEF UnitAt
  <2>3. SUFFICES ASSUME ~ (j <= k) PROVE FALSE
      BY <1>1, <2>2, Zenon
  <2>4. k < Len(s) /\ k + 1 \in 1 .. Len(s) /\ k + 1 <= j /\ j \in 0 .. Len(s) /\ j - 1 \in 0 .. Len(s)
        /\ k + 1 \in 0 .. Len(s)
      BY <1>1, <2>3
  <2>5. EndOf(mode, s, k + 1) <= EndOf(mode, s, j) /\ EndOf(mode, s, k + 1) \in Nat
        /\ EndOf(mode, s, j) \in Nat
      BY <2>4, EndsGrow DEF TurnAt
  <2>6. j # k + 1
      BY <2>1, <2>4, Zenon
  <2>7. EndOf(mode, s, k + 1) <= EndOf(mode, s, j - 1) /\ EndOf(mode, s, j - 1) \in Nat
    <3>1. k + 1 <= j - 1
        BY <1>1, <2>4, <2>6
    <3> QED
        BY <2>4, <3>1, EndsGrow DEF TurnAt
  <2>8. ~ (EndOf(mode, s, j) <= Size) /\ ~ (Begins(mode, s, j) < Size)
    <3>1. EndOf(mode, s, k + 1) > Size
        BY <2>4
    <3>2. PICK v \in Nat, w \in Nat, t \in Nat, f \in Nat :
            v = EndOf(mode, s, k + 1) /\ w = EndOf(mode, s, j) /\ t = EndOf(mode, s, j - 1)
            /\ f = Skip(mode)
        BY <1>1, <2>5, <2>7
    <3>3. Begins(mode, s, j) = t + f
        BY <3>2, Zenon DEF Begins
    <3>4. v > Size /\ v <= w /\ v <= t
        BY <2>5, <2>7, <3>1, <3>2
    <3>5. ~ (w <= Size) /\ ~ (t + f < Size)
        BY <1>1, <3>4
    <3> QED
        BY <3>2, <3>3, <3>5, Zenon
  <2> QED
      BY <2>1, <2>8, Zenon DEF IsWhole
<1>4. Ends(WholeUnits(mode, s, Size))
  <2>1. Open /\ ~ Open'
      BY DEF Open, TurnAt
  <2> QED
      BY <1>2, <1>3, <2>1, Zenon DEF Ends
<1> QED
    BY <1>1, <1>2, <1>4, Zenon DEF Means

(* A buffer that ends inside a unit is cut off.                            *)
LEMMA CutInside ==
  ASSUME NEW s, NEW k, TurnAt(s, k), k < Len(s), current < Size, Size < EndOf(mode, s, k + 1)
  PROVE  IsCut(mode, s, Size)
<1>1. Len(s) \in Nat /\ k \in Nat /\ Size \in Nat /\ current \in Nat
    BY TurnIs
<1>2. ASSUME NEW j \in 0 .. Len(s), Size = EndOf(mode, s, j) PROVE FALSE
  <2>1. k \in 0 .. Len(s) /\ k + 1 \in 0 .. Len(s)
      BY <1>1
  <2>2. k < j /\ j < k + 1
      BY <1>2, <2>1, EndsGrow DEF TurnAt
  <2> QED
      BY <1>1, <2>2
<1> QED
    BY <1>2, Zenon DEF IsCut

(* An OBU without a size reaches to the end of the buffer.                 *)
LEMMA OpenTaken ==
  ASSUME NEW s, NEW k, TurnAt(s, k), k < Len(s), mode = "Obu", s[k + 1].open, current < Size,
         Size <= Len(Written(mode, s)), YieldSpan(current, Size)
  PROVE  Means(WholeUnits(mode, s, Size)) /\ Mark' \in Nat /\ current' = Size
<1> DEFINE x == UnitAt(mode, s, k + 1)
<1>1. /\ Len(s) \in Nat /\ current \in Nat /\ k \in Nat /\ Size \in Nat
      /\ Mark = current + Skip(mode) /\ Mark \in Nat
      /\ pc' \notin {"end", "trim"} => Mark' = current' + Skip(mode)
      /\ \A j \in 1 .. Len(s) : Begins(mode, s, j) < Mark <=> j <= k
    BY TurnIs
<1>2. Skip(mode) = 0
    BY DEF Skip
<1>3. PICK n \in 1 .. Len(s) : n = k + 1 /\ n \in 0 .. Len(s) /\ n - 1 = k
    BY <1>1
<1>4. n = Len(s)
  <2>1. s[n].open
      BY <1>3
  <2> QED
      BY <2>1, EndsGrow DEF TurnAt
<1>5. Mark = current /\ Mark' = Size /\ pc' = "ready" /\ current' = Size
      /\ handed' = Append(handed, <<current, Size>>)
  <2>1. pc' = "ready" /\ current' = Size /\ handed' = Append(handed, <<current, Size>>)
      BY DEF YieldSpan
  <2> QED
      BY <1>1, <1>2, <2>1
<1>6. Begins(mode, s, n) = current
  <2>1. Begins(mode, s, n) = EndOf(mode, s, k) + 0 /\ EndOf(mode, s, k) = current
      BY <1>2, <1>3, Zenon DEF Begins, TurnAt
  <2> QED
      BY <1>1, <2>1
<1>7. Until(mode, s, n) = Size
  <2>1. EndOf(mode, s, Len(s)) = Len(Written(mode, s)) /\ EndOf(mode, s, Len(s)) \in Nat
    <3>1. Placed(mode, s)
        BY UnitPlaces DEF TurnAt
    <3>2. EndOf(mode, s, n) \in Nat
        BY EndsGrow DEF TurnAt
    <3> QED
        BY <1>4, <3>1, <3>2, Zenon DEF Placed
  <2>2. EndOf(mode, s, n) <= Size => EndOf(mode, s, n) = Size
      BY <1>1, <1>4, <2>1
  <2> QED
      BY <2>2, Zenon DEF Until
<1>8. IsWhole(mode, s, n)
  <2>1. s[n].open /\ Begins(mode, s, n) < Size
      BY <1>3, <1>6, Zenon
  <2> QED
      BY <2>1 DEF IsWhole
<1>9. x = <<current, Size>> /\ x \in WholeUnits(mode, s, Size)
  <2>1. x = <<current, Size>>
      BY <1>3, <1>6, <1>7, Zenon DEF UnitAt
  <2>2. x \in WholeUnits(mode, s, Size)
      BY <1>3, <1>8, WholeUnitsAre, Zenon
  <2> QED
      BY <2>1, <2>2
<1>10. ASSUME NEW u \in WholeUnits(mode, s, Size), Mark <= u[1], u[1] < Mark' PROVE u = x
  <2>1. PICK j \in 1 .. Len(s) : u = UnitAt(mode, s, j)
      BY WholeUnitsAre
  <2>2. u[1] = Begins(mode, s, j)
      BY <2>1 DEF UnitAt
  <2>3. ~ (j <= k)
    <3>1. Begins(mode, s, j) \in Nat
        BY EndsGrow DEF TurnAt
    <3>2. ~ (Begins(mode, s, j) < Mark)
        BY <1>1, <1>10, <2>2, <3>1
    <3> QED
        BY <1>1, <3>2, Zenon
  <2>4. j = n
      BY <1>1, <1>3, <1>4, <2>3
  <2> QED
      BY <1>3, <2>1, <2>4, Zenon
<1> HIDE DEF x
<1>11. Takes(WholeUnits(mode, s, Size), x)
  <2>1. Mark <= x[1] /\ x[1] < Mark'
      BY <1>1, <1>5, <1>9
  <2>2. Open /\ Open'
      BY <1>5 DEF Open, TurnAt
  <2>3. handed' = Append(handed, x)
      BY <1>5, <1>9, Zenon
  <2> QED
      BY <1>10, <2>1, <2>2, <2>3, Zenon DEF Takes
<1> QED
    BY <1>1, <1>5, <1>9, <1>11, Zenon DEF Means

(* At the end of the buffer every unit has been handed out.                *)
LEMMA DoneAtEnd ==
  ASSUME DataTyped, Kept, pc = "start", mode = "Obu", NEW s \in Streams(mode),
         current = Size, pc' = "finished", current' = current, handed' = handed
  PROVE  Means(WholeUnits(mode, s, Size)) /\ Mark' \in Nat
<1>1. Size \in Nat /\ mode \in SizedModes
    BY DEF DataTyped, SizedModes
<1>2. Skip(mode) = 0 /\ Skip(mode)' = 0
    BY DEF Skip, Kept
<1>3. Mark = Size /\ Mark' = Size
    BY <1>1, <1>2 DEF Mark
<1>4. ASSUME NEW u \in WholeUnits(mode, s, Size) PROVE u[1] < Mark
  <2>1. PICK j \in 1 .. Len(s) : u = UnitAt(mode, s, j) /\ IsWhole(mode, s, j)
      BY WholeUnitsAre
  <2>2. u[1] = Begins(mode, s, j)
      BY <2>1 DEF UnitAt
  <2>3. CASE EndOf(mode, s, j) <= Size
    <3>1. PICK a \in Nat, b \in Nat, e \in Nat :
            a = Begins(mode, s, j) /\ b = EndOf(mode, s, j - 1) /\ e = EndOf(mode, s, j) /\ b < e
        BY <1>1, EndsGrow
    <3>2. a = b + 0
        BY <1>2, <3>1, Zenon DEF Begins
    <3>3. a < Size
        BY <1>1, <2>3, <3>1, <3>2
    <3> QED
        BY <1>3, <2>2, <3>1, <3>3
  <2>4. CASE Begins(mode, s, j) < Size
      BY <1>3, <2>2, <2>4
  <2> QED
      BY <2>1, <2>3, <2>4, Zenon DEF IsWhole
<1>5. Ends(WholeUnits(mode, s, Size))
  <2>1. Open /\ ~ Open' /\ ~ (pc' = "failed")
      BY DEF Open
  <2> QED
      BY <1>3, <1>4, <2>1, Zenon DEF Ends
<1> QED
    BY <1>1, <1>3, <1>5, Zenon DEF Means

-----------------------------------------------------------------------------
(* The heads of the units, as they are read back.                          *)

(* The buffer is what a muxer wrote, cut off.                              *)
Holds(s) == Size <= Len(Written(mode, s)) /\ data = ByteFunction(SubSeq(Written(mode, s), 1, Size))

(* Before the end of the buffer there is another unit.                     *)
LEMMA AnotherUnit ==
  ASSUME NEW s, NEW k, TurnAt(s, k), Holds(s), current < Size
  PROVE  k < Len(s)
<1>1. Len(s) \in Nat /\ k \in Nat /\ Size \in Nat /\ current \in Nat /\ k \in 0 .. Len(s)
    BY TurnIs DEF TurnAt
<1>2. EndOf(mode, s, Len(s)) = Len(Written(mode, s)) /\ current = EndOf(mode, s, k)
  <2>1. Placed(mode, s)
      BY UnitPlaces DEF TurnAt
  <2> QED
      BY <2>1, Zenon DEF Placed, TurnAt
<1>3. k # Len(s)
  <2> SUFFICES ASSUME k = Len(s) PROVE FALSE
      OBVIOUS
  <2>1. current = Len(Written(mode, s))
      BY <1>2
  <2> QED
      BY <1>1, <2>1 DEF Holds
<1> QED
    BY <1>1, <1>3

(* What the framer reads of the head of a unit is what the muxer wrote.    *)
Reads(s, k, c, h, p) ==
  /\ EndOf(mode, s, k + 1) = c + (Len(h) + p)
  /\ \A j \in 1 .. Len(h) : c + j <= Size => data[c + j - 1] = h[j]

LEMMA HeadRead ==
  ASSUME DataTyped, mode \in SizedModes, NEW s \in Streams(mode), Holds(s),
         NEW k \in Nat, k < Len(s), NEW c, c = EndOf(mode, s, k),
         NEW h \in Seq(Nat), NEW p \in Nat, NEW open, WrittenAs(s[k + 1], h, p, open)
  PROVE  Reads(s, k, c, h, p)
<1>1. Len(s) \in Nat /\ Size \in Nat /\ c \in Nat
  <2>1. Placed(mode, s)
      BY UnitPlaces
  <2>2. Len(s) \in Nat /\ Size \in Nat
      BY <2>1 DEF Placed, DataTyped
  <2>3. k \in 0 .. Len(s)
      BY <2>2
  <2> QED
      BY <2>1, <2>2, <2>3 DEF Placed
<1>2. PICK n \in 1 .. Len(s) : n = k + 1 /\ n - 1 = k
    BY <1>1
<1>3. /\ Written(mode, s) \in Seq(Nat)
      /\ EndOf(mode, s, n) = EndOf(mode, s, n - 1) + Len(s[n].bytes)
      /\ \A j \in 1 .. Len(s[n].bytes) : Written(mode, s)[EndOf(mode, s, n - 1) + j] = s[n].bytes[j]
  <2>1. Placed(mode, s)
      BY UnitPlaces
  <2> QED
      BY <2>1, Zenon DEF Placed
<1>4. EndOf(mode, s, n - 1) = c
    BY <1>2, Zenon
<1>5. Len(s[n].bytes) = Len(h) + p /\ \A j \in 1 .. Len(h) : s[n].bytes[j] = h[j]
    BY <1>2, Zenon DEF WrittenAs
<1>6. PICK w \in Seq(Nat) : w = Written(mode, s)
    BY <1>3
<1>7. Size <= Len(w) /\ data = ByteFunction(SubSeq(w, 1, Size))
    BY <1>6, Zenon DEF Holds
<1>8. PICK l \in Nat : l = Len(h)
    OBVIOUS
<1>9. EndOf(mode, s, n) = c + (Len(h) + p)
    BY <1>3, <1>4, <1>5, Zenon
<1>10. ASSUME NEW j \in 1 .. Len(h), c + j <= Size
       PROVE  data[c + j - 1] = h[j]
  <2>1. j \in 1 .. (l + p)
      BY <1>8
  <2>2. w[c + j] = h[j]
      BY <1>3, <1>4, <1>5, <1>6, <1>8, <2>1, Zenon
  <2>3. PICK x \in 1 .. Size : x = c + j
      BY <1>1, <1>8, <1>10
  <2>4. SubSeq(w, 1, Size)[x] = w[x] /\ Len(SubSeq(w, 1, Size)) = Size
      BY <1>1, <1>7
  <2>5. x - 1 \in 0 .. (Size - 1) /\ (x - 1) + 1 = x /\ c + j - 1 = x - 1
    <3>1. PICK y \in Nat : y = c
        BY <1>1
    <3>2. j \in Nat /\ x = y + j
        BY <1>8, <2>3, <3>1
    <3>3. (x - 1) + 1 = x /\ y + j - 1 = x - 1 /\ x - 1 \in 0 .. (Size - 1)
        BY <1>1, <3>2
    <3> QED
        BY <3>1, <3>3, Zenon
  <2>6. data[x - 1] = SubSeq(w, 1, Size)[(x - 1) + 1]
      BY <1>7, <2>4, <2>5 DEF ByteFunction
  <2> QED
      BY <2>2, <2>3, <2>4, <2>5, <2>6
<1> QED
    BY <1>2, <1>9, <1>10, Zenon DEF Reads

(* A length prefix.                                                        *)
LEMMA PrefixRead ==
  ASSUME NEW s, NEW k, TurnAt(s, k), Holds(s), k < Len(s), mode = "LengthPrefixed"
  PROVE  \E p \in Nat :
           /\ EndOf(mode, s, k + 1) = current + (LengthSize + p)
           /\ current + LengthSize <= Size => BigEndian(current, LengthSize) = p
<1>1. Len(s) \in Nat /\ k \in Nat /\ Size \in Nat /\ current \in Nat
      /\ LengthSize \in Nat /\ LengthBase \in Nat /\ LengthBase > 0
    BY TurnIs, Widths
<1>2. s[k + 1] \in WrittenUnits("LengthPrefixed")
  <2>1. Placed(mode, s) /\ k + 1 \in 1 .. Len(s)
      BY <1>1, UnitPlaces DEF TurnAt
  <2> QED
      BY <2>1, Zenon DEF Placed
<1>3. PICK p \in Payloads :
        /\ Fits(p, LengthBase, LengthSize)
        /\ WrittenAs(s[k + 1], Reverse(Digits(p, LengthBase, LengthSize)), p, FALSE)
    BY <1>2, PrefixedIs
<1>4. p \in Nat
    BY Widths
<1>5. PICK h \in Seq(Nat) : h = Reverse(Digits(p, LengthBase, LengthSize)) /\ Len(h) = LengthSize
  <2>1. /\ Reverse(Digits(p, LengthBase, LengthSize)) \in Seq(Nat)
        /\ Len(Reverse(Digits(p, LengthBase, LengthSize))) = LengthSize
      BY <1>1, <1>4, DigitsSeq
  <2> QED
      BY <2>1, Zenon
<1>6. Reads(s, k, current, h, p)
    BY <1>1, <1>3, <1>4, <1>5, HeadRead DEF TurnAt
<1>7. Number(h, LengthSize, LengthBase) = p
    BY <1>1, <1>3, <1>4, <1>5, ReadsAsWritten DEF Fits
<1>8. ASSUME current + LengthSize <= Size PROVE BigEndian(current, LengthSize) = p
  <2>1. ASSUME NEW j \in 1 .. LengthSize PROVE data[current + j - 1] = h[j]
    <3>1. current + j <= Size /\ j \in 1 .. Len(h)
        BY <1>1, <1>5, <1>8
    <3> QED
        BY <1>6, <3>1 DEF Reads
  <2>2. h = [j \in 1 .. LengthSize |-> h[j]]
      BY <1>5
  <2>3. [j \in 1 .. LengthSize |-> data[current + j - 1]] = h
      BY <2>1, <2>2
  <2> QED
      BY <1>7, <2>3, Zenon DEF BigEndian
<1>9. EndOf(mode, s, k + 1) = current + (LengthSize + p)
    BY <1>5, <1>6, Zenon DEF Reads
<1> QED
    BY <1>4, <1>8, <1>9

(* The size of an IVF frame.                                               *)
LEMMA FrameRead ==
  ASSUME NEW s, NEW k, TurnAt(s, k), Holds(s), k < Len(s), mode = "Ivf"
  PROVE  \E p \in Nat :
           /\ EndOf(mode, s, k + 1) = current + (FrameHeader + p)
           /\ current + FrameHeader <= Size => LittleEndian(current, LengthSize) = p
<1>1. Len(s) \in Nat /\ k \in Nat /\ Size \in Nat /\ current \in Nat
      /\ LengthSize \in Nat /\ LengthBase \in Nat /\ LengthBase > 0
      /\ FrameHeader \in Nat /\ FrameHeader - LengthSize \in Nat
    BY TurnIs, Widths
<1>2. s[k + 1] \in WrittenUnits("Ivf")
  <2>1. Placed(mode, s) /\ k + 1 \in 1 .. Len(s)
      BY <1>1, UnitPlaces DEF TurnAt
  <2> QED
      BY <2>1, Zenon DEF Placed
<1>3. PICK p \in Payloads :
        /\ Fits(p, LengthBase, LengthSize)
        /\ WrittenAs(s[k + 1], Digits(p, LengthBase, LengthSize) \o Filled(FrameHeader - LengthSize, 0),
                    p, FALSE)
    BY <1>2, FrameIs
<1>4. p \in Nat
    BY Widths
<1>5. PICK a \in Seq(Nat), b \in Seq(Nat) :
        /\ a = Digits(p, LengthBase, LengthSize) /\ Len(a) = LengthSize
        /\ b = Filled(FrameHeader - LengthSize, 0) /\ Len(b) = FrameHeader - LengthSize
  <2>1. /\ Digits(p, LengthBase, LengthSize) \in Seq(Nat)
        /\ Len(Digits(p, LengthBase, LengthSize)) = LengthSize
      BY <1>1, <1>4, DigitsSeq
  <2>2. /\ Filled(FrameHeader - LengthSize, 0) \in Seq(Nat)
        /\ Len(Filled(FrameHeader - LengthSize, 0)) = FrameHeader - LengthSize
      BY <1>1, FilledIs
  <2> QED
      BY <2>1, <2>2, Zenon
<1>6. PICK h \in Seq(Nat) :
        /\ h = a \o b /\ Len(h) = Len(a) + Len(b)
        /\ \A j \in 1 .. Len(a) : h[j] = a[j]
    BY JoinOf
<1>7. Len(h) = FrameHeader
    BY <1>1, <1>5, <1>6
<1>8. WrittenAs(s[k + 1], h, p, FALSE)
    BY <1>3, <1>5, <1>6, Zenon
<1>9. Reads(s, k, current, h, p)
    BY <1>1, <1>4, <1>8, HeadRead DEF TurnAt
<1>10. PICK r \in Seq(Nat) :
         /\ r = Reverse(a) /\ Len(r) = LengthSize
         /\ \A j \in 1 .. LengthSize : r[j] = a[(LengthSize - j) + 1]
  <2>0. LengthSize \in Nat /\ LengthBase \in Nat /\ LengthBase > 0
      BY <1>1
  <2>1. Reverse(Digits(p, LengthBase, LengthSize)) \in Seq(Nat)
        /\ Len(Reverse(Digits(p, LengthBase, LengthSize))) = LengthSize
      BY <1>4, <2>0, DigitsSeq
  <2>2. \A j \in 1 .. LengthSize :
          Reverse(Digits(p, LengthBase, LengthSize))[j]
            = Digits(p, LengthBase, LengthSize)[(LengthSize - j) + 1]
      BY <1>4, <2>0, DigitsSeq
  <2> QED
      BY <1>5, <2>1, <2>2, Zenon
<1>11. Number(r, LengthSize, LengthBase) = p
    BY <1>1, <1>3, <1>4, <1>5, <1>10, ReadsAsWritten DEF Fits
<1>12. ASSUME current + FrameHeader <= Size PROVE LittleEndian(current, LengthSize) = p
  <2>1. ASSUME NEW j \in 1 .. LengthSize PROVE data[current + LengthSize - j] = r[j]
    <3>1. PICK x \in 1 .. LengthSize : x = (LengthSize - j) + 1
        BY <1>1
    <3>2. x \in 1 .. Len(h) /\ x \in 1 .. Len(a) /\ current + x <= Size
        BY <1>1, <1>5, <1>7, <1>12
    <3>3. data[current + x - 1] = h[x]
        BY <1>9, <3>2 DEF Reads
    <3>4. current + x - 1 = current + LengthSize - j
        BY <1>1, <3>1
    <3> QED
        BY <1>6, <1>10, <3>1, <3>2, <3>3, <3>4
  <2>2. r = [j \in 1 .. LengthSize |-> r[j]]
      BY <1>10
  <2>3. [j \in 1 .. LengthSize |-> data[current + LengthSize - j]] = r
      BY <2>1, <2>2
  <2> QED
      BY <1>11, <2>3, Zenon DEF LittleEndian
<1>13. EndOf(mode, s, k + 1) = current + (FrameHeader + p)
    BY <1>7, <1>9, Zenon DEF Reads
<1> QED
    BY <1>4, <1>12, <1>13

LEMMA DigitsSmall ==
  ASSUME NEW x \in Nat, NEW base \in Nat, base > 0, NEW n \in Nat
  PROVE  \A k \in 1 .. n : Digits(x, base, n)[k] \in Nat /\ Digits(x, base, n)[k] < base
<1>1. PICK F : Shrinks(F, x, n, base)
    BY DigitsAre
<1>2. ASSUME NEW k \in 1 .. n PROVE F[k - 1] % base \in Nat /\ F[k - 1] % base < base
  <2>1. PICK v \in Nat : v = F[k - 1]
      BY <1>1 DEF Shrinks
  <2>2. v % base \in Nat /\ v % base < base
      OBVIOUS
  <2> QED
      BY <2>1, <2>2
<1>3. \A k \in 1 .. n : Digits(x, base, n)[k] = F[k - 1] % base
    BY <1>1 DEF Shrinks
<1> QED
    BY <1>2, <1>3

(* Arithmetic of a byte with a continuation bit.                           *)
LEMMA LowBits ==
  ASSUME NEW b \in Nat, b > 0, NEW d \in Nat, d < b
  PROVE  d % b = d /\ (d + b) % b = d
OBVIOUS

(* A size is read as it was written, unless the buffer ends inside it.     *)
LEMMA LebRead ==
  ASSUME Size \in Nat, NEW q \in Nat, NEW l \in 1 .. LebBytes, NEW p \in Nat, Fits(p, LebBase, l),
         \A j \in 1 .. l : q + j <= Size => data[q + j - 1] = Leb(p, l)[j]
  PROVE  /\ LebLength(q) = IF q + l <= Size THEN l ELSE 0
         /\ q + l <= Size => LebValue(q, l) = p
<1>1. l \in Nat /\ l > 0 /\ LebBase \in Nat /\ LebBase > 0 /\ LebBytes \in Nat /\ l <= LebBytes
    BY Widths
<1>2. PICK d \in Seq(Nat) :
        /\ d = Digits(p, LebBase, l) /\ Len(d) = l
        /\ \A k \in 1 .. l : d[k] \in Nat /\ d[k] < LebBase
  <2>1. Digits(p, LebBase, l) \in Seq(Nat) /\ Len(Digits(p, LebBase, l)) = l
      BY <1>1, DigitsSeq
  <2>2. \A k \in 1 .. l : Digits(p, LebBase, l)[k] \in Nat /\ Digits(p, LebBase, l)[k] < LebBase
      BY <1>1, DigitsSmall
  <2> QED
      BY <2>1, <2>2, Zenon
<1>3. \A k \in 1 .. l : Leb(p, l)[k] = d[k] + (IF k < l THEN LebBase ELSE 0)
  <2>1. Leb(p, l) = [k \in 1 .. l |-> d[k] + (IF k < l THEN LebBase ELSE 0)]
      BY <1>2, Zenon DEF Leb
  <2> QED
      BY <2>1
<1>4. ASSUME NEW j \in 1 .. l, q + j <= Size
      PROVE  /\ data[q + j - 1] < LebBase <=> j = l
             /\ data[q + j - 1] % LebBase = d[j]
  <2>1. PICK v \in Nat : v = d[j] /\ v < LebBase
      BY <1>2
  <2>2. data[q + j - 1] = v + (IF j < l THEN LebBase ELSE 0)
      BY <1>3, <1>4, <2>1
  <2>3. v % LebBase = v /\ (v + LebBase) % LebBase = v
      BY <1>1, <2>1, LowBits
  <2>4. CASE j < l
    <3>1. data[q + j - 1] = v + LebBase
        BY <2>2, <2>4
    <3>2. ~ (v + LebBase < LebBase) /\ j # l
        BY <1>1, <2>4
    <3> QED
        BY <2>1, <2>3, <3>1, <3>2, Zenon
  <2>5. CASE ~ (j < l)
    <3>1. j = l
        BY <1>1, <2>5
    <3>2. data[q + j - 1] = v + 0 /\ v + 0 = v
        BY <2>2, <2>5
    <3> QED
        BY <2>1, <2>3, <3>1, <3>2, Zenon
  <2> QED
      BY <2>4, <2>5
<1> DEFINE ends == {k \in 1 .. LebBytes : q + k <= Size /\ data[q + k - 1] < LebBase}
<1>5. LebLength(q) = IF ends = {} THEN 0 ELSE Min(ends)
    BY DEF LebLength
<1>6. ends \subseteq Nat /\ \A k \in ends : k \in 1 .. LebBytes /\ q + k <= Size /\ data[q + k - 1] < LebBase
    OBVIOUS
<1>7. \A k \in 1 .. LebBytes : q + k <= Size /\ data[q + k - 1] < LebBase => k \in ends
    OBVIOUS
<1> HIDE DEF ends
<1>8. \A k \in ends : l <= k
  <2> SUFFICES ASSUME NEW k \in ends, k < l PROVE FALSE
      BY <1>1, <1>6
  <2>1. k \in 1 .. l /\ q + k <= Size /\ data[q + k - 1] < LebBase
      BY <1>1, <1>6
  <2>2. k = l
      BY <1>4, <2>1
  <2> QED
      BY <1>1, <2>2
<1>9. CASE q + l <= Size
  <2>1. l \in 1 .. l
      BY <1>1
  <2>2. l \in ends
      BY <1>4, <1>7, <1>9, <2>1
  <2>3. LebLength(q) = l
    <3>1. ends # {}
        BY <2>2
    <3>2. Min(ends) \in ends /\ \A k \in ends : Min(ends) <= k
        BY <1>6, <3>1, MinIs
    <3>3. Min(ends) = l
      <4>1. PICK v : v = Min(ends)
          OBVIOUS
      <4>2. v \in Nat /\ l <= v /\ v <= l
          BY <1>6, <1>8, <2>2, <3>2, <4>1, Zenon
      <4> QED
          BY <1>1, <4>1, <4>2
    <3> QED
        BY <1>5, <3>1, <3>3
  <2>4. LebValue(q, l) = p
    <3>1. PICK r \in Seq(Nat) :
            /\ r = Reverse(d) /\ Len(r) = l
            /\ \A j \in 1 .. l : r[j] = d[(l - j) + 1]
      <4>1. Reverse(Digits(p, LebBase, l)) \in Seq(Nat) /\ Len(Reverse(Digits(p, LebBase, l))) = l
          BY <1>1, DigitsSeq
      <4>2. \A j \in 1 .. l :
              Reverse(Digits(p, LebBase, l))[j] = Digits(p, LebBase, l)[(l - j) + 1]
          BY <1>1, DigitsSeq
      <4> QED
          BY <1>2, <4>1, <4>2, Zenon
    <3>2. Number(r, l, LebBase) = p
        BY <1>1, <1>2, <3>1, ReadsAsWritten DEF Fits
    <3>3. ASSUME NEW j \in 1 .. l PROVE data[q + l - j] % LebBase = r[j]
      <4>1. PICK x \in 1 .. l : x = (l - j) + 1
          BY <1>1
      <4>2. q + x <= Size /\ q + x - 1 = q + l - j
          BY <1>1, <1>9, <4>1
      <4>3. data[q + x - 1] % LebBase = d[x]
          BY <1>4, <4>2
      <4> QED
          BY <3>1, <4>1, <4>2, <4>3, Zenon
    <3>4. r = [j \in 1 .. l |-> r[j]]
        BY <3>1
    <3>5. [j \in 1 .. l |-> data[q + l - j] % LebBase] = [j \in 1 .. l |-> r[j]]
        BY <3>3, Zenon
    <3> QED
        BY <3>2, <3>4, <3>5, Zenon DEF LebValue
  <2> QED
      BY <1>9, <2>3, <2>4
<1>10. CASE ~ (q + l <= Size)
  <2>1. ends = {}
    <3> SUFFICES ASSUME NEW k \in ends PROVE FALSE
        OBVIOUS
    <3>1. k \in Nat /\ q + k <= Size /\ l <= k
        BY <1>6, <1>8
    <3> QED
        BY <1>1, <1>10, <3>1
  <2> QED
      BY <1>5, <1>10, <2>1
<1> QED
    BY <1>9, <1>10

(* The flags of the header of an OBU.                                      *)
LEMMA FlagsRead ==
  ASSUME NEW x \in BOOLEAN, NEW y \in BOOLEAN, NEW v,
         v = 8 + (IF x THEN 4 ELSE 0) + (IF y THEN 2 ELSE 0)
  PROVE  (HasExtension(v) <=> x) /\ (HasSize(v) <=> y)
<1>1. CASE x /\ y
  <2>1. v = 14
      BY <1>1
  <2>2. (14 \div 4) % 2 = 1 /\ (14 \div 2) % 2 = 1
      OBVIOUS
  <2> QED
      BY <1>1, <2>1, <2>2, Zenon DEF HasExtension, HasSize
<1>2. CASE x /\ ~ y
  <2>1. v = 12
      BY <1>2
  <2>2. (12 \div 4) % 2 = 1 /\ (12 \div 2) % 2 # 1
      OBVIOUS
  <2> QED
      BY <1>2, <2>1, <2>2, Zenon DEF HasExtension, HasSize
<1>3. CASE ~ x /\ y
  <2>1. v = 10
      BY <1>3
  <2>2. (10 \div 4) % 2 # 1 /\ (10 \div 2) % 2 = 1
      OBVIOUS
  <2> QED
      BY <1>3, <2>1, <2>2, Zenon DEF HasExtension, HasSize
<1>4. CASE ~ x /\ ~ y
  <2>1. v = 8
      BY <1>4
  <2>2. (8 \div 4) % 2 # 1 /\ (8 \div 2) % 2 # 1
      OBVIOUS
  <2> QED
      BY <1>4, <2>1, <2>2, Zenon DEF HasExtension, HasSize
<1> QED
    BY <1>1, <1>2, <1>3, <1>4

(* The head of an OBU, as a turn reads it.                                 *)
SizedAs(s, k, l, p) ==
  /\ SizePosition \in Nat /\ current < SizePosition
  /\ EndOf(mode, s, k + 1) = SizePosition + (l + p)
  /\ LebLength(SizePosition) = IF SizePosition + l <= Size THEN l ELSE 0
  /\ SizePosition + l <= Size => LebValue(SizePosition, l) = p

(* An OBU of a muxer, by the form of its head.                             *)
LEMMA ObuForm ==
  ASSUME mode = "Obu", NEW s \in Streams(mode), NEW k \in 1 .. Len(s)
  PROVE  \E x \in BOOLEAN, p \in Nat :
           \/ s[k].open /\ WrittenAs(s[k], ObuHeader(x, FALSE), p, TRUE)
           \/ /\ ~ s[k].open
              /\ \E l \in 1 .. LebBytes :
                   Fits(p, LebBase, l) /\ WrittenAs(s[k], ObuHeader(x, TRUE) \o Leb(p, l), p, FALSE)
<1>1. s[k] \in WrittenUnits("Obu")
  <2>1. Placed(mode, s)
      BY UnitPlaces DEF SizedModes
  <2> QED
      BY <2>1, Zenon DEF Placed
<1>2. PICK p \in Payloads, x \in BOOLEAN :
        \/ WrittenAs(s[k], ObuHeader(x, FALSE), p, TRUE)
        \/ \E l \in 1 .. LebBytes :
             Fits(p, LebBase, l) /\ WrittenAs(s[k], ObuHeader(x, TRUE) \o Leb(p, l), p, FALSE)
    BY <1>1, ObuIs
<1>3. p \in Nat
    BY Widths
<1>4. \A h, o : WrittenAs(s[k], h, p, o) => s[k].open = o
    BY Zenon DEF WrittenAs
<1> QED
    BY <1>2, <1>3, <1>4, Zenon

LEMMA ObuHead ==
  ASSUME NEW s, NEW k, TurnAt(s, k), Holds(s), current < Size, mode = "Obu"
  PROVE  /\ k < Len(s)
         /\ \/ s[k + 1].open /\ ~ HasSize(data[current])
            \/ /\ ~ s[k + 1].open /\ HasSize(data[current])
               /\ \E l \in 1 .. LebBytes, p \in Nat : SizedAs(s, k, l, p)
<1>1. /\ Len(s) \in Nat /\ k \in Nat /\ Size \in Nat /\ current \in Nat /\ k < Len(s)
      /\ DataTyped /\ mode \in SizedModes /\ s \in Streams(mode) /\ current = EndOf(mode, s, k)
    BY TurnIs, AnotherUnit DEF TurnAt
<1>2. k + 1 \in 1 .. Len(s)
    BY <1>1
<1>3. PICK x \in BOOLEAN, p \in Nat :
        \/ s[k + 1].open /\ WrittenAs(s[k + 1], ObuHeader(x, FALSE), p, TRUE)
        \/ /\ ~ s[k + 1].open
           /\ \E l \in 1 .. LebBytes :
                Fits(p, LebBase, l) /\ WrittenAs(s[k + 1], ObuHeader(x, TRUE) \o Leb(p, l), p, FALSE)
    BY <1>1, <1>2, ObuForm
<1>4. CASE s[k + 1].open /\ WrittenAs(s[k + 1], ObuHeader(x, FALSE), p, TRUE)
  <2>1. PICK h \in Seq(Nat) :
          /\ h = ObuHeader(x, FALSE) /\ 1 \in 1 .. Len(h)
          /\ h[1] = 8 + (IF x THEN 4 ELSE 0) + (IF FALSE THEN 2 ELSE 0)
    <3>1. /\ ObuHeader(x, FALSE) \in Seq(Nat)
          /\ Len(ObuHeader(x, FALSE)) = IF x THEN 2 ELSE 1
          /\ ObuHeader(x, FALSE)[1] = 8 + (IF x THEN 4 ELSE 0) + (IF FALSE THEN 2 ELSE 0)
        BY HeaderLength
    <3>2. 1 \in 1 .. (IF x THEN 2 ELSE 1)
        OBVIOUS
    <3> QED
        BY <3>1, <3>2, Zenon
  <2>2. Reads(s, k, current, h, p)
    <3>1. WrittenAs(s[k + 1], h, p, TRUE)
        BY <1>4, <2>1, Zenon
    <3> QED
        BY <1>1, <3>1, HeadRead
  <2>3. data[current] = h[1]
    <3>1. current + 1 <= Size /\ current + 1 - 1 = current
        BY <1>1
    <3>2. data[current + 1 - 1] = h[1]
        BY <2>1, <2>2, <3>1, Zenon DEF Reads
    <3> QED
        BY <3>1, <3>2, Zenon
  <2>4. ~ HasSize(data[current])
      BY <2>1, <2>3, FlagsRead
  <2> QED
      BY <1>1, <1>4, <2>4, Zenon
<1>5. ASSUME NEW l \in 1 .. LebBytes, Fits(p, LebBase, l), ~ s[k + 1].open,
             WrittenAs(s[k + 1], ObuHeader(x, TRUE) \o Leb(p, l), p, FALSE)
      PROVE  HasSize(data[current]) /\ SizedAs(s, k, l, p)
  <2>1. PICK a \in Seq(Nat) :
          /\ a = ObuHeader(x, TRUE) /\ 1 \in 1 .. Len(a) /\ Len(a) = IF x THEN 2 ELSE 1
          /\ a[1] = 8 + (IF x THEN 4 ELSE 0) + (IF TRUE THEN 2 ELSE 0)
    <3>1. /\ ObuHeader(x, TRUE) \in Seq(Nat)
          /\ Len(ObuHeader(x, TRUE)) = IF x THEN 2 ELSE 1
          /\ ObuHeader(x, TRUE)[1] = 8 + (IF x THEN 4 ELSE 0) + (IF TRUE THEN 2 ELSE 0)
        BY HeaderLength
    <3>2. 1 \in 1 .. (IF x THEN 2 ELSE 1)
        OBVIOUS
    <3> QED
        BY <3>1, <3>2, Zenon
  <2>2. PICK b \in Seq(Nat) : b = Leb(p, l) /\ Len(b) = l
      BY LebIs
  <2>3. PICK h \in Seq(Nat) :
          /\ h = a \o b /\ Len(h) = Len(a) + Len(b)
          /\ \A j \in 1 .. Len(a) : h[j] = a[j]
          /\ \A j \in 1 .. Len(b) : h[Len(a) + j] = b[j]
      BY JoinOf
  <2>4. Reads(s, k, current, h, p)
    <3>1. WrittenAs(s[k + 1], h, p, FALSE)
        BY <1>5, <2>1, <2>2, <2>3, Zenon
    <3> QED
        BY <1>1, <3>1, HeadRead
  <2>5. PICK z \in Nat : z = Len(a) /\ z >= 1
    <3>1. Len(a) \in Nat
        OBVIOUS
    <3>2. \A v \in Nat : 1 \in 1 .. v => v >= 1
        OBVIOUS
    <3> QED
        BY <2>1, <3>1, <3>2, Zenon
  <2>6. l \in Nat /\ l >= 1
      BY Widths
  <2>7. data[current] = a[1]
    <3>1. current + 1 <= Size /\ current + 1 - 1 = current
        BY <1>1
    <3>2. 1 \in 1 .. Len(h)
        BY <2>2, <2>3, <2>5, <2>6
    <3>3. data[current + 1 - 1] = h[1]
        BY <2>4, <3>1, <3>2, Zenon DEF Reads
    <3> QED
        BY <2>1, <2>3, <3>1, <3>3, Zenon
  <2>8. HasSize(data[current]) /\ (HasExtension(data[current]) <=> x)
      BY <2>1, <2>7, FlagsRead
  <2>9. SizePosition = current + z
    <3>1. CASE x
      <4>1. z = 2
          BY <2>1, <2>5, <3>1
      <4> QED
          BY <2>8, <3>1, <4>1, Zenon DEF SizePosition
    <3>2. CASE ~ x
      <4>1. z = 1
          BY <2>1, <2>5, <3>2
      <4> QED
          BY <2>8, <3>2, <4>1, Zenon DEF SizePosition
    <3> QED
        BY <3>1, <3>2
  <2>10. PICK q \in Nat : q = current + z /\ current < q
      BY <1>1, <2>5
  <2>11. ASSUME NEW j \in 1 .. l, q + j <= Size PROVE data[q + j - 1] = Leb(p, l)[j]
    <3>1. PICK y \in 1 .. Len(h) : y = z + j
        BY <2>2, <2>3, <2>5, <2>6
    <3>2. current + y <= Size /\ current + y - 1 = q + j - 1
      <4>1. j \in Nat
          BY <2>6
      <4>3. (current + z) + j <= Size
          BY <2>10, <2>11, Zenon
      <4>4. current + (z + j) <= Size /\ current + (z + j) - 1 = (current + z) + j - 1
        <5>1. current \in Nat /\ Size \in Nat /\ z \in Nat
            BY <1>1, <2>5, Zenon
        <5> QED
            BY <4>1, <4>3, <5>1
      <4> QED
          BY <2>10, <3>1, <4>4, Zenon
    <3>3. data[current + y - 1] = h[y]
        BY <2>4, <3>2, Zenon DEF Reads
    <3>4. h[y] = b[j]
        BY <2>2, <2>3, <2>5, <3>1, Zenon
    <3> QED
        BY <2>2, <3>2, <3>3, <3>4, Zenon
  <2>12. /\ LebLength(q) = IF q + l <= Size THEN l ELSE 0
         /\ q + l <= Size => LebValue(q, l) = p
      BY <1>1, <1>5, <2>11, LebRead
  <2>13. EndOf(mode, s, k + 1) = q + (l + p)
    <3>1. EndOf(mode, s, k + 1) = current + ((z + l) + p)
        BY <2>2, <2>3, <2>4, <2>5, Zenon DEF Reads
    <3>2. current + ((z + l) + p) = q + (l + p)
        BY <1>1, <2>6, <2>10
    <3> QED
        BY <3>1, <3>2, Zenon
  <2>14. SizePosition = q
      BY <2>9, <2>10, Zenon
  <2> QED
      BY <2>8, <2>10, <2>12, <2>13, <2>14, Zenon DEF SizedAs
<1> QED
    BY <1>1, <1>3, <1>4, <1>5, Zenon

(* It does not begin like a start code.                                    *)
LEMMA NoStartCode ==
  ASSUME DataTyped, mode = "Obu", NEW s \in Streams(mode), Holds(s)
  PROVE  LowOverhead
<1>1. CASE Size = 0
  <2>1. 0 \notin DOMAIN data
      BY <1>1 DEF DataTyped
  <2> QED
      BY <2>1 DEF LowOverhead, ShortCode
<1>2. CASE Size # 0
  <2>1. /\ Len(s) \in Nat /\ Size \in Nat /\ EndOf(mode, s, 0) = 0
        /\ EndOf(mode, s, Len(s)) = Len(Written(mode, s))
    <3>1. Placed(mode, s)
        BY UnitPlaces DEF SizedModes
    <3>2. FileStart(mode) = 0
        BY DEF FileStart
    <3> QED
        BY <3>1, <3>2, Zenon DEF Placed, DataTyped
  <2>2. Len(s) # 0
    <3> SUFFICES ASSUME Len(s) = 0 PROVE FALSE
        OBVIOUS
    <3>1. Len(Written(mode, s)) = 0
        BY <2>1, Zenon
    <3> QED
        BY <1>2, <2>1, <3>1 DEF Holds
  <2>3. 1 \in 1 .. Len(s) /\ 0 < Len(s) /\ 0 + 1 = 1 /\ 1 <= Size
      BY <1>2, <2>1, <2>2
  <2>4. PICK x \in BOOLEAN, p \in Nat :
          \/ s[1].open /\ WrittenAs(s[1], ObuHeader(x, FALSE), p, TRUE)
          \/ /\ ~ s[1].open
             /\ \E l \in 1 .. LebBytes :
                  Fits(p, LebBase, l) /\ WrittenAs(s[1], ObuHeader(x, TRUE) \o Leb(p, l), p, FALSE)
      BY <2>3, ObuForm
  <2>5. PICK h \in Seq(Nat), o \in BOOLEAN : WrittenAs(s[1], h, p, o) /\ Len(h) >= 1 /\ h[1] # 0
    <3>1. \A y \in BOOLEAN : /\ ObuHeader(x, y) \in Seq(Nat) /\ Len(ObuHeader(x, y)) >= 1
                             /\ ObuHeader(x, y)[1] # 0
      <4> TAKE y \in BOOLEAN
      <4>1. /\ ObuHeader(x, y) \in Seq(Nat)
            /\ Len(ObuHeader(x, y)) = IF x THEN 2 ELSE 1
            /\ ObuHeader(x, y)[1] = 8 + (IF x THEN 4 ELSE 0) + (IF y THEN 2 ELSE 0)
          BY HeaderLength
      <4>2. (IF x THEN 2 ELSE 1) >= 1 /\ 8 + (IF x THEN 4 ELSE 0) + (IF y THEN 2 ELSE 0) # 0
          OBVIOUS
      <4> QED
          BY <4>1, <4>2, Zenon
    <3>2. CASE WrittenAs(s[1], ObuHeader(x, FALSE), p, TRUE)
        BY <3>1, <3>2, Zenon
    <3>3. ASSUME NEW l \in 1 .. LebBytes, WrittenAs(s[1], ObuHeader(x, TRUE) \o Leb(p, l), p, FALSE)
          PROVE  \E h \in Seq(Nat), o \in BOOLEAN : WrittenAs(s[1], h, p, o) /\ Len(h) >= 1 /\ h[1] # 0
      <4>1. PICK a \in Seq(Nat), b \in Seq(Nat) :
              a = ObuHeader(x, TRUE) /\ b = Leb(p, l) /\ Len(a) >= 1 /\ a[1] # 0
          BY <3>1, LebIs
      <4>2. PICK h \in Seq(Nat) :
              /\ h = a \o b /\ Len(h) = Len(a) + Len(b)
              /\ \A j \in 1 .. Len(a) : h[j] = a[j]
          BY JoinOf
      <4>3. Len(h) >= 1 /\ h[1] # 0
        <5>1. Len(a) \in Nat /\ Len(b) \in Nat
            OBVIOUS
        <5>2. \A v, w \in Nat : v >= 1 => 1 \in 1 .. v /\ v + w >= 1
            OBVIOUS
        <5> QED
            BY <4>1, <4>2, <5>1, <5>2, Zenon
      <4>4. WrittenAs(s[1], h, p, FALSE)
          BY <3>3, <4>1, <4>2, Zenon
      <4> QED
          BY <4>3, <4>4
    <3> QED
        BY <2>4, <3>2, <3>3, Zenon
  <2>6. Reads(s, 0, 0, h, p)
    <3>1. WrittenAs(s[0 + 1], h, p, o)
        BY <2>3, <2>5, Zenon
    <3> QED
        BY <2>1, <2>3, <3>1, HeadRead DEF SizedModes
  <2>7. data[0] # 0
    <3>1. 1 \in 1 .. Len(h) /\ 0 + 1 <= Size /\ 0 + 1 - 1 = 0
        BY <2>3, <2>5
    <3>2. data[0 + 1 - 1] = h[1]
        BY <2>6, <3>1, Zenon DEF Reads
    <3> QED
        BY <2>5, <3>1, <3>2, Zenon
  <2> QED
      BY <2>7 DEF LowOverhead, ShortCode
<1> QED
    BY <1>1, <1>2

-----------------------------------------------------------------------------
(* The framers that read sizes, turn by turn.                              *)

(* Where a turn leaves the framer.                                         *)
Lands(s) ==
  /\ (\E k \in 0 .. Len(s) : current' = EndOf(mode, s, k)) \/ (mode = "Obu" /\ current' = Size)
  /\ mode # "Ivf" => current' <= Size
  /\ mode = "LengthPrefixed" /\ pc' = "finished" => current' = Size

LEMMA NotWhole ==
  ASSUME NEW s, NEW k, TurnAt(s, k), k < Len(s), ~ s[k + 1].open, EndOf(mode, s, k + 1) > Size
  PROVE  ~ IsWhole(mode, s, k + 1)
<1>1. EndOf(mode, s, k + 1) \in Nat /\ Size \in Nat
  <2>1. k + 1 \in 0 .. Len(s) /\ Size \in Nat
      BY TurnIs
  <2> QED
      BY <2>1, EndsGrow DEF TurnAt
<1>2. ~ (EndOf(mode, s, k + 1) <= Size)
    BY <1>1
<1> QED
    BY <1>2, Zenon DEF IsWhole

LEMMA Closed ==
  ASSUME NEW s, NEW k, TurnAt(s, k), k < Len(s), mode # "Obu"
  PROVE  ~ s[k + 1].open
<1>1. k + 1 \in 1 .. Len(s)
    BY TurnIs
<1> QED
    BY <1>1, EndsGrow DEF TurnAt

LEMMA LengthPrefixedMeans ==
  ASSUME NEW s, NEW k, TurnAt(s, k), Holds(s), mode = "LengthPrefixed", current <= Size,
         IsCut(mode, s, Size) => cut, LocateLengthPrefixed
  PROVE  Means(WholeUnits(mode, s, Size)) /\ Mark' \in Nat /\ Lands(s)
<1> DEFINE b == current + LengthSize
           len == BigEndian(current, LengthSize)
<1>1. Len(s) \in Nat /\ k \in Nat /\ Size \in Nat /\ current \in Nat
      /\ LengthSize \in Nat /\ LengthSize >= 1 /\ Skip(mode) = LengthSize
  <2>1. Len(s) \in Nat /\ k \in Nat /\ Size \in Nat /\ current \in Nat
      BY TurnIs
  <2>2. LengthSize \in Nat /\ LengthSize >= 1
      BY Widths
  <2>3. Skip(mode) = LengthSize
      BY DEF Skip
  <2> QED
      BY <2>1, <2>2, <2>3
<1>2. b \in Nat /\ current < b
    BY <1>1
<1>3. ASSUME k < Len(s)
      PROVE  /\ \E p \in Nat : /\ EndOf(mode, s, k + 1) = b + p
                               /\ b <= Size => len = p
             /\ Begins(mode, s, k + 1) = b /\ ~ s[k + 1].open
             /\ EndOf(mode, s, k + 1) \in Nat /\ current < EndOf(mode, s, k + 1)
             /\ k + 1 \in 0 .. Len(s)
  <2>1. PICK p \in Nat :
           /\ EndOf(mode, s, k + 1) = current + (LengthSize + p)
           /\ current + LengthSize <= Size => BigEndian(current, LengthSize) = p
      BY <1>3, PrefixRead
  <2>2. EndOf(mode, s, k + 1) = b + p
      BY <1>1, <2>1
  <2>3. Begins(mode, s, k + 1) = b
    <3>1. (k + 1) - 1 = k /\ EndOf(mode, s, k) = current
        BY <1>1 DEF TurnAt
    <3> QED
        BY <1>1, <3>1, Zenon DEF Begins
  <2>4. ~ s[k + 1].open
      BY <1>3, Closed
  <2>5. EndOf(mode, s, k + 1) \in Nat /\ current < EndOf(mode, s, k + 1)
      BY <1>1, <1>2, <2>2
  <2>6. k + 1 \in 0 .. Len(s)
      BY <1>1, <1>3
  <2> QED
      BY <2>1, <2>2, <2>3, <2>4, <2>5, <2>6, Zenon
<1>4. \/ current >= Size /\ FinishWith(Size, Size)
      \/ current < Size /\ b > Size /\ Throw
      \/ b <= Size /\ b + len > Size /\ Throw
      \/ b <= Size /\ b + len <= Size /\ len = 0 /\ current' = b /\ UNCHANGED <<pc, begin, end, handed>>
      \/ b <= Size /\ b + len <= Size /\ len > 0 /\ YieldSpan(b, b + len)
    BY Zenon DEF LocateLengthPrefixed
<1>5. k \in 0 .. Len(s) /\ current = EndOf(mode, s, k) /\ pc = "start"
    BY DEF TurnAt
<1> HIDE DEF b, len
<1>6. CASE current >= Size /\ FinishWith(Size, Size)
  <2>1. current = Size /\ pc' = "finished" /\ current' = current /\ handed' = handed
      BY <1>1, <1>6 DEF FinishWith
  <2>2. ASSUME k < Len(s) PROVE EndOf(mode, s, k + 1) > Size /\ ~ IsWhole(mode, s, k + 1)
    <3>1. EndOf(mode, s, k + 1) > Size
        BY <1>1, <1>3, <2>1, <2>2
    <3> QED
        BY <1>3, <2>2, <3>1, NotWhole
  <2>3. Means(WholeUnits(mode, s, Size)) /\ Mark' \in Nat
      BY <2>1, <2>2, NothingLeft
  <2>4. Lands(s)
      BY <1>1, <1>5, <2>1 DEF Lands
  <2> QED
      BY <2>3, <2>4
<1>7. ASSUME Throw, current < Size, k < Len(s), EndOf(mode, s, k + 1) > Size
      PROVE  Means(WholeUnits(mode, s, Size)) /\ Mark' \in Nat /\ Lands(s)
  <2>1. pc' = "failed" /\ current' = current /\ handed' = handed
      BY <1>7 DEF Throw
  <2>2. ~ IsWhole(mode, s, k + 1)
      BY <1>3, <1>7, NotWhole
  <2>3. cut
    <3>1. Size < EndOf(mode, s, k + 1)
        BY <1>1, <1>3, <1>7
    <3> QED
        BY <1>7, <3>1, CutInside
  <2>4. Means(WholeUnits(mode, s, Size)) /\ Mark' \in Nat
      BY <1>7, <2>1, <2>2, <2>3, NothingLeft
  <2>5. Lands(s)
      BY <1>5, <2>1 DEF Lands
  <2> QED
      BY <2>4, <2>5
<1>8. CASE current < Size /\ b > Size /\ Throw
  <2>1. k < Len(s)
      BY <1>8, AnotherUnit
  <2>2. EndOf(mode, s, k + 1) > Size
    <3>1. PICK p \in Nat : EndOf(mode, s, k + 1) = b + p
        BY <1>3, <2>1
    <3> QED
        BY <1>1, <1>2, <1>8, <3>1
  <2> QED
      BY <1>7, <1>8, <2>1, <2>2
<1>9. ASSUME b <= Size PROVE current < Size /\ k < Len(s) /\ len \in Nat
                             /\ EndOf(mode, s, k + 1) = b + len
  <2>1. current < Size
      BY <1>1, <1>2, <1>9
  <2>2. k < Len(s)
      BY <2>1, AnotherUnit
  <2> QED
      BY <1>3, <1>9, <2>1, <2>2
<1>10. CASE b <= Size /\ b + len > Size /\ Throw
    BY <1>7, <1>9, <1>10
<1>11. CASE b <= Size /\ b + len <= Size /\ len = 0 /\ current' = b /\ UNCHANGED <<pc, begin, end, handed>>
  <2>1. b + len = b
      BY <1>2, <1>11
  <2>2. /\ k < Len(s) /\ EndOf(mode, s, k + 1) = b /\ Begins(mode, s, k + 1) = b
        /\ k + 1 \in 0 .. Len(s)
      BY <1>3, <1>9, <1>11, <2>1, Zenon
  <2>3. pc' = pc /\ handed' = handed /\ current' = EndOf(mode, s, k + 1)
        /\ EndOf(mode, s, k + 1) <= Size /\ Begins(mode, s, k + 1) = EndOf(mode, s, k + 1)
      BY <1>11, <2>2
  <2>4. Means(WholeUnits(mode, s, Size)) /\ Mark' \in Nat
      BY <2>2, <2>3, EmptyPassed
  <2>5. Lands(s)
      BY <1>5, <2>2, <2>3 DEF Lands
  <2> QED
      BY <2>4, <2>5
<1>12. CASE b <= Size /\ b + len <= Size /\ len > 0 /\ YieldSpan(b, b + len)
  <2>1. /\ k < Len(s) /\ EndOf(mode, s, k + 1) = b + len /\ Begins(mode, s, k + 1) = b
        /\ k + 1 \in 0 .. Len(s) /\ len \in Nat
      BY <1>3, <1>9, <1>12, Zenon
  <2>2. IsWhole(mode, s, k + 1) /\ EndOf(mode, s, k + 1) <= Size
    <3>1. b < b + len
        BY <1>2, <1>12, <2>1
    <3>2. EndOf(mode, s, k + 1) <= Size /\ Begins(mode, s, k + 1) < EndOf(mode, s, k + 1)
        BY <1>12, <2>1, <3>1, Zenon
    <3> QED
        BY <3>2, Zenon DEF IsWhole, Until
  <2>3. YieldSpan(Begins(mode, s, k + 1), EndOf(mode, s, k + 1))
      BY <1>12, <2>1, Zenon
  <2>4. /\ Means(WholeUnits(mode, s, Size)) /\ Mark' \in Nat
        /\ current' = EndOf(mode, s, k + 1)
      BY <2>1, <2>2, <2>3, UnitTaken
  <2>5. pc' = "ready"
      BY <1>12 DEF YieldSpan
  <2>6. Lands(s)
      BY <2>1, <2>2, <2>4, <2>5 DEF Lands
  <2> QED
      BY <2>4, <2>6
<1> QED
    BY <1>4, <1>6, <1>8, <1>10, <1>11, <1>12

LEMMA IvfMeans ==
  ASSUME NEW s, NEW k, TurnAt(s, k), Holds(s), mode = "Ivf", LocateIvf
  PROVE  Means(WholeUnits(mode, s, Size)) /\ Mark' \in Nat /\ Lands(s)
<1> DEFINE b == current + FrameHeader
           len == LittleEndian(current, LengthSize)
<1>1. Len(s) \in Nat /\ k \in Nat /\ Size \in Nat /\ current \in Nat
      /\ FrameHeader \in Nat /\ FrameHeader >= 1 /\ Skip(mode) = FrameHeader
    BY TurnIs, Widths DEF Skip
<1>2. b \in Nat /\ current < b
    BY <1>1
<1>3. ASSUME k < Len(s)
      PROVE  /\ \E p \in Nat : /\ EndOf(mode, s, k + 1) = b + p
                               /\ b <= Size => len = p
             /\ Begins(mode, s, k + 1) = b /\ ~ s[k + 1].open
             /\ k + 1 \in 0 .. Len(s)
  <2>1. PICK p \in Nat :
           /\ EndOf(mode, s, k + 1) = current + (FrameHeader + p)
           /\ current + FrameHeader <= Size => LittleEndian(current, LengthSize) = p
      BY <1>3, FrameRead
  <2>2. EndOf(mode, s, k + 1) = b + p
      BY <1>1, <2>1
  <2>3. Begins(mode, s, k + 1) = b
    <3>1. (k + 1) - 1 = k /\ EndOf(mode, s, k) = current
        BY <1>1 DEF TurnAt
    <3> QED
        BY <1>1, <3>1, Zenon DEF Begins
  <2>4. ~ s[k + 1].open
      BY <1>3, Closed
  <2>5. k + 1 \in 0 .. Len(s)
      BY <1>1, <1>3
  <2> QED
      BY <2>1, <2>2, <2>3, <2>4, <2>5, Zenon
<1>4. \/ b > Size /\ Finish
      \/ b <= Size /\ b + len > Size /\ FinishWith(b, b + len)
      \/ b <= Size /\ b + len <= Size /\ YieldSpan(b, b + len)
    BY Zenon DEF LocateIvf
<1>5. k \in 0 .. Len(s) /\ current = EndOf(mode, s, k) /\ pc = "start"
    BY DEF TurnAt
<1> HIDE DEF b, len
<1>6. ASSUME b > Size \/ b + len > Size,
             pc' = "finished" /\ current' = current /\ handed' = handed
      PROVE  Means(WholeUnits(mode, s, Size)) /\ Mark' \in Nat /\ Lands(s)
  <2>1. ASSUME k < Len(s) PROVE EndOf(mode, s, k + 1) > Size /\ ~ IsWhole(mode, s, k + 1)
    <3>1. PICK p \in Nat : EndOf(mode, s, k + 1) = b + p /\ (b <= Size => len = p)
        BY <1>3, <2>1
    <3>2. CASE b > Size
      <4>1. EndOf(mode, s, k + 1) > Size
          BY <1>1, <1>2, <3>1, <3>2
      <4> QED
          BY <1>3, <2>1, <4>1, NotWhole
    <3>3. CASE b <= Size
      <4>1. EndOf(mode, s, k + 1) > Size
          BY <1>1, <1>2, <1>6, <3>1, <3>3
      <4> QED
          BY <1>3, <2>1, <4>1, NotWhole
    <3> QED
        BY <1>1, <1>2, <3>2, <3>3
  <2>2. Means(WholeUnits(mode, s, Size)) /\ Mark' \in Nat
      BY <1>6, <2>1, NothingLeft
  <2>3. Lands(s)
      BY <1>5, <1>6 DEF Lands
  <2> QED
      BY <2>2, <2>3
<1>7. CASE b > Size /\ Finish
    BY <1>6, <1>7 DEF Finish, FinishWith
<1>8. CASE b <= Size /\ b + len > Size /\ FinishWith(b, b + len)
    BY <1>6, <1>8 DEF FinishWith
<1>9. CASE b <= Size /\ b + len <= Size /\ YieldSpan(b, b + len)
  <2>1. k < Len(s)
    <3>1. current < Size
        BY <1>1, <1>2, <1>9
    <3> QED
        BY <3>1, AnotherUnit
  <2>2. /\ EndOf(mode, s, k + 1) = b + len /\ Begins(mode, s, k + 1) = b
        /\ k + 1 \in 0 .. Len(s)
      BY <1>3, <1>9, <2>1, Zenon
  <2>3. IsWhole(mode, s, k + 1) /\ EndOf(mode, s, k + 1) <= Size
    <3>1. EndOf(mode, s, k + 1) <= Size
        BY <1>9, <2>2, Zenon
    <3> QED
        BY <3>1 DEF IsWhole
  <2>4. YieldSpan(Begins(mode, s, k + 1), EndOf(mode, s, k + 1))
      BY <1>9, <2>2, Zenon
  <2>5. /\ Means(WholeUnits(mode, s, Size)) /\ Mark' \in Nat
        /\ current' = EndOf(mode, s, k + 1)
      BY <2>1, <2>3, <2>4, UnitTaken
  <2>6. Lands(s)
      BY <2>2, <2>5 DEF Lands
  <2> QED
      BY <2>5, <2>6
<1> QED
    BY <1>4, <1>7, <1>8, <1>9

LEMMA ObuSizedMeans ==
  ASSUME NEW s, NEW k, TurnAt(s, k), Holds(s), mode = "Obu", current < Size,
         IsCut(mode, s, Size) => cut, LocateObu
  PROVE  Means(WholeUnits(mode, s, Size)) /\ Mark' \in Nat /\ Lands(s)
<1> DEFINE q == SizePosition
           n == LebLength(q)
           e == q + n + LebValue(q, n)
<1>1. Len(s) \in Nat /\ k \in Nat /\ Size \in Nat /\ current \in Nat
    BY TurnIs
<1>2. k < Len(s)
    BY ObuHead
<1>3. \/ s[k + 1].open /\ ~ HasSize(data[current])
      \/ /\ ~ s[k + 1].open /\ HasSize(data[current])
         /\ \E l \in 1 .. LebBytes, p \in Nat : SizedAs(s, k, l, p)
    BY ObuHead
<1>4. \/ current >= Size /\ Finish
      \/ current < Size /\ ~ HasSize(data[current]) /\ YieldSpan(current, Size)
      \/ current < Size /\ HasSize(data[current]) /\ n = 0 /\ Throw
      \/ current < Size /\ HasSize(data[current]) /\ n > 0 /\ e > Size /\ FinishWith(current, e)
      \/ current < Size /\ HasSize(data[current]) /\ n > 0 /\ e <= Size /\ YieldSpan(current, e)
    BY Zenon DEF LocateObu
<1>5. ~ (current >= Size)
    BY <1>1
<1>6. k \in 0 .. Len(s) /\ current = EndOf(mode, s, k) /\ pc = "start"
    BY DEF TurnAt
<1>7. k + 1 \in 0 .. Len(s) /\ (k + 1) - 1 = k
    BY <1>1, <1>2
<1>8. Begins(mode, s, k + 1) = current
  <2>1. Skip(mode) = 0
      BY DEF Skip
  <2>2. Begins(mode, s, k + 1) = EndOf(mode, s, k) + 0
      BY <1>7, <2>1, Zenon DEF Begins
  <2> QED
      BY <1>1, <1>6, <2>2
<1>9. CASE s[k + 1].open /\ ~ HasSize(data[current])
  <2>1. YieldSpan(current, Size)
      BY <1>4, <1>5, <1>9, Zenon
  <2>2. Size <= Len(Written(mode, s))
      BY Zenon DEF Holds
  <2>3. Means(WholeUnits(mode, s, Size)) /\ Mark' \in Nat /\ current' = Size
      BY <1>2, <1>9, <2>1, <2>2, OpenTaken
  <2>4. Lands(s)
      BY <1>1, <2>3 DEF Lands
  <2> QED
      BY <2>3, <2>4
<1>10. ASSUME ~ s[k + 1].open, HasSize(data[current]),
              NEW l \in 1 .. LebBytes, NEW p \in Nat, SizedAs(s, k, l, p)
       PROVE  Means(WholeUnits(mode, s, Size)) /\ Mark' \in Nat /\ Lands(s)
  <2>1. /\ q \in Nat /\ current < q
        /\ EndOf(mode, s, k + 1) = q + (l + p)
        /\ n = IF q + l <= Size THEN l ELSE 0
        /\ q + l <= Size => LebValue(q, l) = p
      BY <1>10, Zenon DEF SizedAs
  <2>2. l \in Nat /\ l >= 1
      BY Widths
  <2>3. q + l <= Size => n = l /\ e = q + l + p
      BY <2>1, Zenon
  <2>4. ~ (q + l <= Size) => n = 0
      BY <2>1, Zenon
  <2> HIDE DEF q, n, e
  <2>5. /\ EndOf(mode, s, k + 1) \in Nat /\ current < EndOf(mode, s, k + 1)
        /\ EndOf(mode, s, k + 1) = q + l + p
      BY <1>1, <2>1, <2>2
  <2>6. CASE n = 0 /\ Throw
    <3>1. ~ (q + l <= Size)
        BY <2>2, <2>3, <2>6
    <3>2. EndOf(mode, s, k + 1) > Size
        BY <1>1, <2>1, <2>2, <2>5, <3>1
    <3>3. ~ IsWhole(mode, s, k + 1)
        BY <1>2, <1>10, <3>2, NotWhole
    <3>4. cut
      <4>1. Size < EndOf(mode, s, k + 1)
          BY <1>1, <2>5, <3>2
      <4> QED
          BY <1>2, <4>1, CutInside
    <3>5. pc' = "failed" /\ current' = current /\ handed' = handed
        BY <2>6 DEF Throw
    <3>6. Means(WholeUnits(mode, s, Size)) /\ Mark' \in Nat
        BY <3>2, <3>3, <3>4, <3>5, NothingLeft
    <3>7. Lands(s)
        BY <1>1, <1>6, <3>5 DEF Lands
    <3> QED
        BY <3>6, <3>7
  <2>7. ASSUME n > 0 PROVE e = EndOf(mode, s, k + 1)
    <3>1. q + l <= Size
        BY <2>4, <2>7
    <3> QED
        BY <2>3, <2>5, <3>1, Zenon
  <2>8. CASE n > 0 /\ e > Size /\ FinishWith(current, e)
    <3>1. EndOf(mode, s, k + 1) > Size
        BY <2>7, <2>8, Zenon
    <3>2. ~ IsWhole(mode, s, k + 1)
        BY <1>2, <1>10, <3>1, NotWhole
    <3>3. pc' = "finished" /\ current' = current /\ handed' = handed
        BY <2>8 DEF FinishWith
    <3>4. Means(WholeUnits(mode, s, Size)) /\ Mark' \in Nat
        BY <3>1, <3>2, <3>3, NothingLeft
    <3>5. Lands(s)
        BY <1>1, <1>6, <3>3 DEF Lands
    <3> QED
        BY <3>4, <3>5
  <2>9. CASE n > 0 /\ e <= Size /\ YieldSpan(current, e)
    <3>1. EndOf(mode, s, k + 1) <= Size /\ YieldSpan(Begins(mode, s, k + 1), EndOf(mode, s, k + 1))
        BY <1>8, <2>7, <2>9, Zenon
    <3>2. IsWhole(mode, s, k + 1)
        BY <3>1 DEF IsWhole
    <3>3. /\ Means(WholeUnits(mode, s, Size)) /\ Mark' \in Nat
          /\ current' = EndOf(mode, s, k + 1)
        BY <1>2, <3>1, <3>2, UnitTaken
    <3>4. Lands(s)
        BY <1>7, <3>1, <3>3 DEF Lands
    <3> QED
        BY <3>3, <3>4
  <2> QED
      BY <1>4, <1>5, <1>10, <2>6, <2>8, <2>9, Zenon
<1> QED
    BY <1>3, <1>9, <1>10

(* What a buffer of sized units says of its framer.                        *)
SizedBuffer(s) ==
  /\ s \in Streams(mode) /\ Holds(s)
  /\ cut <=> IsCut(mode, s, Size)
  /\ Counted(WholeUnits(mode, s, Size))
  /\ (\E k \in 0 .. Len(s) : current = EndOf(mode, s, k)) \/ (mode = "Obu" /\ current = Size)
  /\ mode # "Ivf" => current <= Size
  /\ mode = "LengthPrefixed" /\ pc = "finished" => current = Size

LEMMA AtUnitIs == AtUnit <=> (mode \in SizedModes => \E s : SizedBuffer(s))
BY Zenon DEF AtUnit, SizedBuffer, Holds, SizedModes

LEMMA SizedMeans ==
  ASSUME IInv, mode \in SizedModes, NEW s, SizedBuffer(s), pc = "start", LocateSized, Kept
  PROVE  Means(WholeUnits(mode, s, Size)) /\ Mark' \in Nat /\ Lands(s)
<1>1. DataTyped /\ Size \in Nat /\ current \in Nat /\ mode # "AnnexB"
  <2>1. mode # "AnnexB"
      BY DEF SizedModes
  <2> QED
      BY <2>1, SizedState
<1>2. /\ s \in Streams(mode) /\ Holds(s) /\ (IsCut(mode, s, Size) => cut)
      /\ (\E k \in 0 .. Len(s) : current = EndOf(mode, s, k)) \/ (mode = "Obu" /\ current = Size)
      /\ mode # "Ivf" => current <= Size
    BY Zenon DEF SizedBuffer
<1>3. ASSUME NEW k \in 0 .. Len(s), current = EndOf(mode, s, k) PROVE TurnAt(s, k)
    BY <1>1, <1>2, <1>3, Zenon DEF TurnAt
<1>4. \/ mode = "LengthPrefixed" /\ LocateLengthPrefixed
      \/ mode = "Ivf" /\ LocateIvf
      \/ mode \in {"Obu", "ObuStartCodes"} /\ LowOverhead /\ LocateObu
      \/ mode \in {"Obu", "ObuStartCodes"} /\ ~LowOverhead /\ LocateObuStartCodes
    BY Zenon DEF LocateSized
<1>5. CASE mode = "LengthPrefixed"
  <2>1. PICK k \in 0 .. Len(s) : TurnAt(s, k)
      BY <1>2, <1>3, <1>5
  <2>2. current <= Size /\ LocateLengthPrefixed
      BY <1>2, <1>4, <1>5
  <2> QED
      BY <1>2, <1>5, <2>1, <2>2, LengthPrefixedMeans
<1>6. CASE mode = "Ivf"
  <2>1. PICK k \in 0 .. Len(s) : TurnAt(s, k)
      BY <1>2, <1>3, <1>6
  <2>2. LocateIvf
      BY <1>4, <1>6
  <2> QED
      BY <1>2, <1>6, <2>1, <2>2, IvfMeans
<1>7. CASE mode = "Obu"
  <2>1. LocateObu
    <3>1. LowOverhead
        BY <1>1, <1>2, <1>7, NoStartCode
    <3> QED
        BY <1>4, <1>7, <3>1
  <2>2. CASE current < Size
    <3>1. PICK k \in 0 .. Len(s) : TurnAt(s, k)
        BY <1>1, <1>2, <1>3, <2>2
    <3> QED
        BY <1>2, <1>7, <2>1, <2>2, <3>1, ObuSizedMeans
  <2>3. CASE ~ (current < Size)
    <3>1. current = Size
        BY <1>1, <1>2, <1>7, <2>3
    <3>2. Finish
        BY <2>1, <2>3, Zenon DEF LocateObu
    <3>3. pc' = "finished" /\ current' = current /\ handed' = handed
        BY <3>2 DEF Finish, FinishWith
    <3>4. Means(WholeUnits(mode, s, Size)) /\ Mark' \in Nat
        BY <1>1, <1>2, <1>7, <3>1, <3>3, DoneAtEnd
    <3>5. Lands(s)
        BY <1>1, <1>7, <3>1, <3>3 DEF Lands
    <3> QED
        BY <3>4, <3>5
  <2> QED
      BY <2>2, <2>3
<1> QED
    BY <1>5, <1>6, <1>7 DEF SizedModes

(* What a step that keeps the buffer keeps of it.                          *)
LEMMA BufferKept ==
  ASSUME NEW s, SizedBuffer(s), DataTyped, Kept,
         units' = InOrder(WholeUnits(mode, s, Size)),
         Len(handed') = Cardinality(Before(WholeUnits(mode, s, Size), Mark')),
         Lands(s)
  PROVE  SizedBuffer(s)'
<1>1. data' = data /\ mode' = mode /\ cut' = cut /\ Size' = Size
    BY KeptData DEF Kept
<1>2. WholeUnits(mode, s, Size)' = WholeUnits(mode, s, Size)
    BY <1>1
<1>3. Counted(WholeUnits(mode, s, Size))'
  <2>1. InOrder(WholeUnits(mode, s, Size))' = InOrder(WholeUnits(mode, s, Size))
      BY <1>2
  <2>2. {u \in WholeUnits(mode, s, Size) : u[1] < Mark}' = Before(WholeUnits(mode, s, Size), Mark')
      BY <1>2, Zenon DEF Before
  <2> QED
      BY <2>1, <2>2, Zenon DEF Counted
<1>4. s \in Streams(mode)' /\ Holds(s)' /\ (cut <=> IsCut(mode, s, Size))'
  <2>1. s \in Streams(mode) /\ Holds(s) /\ (cut <=> IsCut(mode, s, Size))
      BY Zenon DEF SizedBuffer
  <2>2. Streams(mode)' = Streams(mode)
      BY <1>1
  <2>3. Holds(s)'
    <3>1. Size <= Len(Written(mode, s)) /\ data = ByteFunction(SubSeq(Written(mode, s), 1, Size))
        BY <2>1, Zenon DEF Holds
    <3>2. Written(mode, s)' = Written(mode, s)
        BY <1>1
    <3>3. ByteFunction(SubSeq(Written(mode, s), 1, Size))' = ByteFunction(SubSeq(Written(mode, s), 1, Size))
        BY <1>1, <3>2
    <3> QED
        BY <1>1, <3>1, <3>2, <3>3, Zenon DEF Holds
  <2>4. IsCut(mode, s, Size)' <=> IsCut(mode, s, Size)
      BY <1>1
  <2> QED
      BY <1>1, <2>1, <2>2, <2>3, <2>4, Zenon
<1>5. /\ ((\E k \in 0 .. Len(s) : current = EndOf(mode, s, k)) \/ (mode = "Obu" /\ current = Size))'
      /\ (mode # "Ivf" => current <= Size)'
      /\ (mode = "LengthPrefixed" /\ pc = "finished" => current = Size)'
    BY <1>1, Zenon DEF Lands
<1> QED
    BY <1>3, <1>4, <1>5, Zenon DEF SizedBuffer

(* A turn of a framer that reads sizes is a step of the stream.            *)
LEMMA SizedFollows ==
  ASSUME IInv, mode \in SizedModes, NEW s, SizedBuffer(s), pc = "start", LocateSized, Kept
  PROVE  StreamStep /\ SizedBuffer(s)'
<1>1. /\ DataTyped /\ Size \in Nat /\ current \in Nat /\ mode # "AnnexB"
      /\ handed \in Seq(Spans(data)) /\ pc \in {"start", "ready", "finished", "failed"}
  <2>1. mode # "AnnexB"
      BY DEF SizedModes
  <2> QED
      BY <2>1, SizedState
<1>2. Means(WholeUnits(mode, s, Size)) /\ Mark' \in Nat /\ Lands(s)
    BY SizedMeans
<1>3. s \in Streams(mode) /\ Counted(WholeUnits(mode, s, Size))
    BY Zenon DEF SizedBuffer
<1>4. Distinct(WholeUnits(mode, s, Size))
    BY <1>1, <1>3, WholeUnitsDistinct
<1>5. Mark \in Nat
  <2>1. Skip(mode) \in Nat
      BY <1>3, UnitPlaces, Zenon DEF Placed
  <2>2. Mark = current + Skip(mode)
      BY Zenon DEF Mark
  <2> QED
      BY <1>1, <2>1, <2>2
<1>6. /\ StreamStep /\ units' = InOrder(WholeUnits(mode, s, Size))
      /\ Len(handed') = Cardinality(Before(WholeUnits(mode, s, Size), Mark'))
    BY <1>1, <1>2, <1>3, <1>4, <1>5, StreamFollows
<1>7. SizedBuffer(s)'
    BY <1>1, <1>2, <1>6, BufferKept
<1> QED
    BY <1>6, <1>7

(* A turn of the search of the OBU framer is one.                          *)
LEMMA ObuFollows ==
  ASSUME IInv, AtObu, mode = "ObuStartCodes", pc = "start", LocateSized, Kept
  PROVE  StreamStep /\ AtObu'
<1> DEFINE U == ObusBetweenStartCodes(data)
<1>1. DataTyped /\ handed \in Seq(Spans(data)) /\ current \in Nat
    BY SizedState
<1>2. ShortCode(data, 0) /\ Counted(U)
    BY Zenon DEF AtObu
<1>3. LocateObuStartCodes
  <2>1. ~ LowOverhead
      BY <1>2, Zenon DEF LowOverhead
  <2> QED
      BY <2>1 DEF LocateSized
<1>4. Means(U) /\ Mark' \in Nat
    BY <1>3, ObuMeans
<1>5. Distinct(U)
    BY <1>1, ObusAre
<1>6. Mark \in Nat
    BY <1>1 DEF Mark, Skip
<1> HIDE DEF U
<1>7. StreamStep /\ units' = InOrder(U) /\ Len(handed') = Cardinality(Before(U, Mark'))
    BY <1>1, <1>2, <1>4, <1>5, <1>6, StreamFollows
<1>8. data' = data /\ U' = U
    BY Zenon DEF Kept, U, ObusBetweenStartCodes
<1>9. Counted(U)'
  <2>1. InOrder(U)' = InOrder(U)
      BY <1>8
  <2>2. {u \in U : u[1] < Mark}' = Before(U, Mark')
      BY <1>8, Zenon DEF Before
  <2> QED
      BY <1>7, <2>1, <2>2, Zenon DEF Counted
<1>10. ShortCode(data, 0)'
    BY <1>2, <1>8
<1> QED
    BY <1>7, <1>9, <1>10, Zenon DEF AtObu, U

-----------------------------------------------------------------------------
(* Where every framer stands between two turns.                            *)

LEMMA Recounted ==
  ASSUME NEW U, Counted(U), Kept, handed' = handed, Mark' = Mark
  PROVE  units' = InOrder(U) /\ Len(handed') = Cardinality(Before(U, Mark'))
<1>1. units = InOrder(U) /\ Len(handed) = Cardinality(Before(U, Mark))
    BY Zenon DEF Counted, Before
<1> QED
    BY <1>1, Zenon DEF Kept

(* A step that leaves the framer where it is.                              *)
LEMMA Rests ==
  ASSUME IInv, Places, mode # "AnnexB", Kept, current' = current, handed' = handed,
         pc' \in {"start", "ready", "finished", "failed"}, pc' = "finished" => pc = "finished"
  PROVE  Places'
<1>1. DataTyped /\ pc \in {"start", "ready", "finished", "failed"} /\ mode' = mode /\ data' = data
    BY SizedState DEF Kept
<1>2. Mark' = Mark
  <2>1. Mark = current + Skip(mode)
      BY <1>1, Zenon DEF Mark
  <2>2. Mark' = current' + Skip(mode)'
      BY Zenon DEF Mark
  <2>3. Skip(mode)' = Skip(mode)
      BY <1>1
  <2> QED
      BY <2>1, <2>2, <2>3, Zenon
<1>3. AtStartCode'
    BY <1>1, Zenon DEF AtStartCode
<1>4. AtObu'
  <2>1. CASE mode = "ObuStartCodes"
    <3> DEFINE U == ObusBetweenStartCodes(data)
    <3>1. ShortCode(data, 0) /\ Counted(U)
        BY <2>1, Zenon DEF Places, AtObu
    <3>2. U' = U
        BY <1>1, Zenon DEF ObusBetweenStartCodes
    <3> HIDE DEF U
    <3>3. units' = InOrder(U) /\ Len(handed') = Cardinality(Before(U, Mark'))
        BY <1>2, <3>1, Recounted
    <3>4. InOrder(U)' = InOrder(U)
        BY <3>2
    <3>5. {u \in U : u[1] < Mark}' = Before(U, Mark')
        BY <3>2, Zenon DEF Before
    <3>6. Counted(U)'
        BY <3>3, <3>4, <3>5, Zenon DEF Counted
    <3>7. ShortCode(data, 0)'
        BY <1>1, <3>1
    <3> QED
        BY <3>6, <3>7, Zenon DEF AtObu, U
  <2>2. CASE mode # "ObuStartCodes"
      BY <1>1, <2>2, Zenon DEF AtObu
  <2> QED
      BY <2>1, <2>2
<1>5. AtUnit'
  <2>1. CASE mode \in SizedModes
    <3>1. PICK s : SizedBuffer(s)
        BY <2>1, AtUnitIs, Zenon DEF Places
    <3>2. Counted(WholeUnits(mode, s, Size))
        BY <3>1, Zenon DEF SizedBuffer
    <3>3. /\ units' = InOrder(WholeUnits(mode, s, Size))
          /\ Len(handed') = Cardinality(Before(WholeUnits(mode, s, Size), Mark'))
        BY <1>2, <3>2, Recounted
    <3>4. Lands(s)
        BY <3>1, Zenon DEF SizedBuffer, Lands
    <3>5. SizedBuffer(s)'
        BY <1>1, <3>1, <3>3, <3>4, BufferKept
    <3> QED
        BY <3>5, Zenon DEF AtUnit, SizedBuffer, Holds
  <2>2. CASE mode \notin SizedModes
      BY <1>1, <2>2, Zenon DEF AtUnit, SizedModes
  <2> QED
      BY <2>1, <2>2
<1> QED
    BY <1>3, <1>4, <1>5, Zenon DEF Places

(* A step that changes nothing.                                            *)
LEMMA PlacesStutter ==
  ASSUME IInv, Places, UNCHANGED allVars
  PROVE  Places' /\ StreamStep
<1>1. Kept /\ i' = i /\ pc' = pc /\ current' = current /\ begin' = begin /\ end' = end
      /\ handed' = handed
    BY DEF allVars, vars, framer, Kept
<1>2. StreamStep
    BY <1>1, StreamStutter
<1>3. CASE mode # "AnnexB"
  <2>1. pc \in {"start", "ready", "finished", "failed"}
      BY <1>3, SizedState
  <2> QED
      BY <1>1, <1>2, <1>3, <2>1, Rests
<1>4. CASE mode = "AnnexB"
  <2>1. data' = data /\ mode' = mode /\ Size' = Size
      BY <1>1 DEF Kept, Size
  <2>2. Counted(UnitSpans(data)) /\ BetweenStartCodes
      BY <1>4, Zenon DEF Places, AtStartCode
  <2>3. Mark' = Mark
      BY <1>1, <2>1, Zenon DEF Mark, Skip
  <2>4. Counted(UnitSpans(data))'
    <3> DEFINE U == UnitSpans(data)
    <3>1. U' = U
        BY <2>1, Zenon DEF UnitSpans
    <3>2. Counted(U)
        BY <2>2
    <3> HIDE DEF U
    <3>3. units' = InOrder(U) /\ Len(handed') = Cardinality(Before(U, Mark'))
        BY <1>1, <2>3, <3>2, Recounted
    <3>4. InOrder(U)' = InOrder(U)
        BY <3>1
    <3>5. {u \in U : u[1] < Mark}' = Before(U, Mark')
        BY <3>1, Zenon DEF Before
    <3>6. Counted(U)'
        BY <3>3, <3>4, <3>5, Zenon DEF Counted
    <3> QED
        BY <3>6, Zenon DEF U
  <2>5. BetweenStartCodes'
    <3>1. StartCodeSize(current)' = StartCodeSize(current)
        BY <1>1, <2>1, Zenon DEF StartCodeSize
    <3> QED
        BY <1>1, <2>1, <2>2, <3>1, Zenon DEF BetweenStartCodes
  <2>6. AtObu' /\ AtUnit'
      BY <1>4, <2>1, Zenon DEF AtObu, AtUnit
  <2> QED
      BY <1>2, <2>4, <2>5, <2>6, Zenon DEF Places, AtStartCode
<1> QED
    BY <1>3, <1>4

LEMMA PlacesNext ==
  ASSUME IInv, Places, [Next]_allVars
  PROVE  Places' /\ StreamStep
<1>1. CASE SearchAnnexB
  <2>1. StreamStep /\ AtStartCode'
      BY <1>1, SearchFollows, Zenon DEF Places
  <2>2. mode' = "AnnexB"
      BY <1>1 DEF SearchAnnexB
  <2>3. AtObu' /\ AtUnit'
      BY <2>2, Zenon DEF AtObu, AtUnit
  <2> QED
      BY <2>1, <2>3, Zenon DEF Places
<1>2. CASE LocateNext
  <2>1. mode # "AnnexB" /\ pc = "start" /\ LocateSized
      BY <1>2 DEF LocateNext
  <2>2. Kept /\ mode \in {"LengthPrefixed", "Obu", "ObuStartCodes", "Ivf"} /\ mode' = mode
      BY <2>1, SizedTurn, SizedState DEF Kept
  <2>3. AtStartCode'
      BY <2>1, <2>2, Zenon DEF AtStartCode
  <2>4. CASE mode = "ObuStartCodes"
    <3>1. StreamStep /\ AtObu'
        BY <2>1, <2>2, <2>4, ObuFollows, Zenon DEF Places
    <3>2. AtUnit'
        BY <2>2, <2>4, Zenon DEF AtUnit
    <3> QED
        BY <2>3, <3>1, <3>2, Zenon DEF Places
  <2>5. CASE mode # "ObuStartCodes"
    <3>1. mode \in SizedModes
        BY <2>2, <2>5 DEF SizedModes
    <3>2. PICK s : SizedBuffer(s)
        BY <3>1, AtUnitIs, Zenon DEF Places
    <3>3. StreamStep /\ SizedBuffer(s)'
        BY <2>1, <2>2, <3>1, <3>2, SizedFollows
    <3>4. AtUnit'
        BY <3>3, Zenon DEF AtUnit, SizedBuffer, Holds
    <3>5. AtObu'
        BY <2>2, <2>5, Zenon DEF AtObu
    <3> QED
        BY <2>3, <3>3, <3>4, <3>5, Zenon DEF Places
  <2> QED
      BY <2>4, <2>5
<1>3. CASE NextUnit
  <2>1. mode # "AnnexB" /\ pc = "ready" /\ pc' = "start" /\ Kept
        /\ current' = current /\ handed' = handed
      BY <1>3 DEF NextUnit, Kept
  <2>2. Places'
      BY <2>1, Rests
  <2>3. StreamStep
      BY <2>1, StreamStutter DEF Open
  <2> QED
      BY <2>2, <2>3
<1>4. CASE NextAtEnd
  <2>1. CASE mode \in {"AnnexB", "LengthPrefixed"}
    <3>1. UNCHANGED allVars
        BY <1>4, <2>1, Zenon DEF NextAtEnd
    <3> QED
        BY <3>1, PlacesStutter
  <2>2. CASE mode \notin {"AnnexB", "LengthPrefixed"}
    <3>1. pc = "finished" /\ LocateSized
        BY <1>4, <2>2, Zenon DEF NextAtEnd
    <3>2. mode # "AnnexB" /\ mode # "LengthPrefixed"
        BY <2>2
    <3>3. Ended
        BY <3>1, Zenon DEF IInv, NothingMore
    <3>4. Kept /\ Stops
        BY <3>1, <3>2, <3>3, SizedTurn, Zenon
    <3>5. pc' = pc /\ current' = current /\ handed' = handed
        BY <3>1, <3>4 DEF Stops
    <3>6. Places'
        BY <3>1, <3>2, <3>4, <3>5, Rests
    <3> QED
        BY <3>4, <3>5, <3>6, StreamStutter
  <2> QED
      BY <2>1, <2>2
<1>5. CASE GivenUp \/ UNCHANGED allVars
  <2>1. UNCHANGED allVars
      BY <1>5 DEF GivenUp
  <2> QED
      BY <2>1, PlacesStutter
<1> QED
    BY <1>1, <1>2, <1>3, <1>4, <1>5 DEF Next

(* Nothing has been handed out, and nothing begins before the first unit.  *)
LEMMA NoneCounted ==
  ASSUME NEW U, units = InOrder(U), handed = << >>, \A u \in U : ~ (u[1] < Mark)
  PROVE  Counted(U)
<1>1. {u \in U : u[1] < Mark} = {}
    BY Zenon
<1>2. Cardinality({}) = 0 /\ Len(handed) = 0
    BY FS_EmptySet
<1> QED
    BY <1>1, <1>2, Zenon DEF Counted

(* The units of a set of spans of the buffer are spans.                    *)
LEMMA UnitsAreSpans ==
  ASSUME DataTyped, NEW U, U \subseteq Spans(data), Distinct(U)
  PROVE  InOrder(U) \in Seq(Nat \X Nat)
<1>1. Size \in Nat /\ Size = Cardinality(DOMAIN data)
    BY DEF DataTyped, Size
<1>2. Spans(data) = {x \in (0 .. Size) \X (0 .. Size) : x[1] <= x[2]}
    BY <1>1, Zenon DEF Spans
<1>3. U \subseteq Nat \X Nat
    BY <1>1, <1>2
<1>4. InOrder(U) \in Seq(U)
    BY InOrderIs
<1>5. PICK q : q = InOrder(U) /\ q \in Seq(U)
    BY <1>4
<1>6. q \in Seq(Nat \X Nat)
    BY <1>3, <1>5
<1> QED
    BY <1>5, <1>6

LEMMA InitSearchedPlaces ==
  ASSUME Init, InitSearched
  PROVE  Places /\ units \in Seq(Nat \X Nat) /\ cut \in BOOLEAN
<1>1. /\ DataTyped /\ Size \in Nat
      /\ pc = "start" /\ i = 0 /\ handed = << >> /\ current = FileStart(mode)
    BY InitData DEF Init, DataTyped
<1>2. /\ cut = FALSE
      /\ \/ mode = "AnnexB" /\ units = InOrder(UnitSpans(data))
         \/ mode = "ObuStartCodes" /\ ShortCode(data, 0) /\ units = InOrder(ObusBetweenStartCodes(data))
    BY Zenon DEF InitSearched
<1>3. current = 0 /\ Mark = 3
  <2>1. FileStart(mode) = 0 /\ Skip(mode) = 3
      BY <1>2 DEF FileStart, Skip
  <2>2. Mark = current + Skip(mode)
      BY <1>1 DEF Mark
  <2> QED
      BY <1>1, <2>1, <2>2
<1>4. CASE mode = "AnnexB" /\ units = InOrder(UnitSpans(data))
  <2>1. \A u \in UnitSpans(data) : ~ (u[1] < Mark)
    <3> SUFFICES ASSUME NEW u \in UnitSpans(data) PROVE ~ (u[1] < Mark)
        OBVIOUS
    <3>1. u[1] \in Nat /\ u[1] >= 3
        BY <1>1, UnitBegins
    <3> QED
        BY <1>3, <3>1
  <2>2. Counted(UnitSpans(data))
      BY <1>1, <1>4, <2>1, NoneCounted
  <2>3. BetweenStartCodes
      BY <1>1, <1>3 DEF BetweenStartCodes
  <2>4. units \in Seq(Nat \X Nat)
    <3>1. UnitSpans(data) \subseteq Spans(data)
        BY Zenon DEF UnitSpans
    <3>2. InOrder(UnitSpans(data)) \in Seq(Nat \X Nat)
        BY <1>1, <3>1, UnitSpansAre, UnitsAreSpans
    <3> QED
        BY <1>4, <3>2
  <2>5. AtStartCode
      BY <2>2, <2>3, Zenon DEF AtStartCode
  <2>6. AtObu /\ AtUnit
      BY <1>4 DEF AtObu, AtUnit
  <2> QED
      BY <1>2, <2>4, <2>5, <2>6 DEF Places
<1>5. CASE mode = "ObuStartCodes" /\ ShortCode(data, 0) /\ units = InOrder(ObusBetweenStartCodes(data))
  <2>1. \A u \in ObusBetweenStartCodes(data) : ~ (u[1] < Mark)
    <3> SUFFICES ASSUME NEW u \in ObusBetweenStartCodes(data) PROVE ~ (u[1] < Mark)
        OBVIOUS
    <3>1. u[1] \in Nat /\ u[1] >= 3
        BY <1>1, ObusAre DEF IsObu
    <3> QED
        BY <1>3, <3>1
  <2>2. Counted(ObusBetweenStartCodes(data))
      BY <1>1, <1>5, <2>1, NoneCounted
  <2>3. AtObu
      BY <1>5, <2>2, Zenon DEF AtObu
  <2>4. units \in Seq(Nat \X Nat)
    <3>1. ObusBetweenStartCodes(data) \subseteq Spans(data)
        BY Zenon DEF ObusBetweenStartCodes
    <3>2. InOrder(ObusBetweenStartCodes(data)) \in Seq(Nat \X Nat)
        BY <1>1, <3>1, ObusAre, UnitsAreSpans
    <3> QED
        BY <1>5, <3>2
  <2>5. AtStartCode /\ AtUnit
      BY <1>5 DEF AtStartCode, AtUnit
  <2> QED
      BY <1>2, <2>3, <2>4, <2>5 DEF Places
<1> QED
    BY <1>2, <1>4, <1>5

LEMMA InitSizedPlaces ==
  ASSUME Init, InitSized
  PROVE  Places /\ units \in Seq(Nat \X Nat) /\ cut \in BOOLEAN
<1>1. /\ DataTyped /\ Size \in Nat
      /\ pc = "start" /\ i = 0 /\ handed = << >> /\ current = FileStart(mode)
    BY InitData DEF Init, DataTyped
<1>2a. PICK m \in SizedModes : \E s \in Streams(m) : \E n \in 0 .. Len(Written(m, s)) :
        /\ mode = m
        /\ data = ByteFunction(SubSeq(Written(m, s), 1, n))
        /\ units = InOrder(WholeUnits(m, s, n))
        /\ cut = IsCut(m, s, n)
    BY Zenon DEF InitSized, SizedModes
<1>2b. PICK s \in Streams(m) : \E n \in 0 .. Len(Written(m, s)) :
        /\ mode = m
        /\ data = ByteFunction(SubSeq(Written(m, s), 1, n))
        /\ units = InOrder(WholeUnits(m, s, n))
        /\ cut = IsCut(m, s, n)
    BY <1>2a
<1>2. PICK n \in 0 .. Len(Written(m, s)) :
        /\ mode = m
        /\ data = ByteFunction(SubSeq(Written(m, s), 1, n))
        /\ units = InOrder(WholeUnits(m, s, n))
        /\ cut = IsCut(m, s, n)
    BY <1>2b
<1>3. Placed(m, s)
    BY UnitPlaces
<1>4. /\ Len(s) \in Nat /\ FileStart(m) \in Nat /\ Skip(m) \in Nat
      /\ Written(m, s) \in Seq(Nat) /\ EndOf(m, s, 0) = FileStart(m)
    BY <1>3, Zenon DEF Placed
<1>5. Size = n
  <2>1. PICK w \in Seq(Nat) : w = Written(m, s)
      BY <1>4
  <2>2. n \in 0 .. Len(w) /\ data = ByteFunction(SubSeq(w, 1, n))
      BY <1>2, <2>1
  <2>3. SubSeq(w, 1, n) \in Seq(Nat) /\ Len(SubSeq(w, 1, n)) = n
      BY <2>2
  <2>4. DOMAIN data = 0 .. (n - 1) /\ n \in Nat
      BY <2>2, <2>3 DEF ByteFunction
  <2> QED
      BY <2>4, SizeIs
<1>6. Size <= Len(Written(m, s))
    BY <1>4, <1>5
<1>7. 0 \in 0 .. Len(s) /\ current = EndOf(mode, s, 0)
    BY <1>1, <1>2, <1>4
<1> DEFINE U == WholeUnits(mode, s, Size)
<1>8. U = WholeUnits(m, s, n) /\ Distinct(U) /\ U \subseteq Spans(data)
  <2>1. Distinct(WholeUnits(m, s, Size)) /\ WholeUnits(m, s, Size) \subseteq Spans(data)
      BY <1>1, WholeUnitsDistinct
  <2> QED
      BY <1>2, <1>5, <2>1, Zenon
<1>9. ASSUME NEW u \in U PROVE ~ (u[1] < Mark)
  <2>1. PICK j \in 1 .. Len(s) : u = UnitAt(mode, s, j)
      BY WholeUnitsAre
  <2>2. u[1] = Begins(mode, s, j)
      BY <2>1 DEF UnitAt
  <2>3. Begins(mode, s, j) < EndOf(mode, s, 0) + Skip(mode) <=> j <= 0
      BY <1>1, <1>2, <1>7, WholeUnitsDistinct
  <2>4. Mark = EndOf(mode, s, 0) + Skip(mode)
      BY <1>1, <1>7, Zenon DEF Mark
  <2>5. ~ (j <= 0)
      OBVIOUS
  <2> QED
      BY <2>2, <2>3, <2>4, <2>5, Zenon
<1> HIDE DEF U
<1>10. Counted(U)
    BY <1>1, <1>2, <1>8, <1>9, NoneCounted
<1>11. units \in Seq(Nat \X Nat)
    BY <1>1, <1>2, <1>8, UnitsAreSpans
<1>12. SizedBuffer(s)
  <2>1. s \in Streams(mode) /\ Holds(s) /\ (cut <=> IsCut(mode, s, Size))
      BY <1>2, <1>5, <1>6, Zenon DEF Holds
  <2>2. mode # "Ivf" => current <= Size
    <3>1. mode # "Ivf" => FileStart(mode) = 0
        BY DEF FileStart
    <3> QED
        BY <1>1, <3>1
  <2>3. pc # "finished"
      BY <1>1
  <2> QED
      BY <1>7, <1>10, <2>1, <2>2, <2>3, Zenon DEF SizedBuffer, U
<1>13. AtUnit
    BY <1>12, AtUnitIs, Zenon
<1>14. AtStartCode /\ AtObu
    BY <1>2 DEF AtStartCode, AtObu, SizedModes
<1>15. cut \in BOOLEAN
    BY <1>2 DEF IsCut
<1> QED
    BY <1>11, <1>13, <1>14, <1>15 DEF Places

LEMMA PlacesInit == Init => Places /\ Stream!Init
<1> SUFFICES ASSUME Init PROVE Places /\ Stream!Init
    OBVIOUS
<1>1. Places /\ units \in Seq(Nat \X Nat) /\ cut \in BOOLEAN
    BY InitSearchedPlaces, InitSizedPlaces DEF Init
<1>2. handed = << >> /\ pc = "start"
    BY DEF Init
<1>3. (CASE pc = "finished" -> "stopped" [] pc = "failed" -> "failed" [] OTHER -> "open") = "open"
    BY <1>2
<1> QED
    BY <1>1, <1>2, <1>3, Zenon DEF Stream!Init

-----------------------------------------------------------------------------
(* What an encoder escapes, and what is read of it.                        *)

(* The reader of the units that are handed out.                            *)
Reader == INSTANCE RbspReading WITH
  Tools <- {}, at <- pc, read <- << >>, wrote <- << >>, carry <- << >>

(* A byte is escaped behind two zeros.                                     *)
Guarded(w, b) == Len(w) >= 2 /\ w[Len(w)] = 0 /\ w[Len(w) - 1] = 0 /\ b <= 3

Escaped(w, b, u) ==
  /\ u \in Seq(Nat)
  /\ \A j \in 1 .. Len(w) : u[j] = w[j]
  /\ Guarded(w, b) => Len(u) = Len(w) + 2 /\ u[Len(w) + 1] = 3 /\ u[Len(w) + 2] = b
  /\ ~ Guarded(w, b) => Len(u) = Len(w) + 1 /\ u[Len(w) + 1] = b

LEMMA EscapeIs ==
  ASSUME NEW w \in Seq(Nat), NEW b \in Nat
  PROVE  Escaped(w, b, Reader!Escape(w, b))
<1>0. PICK u : u = Reader!Escape(w, b)
    OBVIOUS
<1>1. u = IF Guarded(w, b) THEN w \o <<3, b>> ELSE Append(w, b)
    BY <1>0, Zenon DEF Reader!Escape, Guarded
<1>2. CASE Guarded(w, b)
  <2>1. u = w \o <<3, b>>
      BY <1>1, <1>2
  <2>2. PICK v \in Seq(Nat) : v = <<3, b>> /\ Len(v) = 2 /\ v[1] = 3 /\ v[2] = b
    <3>1. <<3, b>> \in Seq(Nat) /\ Len(<<3, b>>) = 2 /\ <<3, b>>[1] = 3 /\ <<3, b>>[2] = b
        OBVIOUS
    <3> QED
        BY <3>1, Zenon
  <2>3. u = w \o v
      BY <2>1, <2>2
  <2>4. /\ u \in Seq(Nat) /\ Len(u) = Len(w) + 2
        /\ \A j \in 1 .. Len(w) : u[j] = w[j]
        /\ u[Len(w) + 1] = 3 /\ u[Len(w) + 2] = b
      BY <2>2, <2>3
  <2> QED
      BY <1>0, <1>2, <2>4, Zenon DEF Escaped
<1>3. CASE ~ Guarded(w, b)
  <2>1. u = Append(w, b)
      BY <1>1, <1>3
  <2>2. /\ u \in Seq(Nat) /\ Len(u) = Len(w) + 1
        /\ \A j \in 1 .. Len(w) : u[j] = w[j]
        /\ u[Len(w) + 1] = b
      BY <2>1
  <2> QED
      BY <1>0, <1>3, <2>2, Zenon DEF Escaped
<1> QED
    BY <1>2, <1>3

(* What the encoder has written after each byte.                           *)
Escapes(W, r, n) ==
  /\ W \in [0 .. n -> Seq(Nat)] /\ W[0] = << >>
  /\ \A k \in 1 .. n : W[k] = Reader!Escape(W[k - 1], r[k])
  /\ Reader!WritesEbsp(r) = W[n]

LEMMA EscapesAre ==
  ASSUME NEW r \in Seq(Nat)
  PROVE  \E W : Escapes(W, r, Len(r))
<1> DEFINE n == Len(r)
           step == [k \in 1 .. n |-> [v \in Seq(Nat) |-> Reader!Escape(v, r[k])]]
           W == CHOOSE f : f = [k \in 0 .. n |-> IF k = 0 THEN << >>
                                                 ELSE Reader!Escape(f[k - 1], r[k])]
<1>1. << >> \in Seq(Nat) /\ n \in Nat /\ \A k \in 1 .. n : r[k] \in Nat
    OBVIOUS
<1>2. step \in [1 .. n -> [Seq(Nat) -> Seq(Nat)]]
  <2>1. \A k \in 1 .. n : \A v \in Seq(Nat) : Reader!Escape(v, r[k]) \in Seq(Nat)
      BY <1>1, EscapeIs DEF Escaped
  <2> QED
      BY <2>1
<1>3. \A k \in 1 .. n : \A v \in Seq(Nat) : step[k][v] = Reader!Escape(v, r[k])
    OBVIOUS
<1> HIDE DEF step, n
<1>4. PICK e \in [0 .. n -> Seq(Nat)] : Goes(e, << >>, step, n)
    BY <1>1, <1>2, GoesOn
<1>5. e = [k \in 0 .. n |-> IF k = 0 THEN << >> ELSE Reader!Escape(e[k - 1], r[k])]
  <2>1. e = [k \in 0 .. n |-> IF k = 0 THEN << >> ELSE step[k][e[k - 1]]]
      BY <1>4, Zenon DEF Goes
  <2>2. ASSUME NEW k \in 0 .. n, k # 0 PROVE step[k][e[k - 1]] = Reader!Escape(e[k - 1], r[k])
    <3>1. k \in 1 .. n /\ k - 1 \in 0 .. n
        BY <1>1, <2>2
    <3>2. e[k - 1] \in Seq(Nat)
        BY <1>4, <3>1
    <3> QED
        BY <1>3, <3>1, <3>2, Zenon
  <2> QED
      BY <2>1, <2>2, Zenon
<1>6. W = [k \in 0 .. n |-> IF k = 0 THEN << >> ELSE Reader!Escape(W[k - 1], r[k])]
    BY <1>5, Zenon
<1>7. Reader!WritesEbsp(r) = W[n]
    BY Zenon DEF Reader!WritesEbsp, n
<1> HIDE DEF W
<1>8. W[0] = << >> /\ \A k \in 1 .. n : W[k] = Reader!Escape(W[k - 1], r[k])
  <2>1. 0 \in 0 .. n /\ \A k \in 1 .. n : k \in 0 .. n /\ k # 0
      BY <1>1
  <2> QED
      BY <1>6, <2>1, Zenon
<1>9. \A k \in 0 .. n : W[k] \in Seq(Nat)
  <2>1. ASSUME NEW k \in 1 .. n, W[k - 1] \in Seq(Nat) PROVE W[k] \in Seq(Nat)
    <3>1. r[k] \in Nat /\ W[k] = Reader!Escape(W[k - 1], r[k])
        BY <1>1, <1>8, Zenon
    <3>2. Reader!Escape(W[k - 1], r[k]) \in Seq(Nat)
        BY <2>1, <3>1, EscapeIs DEF Escaped
    <3> QED
        BY <3>1, <3>2, Zenon
  <2> QED
      BY <1>1, <1>8, <2>1, AllIn
<1>10. W \in [0 .. n -> Seq(Nat)]
  <2>1. \E h : W = [k \in 0 .. n |-> h[k]]
    <3>1. PICK h : h = [k \in 0 .. n |-> IF k = 0 THEN << >> ELSE Reader!Escape(W[k - 1], r[k])]
        OBVIOUS
    <3>2. W = h /\ h = [k \in 0 .. n |-> h[k]]
        BY <1>6, <3>1
    <3> QED
        BY <3>2
  <2> QED
      BY <1>9, <2>1
<1> QED
    BY <1>7, <1>8, <1>10, Zenon DEF Escapes, n

(* What the reader has kept after each byte.                               *)
Keeps(K, e) ==
  /\ K[0] = << >>
  /\ \A k \in 1 .. Len(e) :
       K[k] = IF Reader!IsEmulationPreventionByte(e, k) THEN K[k - 1] ELSE Append(K[k - 1], e[k])
  /\ Reader!BuildLogicalMap(e) = K[Len(e)]

LEMMA KeepsAre ==
  ASSUME NEW e \in Seq(Nat)
  PROVE  \E K : Keeps(K, e)
<1> DEFINE n == Len(e)
           Next1(k, v) == IF Reader!IsEmulationPreventionByte(e, k) THEN v ELSE Append(v, e[k])
           step == [k \in 1 .. n |-> [v \in Seq(Nat) |-> Next1(k, v)]]
           K == CHOOSE f : f = [k \in 0 .. n |-> IF k = 0 THEN << >>
                                                 ELSE IF Reader!IsEmulationPreventionByte(e, k) THEN f[k - 1]
                                                 ELSE Append(f[k - 1], e[k])]
<1>1. << >> \in Seq(Nat) /\ n \in Nat /\ \A k \in 1 .. n : e[k] \in Nat
    OBVIOUS
<1>2. step \in [1 .. n -> [Seq(Nat) -> Seq(Nat)]]
  <2>1. ASSUME NEW k \in 1 .. n, NEW v \in Seq(Nat) PROVE Next1(k, v) \in Seq(Nat)
    <3>1. Append(v, e[k]) \in Seq(Nat)
        BY <1>1
    <3> QED
        BY <3>1
  <2> HIDE DEF Next1
  <2> QED
      BY <2>1
<1>3. \A k \in 1 .. n : \A v \in Seq(Nat) : step[k][v] = Next1(k, v)
    OBVIOUS
<1> HIDE DEF step, n
<1>4. PICK f \in [0 .. n -> Seq(Nat)] : Goes(f, << >>, step, n)
    BY <1>1, <1>2, GoesOn
<1>5. f = [k \in 0 .. n |-> IF k = 0 THEN << >> ELSE Next1(k, f[k - 1])]
  <2>1. f = [k \in 0 .. n |-> IF k = 0 THEN << >> ELSE step[k][f[k - 1]]]
      BY <1>4, Zenon DEF Goes
  <2>2. ASSUME NEW k \in 0 .. n, k # 0 PROVE step[k][f[k - 1]] = Next1(k, f[k - 1])
    <3>1. k \in 1 .. n /\ k - 1 \in 0 .. n
        BY <1>1, <2>2
    <3>2. f[k - 1] \in Seq(Nat)
        BY <1>4, <3>1
    <3> QED
        BY <1>3, <3>1, <3>2, Zenon
  <2> HIDE DEF Next1
  <2> QED
      BY <2>1, <2>2, Zenon
<1>6. K = [k \in 0 .. n |-> IF k = 0 THEN << >>
                           ELSE IF Reader!IsEmulationPreventionByte(e, k) THEN K[k - 1]
                           ELSE Append(K[k - 1], e[k])]
    BY <1>5, Zenon
<1>7. Reader!BuildLogicalMap(e) = K[n]
    BY Zenon DEF Reader!BuildLogicalMap, n
<1> HIDE DEF K
<1>8. 0 \in 0 .. n /\ \A k \in 1 .. n : k \in 0 .. n /\ k # 0
    BY <1>1
<1> QED
    BY <1>6, <1>7, <1>8, Zenon DEF Keeps, n

(* What has been written stays.                                            *)
Begun(v, w) == Len(v) <= Len(w) /\ \A j \in 1 .. Len(v) : w[j] = v[j]

LEMMA EscapeBegun ==
  ASSUME NEW v \in Seq(Nat), NEW w \in Seq(Nat), NEW b \in Nat, Begun(v, w)
  PROVE  Begun(v, Reader!Escape(w, b))
<1>1. PICK u : u = Reader!Escape(w, b)
    OBVIOUS
<1>2. /\ u \in Seq(Nat) /\ \A j \in 1 .. Len(w) : u[j] = w[j]
      /\ Len(u) = Len(w) + 2 \/ Len(u) = Len(w) + 1
  <2>1. Escaped(w, b, u)
      BY <1>1, EscapeIs, Zenon
  <2> QED
      BY <2>1 DEF Escaped
<1>3. Len(v) <= Len(w) /\ \A j \in 1 .. Len(v) : w[j] = v[j]
    BY DEF Begun
<1>4. Len(v) <= Len(u) /\ \A j \in 1 .. Len(v) : u[j] = v[j]
    BY <1>2, <1>3
<1> QED
    BY <1>1, <1>4, Zenon DEF Begun

(* Behind two zeros no byte of an escaped payload is below three.          *)
Protected(e) == \A j \in 3 .. Len(e) : e[j - 2] = 0 /\ e[j - 1] = 0 => e[j] >= 3

LEMMA EscapeProtected ==
  ASSUME NEW w \in Seq(Nat), NEW b \in Nat, Protected(w)
  PROVE  Protected(Reader!Escape(w, b))
<1>1. PICK u : u = Reader!Escape(w, b)
    OBVIOUS
<1>0. Escaped(w, b, u)
    BY <1>1, EscapeIs, Zenon
<1>2. PICK l \in Nat : l = Len(w)
    OBVIOUS
<1>3. u \in Seq(Nat) /\ \A j \in 1 .. l : u[j] = w[j]
    BY <1>0, <1>2 DEF Escaped
<1>4. \A j \in 3 .. l : w[j - 2] = 0 /\ w[j - 1] = 0 => w[j] >= 3
    BY <1>2 DEF Protected
<1>5. ASSUME NEW j \in 3 .. l, u[j - 2] = 0, u[j - 1] = 0 PROVE u[j] >= 3
  <2>1. j - 1 \in 1 .. l /\ j - 2 \in 1 .. l /\ j \in 1 .. l
      BY <1>2
  <2>2. u[j] = w[j] /\ u[j - 1] = w[j - 1] /\ u[j - 2] = w[j - 2]
      BY <1>3, <2>1
  <2> QED
      BY <1>4, <1>5, <2>2
<1>6. CASE Guarded(w, b)
  <2>1. Len(u) = l + 2 /\ u[l + 1] = 3 /\ u[l + 2] = b
      BY <1>0, <1>2, <1>6 DEF Escaped
  <2>2. ASSUME NEW j \in 3 .. Len(u), u[j - 2] = 0, u[j - 1] = 0 PROVE u[j] >= 3
    <3>1. j \in 3 .. l \/ j = l + 1 \/ j - 1 = l + 1
        BY <1>2, <2>1
    <3>2. CASE j \in 3 .. l
        BY <1>5, <2>2, <3>2
    <3>3. CASE j = l + 1
        BY <2>1, <3>3
    <3>4. CASE j - 1 = l + 1
        BY <2>1, <2>2, <3>4
    <3> QED
        BY <3>1, <3>2, <3>3, <3>4
  <2> QED
      BY <1>1, <2>2, Zenon DEF Protected
<1>7. CASE ~ Guarded(w, b)
  <2>1. Len(u) = l + 1 /\ u[l + 1] = b
      BY <1>0, <1>2, <1>7 DEF Escaped
  <2>2. ASSUME NEW j \in 3 .. Len(u), u[j - 2] = 0, u[j - 1] = 0 PROVE u[j] >= 3
    <3>1. j \in 3 .. l \/ j = l + 1
        BY <1>2, <2>1
    <3>2. CASE j = l + 1
      <4>1. j - 1 = l /\ j - 2 = l - 1 /\ l >= 2 /\ l \in 1 .. l /\ l - 1 \in 1 .. l
          BY <1>2, <3>2
      <4>2. w[l] = 0 /\ w[l - 1] = 0
          BY <1>3, <2>2, <4>1
      <4>3. ~ (b <= 3)
          BY <1>2, <1>7, <4>1, <4>2 DEF Guarded
      <4> QED
          BY <2>1, <3>2, <4>3
    <3> QED
        BY <1>5, <2>2, <3>1, <3>2
  <2> QED
      BY <1>1, <2>2, Zenon DEF Protected
<1> QED
    BY <1>6, <1>7

(* Of what the encoder wrote for a byte, the reader keeps that byte.       *)
Adds(K, w, u, b) == K[Len(u)] = Append(K[Len(w)], b)

LEMMA EscapeKept ==
  ASSUME NEW K, NEW e \in Seq(Nat), Keeps(K, e),
         NEW w \in Seq(Nat), NEW b \in Nat, NEW u, u = Reader!Escape(w, b), Begun(u, e)
  PROVE  Adds(K, w, u, b)
<1>1. u = Reader!Escape(w, b)
    OBVIOUS
<1>0. Escaped(w, b, u)
    BY <1>1, EscapeIs, Zenon
<1>2. PICK l \in Nat : l = Len(w)
    OBVIOUS
<1>3. u \in Seq(Nat) /\ \A j \in 1 .. l : u[j] = w[j]
    BY <1>0, <1>2 DEF Escaped
<1>4. Len(u) <= Len(e) /\ \A j \in 1 .. Len(u) : e[j] = u[j]
    BY <1>1, Zenon DEF Begun
<1>5. Len(u) \in Nat /\ Len(e) \in Nat
    BY <1>3
<1>6. /\ \A k \in 1 .. Len(e) : Reader!IsEmulationPreventionByte(e, k) => K[k] = K[k - 1]
      /\ \A k \in 1 .. Len(e) : ~ Reader!IsEmulationPreventionByte(e, k) => K[k] = Append(K[k - 1], e[k])
    BY Zenon DEF Keeps
<1>7. \A k \in Nat : Reader!IsEmulationPreventionByte(e, k)
        <=> k > 2 /\ k < Len(e) /\ e[k - 2] = 0 /\ e[k - 1] = 0 /\ e[k] = 3 /\ e[k + 1] <= 3
    BY Zenon DEF Reader!IsEmulationPreventionByte
<1>8. CASE Guarded(w, b)
  <2>1. Len(u) = l + 2 /\ u[l + 1] = 3 /\ u[l + 2] = b
      BY <1>0, <1>2, <1>8 DEF Escaped
  <2>2. l >= 2 /\ w[l] = 0 /\ w[l - 1] = 0 /\ b <= 3
      BY <1>2, <1>8 DEF Guarded
  <2>3. e[l - 1] = 0 /\ e[l] = 0 /\ e[l + 1] = 3 /\ e[l + 2] = b
    <3>1. /\ l - 1 \in 1 .. l /\ l \in 1 .. l
          /\ l - 1 \in 1 .. Len(u) /\ l \in 1 .. Len(u) /\ l + 1 \in 1 .. Len(u) /\ l + 2 \in 1 .. Len(u)
        BY <1>2, <2>1, <2>2
    <3> QED
        BY <1>3, <1>4, <2>1, <2>2, <3>1, Zenon
  <2>4. Reader!IsEmulationPreventionByte(e, l + 1)
    <3>1. l + 1 \in Nat /\ (l + 1) - 2 = l - 1 /\ (l + 1) - 1 = l /\ (l + 1) + 1 = l + 2 /\ l + 1 > 2
        BY <1>2, <2>2
    <3>2. l + 1 < Len(e)
      <4>1. PICK y \in Nat : y = Len(e)
          BY <1>5
      <4>2. l + 2 <= y
          BY <1>4, <2>1, <4>1, Zenon
      <4>3. l + 1 < y
          BY <1>2, <4>1, <4>2
      <4> QED
          BY <4>1, <4>3, Zenon
    <3> QED
        BY <1>7, <2>2, <2>3, <3>1, <3>2
  <2>5. ~ Reader!IsEmulationPreventionByte(e, l + 2)
    <3>1. l + 2 \in Nat /\ (l + 2) - 1 = l + 1
        BY <1>2
    <3> QED
        BY <1>7, <2>3, <3>1
  <2>6. l + 1 \in 1 .. Len(e) /\ l + 2 \in 1 .. Len(e) /\ (l + 1) - 1 = l /\ (l + 2) - 1 = l + 1
      BY <1>2, <1>4, <1>5, <2>1
  <2>7. K[l + 1] = K[l] /\ K[l + 2] = Append(K[l + 1], e[l + 2])
      BY <1>6, <2>4, <2>5, <2>6, Zenon
  <2> QED
      BY <1>1, <1>2, <2>1, <2>3, <2>7, Zenon DEF Adds
<1>9. CASE ~ Guarded(w, b)
  <2>1. Len(u) = l + 1 /\ u[l + 1] = b
      BY <1>0, <1>2, <1>9 DEF Escaped
  <2>2. e[l + 1] = b /\ l + 1 \in 1 .. Len(e) /\ (l + 1) - 1 = l /\ l + 1 \in Nat
      BY <1>2, <1>4, <1>5, <2>1
  <2>3. ~ Reader!IsEmulationPreventionByte(e, l + 1)
    <3> SUFFICES ASSUME Reader!IsEmulationPreventionByte(e, l + 1) PROVE FALSE
        OBVIOUS
    <3>1. l + 1 > 2 /\ e[(l + 1) - 2] = 0 /\ e[(l + 1) - 1] = 0 /\ e[l + 1] = 3
        BY <1>7, <2>2
    <3>2. (l + 1) - 2 = l - 1 /\ (l + 1) - 1 = l /\ l >= 2
        BY <1>2, <3>1
    <3>3. l \in 1 .. l /\ l - 1 \in 1 .. l /\ l \in 1 .. (l + 1) /\ l - 1 \in 1 .. (l + 1)
        BY <1>2, <3>2
    <3>4. w[l] = 0 /\ w[l - 1] = 0 /\ b = 3
        BY <1>3, <1>4, <2>1, <2>2, <3>1, <3>2, <3>3, Zenon
    <3> QED
        BY <1>2, <1>9, <3>2, <3>4 DEF Guarded
  <2>4. K[l + 1] = Append(K[l], b)
      BY <1>6, <2>2, <2>3, Zenon
  <2> QED
      BY <1>1, <1>2, <2>1, <2>4, Zenon DEF Adds
<1> QED
    BY <1>8, <1>9

LEMMA EscapedIs ==
  ASSUME NEW r \in Seq(Nat)
  PROVE  /\ Reader!WritesEbsp(r) \in Seq(Nat)
         /\ Protected(Reader!WritesEbsp(r))
         /\ Reader!BuildLogicalMap(Reader!WritesEbsp(r)) = r
<1> DEFINE n == Len(r)
<1>1. n \in Nat /\ \A x \in 1 .. n : r[x] \in Nat
    OBVIOUS
<1>2. PICK W : Escapes(W, r, n)
    BY EscapesAre
<1> HIDE DEF n
<1>3. /\ \A x \in 0 .. n : W[x] \in Seq(Nat)
      /\ \A x \in 1 .. n : W[x] = Reader!Escape(W[x - 1], r[x])
      /\ Reader!WritesEbsp(r) = W[n] /\ W[0] = << >>
  <2>1. W \in [0 .. n -> Seq(Nat)]
      BY <1>2, Zenon DEF Escapes
  <2> QED
      BY <1>2, <2>1, Zenon DEF Escapes
<1>4. n \in 0 .. n /\ 0 \in 0 .. n /\ \A x \in 1 .. n : x \in 0 .. n /\ x - 1 \in 0 .. n
    BY <1>1
<1>5. PICK e \in Seq(Nat) : e = W[n]
    BY <1>3, <1>4, Zenon
<1>6. ASSUME NEW k \in 0 .. n PROVE Begun(W[k], e)
  <2> DEFINE S == {x \in 0 .. n : x >= k => Begun(W[k], W[x])}
  <2>1. Begun(W[k], W[k])
    <3>1. W[k] \in Seq(Nat)
        BY <1>3
    <3> QED
        BY <3>1 DEF Begun
  <2>2. 0 \in S
      BY <1>4, <2>1
  <2>3. ASSUME NEW x \in 1 .. n, x - 1 \in S PROVE x \in S
    <3>1. x - 1 >= k => Begun(W[k], W[x])
      <4>1. x - 1 >= k => Begun(W[k], W[x - 1])
          BY <2>3
      <4>2. W[k] \in Seq(Nat) /\ W[x - 1] \in Seq(Nat) /\ r[x] \in Nat
            /\ W[x] = Reader!Escape(W[x - 1], r[x])
          BY <1>1, <1>3, <1>4, Zenon
      <4> QED
          BY <4>1, <4>2, EscapeBegun, Zenon
    <3>2. x >= k => x - 1 >= k \/ x = k
        BY <1>1
    <3> QED
        BY <1>4, <2>1, <3>1, <3>2
  <2> HIDE DEF S
  <2>4. \A x \in 0 .. n : x \in S
      BY <1>1, <2>2, <2>3, Everywhere
  <2>5. n \in S /\ n >= k
      BY <1>1, <1>4, <2>4
  <2> QED
      BY <1>5, <2>5 DEF S
<1>7. Protected(e)
  <2> DEFINE S == {x \in 0 .. n : Protected(W[x])}
  <2>1. 0 \in S
      BY <1>3, <1>4 DEF Protected
  <2>2. ASSUME NEW x \in 1 .. n, x - 1 \in S PROVE x \in S
    <3>1. W[x - 1] \in Seq(Nat) /\ r[x] \in Nat /\ W[x] = Reader!Escape(W[x - 1], r[x])
        BY <1>1, <1>3, <1>4, Zenon
    <3>2. Protected(W[x - 1])
        BY <2>2
    <3>3. Protected(W[x])
        BY <3>1, <3>2, EscapeProtected, Zenon
    <3> QED
        BY <1>4, <3>3
  <2> HIDE DEF S
  <2>3. \A x \in 0 .. n : x \in S
      BY <1>1, <2>1, <2>2, Everywhere
  <2> QED
      BY <1>4, <1>5, <2>3 DEF S
<1>8. Reader!BuildLogicalMap(e) = r
  <2>1. PICK K : Keeps(K, e)
      BY KeepsAre
  <2> DEFINE S == {x \in 0 .. n : K[Len(W[x])] = SubSeq(r, 1, x)}
  <2>2. 0 \in S
    <3>1. Len(<< >>) = 0 /\ SubSeq(r, 1, 0) = << >> /\ K[0] = << >>
        BY <2>1 DEF Keeps
    <3> QED
        BY <1>3, <1>4, <3>1
  <2>3. ASSUME NEW x \in 1 .. n, x - 1 \in S PROVE x \in S
    <3>1. W[x - 1] \in Seq(Nat) /\ r[x] \in Nat /\ W[x] = Reader!Escape(W[x - 1], r[x])
        BY <1>1, <1>3, <1>4, Zenon
    <3>2. K[Len(W[x - 1])] = SubSeq(r, 1, x - 1)
        BY <2>3
    <3>3. Begun(W[x], e)
        BY <1>4, <1>6
    <3>4. K[Len(W[x])] = Append(K[Len(W[x - 1])], r[x])
      <4>1. Keeps(K, e) /\ e \in Seq(Nat)
          BY <1>5, <2>1
      <4>2. Adds(K, W[x - 1], W[x], r[x])
          BY <3>1, <3>3, <4>1, EscapeKept, Zenon
      <4> QED
          BY <4>2 DEF Adds
    <3>5. SubSeq(r, 1, x) = Append(SubSeq(r, 1, x - 1), r[x])
        BY <1>1 DEF n
    <3> QED
        BY <1>4, <3>2, <3>4, <3>5
  <2> HIDE DEF S
  <2>4. \A x \in 0 .. n : x \in S
      BY <1>1, <2>2, <2>3, Everywhere
  <2>5. K[Len(e)] = SubSeq(r, 1, n)
      BY <1>4, <1>5, <2>4 DEF S
  <2>6. SubSeq(r, 1, n) = r
      BY DEF n
  <2> QED
      BY <2>1, <2>5, <2>6, Zenon DEF Keeps
<1> QED
    BY <1>3, <1>5, <1>7, <1>8, Zenon

(* The last byte of what was escaped is its last byte.                     *)
EndsAs(e, r) == Len(e) >= 1 /\ e[Len(e)] = r[Len(r)]

LEMMA EscapedEnds ==
  ASSUME NEW r \in Seq(Nat), r # << >>
  PROVE  EndsAs(Reader!WritesEbsp(r), r)
<1>1. PICK n \in Nat : n = Len(r) /\ n >= 1 /\ n - 1 \in 0 .. n /\ n \in 1 .. n /\ r[n] \in Nat
    OBVIOUS
<1>2. PICK W : Escapes(W, r, n)
    BY <1>1, EscapesAre
<1>3. W[n - 1] \in Seq(Nat) /\ Reader!WritesEbsp(r) = Reader!Escape(W[n - 1], r[n])
  <2>1. W \in [0 .. n -> Seq(Nat)]
      BY <1>2, Zenon DEF Escapes
  <2> QED
      BY <1>1, <1>2, <2>1, Zenon DEF Escapes
<1>4. PICK w, e : w \in Seq(Nat) /\ w = W[n - 1] /\ e = Reader!Escape(w, r[n])
    BY <1>3
<1>5. Escaped(w, r[n], e)
    BY <1>1, <1>4, EscapeIs, Zenon
<1>6. Len(e) >= 1 /\ e[Len(e)] = r[n]
    BY <1>5 DEF Escaped
<1> QED
    BY <1>1, <1>3, <1>4, <1>6, Zenon DEF EndsAs

(* The buffer holds e at b, between a start code and, behind zeros, the    *)
(* next one or the end of the buffer at m.                                 *)
Muxed(e, b, m) ==
  /\ b >= 3 /\ ShortCode(data, b - 3)
  /\ b + Len(e) <= m /\ m <= Size
  /\ \A k \in 1 .. Len(e) : data[b + k - 1] = e[k]
  /\ \A k \in b + Len(e) .. m - 1 : data[k] = 0
  /\ m = Size \/ ShortCode(data, m)

LEMMA HeldIsUnit ==
  ASSUME DataTyped, NEW e \in Seq(Nat), Protected(e), Len(e) >= 1, e[Len(e)] # 0,
         NEW b \in Nat, NEW m \in Nat, Muxed(e, b, m)
  PROVE  <<b, b + Len(e)>> \in UnitSpans(data)
<1>1. PICK l \in Nat, s \in Nat : l = Len(e) /\ s = Size /\ l >= 1
    BY DEF DataTyped
<1>2. /\ b >= 3 /\ ShortCode(data, b - 3) /\ b + l <= m /\ m <= s
      /\ \A k \in 1 .. l : data[b + k - 1] = e[k]
      /\ \A k \in b + l .. m - 1 : data[k] = 0
      /\ m = s \/ ShortCode(data, m)
    BY <1>1 DEF Muxed
<1>3. \A k \in Nat : k < l => data[b + k] = e[k + 1]
  <2> SUFFICES ASSUME NEW k \in Nat, k < l PROVE data[b + k] = e[k + 1]
      OBVIOUS
  <2>1. k + 1 \in 1 .. l /\ b + (k + 1) - 1 = b + k
      BY <1>1
  <2> QED
      BY <1>2, <2>1
<1>4. data[b + l - 1] # 0
  <2>1. l - 1 \in Nat /\ l - 1 < l /\ (l - 1) + 1 = l /\ b + (l - 1) = b + l - 1
      BY <1>1
  <2>2. data[b + (l - 1)] = e[(l - 1) + 1]
      BY <1>3, <2>1, Zenon
  <2>3. e[l] # 0
      BY <1>1
  <2> QED
      BY <2>1, <2>2, <2>3, Zenon
<1>5. ASSUME NEW k \in b .. (m - 1), ShortCode(data, k) PROVE FALSE
  <2>1. data[k] = 0 /\ data[k + 1] = 0 /\ data[k + 2] = 1 /\ k + 2 < s
    <3>1. DOMAIN data = 0 .. (s - 1) /\ k + 2 \in DOMAIN data
        BY <1>1, <1>5 DEF ShortCode, DataTyped
    <3> QED
        BY <1>1, <1>5, <3>1 DEF ShortCode
  <2>2. CASE k + 2 < b + l
    <3>1. PICK j \in Nat : k = b + j /\ j + 2 < l
        BY <1>1, <2>2
    <3>2. e[j + 1] = 0 /\ e[j + 2] = 0 /\ e[j + 3] = 1
      <4>1. /\ j + 1 \in Nat /\ j + 1 < l /\ j < l /\ (j + 1) + 1 = j + 2 /\ b + (j + 1) = k + 1
            /\ j + 2 \in Nat /\ (j + 2) + 1 = j + 3 /\ b + (j + 2) = k + 2
          BY <1>1, <3>1
      <4>2. data[b + j] = e[j + 1] /\ data[b + (j + 1)] = e[(j + 1) + 1] /\ data[b + (j + 2)] = e[(j + 2) + 1]
          BY <1>3, <3>1, <4>1
      <4> QED
          BY <2>1, <3>1, <4>1, <4>2
    <3>3. j + 3 \in 3 .. Len(e) /\ (j + 3) - 2 = j + 1 /\ (j + 3) - 1 = j + 2
        BY <1>1, <3>1
    <3>4. e[j + 3] >= 3
        BY <3>2, <3>3 DEF Protected
    <3> QED
        BY <3>2, <3>4
  <2>3. CASE k + 2 >= b + l
    <3>1. k # b + l - 1 /\ k + 1 # b + l - 1
        BY <1>4, <2>1
    <3>2. k + 2 = b + l \/ k >= b + l
        BY <1>1, <2>3, <3>1
    <3>3. k + 1 # b + l - 1
        BY <3>1
    <3>4. k >= b + l
        BY <1>1, <3>2, <3>3
    <3>5. k + 2 >= m
      <4> SUFFICES ASSUME k + 2 < m PROVE FALSE
          BY <1>1
      <4>1. k + 2 \in b + l .. m - 1
          BY <1>1, <3>4
      <4> QED
          BY <1>2, <2>1, <4>1
    <3>6. m # s
        BY <1>1, <2>1, <3>5
    <3>7. data[m] = 0 /\ data[m + 1] = 0
        BY <1>2, <3>6 DEF ShortCode
    <3>8. k + 2 = m \/ k + 2 = m + 1
        BY <1>1, <3>5
    <3> QED
        BY <2>1, <3>7, <3>8
  <2> QED
      BY <1>1, <2>2, <2>3
<1>6. ReachesTo(b + l, b, m)
    BY <1>1, <1>2, <1>5 DEF ReachesTo
<1>7. b < b + l /\ b <= b + l /\ b + l <= s /\ b + l \in Nat /\ m \in b + l .. s
    BY <1>1, <1>2
<1>8. IsUnit(data, b, b + l)
    BY <1>1, <1>2, <1>4, <1>6, <1>7, UnitIs
<1> QED
    BY <1>1, <1>7, <1>8, UnitSpansAre

-----------------------------------------------------------------------------
(* What holds of every framer.                                             *)

(* The framer's state has its types and its places lie within the buffer,  *)
(* no start code was missed, and what made it stop would stop it again.    *)
THEOREM Invariant == Spec => []IInv
<1>1. Init => IInv
    BY InvInit
<1>2. IInv /\ [Next]_allVars => IInv'
    BY InvNext
<1> QED
    BY <1>1, <1>2, PTL DEF Spec

(* The span nal(), obu() or frame() returns without a check of its own     *)
(* lies within the buffer, whatever sizes the buffer claims.               *)
THEOREM TypeCorrect == Spec => []TypeOK
<1>1. IInv => TypeOK
    BY Zenon DEF IInv
<1> QED
    BY <1>1, Invariant, PTL

(* The search by machine words and the one by bytes step over no start     *)
(* code, for every buffer and every word size.                             *)
THEOREM NothingMissed == Spec => []NoStartCodeMissed
<1>1. IInv => NoStartCodeMissed
    BY Zenon DEF IInv
<1> QED
    BY <1>1, Invariant, PTL

(* A framer that has ended stays ended, although the OBU and IVF framers   *)
(* look at the buffer again at every next(): there is nothing more.        *)
THEOREM StaysFinished == Spec => FinishedForGood
<1>1. IInv /\ [Next]_allVars => [pc = "finished" => pc' = "finished"]_allVars
    BY InvNext
<1> QED
    BY <1>1, Invariant, PTL DEF Spec, FinishedForGood

(* Between two turns every framer stands at a place that makes the rest of *)
(* its buffer the rest of its units: behind the start code it found, or    *)
(* where the muxer began a unit or was done; and it has handed out as many *)
(* units as begin before that place.                                       *)
THEOREM StandsAtUnit == Spec => []Places
<1>1. Init => Places
    BY PlacesInit
<1>2. IInv /\ Places /\ [Next]_allVars => Places'
    BY PlacesNext
<1> QED
    BY <1>1, <1>2, Invariant, PTL DEF Spec

(* Every framer hands out exactly the units of its buffer, in their order, *)
(* none twice and none left out, and ends or throws only where UnitStream  *)
(* lets it: all that ImplementsUnitStream says but for the loop's end.     *)
THEOREM StepsOfUnitStream == Spec => Stream!Init /\ [][Stream!Next]_(Stream!vars)
<1>1. Init => Stream!Init
    BY PlacesInit
<1>2. IInv /\ Places /\ [Next]_allVars => [Stream!Next]_(Stream!vars)
    BY PlacesNext DEF StreamStep
<1> QED
    BY <1>1, <1>2, Invariant, StandsAtUnit, PTL DEF Spec

(* Where a cut-off buffer of length-prefixed units ends no unit ends, for  *)
(* every size of the lengths: it is reported, never taken for complete.    *)
THEOREM CutReported == Spec => []CutIsReported
<1>1. IInv /\ Places => CutIsReported
  <2> SUFFICES ASSUME IInv, Places, mode = "LengthPrefixed", pc = "finished" PROVE ~cut
      BY DEF CutIsReported
  <2>1. PICK s : SizedBuffer(s)
      BY AtUnitIs, Zenon DEF Places, SizedModes
  <2>2. PICK k \in 0 .. Len(s) : current = EndOf(mode, s, k)
      BY <2>1 DEF SizedBuffer
  <2>3. current = Size /\ Size \in Nat /\ (cut => IsCut(mode, s, Size))
      BY <2>1, SizedState DEF SizedBuffer
  <2>4. FileStart(mode) = 0
      BY DEF FileStart
  <2>5. ~ (Size < FileStart(mode)) /\ Size = EndOf(mode, s, k)
      BY <2>2, <2>3, <2>4
  <2> QED
      BY <2>3, <2>5, Zenon DEF IsCut
<1> QED
    BY <1>1, Invariant, StandsAtUnit, PTL

(* What an encoder escapes and a muxer puts between start codes is one of  *)
(* the units that AnnexBNalIterator hands out, and RbspBitstreamReader     *)
(* reads the encoder's bytes from it: neither loses the other's work.      *)
THEOREM PayloadsSurvive ==
  ASSUME NEW r \in Seq(Nat)
  PROVE  /\ Reader!BuildLogicalMap(Reader!WritesEbsp(r)) = r
         /\ \A b, m \in Nat :
              /\ DataTyped /\ r # << >> /\ r[Len(r)] # 0 /\ Muxed(Reader!WritesEbsp(r), b, m)
              => <<b, b + Len(Reader!WritesEbsp(r))>> \in UnitSpans(data)
<1>1. PICK e \in Seq(Nat) : e = Reader!WritesEbsp(r) /\ Protected(e)
    BY EscapedIs
<1>2. ASSUME NEW b \in Nat, NEW m \in Nat, DataTyped, r # << >>, r[Len(r)] # 0, Muxed(e, b, m)
      PROVE  <<b, b + Len(e)>> \in UnitSpans(data)
  <2>1. EndsAs(e, r)
      BY <1>1, <1>2, EscapedEnds, Zenon
  <2>2. Len(e) >= 1 /\ e[Len(e)] # 0
      BY <1>2, <2>1 DEF EndsAs
  <2> QED
      BY <1>1, <1>2, <2>2, HeldIsUnit
<1> QED
    BY <1>1, <1>2, EscapedIs, Zenon
=============================================================================
