---------------------------- MODULE MlDsa_proofs ----------------------------
(***************************************************************************)
(* Theorems about ML-DSA (MlDsa) for every ring, parameter set and outcome  *)
(* of the hash functions.  First the lemmas about folds, bits, strings and  *)
(* encodings, then numbers modulo Q, rounding and hints, then ntt: that it  *)
(* multiplies in the ring.  After them what keys, turns of the signing loop *)
(* and verification compute, and at the end the invariant.                 *)
(***************************************************************************)
EXTENDS MlDsa, SequenceTheorems, FiniteSetTheorems, FunctionTheorems, WellFoundedInduction, TLAPS

\* Induction over the natural numbers, for sets.
LEMMA SetInduction ==
  ASSUME NEW S, 0 \in S, \A n \in Nat : n \in S => n + 1 \in S
  PROVE  Nat \subseteq S
<1> SUFFICES ASSUME Nat \ S # {} PROVE FALSE
  OBVIOUS
<1> DEFINE R == OpToRel(<, Nat)
<1>1. \A m, n \in Nat : m < n => <<m, n>> \in R
  BY DEF OpToRel
<1>2. IsWellFoundedOn(R, Nat)
  BY NatLessThanWellFounded
<1> HIDE DEF R
<1>3. PICK n \in Nat \ S : \A m \in Nat \ S : <<m, n>> \notin R
  BY <1>2, WFMin
<1>4. n # 0 /\ n - 1 \in Nat /\ n - 1 < n
  BY <1>3
<1>5. <<n - 1, n>> \in R
  BY <1>1, <1>4
<1>6. n - 1 \in S
  BY <1>3, <1>4, <1>5
<1>7. n - 1 + 1 = n
  BY <1>3
<1> QED BY <1>3, <1>4, <1>6, <1>7

-----------------------------------------------------------------------------
(* Products and quotients, which the solver does not find by itself.        *)
LEMMA TimesMonotone ==
  ASSUME NEW x \in Int, NEW y \in Int, NEW m \in Nat, x <= y
  PROVE  x * m <= y * m
<1>1. (y - x) * m >= 0
  OBVIOUS
<1>2. (y - x) * m = y * m - x * m
  OBVIOUS
<1>3. x * m \in Int /\ y * m \in Int
  OBVIOUS
<1> QED BY <1>1, <1>2, <1>3

\* Quotient and remainder are determined by what they are.
LEMMA DivisionUnique ==
  ASSUME NEW d \in Nat, d > 0, NEW q \in Int, NEW r \in Nat, r < d
  PROVE  (q * d + r) \div d = q /\ (q * d + r) % d = r
<1> DEFINE x == q * d + r
           a == x \div d
           b == x % d
<1>1. x \in Int /\ q * d \in Int /\ a \in Int /\ b \in 0 .. d - 1 /\ x = d * a + b
  OBVIOUS
<1>2. a * d \in Int /\ d * a = a * d
  BY <1>1
<1> HIDE DEF a, b
<1>3. ~(a < q)
  <2> SUFFICES ASSUME a + 1 <= q PROVE FALSE
    BY <1>1
  <2>1. (a + 1) * d <= q * d
    BY <1>1, TimesMonotone
  <2>2. (a + 1) * d = a * d + d
    BY <1>1
  <2> QED BY <1>1, <1>2, <2>1, <2>2
<1>4. ~(a > q)
  <2> SUFFICES ASSUME q + 1 <= a PROVE FALSE
    BY <1>1
  <2>1. (q + 1) * d <= a * d
    BY <1>1, TimesMonotone
  <2>2. (q + 1) * d = q * d + d
    BY <1>1
  <2> QED BY <1>1, <1>2, <2>1, <2>2
<1>5. a = q
  BY <1>1, <1>3, <1>4
<1>6. b = r
  BY <1>1, <1>2, <1>5
<1> QED BY <1>5, <1>6 DEF a, b

\* Quotient and remainder of a natural number.
LEMMA Division ==
  ASSUME NEW x \in Nat, NEW d \in Nat, d > 0
  PROVE  /\ x \div d \in Nat /\ x % d \in 0 .. d - 1
         /\ x = (x \div d) * d + (x % d)
<1>1. x \div d \in Int /\ x % d \in 0 .. d - 1 /\ x = d * (x \div d) + (x % d)
  OBVIOUS
<1>2. x \div d >= 0
  <2> SUFFICES ASSUME x \div d <= -1 PROVE FALSE
    BY <1>1
  <2>1. (x \div d) * d <= (-1) * d
    BY <1>1, TimesMonotone
  <2>2. (-1) * d = -d /\ (x \div d) * d = d * (x \div d) /\ (x \div d) * d \in Int
    BY <1>1
  <2> QED BY <1>1, <2>1, <2>2
<1>3. d * (x \div d) = (x \div d) * d
  BY <1>1
<1> QED BY <1>1, <1>2, <1>3

\* Dividing twice is dividing by the product.
LEMMA DivisionTwice ==
  ASSUME NEW x \in Nat, NEW d \in Nat, NEW e \in Nat, d > 0, e > 0
  PROVE  (x \div d) \div e = x \div (d * e)
<1> DEFINE q == x \div d
           r == x % d
           a == q \div e
           b == q % e
<1>1. q \in Nat /\ r \in 0 .. d - 1 /\ x = q * d + r
  BY Division
<1> HIDE DEF q, r
<1>2. a \in Nat /\ b \in 0 .. e - 1 /\ q = a * e + b
  BY <1>1, Division
<1> HIDE DEF a, b
<1>3. d * e \in Nat /\ d * e > 0
  OBVIOUS
<1>4. x = a * (d * e) + (b * d + r)
  <2>1. (a * e + b) * d = a * (d * e) + b * d
    BY <1>2
  <2>2. a * (d * e) \in Int /\ b * d \in Int
    BY <1>2
  <2> QED BY <1>1, <1>2, <2>1, <2>2
<1>5. b * d + r \in Nat /\ b * d + r < d * e
  <2>1. (b + 1) * d <= e * d
    BY <1>2, TimesMonotone
  <2>2. (b + 1) * d = b * d + d /\ e * d = d * e /\ b * d \in Nat
    BY <1>2
  <2> QED BY <1>1, <1>3, <2>1, <2>2
<1>6. (a * (d * e) + (b * d + r)) \div (d * e) = a
  <2> DEFINE de == d * e
             rest == b * d + r
  <2>1. de \in Nat /\ de > 0 /\ rest \in Nat /\ rest < de /\ a \in Int
    BY <1>2, <1>3, <1>5
  <2> HIDE DEF de, rest
  <2>2. (a * de + rest) \div de = a
    BY <2>1, DivisionUnique
  <2> QED BY <2>2 DEF de, rest
<1> QED BY <1>4, <1>6 DEF q, a

-----------------------------------------------------------------------------
(* Powers of two.                                                          *)
PowerLoop(n, f) == f = [k \in 0 .. n |-> IF k = 0 THEN 1 ELSE 2 * f[k - 1]]

\* The loop that doubles has a result.
LEMMA PowerLoopExists ==
  ASSUME NEW n \in Nat
  PROVE  \E f : PowerLoop(n, f)
<1> DEFINE S == {m \in Nat : \E f : PowerLoop(m, f)}
<1>1. 0 \in S
  <2>1. PowerLoop(0, [k \in 0 .. 0 |-> 1])
    BY DEF PowerLoop
  <2> QED BY <2>1
<1>2. ASSUME NEW m \in Nat, m \in S PROVE m + 1 \in S
  <2>1. PICK f : PowerLoop(m, f)
    BY <1>2
  <2> DEFINE g == [k \in 0 .. m + 1 |-> IF k = m + 1 THEN 2 * f[m] ELSE f[k]]
  <2>2. \A k \in 0 .. m + 1 : g[k] = IF k = 0 THEN 1 ELSE 2 * g[k - 1]
    BY <2>1 DEF PowerLoop
  <2>3. PowerLoop(m + 1, g)
    BY <2>2 DEF PowerLoop
  <2> QED BY <2>3
<1> HIDE DEF S
<1>3. n \in S
  BY <1>1, <1>2, SetInduction
<1> QED BY <1>3 DEF S

\* A power of two is the last value of the loop.
LEMMA PowerLoopValue ==
  ASSUME NEW n \in Nat
  PROVE  \E f : PowerLoop(n, f) /\ Pow2(n) = f[n]
<1> DEFINE f == CHOOSE f : PowerLoop(n, f)
<1>1. PowerLoop(n, f)
  BY PowerLoopExists
<1>2. Pow2(n) = f[n]
  BY DEF Pow2, PowerLoop
<1> QED BY <1>1, <1>2

\* Two runs of the loop agree as far as both go.
LEMMA PowerLoopAgrees ==
  ASSUME NEW m \in Nat, NEW n \in Nat, NEW f, NEW g, PowerLoop(m, f), PowerLoop(n, g),
         NEW k \in Nat, k <= m, k <= n
  PROVE  f[k] = g[k]
<1> DEFINE S == {i \in Nat : i <= m /\ i <= n => f[i] = g[i]}
<1>1. /\ \A i \in 0 .. m : f[i] = IF i = 0 THEN 1 ELSE 2 * f[i - 1]
      /\ \A i \in 0 .. n : g[i] = IF i = 0 THEN 1 ELSE 2 * g[i - 1]
  BY DEF PowerLoop
<1>2. 0 \in S
  BY <1>1
<1>3. ASSUME NEW i \in Nat, i \in S PROVE i + 1 \in S
  <2> SUFFICES ASSUME i + 1 <= m, i + 1 <= n PROVE f[i + 1] = g[i + 1]
    OBVIOUS
  <2>1. i + 1 \in 0 .. m /\ i + 1 \in 0 .. n /\ i + 1 # 0 /\ i + 1 - 1 = i /\ f[i] = g[i]
    BY <1>3
  <2> QED BY <1>1, <2>1
<1> HIDE DEF S
<1>4. k \in S
  BY <1>2, <1>3, SetInduction
<1> QED BY <1>4 DEF S

\* One bit further is twice as much.
LEMMA PowerOfTwo ==
  ASSUME NEW e \in Nat
  PROVE  Pow2(0) = 1 /\ Pow2(e + 1) = 2 * Pow2(e)
<1>1. PICK f : PowerLoop(e, f) /\ Pow2(e) = f[e]
  BY PowerLoopValue
<1>2. PICK g : PowerLoop(e + 1, g) /\ Pow2(e + 1) = g[e + 1]
  BY PowerLoopValue
<1>3. PICK h : PowerLoop(0, h) /\ Pow2(0) = h[0]
  BY PowerLoopValue
<1>4. f[e] = g[e]
  BY <1>1, <1>2, PowerLoopAgrees
<1>5. \A i \in 0 .. e + 1 : g[i] = IF i = 0 THEN 1 ELSE 2 * g[i - 1]
  BY <1>2 DEF PowerLoop
<1>6. e + 1 \in 0 .. e + 1 /\ e + 1 # 0 /\ e + 1 - 1 = e
  OBVIOUS
<1>7. g[e + 1] = 2 * g[e]
  BY <1>5, <1>6
<1>8. h[0] = 1
  BY <1>3 DEF PowerLoop
<1> QED BY <1>1, <1>2, <1>3, <1>4, <1>7, <1>8

\* A power of two is a positive number above its exponent.
LEMMA PowerType ==
  ASSUME NEW e \in Nat
  PROVE  Pow2(e) \in Nat /\ Pow2(e) > 0 /\ e < Pow2(e)
<1> DEFINE S == {k \in Nat : Pow2(k) \in Nat /\ Pow2(k) > k}
<1>1. 0 \in S
  BY PowerOfTwo
<1>2. ASSUME NEW k \in Nat, k \in S PROVE k + 1 \in S
  BY <1>2, PowerOfTwo
<1> HIDE DEF S
<1>3. e \in S
  BY <1>1, <1>2, SetInduction
<1> QED BY <1>3 DEF S

\* Shifting twice is shifting by the sum.
LEMMA PowerSum ==
  ASSUME NEW a \in Nat, NEW b \in Nat
  PROVE  Pow2(a + b) = Pow2(a) * Pow2(b)
<1> DEFINE S == {k \in Nat : Pow2(a + k) = Pow2(a) * Pow2(k)}
<1>1. 0 \in S
  BY PowerOfTwo, PowerType
<1>2. ASSUME NEW k \in Nat, k \in S PROVE k + 1 \in S
  <2>1. Pow2(a + k + 1) = 2 * Pow2(a + k) /\ Pow2(k + 1) = 2 * Pow2(k)
    BY PowerOfTwo
  <2>2. Pow2(a) \in Nat /\ Pow2(k) \in Nat
    BY PowerType
  <2>3. Pow2(a) * (2 * Pow2(k)) = 2 * (Pow2(a) * Pow2(k))
    BY <2>2
  <2>4. a + (k + 1) = a + k + 1
    OBVIOUS
  <2> QED BY <1>2, <2>1, <2>3, <2>4
<1> HIDE DEF S
<1>3. b \in S
  BY <1>1, <1>2, SetInduction
<1> QED BY <1>3 DEF S

\* More bits, a larger power.
LEMMA PowerMonotone ==
  ASSUME NEW a \in Nat, NEW b \in Nat, a <= b
  PROVE  Pow2(a) <= Pow2(b)
<1> DEFINE p == Pow2(a)
           q == Pow2(b - a)
<1>1. p \in Nat /\ q \in Nat /\ q > 0 /\ a + (b - a) = b
  BY PowerType
<1>2. Pow2(b) = p * q
  BY <1>1, PowerSum
<1> HIDE DEF p, q
<1>3. 1 * p <= q * p
  BY <1>1, TimesMonotone
<1>4. q * p = p * q /\ 1 * p = p
  BY <1>1
<1> QED BY <1>2, <1>3, <1>4 DEF p

\* The high bits of an (a + b)-bit number, after its a low bits are shifted out.
LEMMA ShiftRange ==
  ASSUME NEW a \in Nat, NEW b \in Nat, NEW x \in 0 .. Pow2(a + b) - 1
  PROVE  x \div Pow2(a) \in 0 .. Pow2(b) - 1
<1>1. Pow2(a) \in Nat /\ Pow2(a) > 0 /\ Pow2(b) \in Nat /\ Pow2(a + b) \in Nat
  BY PowerType
<1> DEFINE d == Pow2(a)
           m == Pow2(b)
           q == x \div d
<1>2. x \in Nat /\ x < m * d /\ d \in Nat /\ d > 0 /\ m \in Nat
  <2>1. Pow2(a + b) = m * d
    BY <1>1, PowerSum
  <2> QED BY <1>1, <2>1
<1> HIDE DEF d, m
<1>3. q \in Nat /\ x % d \in 0 .. d - 1 /\ x = q * d + (x % d)
  BY <1>2, Division
<1> HIDE DEF q
<1>4. ~(m <= q)
  <2> SUFFICES ASSUME m <= q PROVE FALSE
    OBVIOUS
  <2>1. m * d <= q * d
    BY <1>2, <1>3, TimesMonotone
  <2>2. m * d \in Nat /\ q * d \in Nat
    BY <1>2, <1>3
  <2> QED BY <1>2, <1>3, <2>1, <2>2
<1> QED BY <1>2, <1>3, <1>4 DEF q, d, m

\* Shifting one step further.
LEMMA ShiftStep ==
  ASSUME NEW x \in Nat, NEW k \in Nat
  PROVE  /\ x \div Pow2(0) = x
         /\ x \div Pow2(k) \in Nat
         /\ x \div Pow2(k + 1) = (x \div Pow2(k)) \div 2
<1>1. Pow2(k) \in Nat /\ Pow2(k) > 0 /\ Pow2(k + 1) = Pow2(k) * 2 /\ Pow2(0) = 1
  BY PowerType, PowerOfTwo
<1>2. (x \div Pow2(k)) \div 2 = x \div (Pow2(k) * 2)
  BY <1>1, DivisionTwice
<1>3. x \div Pow2(k) \in Nat
  BY <1>1, Division
<1>4. x \div 1 = x
  OBVIOUS
<1> QED BY <1>1, <1>2, <1>3, <1>4

\* A number has no bits beyond its length.
LEMMA NoBitsBeyond ==
  ASSUME NEW m \in Nat, NEW x \in 0 .. Pow2(m) - 1
  PROVE  x \div Pow2(m) = 0
<1>1. Pow2(m) \in Nat /\ Pow2(m) > 0
  BY PowerType
<1> DEFINE d == Pow2(m)
<1> HIDE DEF d
<1>2. (0 * d + x) \div d = 0
  BY <1>1, DivisionUnique DEF d
<1>3. 0 * d + x = x
  BY <1>1 DEF d
<1> QED BY <1>2, <1>3 DEF d

\* BitLength(x) bits are enough for x.
LEMMA BitLengthBound ==
  ASSUME NEW x \in Nat
  PROVE  BitLength(x) \in Nat /\ x < Pow2(BitLength(x))
<1> DEFINE Exceeds(b) == Pow2(b) > x
<1>1. x < Pow2(x)
  BY PowerType
<1>2. \E b \in 0 .. x : Exceeds(b) /\ (b = 0 \/ Pow2(b - 1) <= x)
  <2> SUFFICES ASSUME \A b \in 0 .. x : Exceeds(b) => b # 0 /\ ~(Pow2(b - 1) <= x)
               PROVE  FALSE
    OBVIOUS
  <2> DEFINE T == {n \in Nat : n <= x => ~Exceeds(n)}
  <2>1. 0 \in T
    OBVIOUS
  <2>2. ASSUME NEW n \in Nat, n \in T PROVE n + 1 \in T
    <3> SUFFICES ASSUME n + 1 <= x, Exceeds(n + 1) PROVE FALSE
      OBVIOUS
    <3>1. n + 1 \in 0 .. x /\ n + 1 - 1 = n /\ n <= x
      OBVIOUS
    <3>2. ~(Pow2(n) <= x)
      BY <3>1
    <3>3. Pow2(n) \in Nat
      BY PowerType
    <3> QED BY <2>2, <3>1, <3>2, <3>3
  <2> HIDE DEF T
  <2>3. x \in T
    BY <2>1, <2>2, SetInduction
  <2> QED BY <1>1, <2>3 DEF T
<1>3. BitLength(x) \in 0 .. x /\ Exceeds(BitLength(x))
  BY <1>2 DEF BitLength
<1> QED BY <1>3

-----------------------------------------------------------------------------
(* Folds.                                                                   *)
\* A set of numbers up to n has a greatest one.
LEMMA Greatest ==
  ASSUME NEW n \in Nat, NEW s \in SUBSET (0 .. n), s # {}
  PROVE  Max(s) \in s /\ \A y \in s : Max(s) >= y
<1> DEFINE S == {m \in Nat : \A u \in SUBSET (0 .. m) : u # {} => \E x \in u : \A y \in u : x >= y}
<1>1. 0 \in S
  <2> SUFFICES ASSUME NEW u \in SUBSET (0 .. 0), u # {} PROVE \E x \in u : \A y \in u : x >= y
    OBVIOUS
  <2>1. PICK x \in u : TRUE
    OBVIOUS
  <2>2. x = 0 /\ \A y \in u : y = 0
    OBVIOUS
  <2> QED BY <2>1, <2>2
<1>2. ASSUME NEW m \in Nat, m \in S PROVE m + 1 \in S
  <2> SUFFICES ASSUME NEW u \in SUBSET (0 .. m + 1), u # {} PROVE \E x \in u : \A y \in u : x >= y
    OBVIOUS
  <2>1. CASE m + 1 \in u
    BY <2>1
  <2>2. CASE m + 1 \notin u
    <3>1. u \in SUBSET (0 .. m)
      BY <2>2
    <3> QED BY <1>2, <3>1
  <2> QED BY <2>1, <2>2
<1> HIDE DEF S
<1>3. n \in S
  BY <1>1, <1>2, SetInduction
<1>4. \E x \in s : \A y \in s : x >= y
  BY <1>3 DEF S
<1> QED BY <1>4 DEF Max

\* The prefixes of an interval, one element after the other.
LEMMA IntervalPrefix ==
  ASSUME NEW n \in Nat, NEW k \in 1 .. n
  PROVE  /\ 1 .. k \in SUBSET (1 .. n) /\ 1 .. k # {}
         /\ Max(1 .. k) = k /\ (1 .. k) \ {Max(1 .. k)} = 1 .. k - 1
<1> DEFINE T == 1 .. k
<1>1. T \in SUBSET (0 .. k) /\ T # {} /\ k \in T /\ k \in Nat
  OBVIOUS
<1> HIDE DEF T
<1>2. Max(T) \in T /\ Max(T) >= k
  BY <1>1, Greatest
<1>3. Max(T) = k
  BY <1>2 DEF T
<1>4. T \ {k} = 1 .. k - 1 /\ T \in SUBSET (1 .. n)
  BY DEF T
<1> QED BY <1>1, <1>3, <1>4 DEF T

\* What a fold over n elements goes through, by steps inside a set V.
FoldRun(n, V, base, step, f) ==
  /\ f \in [SUBSET (1 .. n) -> V]
  /\ \A s \in SUBSET (1 .. n) : f[s] = IF s = {} THEN base ELSE step[<<f[s \ {Max(s)}], Max(s)>>]

\* A fold over 1 .. n has a result for every set of places.
LEMMA FoldRunExists ==
  ASSUME NEW n \in Nat, NEW V, NEW base \in V, NEW step \in [V \X (1 .. n) -> V]
  PROVE  \E f : FoldRun(n, V, base, step, f)
<1> DEFINE S == {m \in Nat : m <= n => \E f : FoldRun(m, V, base, step, f)}
<1>1. 0 \in S
  <2>1. FoldRun(0, V, base, step, [s \in SUBSET (1 .. 0) |-> base])
    BY DEF FoldRun
  <2> QED BY <2>1
<1>2. ASSUME NEW m \in Nat, m \in S PROVE m + 1 \in S
  <2> SUFFICES ASSUME m + 1 <= n PROVE \E f : FoldRun(m + 1, V, base, step, f)
    OBVIOUS
  <2>1. PICK f : FoldRun(m, V, base, step, f)
    BY <1>2
  <2>2. /\ f \in [SUBSET (1 .. m) -> V]
        /\ \A s \in SUBSET (1 .. m) : f[s] = IF s = {} THEN base ELSE step[<<f[s \ {Max(s)}], Max(s)>>]
    BY <2>1 DEF FoldRun
  <2> HIDE DEF S
  <2>3. ASSUME NEW s \in SUBSET (1 .. m + 1), m + 1 \in s
        PROVE  s \ {m + 1} \in SUBSET (1 .. m) /\ Max(s) = m + 1
    <3>1. s \in SUBSET (0 .. m + 1) /\ s # {} /\ m + 1 \in Nat
      BY <2>3
    <3>2. Max(s) \in s /\ Max(s) >= m + 1
      BY <2>3, <3>1, Greatest
    <3>3. Max(s) \in 1 .. m + 1
      BY <3>2
    <3> QED BY <3>2, <3>3
  <2>4. ASSUME NEW s \in SUBSET (1 .. m + 1), m + 1 \notin s
        PROVE  s \in SUBSET (1 .. m) /\ s \ {Max(s)} \in SUBSET (1 .. m)
    <3>1. s \in SUBSET (1 .. m)
      BY <2>4
    <3> QED BY <3>1
  <2>5. m + 1 \in 1 .. n
    OBVIOUS
  <2> DEFINE g == [s \in SUBSET (1 .. m + 1) |->
                     IF m + 1 \in s THEN step[<<f[s \ {m + 1}], m + 1>>] ELSE f[s]]
  <2>6. g \in [SUBSET (1 .. m + 1) -> V]
    <3> SUFFICES ASSUME NEW s \in SUBSET (1 .. m + 1)
                 PROVE  (IF m + 1 \in s THEN step[<<f[s \ {m + 1}], m + 1>>] ELSE f[s]) \in V
      OBVIOUS
    <3>1. CASE m + 1 \in s
      BY <2>2, <2>3, <2>5, <3>1
    <3>2. CASE m + 1 \notin s
      BY <2>2, <2>4, <3>2
    <3> QED BY <3>1, <3>2
  <2>7. ASSUME NEW s \in SUBSET (1 .. m + 1)
        PROVE  g[s] = IF s = {} THEN base ELSE step[<<g[s \ {Max(s)}], Max(s)>>]
    <3>1. CASE m + 1 \in s
      <4>1. Max(s) = m + 1 /\ s \ {m + 1} \in SUBSET (1 .. m) /\ s # {}
        BY <2>3, <3>1
      <4>2. s \ {m + 1} \in SUBSET (1 .. m + 1) /\ m + 1 \notin s \ {m + 1}
        OBVIOUS
      <4>3. g[s \ {m + 1}] = f[s \ {m + 1}]
        BY <4>2
      <4>4. g[s] = step[<<f[s \ {m + 1}], m + 1>>]
        BY <3>1
      <4> QED BY <4>1, <4>3, <4>4
    <3>2. CASE m + 1 \notin s
      <4>1. s \in SUBSET (1 .. m) /\ s \ {Max(s)} \in SUBSET (1 .. m)
        BY <2>4, <3>2
      <4>2. m + 1 \notin s \ {Max(s)} /\ s \ {Max(s)} \in SUBSET (1 .. m + 1)
        BY <3>2
      <4>3. g[s] = f[s] /\ g[s \ {Max(s)}] = f[s \ {Max(s)}]
        BY <3>2, <4>2
      <4> HIDE DEF g
      <4> QED BY <2>2, <4>1, <4>3
    <3> QED BY <3>1, <3>2
  <2> HIDE DEF g
  <2>8. FoldRun(m + 1, V, base, step, g)
    BY <2>6, <2>7 DEF FoldRun
  <2> QED BY <2>8
<1> HIDE DEF S
<1>3. n \in S
  BY <1>1, <1>2, SetInduction
<1> QED BY <1>3 DEF S

\* A fold takes its elements inside the interval.
LEMMA FoldTakes ==
  ASSUME NEW n \in Nat, NEW s \in SUBSET (1 .. n), s # {}
  PROVE  Max(s) \in 1 .. n /\ s \ {Max(s)} \in SUBSET (1 .. n)
<1>1. s \in SUBSET (0 .. n)
  OBVIOUS
<1>2. Max(s) \in s
  BY <1>1, Greatest
<1> QED BY <1>2

\* A function on the sets of the elements taken so far that goes by these steps.
FoldsBy(n, V, base, step, g) ==
  /\ g[{}] = base
  /\ \A s \in SUBSET (1 .. n) :
       s # {} /\ g[s \ {Max(s)}] \in V => g[s] = step[<<g[s \ {Max(s)}], Max(s)>>]

\* The values of a fold, element after element.
Chain(n, V, base, step, t, end) ==
  t \in [0 .. n -> V] /\ t[0] = base /\ t[n] = end /\ \A k \in 1 .. n : t[k] = step[<<t[k - 1], k>>]

\* What it has for all of them is reached one place at a time, from the first on.
LEMMA FoldChain ==
  ASSUME NEW n \in Nat, NEW V, NEW base \in V, NEW step \in [V \X (1 .. n) -> V], NEW g,
         FoldsBy(n, V, base, step, g)
  PROVE  \E t : Chain(n, V, base, step, t, g[1 .. n])
<1> DEFINE t == [k \in 0 .. n |-> g[1 .. k]]
<1>1. t[0] = base /\ t[n] = g[1 .. n]
  <2>1. 1 .. 0 = {} /\ t[0] = g[1 .. 0]
    OBVIOUS
  <2> QED BY <2>1 DEF FoldsBy
<1>2. ASSUME NEW k \in 1 .. n, t[k - 1] \in V PROVE t[k] = step[<<t[k - 1], k>>] /\ t[k] \in V
  <2> DEFINE T == 1 .. k
  <2>1. T \in SUBSET (1 .. n) /\ T # {} /\ Max(T) = k /\ T \ {Max(T)} = 1 .. k - 1
    BY IntervalPrefix
  <2>2. t[k] = g[T] /\ t[k - 1] = g[1 .. k - 1]
    OBVIOUS
  <2> HIDE DEF T, t
  <2>3. g[T] = step[<<g[T \ {Max(T)}], Max(T)>>]
    BY <1>2, <2>1, <2>2 DEF FoldsBy
  <2>4. step[<<t[k - 1], k>>] \in V
    BY <1>2
  <2> QED BY <2>1, <2>2, <2>3, <2>4
<1>3. \A k \in 0 .. n : t[k] \in V
  <2> DEFINE S == {k \in Nat : k <= n => t[k] \in V}
  <2> HIDE DEF t
  <2>1. 0 \in S
    BY <1>1
  <2>2. ASSUME NEW k \in Nat, k \in S PROVE k + 1 \in S
    <3> SUFFICES ASSUME k + 1 <= n PROVE t[k + 1] \in V
      OBVIOUS
    <3>1. k + 1 \in 1 .. n /\ t[(k + 1) - 1] = t[k] /\ t[k] \in V
      BY <2>2
    <3>2. \A j \in 1 .. n : t[j - 1] \in V => t[j] \in V
      BY <1>2
    <3> QED BY <3>1, <3>2
  <2> HIDE DEF S
  <2>3. \A k \in Nat : k \in S
    BY <2>1, <2>2, SetInduction
  <2> QED BY <2>3 DEF S
<1>4. t \in [0 .. n -> V]
  BY <1>3
<1>5. \A k \in 1 .. n : t[k - 1] \in V
  BY <1>4
<1> HIDE DEF t
<1>6. Chain(n, V, base, step, t, g[1 .. n])
  BY <1>1, <1>2, <1>4, <1>5 DEF Chain
<1> QED BY <1>6

-----------------------------------------------------------------------------
(* Bits.                                                                    *)
\* bits_to_integer, bit after bit from the last one on.
LEMMA BitsToIntegerSteps ==
  ASSUME NEW n \in Nat, NEW y \in [1 .. n -> Nat]
  PROVE  \E t \in [0 .. n -> Nat] :
           /\ BitsToInteger(y) = t[n] /\ t[0] = 0
           /\ \A k \in 1 .. n : t[k] = 2 * t[k - 1] + y[n + 1 - k]
<1> DEFINE z == Reverse(y)
           step == [p \in Nat \X (1 .. n) |-> 2 * p[1] + z[p[2]]]
           Iter(f) == f = [s \in SUBSET (1 .. n) |-> IF s = {} THEN 0 ELSE 2 * f[s \ {Max(s)}] + z[Max(s)]]
<1>1. y \in Seq(Nat) /\ Len(y) = n
  OBVIOUS
<1>2. z = [i \in 1 .. n |-> y[n - i + 1]]
  BY <1>1 DEF Reverse
<1>3. z \in [1 .. n -> Nat] /\ DOMAIN z = 1 .. n
  BY <1>2
<1> HIDE DEF z
<1>4. step \in [Nat \X (1 .. n) -> Nat]
  BY <1>3
<1>5. \A v \in Nat, i \in 1 .. n : step[<<v, i>>] = 2 * v + z[i]
  OBVIOUS
<1> HIDE DEF step
<1>6. PICK f : FoldRun(n, Nat, 0, step, f)
  BY <1>4, FoldRunExists
<1>7. \A s \in SUBSET (1 .. n) : s # {} => Max(s) \in 1 .. n /\ s \ {Max(s)} \in SUBSET (1 .. n)
  BY FoldTakes
<1>8. Iter(f)
  BY <1>5, <1>6, <1>7 DEF FoldRun
<1> DEFINE g == CHOOSE f_1 : Iter(f_1)
<1>9. Iter(g)
  BY <1>8
<1>10. BitsToInteger(y) = g[1 .. n]
  BY <1>3 DEF BitsToInteger, FoldLeft, MapThenFoldSet, z
<1> HIDE DEF g
<1>11. FoldsBy(n, Nat, 0, step, g)
  BY <1>5, <1>7, <1>9 DEF FoldsBy
<1>12. PICK t : Chain(n, Nat, 0, step, t, g[1 .. n])
  BY <1>4, <1>11, FoldChain
<1>13. t \in [0 .. n -> Nat] /\ t[0] = 0 /\ t[n] = g[1 .. n]
  BY <1>12 DEF Chain
<1>14. ASSUME NEW k \in 1 .. n PROVE t[k] = 2 * t[k - 1] + y[n + 1 - k]
  <2>1. t[k - 1] \in Nat /\ z[k] = y[n + 1 - k]
    BY <1>2, <1>13
  <2>2. t[k] = step[<<t[k - 1], k>>]
    BY <1>12 DEF Chain
  <2> QED BY <1>5, <2>1, <2>2
<1> QED BY <1>10, <1>13, <1>14

\* Bits are 0 and 1, and alpha of them.
LEMMA IntegerToBitsType ==
  ASSUME NEW x \in Int, NEW alpha \in Nat
  PROVE  /\ IntegerToBits(x, alpha) \in [1 .. alpha -> {0, 1}]
         /\ IntegerToBits(x, alpha) \in [1 .. alpha -> Nat]
<1>1. ASSUME NEW i \in 1 .. alpha PROVE (x \div Pow2(i - 1)) % 2 \in {0, 1}
  <2>1. Pow2(i - 1) \in Nat /\ Pow2(i - 1) > 0
    BY PowerType
  <2>2. x \div Pow2(i - 1) \in Int
    BY <2>1
  <2> DEFINE q == x \div Pow2(i - 1)
  <2> HIDE DEF q
  <2>3. q % 2 \in {0, 1}
    BY <2>2 DEF q
  <2> QED BY <2>3 DEF q
<1> QED BY <1>1 DEF IntegerToBits

\* The bits of a number that has no more of them give it back.
LEMMA BitsOfInteger ==
  ASSUME NEW alpha \in Nat, NEW x \in 0 .. Pow2(alpha) - 1
  PROVE  BitsToInteger(IntegerToBits(x, alpha)) = x
<1> DEFINE y == IntegerToBits(x, alpha)
<1>1. y \in [1 .. alpha -> Nat] /\ x \in Nat
  <2>1. x \in Nat /\ x \in Int
    BY PowerType
  <2> HIDE DEF y
  <2>2. IntegerToBits(x, alpha) \in [1 .. alpha -> Nat]
    BY <2>1, IntegerToBitsType
  <2> QED BY <2>1, <2>2 DEF y
<1>2. \A i \in 1 .. alpha : y[i] = (x \div Pow2(i - 1)) % 2
  BY DEF IntegerToBits
<1> HIDE DEF y
<1>3. PICK t \in [0 .. alpha -> Nat] :
        /\ BitsToInteger(y) = t[alpha] /\ t[0] = 0
        /\ \A k \in 1 .. alpha : t[k] = 2 * t[k - 1] + y[alpha + 1 - k]
  BY <1>1, BitsToIntegerSteps
<1> DEFINE S == {k \in Nat : k <= alpha => t[k] = x \div Pow2(alpha - k)}
<1>4. 0 \in S
  BY <1>3, NoBitsBeyond
<1>5. ASSUME NEW k \in Nat, k \in S PROVE k + 1 \in S
  <2> SUFFICES ASSUME k + 1 <= alpha PROVE t[k + 1] = x \div Pow2(alpha - (k + 1))
    OBVIOUS
  <2> DEFINE e == alpha - (k + 1)
             q == x \div Pow2(e)
  <2>1. e \in Nat /\ alpha - k = e + 1 /\ e + 1 \in 1 .. alpha /\ alpha + 1 - (k + 1) = e + 1 /\ e + 1 - 1 = e
    OBVIOUS
  <2>2. t[k] = x \div Pow2(e + 1)
    BY <1>5, <2>1
  <2> HIDE DEF e
  <2>3. q \in Nat /\ x \div Pow2(e + 1) = q \div 2
    BY <1>1, <2>1, ShiftStep
  <2>4. y[e + 1] = q % 2
    BY <1>2, <2>1
  <2> HIDE DEF q
  <2>5. t[k + 1] = 2 * t[k + 1 - 1] + y[alpha + 1 - (k + 1)]
    BY <1>3
  <2>6. t[k + 1] = 2 * (q \div 2) + (q % 2)
    BY <2>1, <2>2, <2>3, <2>4, <2>5
  <2>7. t[k + 1] = q
    BY <2>3, <2>6
  <2> QED BY <2>7 DEF q, e
<1> HIDE DEF S
<1>6. alpha \in S
  BY <1>4, <1>5, SetInduction
<1>7. t[alpha] = x \div Pow2(alpha - alpha)
  BY <1>6 DEF S
<1>8. alpha - alpha = 0 /\ x \div Pow2(0) = x
  BY <1>1, ShiftStep
<1> QED BY <1>3, <1>7, <1>8 DEF y

\* The number that bits stand for has no more bits, and it has these.
LEMMA IntegerOfBits ==
  ASSUME NEW n \in Nat, NEW y \in [1 .. n -> {0, 1}]
  PROVE  BitsToInteger(y) \in 0 .. Pow2(n) - 1 /\ IntegerToBits(BitsToInteger(y), n) = y
<1>1. y \in [1 .. n -> Nat]
  OBVIOUS
<1>2. PICK t \in [0 .. n -> Nat] :
        /\ BitsToInteger(y) = t[n] /\ t[0] = 0
        /\ \A k \in 1 .. n : t[k] = 2 * t[k - 1] + y[n + 1 - k]
  BY <1>1, BitsToIntegerSteps
<1> DEFINE S == {k \in Nat : k <= n => t[k] < Pow2(k)}
           U == {i \in Nat : i <= n => t[n - i] = t[n] \div Pow2(i)}
<1>3. \A k \in Nat : k + 1 <= n => /\ t[k + 1] = 2 * t[k] + y[n - k] /\ y[n - k] \in {0, 1}
                                   /\ t[k] \in Nat /\ t[k + 1] \in Nat
  <2> SUFFICES ASSUME NEW k \in Nat, k + 1 <= n
               PROVE  /\ t[k + 1] = 2 * t[k] + y[n - k] /\ y[n - k] \in {0, 1}
                      /\ t[k] \in Nat /\ t[k + 1] \in Nat
    OBVIOUS
  <2>1. k + 1 \in 1 .. n /\ k + 1 - 1 = k /\ n + 1 - (k + 1) = n - k /\ n - k \in 1 .. n
    OBVIOUS
  <2>2. t[k + 1] = 2 * t[k + 1 - 1] + y[n + 1 - (k + 1)]
    BY <1>2, <2>1
  <2> QED BY <2>1, <2>2
<1>4. 0 \in S
  BY <1>2, PowerOfTwo
<1>5. ASSUME NEW k \in Nat, k \in S PROVE k + 1 \in S
  <2> SUFFICES ASSUME k + 1 <= n PROVE t[k + 1] < Pow2(k + 1)
    OBVIOUS
  <2>1. t[k] < Pow2(k) /\ t[k + 1] = 2 * t[k] + y[n - k] /\ y[n - k] \in {0, 1} /\ t[k] \in Nat
    BY <1>3, <1>5
  <2>2. Pow2(k) \in Nat /\ Pow2(k + 1) = 2 * Pow2(k)
    BY PowerOfTwo, PowerType
  <2> QED BY <2>1, <2>2
<1>6. 0 \in U
  BY ShiftStep
<1>7. ASSUME NEW i \in Nat, i \in U PROVE i + 1 \in U
  <2> SUFFICES ASSUME i + 1 <= n PROVE t[n - (i + 1)] = t[n] \div Pow2(i + 1)
    OBVIOUS
  <2> DEFINE k == n - (i + 1)
  <2>1. k \in Nat /\ k + 1 <= n /\ n - i = k + 1
    OBVIOUS
  <2>2. t[n - i] = t[n] \div Pow2(i)
    BY <1>7
  <2> HIDE DEF k
  <2>3. t[k + 1] = 2 * t[k] + y[n - k] /\ y[n - k] \in {0, 1} /\ t[k] \in Nat /\ t[k + 1] \in Nat
    BY <1>3, <2>1
  <2>4. t[k] = t[k + 1] \div 2
    BY <2>3, SMTT(30)
  <2>5. t[n] \div Pow2(i + 1) = (t[n] \div Pow2(i)) \div 2
    <3>1. t[n] \in Nat
      OBVIOUS
    <3> QED BY <3>1, ShiftStep
  <2> QED BY <2>1, <2>2, <2>4, <2>5 DEF k
<1> HIDE DEF S, U
<1>8. n \in S /\ \A i \in Nat : i \in U
  BY <1>4, <1>5, <1>6, <1>7, SetInduction
<1>9. t[n] \in 0 .. Pow2(n) - 1
  BY <1>8, PowerType DEF S
<1>10. ASSUME NEW i \in 1 .. n PROVE (t[n] \div Pow2(i - 1)) % 2 = y[i]
  <2>1. i - 1 \in Nat /\ i - 1 <= n /\ n - i \in Nat /\ n - (i - 1) = n - i + 1 /\ n - (n - i) = i
    OBVIOUS
  <2>2. t[n - (i - 1)] = t[n] \div Pow2(i - 1)
    BY <1>8, <2>1 DEF U
  <2>3. t[n - i + 1] = 2 * t[n - i] + y[n - (n - i)] /\ t[n - i] \in Nat /\ y[n - (n - i)] \in {0, 1}
    BY <1>3, <2>1
  <2>4. (2 * t[n - i] + y[i]) % 2 = y[i]
    BY <2>1, <2>3
  <2> QED BY <2>1, <2>2, <2>3, <2>4
<1>11. IntegerToBits(t[n], n) = y
  BY <1>10 DEF IntegerToBits
<1> QED BY <1>2, <1>9, <1>11

-----------------------------------------------------------------------------
(* Sequences of sequences.                                                  *)
FlattenLoop(seqs, m, f) == f = [i \in 1 .. m |-> IF i = 1 THEN seqs[i] ELSE f[i - 1] \o seqs[i]]

\* The loop that joins sequences has a result.
LEMMA FlattenLoopExists ==
  ASSUME NEW n \in Nat, NEW seqs
  PROVE  \E f : FlattenLoop(seqs, n, f)
<1> DEFINE S == {m \in Nat : \E f : FlattenLoop(seqs, m, f)}
<1>1. 0 \in S
  <2>1. FlattenLoop(seqs, 0, [i \in 1 .. 0 |-> <<>>])
    BY DEF FlattenLoop
  <2> QED BY <2>1
<1>2. ASSUME NEW m \in Nat, m \in S PROVE m + 1 \in S
  <2>1. PICK f : FlattenLoop(seqs, m, f)
    BY <1>2
  <2> DEFINE g == [i \in 1 .. m + 1 |->
                     IF i = m + 1 THEN IF i = 1 THEN seqs[i] ELSE f[m] \o seqs[i] ELSE f[i]]
  <2>2. \A i \in 1 .. m + 1 : g[i] = IF i = 1 THEN seqs[i] ELSE g[i - 1] \o seqs[i]
    <3> SUFFICES ASSUME NEW i \in 1 .. m + 1
                 PROVE  g[i] = IF i = 1 THEN seqs[i] ELSE g[i - 1] \o seqs[i]
      OBVIOUS
    <3>1. CASE i = 1
      BY <2>1, <3>1 DEF FlattenLoop
    <3>2. CASE i # 1
      <4>1. i - 1 \in 1 .. m + 1 /\ i - 1 # m + 1 /\ g[i - 1] = f[i - 1]
        BY <3>2
      <4>2. CASE i = m + 1
        <5>1. i - 1 = m
          BY <4>2
        <5> QED BY <3>2, <4>1, <4>2, <5>1
      <4>3. CASE i # m + 1
        <5>1. i \in 1 .. m /\ g[i] = f[i]
          BY <4>3
        <5>2. f[i] = IF i = 1 THEN seqs[i] ELSE f[i - 1] \o seqs[i]
          BY <2>1, <5>1 DEF FlattenLoop
        <5> HIDE DEF g
        <5> QED BY <3>2, <4>1, <5>1, <5>2
      <4> QED BY <4>2, <4>3
    <3> QED BY <3>1, <3>2
  <2>3. FlattenLoop(seqs, m + 1, g)
    BY <2>2 DEF FlattenLoop
  <2> QED BY <2>3
<1> HIDE DEF S
<1>3. n \in S
  BY <1>1, <1>2, SetInduction
<1> QED BY <1>3 DEF S

\* FlattenSeq is the last value of the loop.
LEMMA FlattenValue ==
  ASSUME NEW n \in Nat, NEW V, NEW seqs, seqs \in Seq(Seq(V)), Len(seqs) = n, n > 0
  PROVE  \E f : FlattenLoop(seqs, n, f) /\ FlattenSeq(seqs) = f[n]
<1> DEFINE f == CHOOSE f : FlattenLoop(seqs, n, f)
<1>1. FlattenLoop(seqs, n, f)
  BY FlattenLoopExists
<1>2. FlattenSeq(seqs) = f[n]
  BY DEF FlattenSeq, FlattenLoop
<1> QED BY <1>1, <1>2

\* Joining one sequence more.
LEMMA FlattenStep ==
  ASSUME NEW V, NEW m \in Nat, NEW seqs \in [1 .. m + 1 -> Seq(V)]
  PROVE  /\ FlattenSeq(<<>>) = <<>>
         /\ m = 0 => FlattenSeq(seqs) = seqs[m + 1]
         /\ m > 0 => FlattenSeq(seqs) = FlattenSeq([i \in 1 .. m |-> seqs[i]]) \o seqs[m + 1]
<1>1. FlattenSeq(<<>>) = <<>>
  BY DEF FlattenSeq
<1>2. seqs \in Seq(Seq(V)) /\ Len(seqs) = m + 1 /\ m + 1 \in Nat /\ m + 1 > 0
  OBVIOUS
<1>3. PICK f : FlattenLoop(seqs, m + 1, f) /\ FlattenSeq(seqs) = f[m + 1]
  BY <1>2, FlattenValue
<1>4. \A i \in 1 .. m + 1 : f[i] = IF i = 1 THEN seqs[i] ELSE f[i - 1] \o seqs[i]
  BY <1>3 DEF FlattenLoop
<1>8. f[1] = seqs[1] /\ \A j \in 1 .. m : f[j + 1] = f[j] \o seqs[j + 1]
  <2>1. 1 \in 1 .. m + 1
    OBVIOUS
  <2>2. ASSUME NEW j \in 1 .. m PROVE f[j + 1] = f[j] \o seqs[j + 1]
    <3>1. j + 1 \in 1 .. m + 1 /\ j + 1 # 1 /\ f[(j + 1) - 1] = f[j]
      BY <2>2
    <3> QED BY <1>4, <3>1
  <2> QED BY <1>4, <2>1, <2>2
<1>5. m = 0 => FlattenSeq(seqs) = seqs[m + 1]
  BY <1>3, <1>4
<1>6. ASSUME m > 0 PROVE FlattenSeq(seqs) = FlattenSeq([i \in 1 .. m |-> seqs[i]]) \o seqs[m + 1]
  <2> DEFINE front == [i \in 1 .. m |-> seqs[i]]
  <2>1. front \in Seq(Seq(V)) /\ Len(front) = m /\ \A i \in 1 .. m : front[i] = seqs[i]
    OBVIOUS
  <2> HIDE DEF front
  <2>2. PICK g : FlattenLoop(front, m, g) /\ FlattenSeq(front) = g[m]
    BY <1>6, <2>1, FlattenValue
  <2>3. \A i \in 1 .. m : g[i] = IF i = 1 THEN front[i] ELSE g[i - 1] \o front[i]
    BY <2>2 DEF FlattenLoop
  <2>9. g[1] = front[1] /\ \A j \in 1 .. m - 1 : g[j + 1] = g[j] \o front[j + 1]
    <3>1. 1 \in 1 .. m
      BY <1>6
    <3>2. ASSUME NEW j \in 1 .. m - 1 PROVE g[j + 1] = g[j] \o front[j + 1]
      <4>1. j + 1 \in 1 .. m /\ j + 1 # 1 /\ g[(j + 1) - 1] = g[j]
        BY <3>2
      <4> QED BY <2>3, <4>1
    <3> QED BY <2>3, <3>1, <3>2
  <2> DEFINE S == {i \in Nat : i + 1 <= m => f[i + 1] = g[i + 1]}
  <2>4. 0 \in S
    BY <1>8, <2>1, <2>9, <1>6
  <2>5. ASSUME NEW i \in Nat, i \in S PROVE i + 1 \in S
    <3> SUFFICES ASSUME i + 1 + 1 <= m PROVE f[i + 1 + 1] = g[i + 1 + 1]
      OBVIOUS
    <3> DEFINE j == i + 1
    <3>1. j \in 1 .. m /\ j \in 1 .. m - 1 /\ j + 1 \in 1 .. m /\ f[j] = g[j]
      BY <2>5
    <3> HIDE DEF j
    <3>2. f[j + 1] = f[j] \o seqs[j + 1] /\ g[j + 1] = g[j] \o front[j + 1] /\ front[j + 1] = seqs[j + 1]
      BY <1>8, <2>1, <2>9, <3>1
    <3>3. f[j + 1] = g[j + 1]
      BY <3>1, <3>2
    <3> QED BY <3>3 DEF j
  <2> HIDE DEF S
  <2>6. m - 1 \in Nat /\ m - 1 \in S
    <3>1. \A i \in Nat : i \in S
      BY <2>4, <2>5, SetInduction
    <3> QED BY <1>6, <3>1
  <2>7. f[m] = g[m]
    <3>1. m - 1 + 1 = m
      OBVIOUS
    <3> QED BY <1>6, <2>6, <3>1 DEF S
  <2>8. f[m + 1] = f[m] \o seqs[m + 1]
    <3>1. m \in 1 .. m
      BY <1>6
    <3> QED BY <1>8, <3>1
  <2> QED BY <1>3, <2>2, <2>7, <2>8 DEF front
<1> QED BY <1>1, <1>5, <1>6

\* A function on 1 .. n is a sequence of length n, and joining two adds up their lengths.
LEMMA AsSequence ==
  ASSUME NEW V, NEW n \in Nat, NEW w \in [1 .. n -> V]
  PROVE  w \in Seq(V) /\ Len(w) = n
OBVIOUS

JoinedTwo(x, V, m, w, n, v) ==
  /\ x \in [1 .. m + n -> V]
  /\ \A k \in 1 .. m : x[k] = w[k]
  /\ \A k \in 1 .. n : x[m + k] = v[k]

\* What two joined sequences of known lengths are.
LEMMA JoinTwo ==
  ASSUME NEW V, NEW m \in Nat, NEW n \in Nat, NEW w \in [1 .. m -> V], NEW v \in [1 .. n -> V]
  PROVE  JoinedTwo(w \o v, V, m, w, n, v)
<1>1. w \in Seq(V) /\ Len(w) = m /\ v \in Seq(V) /\ Len(v) = n
  OBVIOUS
<1> DEFINE x == w \o v
<1>2. x \in Seq(V) /\ Len(x) = m + n
  BY <1>1
<1>3. x \in [1 .. m + n -> V]
  <2> HIDE DEF x
  <2>1. x \in [1 .. Len(x) -> V]
    BY <1>2, LenProperties
  <2> QED BY <1>2, <2>1
<1>4. \A k \in 1 .. m : x[k] = w[k]
  BY <1>1
<1>5. \A k \in 1 .. n : x[m + k] = v[k]
  BY <1>1
<1> HIDE DEF x
<1>6. JoinedTwo(x, V, m, w, n, v)
  BY <1>3, <1>4, <1>5 DEF JoinedTwo
<1> QED BY <1>6 DEF x

\* m pieces of length c, one after the other.
Pieces(m, c, V) == [1 .. m -> [1 .. c -> V]]
Joined(w, p, m, c, V) ==
  w \in [1 .. m * c -> V] /\ \A i \in 1 .. m : \A b \in 1 .. c : w[(i - 1) * c + b] = p[i][b]

\* Where a piece lies.
LEMMA PieceAt ==
  ASSUME NEW m \in Nat, NEW c \in Nat, NEW i \in 1 .. m, NEW b \in 1 .. c
  PROVE  (i - 1) * c + b \in 1 .. m * c
<1>1. i * c <= m * c /\ 0 * c <= (i - 1) * c
  BY TimesMonotone
<1>2. (i - 1) * c = i * c - c /\ 0 * c = 0 /\ i * c \in Nat /\ m * c \in Nat
  OBVIOUS
<1> QED BY <1>1, <1>2

\* The piece in which a place lies.
LEMMA PlaceOf ==
  ASSUME NEW m \in Nat, NEW c \in Nat, c > 0, NEW p \in 1 .. m * c
  PROVE  \E i \in 1 .. m : \E b \in 1 .. c : p = (i - 1) * c + b
<1> DEFINE q == (p - 1) \div c
           r == (p - 1) % c
<1>1. m * c \in Nat /\ p - 1 \in Nat
  OBVIOUS
<1>2. q \in Nat /\ r \in 0 .. c - 1 /\ p - 1 = q * c + r
  BY <1>1, Division
<1> HIDE DEF q, r
<1>3. q < m
  <2> SUFFICES ASSUME m <= q PROVE FALSE
    BY <1>2
  <2>1. m * c <= q * c
    BY <1>2, TimesMonotone
  <2>2. q * c \in Nat
    BY <1>2
  <2> QED BY <1>1, <1>2, <2>1, <2>2
<1>4. q + 1 \in 1 .. m /\ r + 1 \in 1 .. c /\ q + 1 - 1 = q
  BY <1>2, <1>3
<1>5. q * c \in Nat
  BY <1>2
<1> DEFINE i == q + 1
           b == r + 1
<1>6. i \in 1 .. m /\ b \in 1 .. c /\ p = (i - 1) * c + b
  BY <1>1, <1>2, <1>4, <1>5
<1> HIDE DEF i, b
<1> QED BY <1>6

\* FlattenSeq joins pieces.
LEMMA FlattenPieces ==
  ASSUME NEW V, NEW m \in Nat, NEW c \in Nat, NEW p \in Pieces(m, c, V)
  PROVE  Joined(FlattenSeq(p), p, m, c, V)
<1> DEFINE S == {n \in Nat : \A u \in Pieces(n, c, V) : Joined(FlattenSeq(u), u, n, c, V)}
<1>1. 0 \in S
  <2> SUFFICES ASSUME NEW u \in Pieces(0, c, V) PROVE Joined(FlattenSeq(u), u, 0, c, V)
    OBVIOUS
  <2>1. u = <<>>
    BY DEF Pieces
  <2>2. FlattenSeq(u) = <<>>
    BY <2>1 DEF FlattenSeq
  <2>3. 0 * c = 0
    OBVIOUS
  <2>4. <<>> \in [1 .. 0 -> V]
    OBVIOUS
  <2> QED BY <2>2, <2>3, <2>4 DEF Joined
<1>2. ASSUME NEW n \in Nat, n \in S PROVE n + 1 \in S
  <2> SUFFICES ASSUME NEW u \in Pieces(n + 1, c, V) PROVE Joined(FlattenSeq(u), u, n + 1, c, V)
    OBVIOUS
  <2> DEFINE front == [i \in 1 .. n |-> u[i]]
             w == FlattenSeq(front)
             last == u[n + 1]
  <2>1. front \in Pieces(n, c, V) /\ u \in [1 .. n + 1 -> [1 .. c -> V]]
    BY DEF Pieces
  <2>2. Joined(w, front, n, c, V)
    BY <1>2, <2>1
  <2>3. last \in [1 .. c -> V] /\ \A i \in 1 .. n : front[i] = u[i]
    BY <2>1
  <2>4. u \in [1 .. n + 1 -> Seq(V)]
    BY <2>1
  <2>5. FlattenSeq(u) = w \o last
    <3>1. CASE n = 0
      <4>1. FlattenSeq(u) = last
        BY <2>4, <3>1, FlattenStep
      <4>2. front = <<>>
        BY <3>1
      <4>3. w = <<>>
        BY <4>2, <2>4, FlattenStep
      <4> HIDE DEF w, last
      <4>4. <<>> \o last = last
        BY <2>3
      <4> QED BY <4>1, <4>3, <4>4
    <3>2. CASE n > 0
      BY <2>4, <3>2, FlattenStep
    <3> QED BY <3>1, <3>2
  <2> HIDE DEF front, w, last
  <2> DEFINE d == n * c
  <2>6. d \in Nat /\ (n + 1) * c = d + c
    OBVIOUS
  <2>7. w \in [1 .. d -> V]
    BY <2>2 DEF Joined
  <2> HIDE DEF d
  <2>8. /\ w \o last \in [1 .. d + c -> V]
        /\ \A k \in 1 .. d : (w \o last)[k] = w[k]
        /\ \A k \in 1 .. c : (w \o last)[d + k] = last[k]
    <3>1. JoinedTwo(w \o last, V, d, w, c, last)
      BY <2>3, <2>6, <2>7, JoinTwo
    <3> QED BY <3>1 DEF JoinedTwo
  <2>9. ASSUME NEW i \in 1 .. n + 1, NEW b \in 1 .. c PROVE (w \o last)[(i - 1) * c + b] = u[i][b]
    <3>1. CASE i = n + 1
      <4>1. (i - 1) * c + b = d + b
        BY <3>1 DEF d
      <4>2. (w \o last)[d + b] = last[b]
        BY <2>8
      <4> QED BY <3>1, <4>1, <4>2 DEF last
    <3>2. CASE i # n + 1
      <4>1. i \in 1 .. n
        BY <3>2
      <4>2. (i - 1) * c + b \in 1 .. d
        BY <4>1, PieceAt DEF d
      <4> DEFINE k == (i - 1) * c + b
      <4>3. w[k] = front[i][b]
        BY <2>2, <4>1 DEF Joined
      <4> HIDE DEF k
      <4>4. (w \o last)[k] = w[k]
        BY <2>8, <4>2 DEF k
      <4> QED BY <2>3, <4>1, <4>3, <4>4 DEF k
    <3> QED BY <3>1, <3>2
  <2> QED BY <2>5, <2>6, <2>8, <2>9 DEF Joined
<1> HIDE DEF S
<1>3. m \in S
  BY <1>1, <1>2, SetInduction
<1> QED BY <1>3 DEF S

-----------------------------------------------------------------------------
(* Slices, bytes and packed polynomials.                                    *)
\* A slice of a string.
LEMMA SliceIs ==
  ASSUME NEW V, NEW n \in Nat, NEW w \in [1 .. n -> V], NEW at \in Nat, NEW c \in Nat, at + c <= n
  PROVE  /\ SubSeq(w, at + 1, at + c) = [b \in 1 .. c |-> w[at + b]]
         /\ [b \in 1 .. c |-> w[at + b]] \in [1 .. c -> V]
<1>1. w \in Seq(V) /\ Len(w) = n
  OBVIOUS
<1>2. at + c - (at + 1) + 1 = c
  OBVIOUS
<1>3. [b \in 1 .. c |-> w[at + b]] \in [1 .. c -> V]
  OBVIOUS
<1>4. SubSeq(w, at + 1, at + c) = [b \in 1 .. at + c - (at + 1) + 1 |-> w[b + (at + 1) - 1]]
  BY <1>1
<1>5. \A b \in 1 .. c : w[b + (at + 1) - 1] = w[at + b]
  OBVIOUS
<1> QED BY <1>2, <1>3, <1>4, <1>5

\* The i-th piece of c elements.
Piece(w, i, c) == SubSeq(w, i * c + 1, (i + 1) * c)

\* Cutting joined pieces gives back the pieces.
LEMMA CutPiece ==
  ASSUME NEW V, NEW m \in Nat, NEW c \in Nat, NEW p \in Pieces(m, c, V), NEW w, Joined(w, p, m, c, V),
         NEW i \in Nat, i < m
  PROVE  Piece(w, i, c) = p[i + 1]
<1> DEFINE at == i * c
           n == m * c
<1>1. at \in Nat /\ n \in Nat /\ (i + 1) * c = at + c
  OBVIOUS
<1>2. at + c <= n
  <2>1. (i + 1) * c <= m * c
    BY TimesMonotone
  <2> QED BY <1>1, <2>1
<1>3. w \in [1 .. n -> V] /\ \A b \in 1 .. c : w[at + b] = p[i + 1][b]
  <2>1. i + 1 \in 1 .. m /\ (i + 1) - 1 = i
    OBVIOUS
  <2>2. \A b \in 1 .. c : w[((i + 1) - 1) * c + b] = p[i + 1][b]
    BY <2>1 DEF Joined
  <2> QED BY <2>1, <2>2 DEF Joined
<1>4. p[i + 1] \in [1 .. c -> V]
  BY DEF Pieces
<1> HIDE DEF at, n
<1>5. SubSeq(w, at + 1, at + c) = [b \in 1 .. c |-> w[at + b]]
  BY <1>1, <1>2, <1>3, SliceIs
<1>6. [b \in 1 .. c |-> w[at + b]] = p[i + 1]
  BY <1>3, <1>4
<1> QED BY <1>1, <1>5, <1>6 DEF at, Piece

\* A byte has B bits.
LEMMA ByteSize ==
  /\ B \in Nat /\ B > 0 /\ N = Pow2(B) /\ N \in Nat /\ N > 0 /\ Byte = 0 .. Pow2(B) - 1
  /\ N \div B \in Nat /\ N = (N \div B) * B /\ N > 1
<1>1. B \in Nat /\ B > 0 /\ N % B = 0
  BY ParamAssumption
<1>2. N = Pow2(B) /\ N \in Nat /\ N > B
  BY <1>1, PowerType DEF N
<1> DEFINE q == N \div B
<1>3. q \in Nat /\ N = q * B + (N % B)
  BY <1>1, <1>2, Division
<1> HIDE DEF q
<1>4. q * B \in Nat
  BY <1>1, <1>3
<1>5. N = q * B
  BY <1>1, <1>2, <1>3, <1>4
<1>6. N > 1
  BY <1>1, <1>2
<1>7. Byte = 0 .. Pow2(B) - 1
  BY <1>2 DEF Byte
<1> QED BY <1>1, <1>2, <1>3, <1>5, <1>6, <1>7 DEF q

\* bits_to_bytes and bytes_to_bits undo each other.
LEMMA BytesOfBits ==
  ASSUME NEW n \in Nat, NEW y \in [1 .. n * B -> {0, 1}]
  PROVE  BitsToBytes(y) \in Bytes(n) /\ BytesToBits(BitsToBytes(y)) = y
<1> DEFINE d == n * B
           z == BitsToBytes(y)
<1>1. B \in Nat /\ B > 0 /\ d \in Nat
  BY ByteSize
<1>2. Len(y) = d /\ d \div B = n
  <2>1. (n * B + 0) \div B = n
    BY <1>1, DivisionUnique
  <2>2. n * B + 0 = d
    BY <1>1
  <2> HIDE DEF d
  <2>3. y \in [1 .. d -> {0, 1}]
    BY DEF d
  <2>4. Len(y) = d
    BY <1>1, <2>3
  <2> QED BY <2>1, <2>2, <2>4
<1>3. z = [i \in 1 .. n |-> BitsToInteger(SubSeq(y, (i - 1) * B + 1, i * B))]
  BY <1>2 DEF BitsToBytes
<1> HIDE DEF z
<1>4. ASSUME NEW i \in 1 .. n
      PROVE  z[i] \in Byte /\ \A b \in 1 .. B : IntegerToBits(z[i], B)[b] = y[(i - 1) * B + b]
  <2> DEFINE at == (i - 1) * B
             piece == [b \in 1 .. B |-> y[at + b]]
  <2>1. at \in Nat /\ i * B = at + B
    BY <1>1
  <2>2. at + B <= d
    <3>1. i * B <= n * B
      BY <1>1, TimesMonotone
    <3> QED BY <2>1, <3>1
  <2>3. y \in [1 .. d -> {0, 1}]
    OBVIOUS
  <2> HIDE DEF at, d
  <2>4. SubSeq(y, at + 1, at + B) = piece /\ piece \in [1 .. B -> {0, 1}]
    BY <1>1, <2>1, <2>2, <2>3, SliceIs
  <2>5. z[i] = BitsToInteger(SubSeq(y, at + 1, at + B))
    BY <1>3, <2>1 DEF at
  <2>6. \A b \in 1 .. B : piece[b] = y[at + b]
    OBVIOUS
  <2> HIDE DEF piece
  <2>7. BitsToInteger(piece) \in 0 .. Pow2(B) - 1 /\ IntegerToBits(BitsToInteger(piece), B) = piece
    BY <1>1, <2>4, IntegerOfBits
  <2>8. z[i] = BitsToInteger(piece)
    BY <2>4, <2>5
  <2>9. z[i] \in Byte
    BY <2>7, <2>8, ByteSize
  <2> QED BY <2>6, <2>7, <2>8, <2>9 DEF at
<1>5. z \in Bytes(n) /\ Len(z) = n
  BY <1>3, <1>4 DEF Bytes
<1> DEFINE p == [i \in 1 .. n |-> IntegerToBits(z[i], B)]
<1>6. p \in Pieces(n, B, {0, 1})
  <2> SUFFICES ASSUME NEW i \in 1 .. n PROVE IntegerToBits(z[i], B) \in [1 .. B -> {0, 1}]
    BY DEF Pieces
  <2>1. z[i] \in Int
    BY <1>4, ByteSize
  <2> QED BY <1>1, <2>1, IntegerToBitsType
<1>7. BytesToBits(z) = FlattenSeq(p)
  BY <1>5 DEF BytesToBits
<1>8. \A i \in 1 .. n : p[i] = IntegerToBits(z[i], B)
  OBVIOUS
<1> DEFINE w == FlattenSeq(p)
<1> HIDE DEF p
<1>9. Joined(w, p, n, B, {0, 1})
  BY <1>1, <1>6, FlattenPieces
<1> HIDE DEF w
<1>10. w \in [1 .. d -> {0, 1}]
  BY <1>9 DEF Joined
<1>11. ASSUME NEW k \in 1 .. n * B PROVE w[k] = y[k]
  <2>1. PICK i \in 1 .. n : \E b \in 1 .. B : k = (i - 1) * B + b
    BY <1>1, PlaceOf
  <2>2. PICK b \in 1 .. B : k = (i - 1) * B + b
    BY <2>1
  <2>3. w[(i - 1) * B + b] = p[i][b]
    BY <1>9 DEF Joined
  <2>4. p[i][b] = y[(i - 1) * B + b]
    BY <1>4, <1>8
  <2> QED BY <2>2, <2>3, <2>4
<1>12. w = y
  <2>1. y \in [1 .. d -> {0, 1}] /\ \A k \in 1 .. d : w[k] = y[k]
    BY <1>11
  <2> HIDE DEF d
  <2>2. DOMAIN w = 1 .. d /\ DOMAIN y = 1 .. d /\ w = [k \in 1 .. d |-> w[k]] /\ y = [k \in 1 .. d |-> y[k]]
    BY <1>10, <2>1
  <2> QED BY <2>1, <2>2
<1> QED BY <1>5, <1>7, <1>12 DEF z, w

\* The bits of bytes.
LEMMA BitsOfBytes ==
  ASSUME NEW n \in Nat, NEW z \in Bytes(n)
  PROVE  BytesToBits(z) \in [1 .. n * B -> {0, 1}]
<1> DEFINE p == [i \in 1 .. n |-> IntegerToBits(z[i], B)]
<1>1. B \in Nat /\ z \in [1 .. n -> Byte] /\ \A i \in 1 .. n : z[i] \in Int
  BY ByteSize DEF Bytes
<1>2. p \in Pieces(n, B, {0, 1})
  BY <1>1, IntegerToBitsType DEF Pieces
<1>3. BytesToBits(z) = FlattenSeq(p)
  BY <1>1 DEF BytesToBits
<1> HIDE DEF p
<1>4. Joined(FlattenSeq(p), p, n, B, {0, 1})
  BY <1>1, <1>2, FlattenPieces
<1> QED BY <1>3, <1>4 DEF Joined

\* A polynomial in c bits for each coefficient, and back.
Packed(w, c) == BitsToBytes(FlattenSeq([i \in 1 .. N |-> IntegerToBits(w[i - 1], c)]))
Unpacked(v, c) == [i \in Coeff |-> BitsToInteger(Piece(BytesToBits(v), i, c))]
Size(c) == (N \div B) * c

\* A polynomial of fields of c bits takes whole bytes.
LEMMA SizeIs ==
  ASSUME NEW c \in Nat
  PROVE  Size(c) \in Nat /\ Size(c) * B = N * c
<1> DEFINE q == N \div B
<1>1. q \in Nat /\ N = q * B /\ B \in Nat
  BY ByteSize
<1> HIDE DEF q
<1>2. q * c \in Nat /\ (q * c) * B = (q * B) * c
  BY <1>1
<1> QED BY <1>1, <1>2 DEF Size, q

\* The bits of a polynomial, piece by piece.
LEMMA PolyBits ==
  ASSUME NEW c \in Nat, NEW w \in [Coeff -> Int]
  PROVE  LET p == [i \in 1 .. N |-> IntegerToBits(w[i - 1], c)]
         IN  /\ p \in Pieces(N, c, {0, 1}) /\ Joined(FlattenSeq(p), p, N, c, {0, 1})
             /\ FlattenSeq(p) \in [1 .. Size(c) * B -> {0, 1}]
<1> DEFINE p == [i \in 1 .. N |-> IntegerToBits(w[i - 1], c)]
<1>1. N \in Nat
  BY ByteSize
<1>2. \A i \in 1 .. N : w[i - 1] \in Int
  BY <1>1 DEF Coeff
<1>3. p \in Pieces(N, c, {0, 1})
  BY <1>2, IntegerToBitsType DEF Pieces
<1> HIDE DEF p
<1>4. Joined(FlattenSeq(p), p, N, c, {0, 1})
  BY <1>1, <1>3, FlattenPieces
<1>5. FlattenSeq(p) \in [1 .. Size(c) * B -> {0, 1}]
  BY <1>4, SizeIs DEF Joined
<1> QED BY <1>3, <1>4, <1>5 DEF p

\* Fields of c bits, packed, are a string of that size.
LEMMA PackedType ==
  ASSUME NEW c \in Nat, NEW w \in [Coeff -> Int]
  PROVE  Packed(w, c) \in Bytes(Size(c))
<1> DEFINE y == FlattenSeq([i \in 1 .. N |-> IntegerToBits(w[i - 1], c)])
<1>1. y \in [1 .. Size(c) * B -> {0, 1}]
  BY PolyBits
<1> HIDE DEF y
<1>2. BitsToBytes(y) \in Bytes(Size(c))
  BY <1>1, SizeIs, BytesOfBits
<1> QED BY <1>2 DEF Packed, y

\* Fields of c bits hold numbers below 2^c.
LEMMA UnpackedType ==
  ASSUME NEW c \in Nat, NEW v \in Bytes(Size(c))
  PROVE  Unpacked(v, c) \in [Coeff -> 0 .. Pow2(c) - 1]
<1> DEFINE z == BytesToBits(v)
           n == N * c
<1>1. z \in [1 .. n -> {0, 1}] /\ n \in Nat /\ N \in Nat
  <2>1. Size(c) \in Nat /\ Size(c) * B = n /\ N \in Nat /\ n \in Nat
    <3>1. Size(c) \in Nat /\ Size(c) * B = N * c
      BY SizeIs
    <3>2. N \in Nat
      BY ByteSize
    <3> QED BY <3>1, <3>2
  <2> HIDE DEF n
  <2>2. z \in [1 .. Size(c) * B -> {0, 1}]
    BY <2>1, BitsOfBytes
  <2> HIDE DEF z
  <2> QED BY <2>1, <2>2
<1> HIDE DEF z
<1> SUFFICES ASSUME NEW i \in Coeff
             PROVE  BitsToInteger(Piece(z, i, c)) \in 0 .. Pow2(c) - 1
  BY DEF Unpacked, z
<1> DEFINE at == i * c
<1>2. i \in Nat /\ i + 1 \in Nat /\ i + 1 <= N
  BY <1>1 DEF Coeff
<1>3. at \in Nat /\ (i + 1) * c = at + c
  BY <1>2
<1>4. at + c <= n
  <2>1. (i + 1) * c <= N * c
    BY <1>1, <1>2, TimesMonotone
  <2> QED BY <1>3, <2>1
<1> HIDE DEF at, n
<1> DEFINE y == [b \in 1 .. c |-> z[at + b]]
<1>5. SubSeq(z, at + 1, at + c) = y /\ y \in [1 .. c -> {0, 1}]
  BY <1>1, <1>3, <1>4, SliceIs
<1> HIDE DEF y
<1>6. BitsToInteger(y) \in 0 .. Pow2(c) - 1
  BY <1>5, IntegerOfBits
<1> QED BY <1>3, <1>5, <1>6 DEF at, Piece

\* What is packed in fields of c bits is unpacked as it was.
LEMMA UnpackPacked ==
  ASSUME NEW c \in Nat, NEW w \in [Coeff -> 0 .. Pow2(c) - 1]
  PROVE  Unpacked(Packed(w, c), c) = w
<1> DEFINE p == [i \in 1 .. N |-> IntegerToBits(w[i - 1], c)]
           y == FlattenSeq(p)
<1>1. w \in [Coeff -> Int] /\ N \in Nat
  BY ByteSize, PowerType
<1>2. p \in Pieces(N, c, {0, 1}) /\ Joined(y, p, N, c, {0, 1}) /\ y \in [1 .. Size(c) * B -> {0, 1}]
  BY <1>1, PolyBits
<1>3. Packed(w, c) = BitsToBytes(y)
  BY DEF Packed
<1>4. \A i \in Coeff : p[i + 1] = IntegerToBits(w[i], c)
  BY <1>1 DEF Coeff
<1> HIDE DEF p, y
<1>5. BytesToBits(Packed(w, c)) = y
  BY <1>2, <1>3, SizeIs, BytesOfBits
<1>6. ASSUME NEW i \in Coeff PROVE BitsToInteger(Piece(y, i, c)) = w[i]
  <2>1. i \in 0 .. N - 1
    BY DEF Coeff
  <2>2. Piece(y, i, c) = p[i + 1]
    <3>1. N \in Nat /\ p \in Pieces(N, c, {0, 1}) /\ Joined(y, p, N, c, {0, 1}) /\ i \in Nat /\ i < N
      BY <1>1, <1>2, <2>1
    <3> HIDE DEF p, y
    <3> QED BY <3>1, CutPiece
  <2>3. BitsToInteger(IntegerToBits(w[i], c)) = w[i]
    BY BitsOfInteger
  <2> QED BY <1>4, <2>2, <2>3
<1>7. Unpacked(Packed(w, c), c) = [i \in Coeff |-> w[i]]
  BY <1>5, <1>6 DEF Unpacked
<1> QED BY <1>7

\* simple_bit_pack and simple_bit_unpack, bit_pack and bit_unpack undo each other on the
\* coefficients they are meant for.
LEMMA PolySizeIs ==
  ASSUME NEW b \in Nat
  PROVE  BitLength(b) \in Nat /\ PolySize(b) = Size(BitLength(b)) /\ PolySize(b) \in Nat
<1> DEFINE c == BitLength(b)
<1>1. c \in Nat
  BY BitLengthBound
<1> HIDE DEF c
<1>2. Size(c) \in Nat /\ Size(c) * B = N * c
  BY <1>1, SizeIs
<1>3. B \in Nat /\ B > 0
  BY ByteSize
<1>4. (Size(c) * B + 0) \div B = Size(c)
  BY <1>2, <1>3, DivisionUnique
<1>5. Size(c) * B + 0 = N * c
  BY <1>2, <1>3
<1>6. (N * c) \div B = Size(c)
  BY <1>4, <1>5
<1> QED BY <1>1, <1>2, <1>6 DEF c, PolySize

\* simple_bit_pack and simple_bit_unpack are inverse to each other up to the bound.
LEMMA SimplePacking ==
  ASSUME NEW b \in Nat, NEW w \in [Coeff -> Int]
  PROVE  /\ SimpleBitPack(w, b) \in Bytes(PolySize(b))
         /\ w \in [Coeff -> 0 .. b] => SimpleBitUnpack(SimpleBitPack(w, b), b) = w
<1> DEFINE c == BitLength(b)
<1>1. c \in Nat /\ b < Pow2(c) /\ Pow2(c) \in Nat
  BY BitLengthBound, PowerType
<1>2. SimpleBitPack(w, b) = Packed(w, c) /\ \A v : SimpleBitUnpack(v, b) = Unpacked(v, c)
  BY DEF SimpleBitPack, SimpleBitUnpack, Packed, Unpacked, Piece
<1>3. PolySize(b) = Size(c)
  BY PolySizeIs
<1> HIDE DEF c
<1>4. Packed(w, c) \in Bytes(Size(c))
  BY <1>1, PackedType
<1>5. ASSUME w \in [Coeff -> 0 .. b] PROVE Unpacked(Packed(w, c), c) = w
  <2>1. w \in [Coeff -> 0 .. Pow2(c) - 1]
    BY <1>1, <1>5
  <2> QED BY <1>1, <2>1, UnpackPacked
<1> QED BY <1>2, <1>3, <1>4, <1>5

\* bit_pack and bit_unpack are inverse to each other between the bounds.
LEMMA Packing ==
  ASSUME NEW a \in Nat, NEW b \in Nat, NEW w \in [Coeff -> Int]
  PROVE  /\ BitPack(w, a, b) \in Bytes(PolySize(a + b))
         /\ w \in [Coeff -> -a .. b] => BitUnpack(BitPack(w, a, b), a, b) = w
<1> DEFINE c == BitLength(a + b)
           u == [j \in Coeff |-> b - w[j]]
<1>1. c \in Nat /\ a + b < Pow2(c) /\ Pow2(c) \in Nat /\ a + b \in Nat
  BY BitLengthBound, PowerType
<1>2. N \in Nat /\ \A i \in 1 .. N : i - 1 \in Coeff
  BY ByteSize DEF Coeff
<1>3. \A i \in 1 .. N : u[i - 1] = b - w[i - 1]
  BY <1>2
<1>4. BitPack(w, a, b) = Packed(u, c)
  BY <1>3 DEF BitPack, Packed
<1>5. \A v : BitUnpack(v, a, b) = [i \in Coeff |-> b - Unpacked(v, c)[i]]
  BY DEF BitUnpack, Unpacked, Piece
<1>6. PolySize(a + b) = Size(c)
  BY <1>1, PolySizeIs
<1>7. u \in [Coeff -> Int] /\ \A i \in Coeff : u[i] = b - w[i]
  OBVIOUS
<1> HIDE DEF c, u
<1>8. Packed(u, c) \in Bytes(Size(c))
  BY <1>1, <1>7, PackedType
<1>9. ASSUME w \in [Coeff -> -a .. b] PROVE BitUnpack(Packed(u, c), a, b) = w
  <2>1. u \in [Coeff -> 0 .. Pow2(c) - 1]
    <3>1. \A i \in Coeff : u[i] \in 0 .. Pow2(c) - 1
      BY <1>1, <1>7, <1>9
    <3> QED BY <1>7, <3>1
  <2>2. Unpacked(Packed(u, c), c) = u
    BY <1>1, <2>1, UnpackPacked
  <2>3. \A i \in Coeff : b - u[i] = w[i]
    BY <1>7, <1>9
  <2>4. BitUnpack(Packed(u, c), a, b) = [i \in Coeff |-> w[i]]
    BY <1>5, <2>2, <2>3
  <2> QED BY <2>4
<1> QED BY <1>4, <1>6, <1>8, <1>9

\* bit_unpack gives a polynomial for every string of the right length.
LEMMA UnpackingType ==
  ASSUME NEW a \in Nat, NEW b \in Nat, NEW v \in Bytes(PolySize(a + b))
  PROVE  BitUnpack(v, a, b) \in [Coeff -> Int]
<1> DEFINE c == BitLength(a + b)
<1>1. a + b \in Nat /\ c \in Nat /\ PolySize(a + b) = Size(c) /\ Pow2(c) \in Nat
  BY BitLengthBound, PolySizeIs, PowerType
<1>2. BitUnpack(v, a, b) = [i \in Coeff |-> b - Unpacked(v, c)[i]]
  BY DEF BitUnpack, Unpacked, Piece
<1> HIDE DEF c
<1>3. Unpacked(v, c) \in [Coeff -> 0 .. Pow2(c) - 1]
  BY <1>1, UnpackedType
<1> QED BY <1>1, <1>2, <1>3

-----------------------------------------------------------------------------
(* Vectors of polynomials, one after the other.                             *)
\* w stands in s behind the first at elements.
Within(s, V, len, at, w, d) ==
  s \in [1 .. len -> V] /\ at + d <= len /\ \A k \in 1 .. d : s[at + k] = w[k]
Slice(s, at, i, c) == SubSeq(s, at + i * c + 1, at + (i + 1) * c)
CutsOut(s, at, p, m, c) == \A i \in Nat : i < m => Slice(s, at, i, c) = p[i + 1]
SliceOf(x, s, at, i, c) == x = [b \in 1 .. c |-> s[at + i * c + b]]

\* The slices of a string.
LEMMA SliceType ==
  ASSUME NEW V, NEW len \in Nat, NEW s \in [1 .. len -> V], NEW at \in Nat, NEW c \in Nat,
         NEW i \in Nat, at + (i + 1) * c <= len
  PROVE  /\ Slice(s, at, i, c) \in [1 .. c -> V]
         /\ SliceOf(Slice(s, at, i, c), s, at, i, c)
<1> DEFINE f == i * c
<1>1. f \in Nat /\ (i + 1) * c = f + c
  OBVIOUS
<1>2. at + (f + c) <= len
  BY <1>1
<1> HIDE DEF f
<1> DEFINE a == at + f
<1>4. a \in Nat /\ a + c <= len /\ at + (f + c) = a + c
  BY <1>1, <1>2
<1>5. Slice(s, at, i, c) = SubSeq(s, a + 1, a + c)
  BY <1>1, <1>4 DEF Slice, f
<1> HIDE DEF a
<1>6. /\ SubSeq(s, a + 1, a + c) = [b \in 1 .. c |-> s[a + b]]
      /\ [b \in 1 .. c |-> s[a + b]] \in [1 .. c -> V]
  BY <1>4, SliceIs
<1> QED BY <1>5, <1>6 DEF a, f, SliceOf

\* Cutting joined pieces out of a longer string gives back the pieces.
LEMMA CutAt ==
  ASSUME NEW V, NEW len \in Nat, NEW at \in Nat, NEW m \in Nat, NEW c \in Nat, NEW s, NEW w,
         NEW d \in Nat, d = m * c, Within(s, V, len, at, w, d), NEW p \in Pieces(m, c, V), Joined(w, p, m, c, V)
  PROVE  CutsOut(s, at, p, m, c)
<1> SUFFICES ASSUME NEW i \in Nat, i < m PROVE Slice(s, at, i, c) = p[i + 1]
  BY DEF CutsOut
<1> DEFINE f == i * c
<1>1. f \in Nat /\ d \in Nat
  OBVIOUS
<1>2. Slice(s, at, i, c) = [b \in 1 .. c |-> s[at + f + b]]
  <2>1. s \in [1 .. len -> V] /\ at + m * c <= len
    BY DEF Within
  <2>3. (i + 1) * c <= m * c
    BY TimesMonotone
  <2>4. at + (i + 1) * c <= len
    BY <2>1, <2>3
  <2>2. SliceOf(Slice(s, at, i, c), s, at, i, c)
    BY <2>1, <2>4, SliceType
  <2> QED BY <2>2 DEF SliceOf
<1>3. p[i + 1] \in [1 .. c -> V]
  BY DEF Pieces
<1>4. ASSUME NEW b \in 1 .. c PROVE s[at + f + b] = p[i + 1][b]
  <2>1. i + 1 \in 1 .. m /\ (i + 1) - 1 = i
    OBVIOUS
  <2>2. f + b \in 1 .. d /\ w[f + b] = p[i + 1][b]
    BY <2>1, PieceAt DEF Joined
  <2> HIDE DEF f
  <2>3. \A k \in 1 .. d : s[at + k] = w[k]
    BY DEF Within
  <2>4. s[at + (f + b)] = w[f + b]
    BY <2>2, <2>3
  <2> QED BY <1>1, <2>2, <2>4
<1> HIDE DEF f
<1> QED BY <1>2, <1>3, <1>4

\* A string lies within itself, and the parts within the whole.
LEMMA WithinWhole ==
  ASSUME NEW V, NEW d \in Nat, NEW s \in [1 .. d -> V]
  PROVE  Within(s, V, d, 0, s, d)
BY DEF Within

\* Where three strings lie when they are joined.
LEMMA WithinParts ==
  ASSUME NEW V, NEW a \in Nat, NEW b \in Nat, NEW c \in Nat,
         NEW u \in [1 .. a -> V], NEW v \in [1 .. b -> V], NEW w \in [1 .. c -> V]
  PROVE  /\ u \o v \o w \in [1 .. a + b + c -> V]
         /\ Within(u \o v \o w, V, a + b + c, 0, u, a)
         /\ Within(u \o v \o w, V, a + b + c, a, v, b)
         /\ Within(u \o v \o w, V, a + b + c, a + b, w, c)
<1> DEFINE x == u \o v
           y == x \o w
<1>1. JoinedTwo(x, V, a, u, b, v)
  BY JoinTwo
<1> HIDE DEF x
<1>2. x \in [1 .. a + b -> V] /\ (\A k \in 1 .. a : x[k] = u[k]) /\ (\A k \in 1 .. b : x[a + k] = v[k])
  BY <1>1 DEF JoinedTwo
<1>3. JoinedTwo(y, V, a + b, x, c, w)
  <2>1. a + b \in Nat
    OBVIOUS
  <2> QED BY <1>2, <2>1, JoinTwo
<1> HIDE DEF y
<1>4. /\ y \in [1 .. a + b + c -> V]
      /\ \A k \in 1 .. a + b : y[k] = x[k]
      /\ \A k \in 1 .. c : y[a + b + k] = w[k]
  BY <1>3 DEF JoinedTwo
<1>5. Within(y, V, a + b + c, 0, u, a)
  <2>1. \A k \in 1 .. a : y[0 + k] = u[k]
    BY <1>2, <1>4
  <2> QED BY <1>4, <2>1 DEF Within
<1>6. Within(y, V, a + b + c, a, v, b)
  <2>1. \A k \in 1 .. b : y[a + k] = v[k]
    <3> TAKE k \in 1 .. b
    <3>1. a + k \in 1 .. a + b
      OBVIOUS
    <3> QED BY <1>2, <1>4, <3>1
  <2> QED BY <1>4, <2>1 DEF Within
<1>7. Within(y, V, a + b + c, a + b, w, c)
  BY <1>4 DEF Within
<1> QED BY <1>4, <1>5, <1>6, <1>7 DEF y, x

\* How many entries a vector has.
LEMMA Entries ==
  ASSUME NEW n \in Nat, NEW v, DOMAIN v = 0 .. n - 1
  PROVE  Cardinality(DOMAIN v) = n
<1>1. IsFiniteSet(0 .. n - 1) /\ Cardinality(0 .. n - 1) = IF 0 > n - 1 THEN 0 ELSE n - 1 - 0 + 1
  BY FS_Interval
<1> QED BY <1>1

\* Encoded entries, joined.
EntryPieces(e, n) == [i \in 1 .. n |-> e[i - 1]]
EntriesJoined(s, e, n, c) ==
  /\ EntryPieces(e, n) \in Pieces(n, c, Byte) /\ Joined(s, EntryPieces(e, n), n, c, Byte)
  /\ s \in [1 .. n * c -> Byte]
  /\ \A i \in 0 .. n - 1 : EntryPieces(e, n)[i + 1] = e[i]

\* The entries of a vector, joined, and what is cut out at each.
LEMMA JoinedEntries ==
  ASSUME NEW n \in Nat, NEW c \in Nat, NEW e \in [0 .. n - 1 -> Bytes(c)]
  PROVE  EntriesJoined(FlattenSeq(EntryPieces(e, n)), e, n, c)
<1> DEFINE p == EntryPieces(e, n)
<1>1. p \in Pieces(n, c, Byte)
  BY DEF Pieces, Bytes, EntryPieces
<1>2. \A i \in 0 .. n - 1 : p[i + 1] = e[i]
  BY DEF EntryPieces
<1> HIDE DEF p
<1>3. Joined(FlattenSeq(p), p, n, c, Byte)
  BY <1>1, FlattenPieces
<1>4. FlattenSeq(p) \in [1 .. n * c -> Byte]
  BY <1>3 DEF Joined
<1> QED BY <1>1, <1>2, <1>3, <1>4 DEF p, EntriesJoined

\* Vectors packed by simple_bit_pack and by bit_pack.
SimpleString(w, b) == FlattenSeq([i \in 1 .. Cardinality(DOMAIN w) |-> SimpleBitPack(w[i - 1], b)])
SignedString(w, a, b) == FlattenSeq([i \in 1 .. Cardinality(DOMAIN w) |-> BitPack(w[i - 1], a, b)])
Vector(n, V) == [0 .. n - 1 -> [Coeff -> V]]

\* A vector packed by simple_bit_pack is a string of known length.
LEMMA SimpleVectorType ==
  ASSUME NEW n \in Nat, NEW b \in Nat, NEW w \in Vector(n, Int)
  PROVE  SimpleString(w, b) \in [1 .. n * PolySize(b) -> Byte]
<1> DEFINE c == PolySize(b)
           e == [i \in 0 .. n - 1 |-> SimpleBitPack(w[i], b)]
<1>1. c \in Nat
  BY PolySizeIs
<1>2. e \in [0 .. n - 1 -> Bytes(c)]
  BY SimplePacking DEF Vector
<1>3. SimpleString(w, b) = FlattenSeq(EntryPieces(e, n))
  <2>1. Cardinality(DOMAIN w) = n
    BY Entries DEF Vector
  <2>2. \A i \in 1 .. n : i - 1 \in 0 .. n - 1
    OBVIOUS
  <2> QED BY <2>1, <2>2 DEF SimpleString, EntryPieces
<1> HIDE DEF e, c
<1>4. FlattenSeq(EntryPieces(e, n)) \in [1 .. n * c -> Byte]
  BY <1>1, <1>2, JoinedEntries DEF EntriesJoined
<1> QED BY <1>3, <1>4 DEF c

\* And each polynomial is unpacked from its part of it.
LEMMA SimpleVector ==
  ASSUME NEW n \in Nat, NEW b \in Nat, NEW w \in Vector(n, 0 .. b), NEW i \in 0 .. n - 1
  PROVE  SimpleBitUnpack(Slice(SimpleString(w, b), 0, i, PolySize(b)), b) = w[i]
<1> DEFINE c == PolySize(b)
           e == [k \in 0 .. n - 1 |-> SimpleBitPack(w[k], b)]
           p == EntryPieces(e, n)
           s == FlattenSeq(p)
<1>1. c \in Nat
  BY PolySizeIs
<1>2. e \in [0 .. n - 1 -> Bytes(c)]
  <2>1. ASSUME NEW k \in 0 .. n - 1 PROVE SimpleBitPack(w[k], b) \in Bytes(c)
    <3>1. w[k] \in [Coeff -> Int]
      BY DEF Vector
    <3> QED BY <3>1, SimplePacking
  <2> QED BY <2>1
<1>3. SimpleString(w, b) = s
  <2>1. Cardinality(DOMAIN w) = n
    BY Entries DEF Vector
  <2>2. \A k \in 1 .. n : k - 1 \in 0 .. n - 1
    OBVIOUS
  <2> QED BY <2>1, <2>2 DEF SimpleString, EntryPieces
<1>4. SimpleBitUnpack(e[i], b) = w[i]
  <2>1. w[i] \in [Coeff -> 0 .. b] /\ w[i] \in [Coeff -> Int]
    BY DEF Vector
  <2> QED BY <2>1, SimplePacking
<1> HIDE DEF e
<1>5. /\ p \in Pieces(n, c, Byte) /\ Joined(s, p, n, c, Byte)
      /\ s \in [1 .. n * c -> Byte] /\ p[i + 1] = e[i]
  BY <1>1, <1>2, JoinedEntries DEF EntriesJoined
<1> HIDE DEF s, p, c
<1>6. n * c \in Nat /\ i \in Nat /\ i < n
  BY <1>1
<1>7. PICK d \in Nat : d = n * c
  BY <1>6
<1>8. Within(s, Byte, d, 0, s, d)
  <2>1. s \in [1 .. d -> Byte]
    BY <1>5, <1>7
  <2> QED BY <2>1, WithinWhole
<1>9. Slice(s, 0, i, c) = p[i + 1]
  <2>1. CutsOut(s, 0, p, n, c)
    BY <1>1, <1>5, <1>7, <1>8, CutAt
  <2> QED BY <1>6, <2>1 DEF CutsOut
<1> QED BY <1>3, <1>4, <1>5, <1>9 DEF c

\* A vector packed by bit_pack is a string of known length.
LEMMA SignedVectorType ==
  ASSUME NEW n \in Nat, NEW a \in Nat, NEW b \in Nat, NEW w \in Vector(n, Int)
  PROVE  SignedString(w, a, b) \in [1 .. n * PolySize(a + b) -> Byte]
<1> DEFINE c == PolySize(a + b)
           e == [i \in 0 .. n - 1 |-> BitPack(w[i], a, b)]
<1>1. c \in Nat
  BY PolySizeIs
<1>2. e \in [0 .. n - 1 -> Bytes(c)]
  BY Packing DEF Vector
<1>3. SignedString(w, a, b) = FlattenSeq(EntryPieces(e, n))
  <2>1. Cardinality(DOMAIN w) = n
    BY Entries DEF Vector
  <2>2. \A i \in 1 .. n : i - 1 \in 0 .. n - 1
    OBVIOUS
  <2> QED BY <2>1, <2>2 DEF SignedString, EntryPieces
<1> HIDE DEF e, c
<1>4. FlattenSeq(EntryPieces(e, n)) \in [1 .. n * c -> Byte]
  BY <1>1, <1>2, JoinedEntries DEF EntriesJoined
<1> QED BY <1>3, <1>4 DEF c

VectorCut(s, at, w, a, b, n) == \A i \in 0 .. n - 1 : BitUnpack(Slice(s, at, i, PolySize(a + b)), a, b) = w[i]

\* And each polynomial is unpacked from its part, wherever the string lies.
LEMMA SignedVector ==
  ASSUME NEW n \in Nat, NEW a \in Nat, NEW b \in Nat, NEW w \in Vector(n, -a .. b),
         NEW len \in Nat, NEW at \in Nat, NEW s, NEW d \in Nat, d = n * PolySize(a + b),
         Within(s, Byte, len, at, SignedString(w, a, b), d)
  PROVE  VectorCut(s, at, w, a, b, n)
<1> SUFFICES ASSUME NEW i \in 0 .. n - 1
             PROVE  BitUnpack(Slice(s, at, i, PolySize(a + b)), a, b) = w[i]
  BY DEF VectorCut
<1> DEFINE c == PolySize(a + b)
           e == [k \in 0 .. n - 1 |-> BitPack(w[k], a, b)]
           p == EntryPieces(e, n)
           u == FlattenSeq(p)
<1>1. c \in Nat
  <2>1. a + b \in Nat
    OBVIOUS
  <2> QED BY <2>1, PolySizeIs
<1>2. e \in [0 .. n - 1 -> Bytes(c)]
  <2>1. ASSUME NEW k \in 0 .. n - 1 PROVE BitPack(w[k], a, b) \in Bytes(c)
    <3>1. w[k] \in [Coeff -> Int]
      BY DEF Vector
    <3> QED BY <3>1, Packing
  <2> QED BY <2>1
<1>3. SignedString(w, a, b) = u
  <2>1. Cardinality(DOMAIN w) = n
    BY Entries DEF Vector
  <2>2. \A k \in 1 .. n : k - 1 \in 0 .. n - 1
    OBVIOUS
  <2> QED BY <2>1, <2>2 DEF SignedString, EntryPieces
<1>4. BitUnpack(e[i], a, b) = w[i]
  <2>1. w[i] \in [Coeff -> -a .. b] /\ w[i] \in [Coeff -> Int]
    BY DEF Vector
  <2> QED BY <2>1, Packing
<1> HIDE DEF e
<1> HIDE DEF c
<1>5. /\ p \in Pieces(n, c, Byte) /\ Joined(u, p, n, c, Byte)
      /\ u \in [1 .. n * c -> Byte] /\ p[i + 1] = e[i]
  <2>1. EntriesJoined(u, e, n, c)
    BY <1>1, <1>2, JoinedEntries
  <2> QED BY <2>1 DEF EntriesJoined
<1> HIDE DEF u, p
<1>6. i \in Nat /\ i < n
  OBVIOUS
<1>7. Within(s, Byte, len, at, u, d) /\ d = n * c
  BY <1>3 DEF c
<1>8. Slice(s, at, i, c) = p[i + 1]
  <2>1. d \in Nat
    BY <1>1, <1>7
  <2>2. CutsOut(s, at, p, n, c)
    BY <1>1, <1>5, <1>7, <2>1, CutAt
  <2> QED BY <1>6, <2>2 DEF CutsOut
<1> QED BY <1>4, <1>5, <1>8 DEF c

-----------------------------------------------------------------------------
(* What the encodings of keys and signatures give back.                     *)
LEMMA Parameters ==
  /\ Q \in Nat /\ Q > 2 /\ D \in Nat /\ D > 0 /\ Tau \in Nat /\ Tau > 0 /\ Tau <= N
  /\ Gam1 \in Nat /\ Gam1 > 0 /\ Gam2 \in Nat /\ Gam2 > 0
  /\ K \in Nat /\ K > 0 /\ Ell \in Nat /\ Ell > 0 /\ Eta \in Nat /\ Eta > 0
  /\ Omega \in Byte /\ Omega \in Nat /\ Omega > 0 /\ Zeta \in Nat /\ TurnBound \in Nat /\ NonceRange \in Nat
  /\ Beta \in Nat /\ Beta = Tau * Eta /\ (Eta = 2 \/ Eta = 4)
  /\ Q % Pow2(D) = 1 /\ (Q - 1) % (2 * Gam2) = 0 /\ (Q - 1) \div (2 * Gam2) >= 2
<1>1. /\ Q \in Nat \ {0} /\ D \in Nat \ {0} /\ Tau \in Nat \ {0} /\ Gam1 \in Nat \ {0} /\ Gam2 \in Nat \ {0}
      /\ K \in Nat \ {0} /\ Ell \in Nat \ {0} /\ Eta \in Nat \ {0} /\ Omega \in Nat \ {0}
      /\ Beta \in Nat \ {0} /\ TurnBound \in Nat \ {0} /\ NonceRange \in Nat \ {0}
  BY ParamAssumption
<1>2. (Q - 1) \div (2 * Gam2) >= 2
  BY ParamAssumption
<1>3. Q > 2
  <2> DEFINE g == 2 * Gam2
             q == (Q - 1) \div g
  <2>1. g \in Nat /\ g > 0 /\ Q - 1 \in Nat
    BY <1>1
  <2> HIDE DEF g
  <2>2. q \in Nat /\ Q - 1 = q * g + ((Q - 1) % g) /\ (Q - 1) % g \in 0 .. g - 1
    BY <2>1, Division
  <2>3. q >= 2
    BY <1>2 DEF g
  <2> HIDE DEF q
  <2>4. 2 * g <= q * g
    BY <2>1, <2>2, <2>3, TimesMonotone
  <2>5. q * g \in Nat /\ (Q - 1) % g >= 0 /\ (Q - 1) % g \in Nat
    BY <2>1, <2>2
  <2> DEFINE r == (Q - 1) % g
             e == q * g
  <2>6. Q - 1 = e + r /\ r \in Nat /\ e \in Nat /\ 2 * g <= e
    BY <2>2, <2>4, <2>5
  <2> HIDE DEF e, r
  <2> QED BY <1>1, <2>1, <2>6
<1> QED BY <1>1, <1>2, <1>3, ParamAssumption

\* The bounds of the encodings: t1 and t0 are all that power2round gives.
LEMMA Bounds ==
  /\ T0Low \in Nat /\ T0High \in Nat /\ T0Low + T0High = Pow2(D) - 1 /\ T0High = T0Low + 1
  /\ Pow2(D) = 2 * T0High /\ Pow2(D) \in Nat /\ Pow2(D) > 1
  /\ T1Bound \in Nat /\ W1Bound \in Nat /\ W1Bound >= 1
  /\ \A q \in Nat : q * Pow2(D) <= Q - 1 => q <= T1Bound
<1> DEFINE d == Pow2(D)
           l == BitLength(Q - 1)
           m == Pow2(l - D)
<1>1. D \in Nat /\ D > 0 /\ Q \in Nat /\ Q > 2 /\ Q % d = 1
  BY Parameters
<1>2. D - 1 \in Nat /\ D - 1 + 1 = D
  BY <1>1
<1>3. Pow2(D - 1) \in Nat /\ Pow2(D - 1) > 0 /\ d = 2 * Pow2(D - 1)
  <2>1. Pow2((D - 1) + 1) = 2 * Pow2(D - 1)
    BY <1>2, PowerOfTwo
  <2> QED BY <1>2, <2>1, PowerType
<1>4. l \in Nat /\ Q - 1 \in Nat /\ Q - 1 < Pow2(l) /\ Pow2(l) \in Nat
  <2>1. Q - 1 \in Nat
    BY <1>1
  <2> QED BY <2>1, BitLengthBound, PowerType
<1> HIDE DEF l
<1>5. d <= Q - 1
  <2> HIDE DEF d
  <2> DEFINE a == Q \div d
  <2>1. a \in Nat /\ Q = a * d + 1 /\ d \in Nat
    BY <1>1, <1>3, Division
  <2>2. a >= 1
    BY <1>1, <2>1
  <2> HIDE DEF a
  <2>3. 1 * d <= a * d
    BY <2>1, <2>2, TimesMonotone
  <2> QED BY <2>1, <2>3
<1>6. D <= l
  <2> SUFFICES ASSUME l <= D PROVE l = D
    BY <1>1, <1>4
  <2>1. Pow2(l) <= d
    BY <1>1, <1>4, PowerMonotone
  <2> QED BY <1>3, <1>4, <1>5, <2>1
<1>7. m \in Nat /\ m > 0 /\ Pow2(l) = m * d
  <2>1. l - D \in Nat /\ l - D + D = l
    BY <1>1, <1>4, <1>6
  <2> QED BY <1>1, <2>1, PowerSum, PowerType
<1>8. ASSUME NEW q \in Nat, q * d <= Q - 1 PROVE q <= m - 1
  <2> HIDE DEF m, d
  <2> SUFFICES ASSUME m <= q PROVE FALSE
    BY <1>7
  <2>1. d \in Nat
    BY <1>3
  <2>2. m * d <= q * d
    BY <1>7, <2>1, TimesMonotone
  <2> QED BY <1>4, <1>7, <1>8, <2>1, <2>2
<1>9. T1Bound = m - 1
  BY DEF T1Bound, l
<1>10. T0Low = Pow2(D - 1) - 1 /\ T0High = Pow2(D - 1)
  BY DEF T0Low, T0High
<1>11. W1Bound \in Nat /\ W1Bound >= 1
  <2> DEFINE q == (Q - 1) \div (2 * Gam2)
  <2>1. q >= 2 /\ q \in Int
    BY Parameters
  <2> HIDE DEF q
  <2>2. W1Bound = q - 1
    BY DEF W1Bound, q
  <2> QED BY <2>1, <2>2
<1> HIDE DEF m
<1> QED BY <1>3, <1>7, <1>8, <1>9, <1>10, <1>11

\* pk_decode gives back what pk_encode packed.
LEMMA PkEncoding ==
  ASSUME NEW rho, NEW t1 \in Vector(K, 0 .. T1Bound)
  PROVE  /\ PkEncode(rho, t1).rho = rho
         /\ PkEncode(rho, t1).t1 \in Bytes(K * PolySize(T1Bound))
         /\ PkDecode(PkEncode(rho, t1)) = t1
<1>1. K \in Nat /\ T1Bound \in Nat /\ t1 \in Vector(K, Int)
  BY Parameters, Bounds DEF Vector
<1>2. PkEncode(rho, t1) = [rho |-> rho, t1 |-> SimpleString(t1, T1Bound)]
  BY DEF PkEncode, Concat, SimpleString
<1>3. SimpleString(t1, T1Bound) \in [1 .. K * PolySize(T1Bound) -> Byte]
  BY <1>1, SimpleVectorType
<1>4. ASSUME NEW i \in Row
      PROVE  SimpleBitUnpack(Slice(SimpleString(t1, T1Bound), 0, i, PolySize(T1Bound)), T1Bound) = t1[i]
  <2>1. i \in 0 .. K - 1
    BY DEF Row
  <2> QED BY <1>1, <2>1, SimpleVector
<1>5. PkDecode(PkEncode(rho, t1)) = [i \in Row |-> t1[i]]
  BY <1>2, <1>4 DEF PkDecode, Cut, Slice
<1>6. t1 = [i \in Row |-> t1[i]]
  BY DEF Vector, Row
<1> QED BY <1>2, <1>3, <1>5, <1>6 DEF Bytes

W1Decode(s) == [i \in Row |-> SimpleBitUnpack(Slice(s, 0, i, PolySize(W1Bound)), W1Bound)]

\* w1_encode tells its vectors apart: they could be unpacked.
LEMMA W1Encoding ==
  ASSUME NEW w1 \in Vector(K, 0 .. W1Bound)
  PROVE  W1Decode(W1Encode(w1)) = w1
<1>1. K \in Nat /\ W1Bound \in Nat
  BY Parameters, Bounds
<1>2. W1Encode(w1) = SimpleString(w1, W1Bound)
  BY DEF W1Encode, Concat, SimpleString
<1>3. ASSUME NEW i \in Row
      PROVE  SimpleBitUnpack(Slice(SimpleString(w1, W1Bound), 0, i, PolySize(W1Bound)), W1Bound) = w1[i]
  <2>1. i \in 0 .. K - 1
    BY DEF Row
  <2> QED BY <1>1, <2>1, SimpleVector
<1>4. w1 = [i \in Row |-> w1[i]]
  BY DEF Vector, Row
<1> QED BY <1>2, <1>3, <1>4 DEF W1Decode

\* sk_decode gives back what sk_encode packed.
LEMMA SkEncoding ==
  ASSUME NEW rho, NEW tr, NEW s1 \in Vector(Ell, -Eta .. Eta), NEW s2 \in Vector(K, -Eta .. Eta),
         NEW t0 \in Vector(K, -T0Low .. T0High)
  PROVE  LET sk1 == SkEncode(rho, tr, s1, s2, t0)
         IN  /\ sk1.rho = rho /\ sk1.tr = tr
             /\ sk1.polys \in Bytes((Ell + K) * PolySize(2 * Eta) + K * PolySize(Pow2(D) - 1))
             /\ SkDecode(sk1) = [s1 |-> s1, s2 |-> s2, t0 |-> t0]
<1> DEFINE le == PolySize(2 * Eta)
           ld == PolySize(T0Low + T0High)
           u == SignedString(s1, Eta, Eta)
           v == SignedString(s2, Eta, Eta)
           w == SignedString(t0, T0Low, T0High)
           s == u \o v \o w
           a == Ell * le
           b == K * le
           c == K * ld
<1>1. /\ K \in Nat /\ Ell \in Nat /\ Eta \in Nat /\ T0Low \in Nat /\ T0High \in Nat /\ Eta + Eta = 2 * Eta
      /\ T0Low + T0High \in Nat /\ 2 * Eta \in Nat /\ T0Low + T0High = Pow2(D) - 1
  BY Parameters, Bounds
<1>2. le \in Nat /\ ld \in Nat
  BY <1>1, PolySizeIs
<1>3. s1 \in Vector(Ell, Int) /\ s2 \in Vector(K, Int) /\ t0 \in Vector(K, Int)
  BY <1>1 DEF Vector
<1>4. u \in [1 .. a -> Byte] /\ v \in [1 .. b -> Byte] /\ w \in [1 .. c -> Byte]
  <2>1. u \in [1 .. Ell * PolySize(Eta + Eta) -> Byte] /\ v \in [1 .. K * PolySize(Eta + Eta) -> Byte]
    BY <1>1, <1>3, SignedVectorType
  <2>2. w \in [1 .. c -> Byte]
    BY <1>1, <1>3, SignedVectorType
  <2> QED BY <1>1, <2>1, <2>2
<1>5. SkEncode(rho, tr, s1, s2, t0) = [rho |-> rho, tr |-> tr, polys |-> s]
  BY DEF SkEncode, Concat, SignedString
<1> HIDE DEF u, v, w
<1>6. a \in Nat /\ b \in Nat /\ c \in Nat /\ a + b = (Ell + K) * le
  BY <1>1, <1>2, SMTT(30)
<1>7. s \in [1 .. a + b + c -> Byte] /\ Within(s, Byte, a + b + c, 0, u, a)
      /\ Within(s, Byte, a + b + c, a, v, b) /\ Within(s, Byte, a + b + c, a + b, w, c)
  <2> HIDE DEF a, b, c
  <2> QED BY <1>4, <1>6, WithinParts
<1> HIDE DEF s
<1> DEFINE len == a + b + c
<1>8. len \in Nat /\ a + b \in Nat /\ 0 \in Nat
  BY <1>6
<1>9. ASSUME NEW i \in Col PROVE BitUnpack(Slice(s, 0, i, le), Eta, Eta) = s1[i]
  <2>1. i \in 0 .. Ell - 1
    BY DEF Col
  <2>2. a = Ell * PolySize(Eta + Eta) /\ le = PolySize(Eta + Eta)
    BY <1>1
  <2> HIDE DEF len, a, b, c, le
  <2>3. Within(s, Byte, len, 0, u, a)
    BY <1>7 DEF len
  <2>4. VectorCut(s, 0, s1, Eta, Eta, Ell)
    BY <1>1, <1>6, <1>8, <2>2, <2>3, SignedVector DEF u
  <2> QED BY <2>1, <2>2, <2>4 DEF VectorCut
<1>10. ASSUME NEW i \in Row PROVE BitUnpack(Slice(s, a, i, le), Eta, Eta) = s2[i]
  <2>1. i \in 0 .. K - 1
    BY DEF Row
  <2>2. b = K * PolySize(Eta + Eta) /\ le = PolySize(Eta + Eta)
    BY <1>1
  <2> HIDE DEF len, a, b, c, le
  <2>3. Within(s, Byte, len, a, v, b)
    BY <1>7 DEF len
  <2>4. VectorCut(s, a, s2, Eta, Eta, K)
    BY <1>1, <1>6, <1>8, <2>2, <2>3, SignedVector DEF v
  <2> QED BY <2>1, <2>2, <2>4 DEF VectorCut
<1>11. ASSUME NEW i \in Row PROVE BitUnpack(Slice(s, a + b, i, ld), T0Low, T0High) = t0[i]
  <2>1. i \in 0 .. K - 1
    BY DEF Row
  <2>2. c = K * PolySize(T0Low + T0High) /\ ld = PolySize(T0Low + T0High)
    OBVIOUS
  <2> DEFINE e == a + b
  <2> HIDE DEF len, a, b, c, ld
  <2>3. Within(s, Byte, len, e, w, c) /\ e \in Nat
    BY <1>7, <1>8 DEF len
  <2> HIDE DEF e
  <2>4. BitUnpack(Slice(s, e, i, ld), T0Low, T0High) = t0[i]
    <3>1. VectorCut(s, e, t0, T0Low, T0High, K)
      BY <1>1, <1>6, <1>8, <2>2, <2>3, SignedVector DEF w
    <3> QED BY <2>1, <2>2, <3>1 DEF VectorCut
  <2> QED BY <2>4 DEF e
<1>12. s1 = [i \in Col |-> s1[i]] /\ s2 = [i \in Row |-> s2[i]] /\ t0 = [i \in Row |-> t0[i]]
  BY DEF Vector, Row, Col
<1>13. SkDecode([rho |-> rho, tr |-> tr, polys |-> s]) =
         [s1 |-> [i \in Col |-> BitUnpack(Slice(s, 0, i, le), Eta, Eta)],
          s2 |-> [i \in Row |-> BitUnpack(Slice(s, a, i, le), Eta, Eta)],
          t0 |-> [i \in Row |-> BitUnpack(Slice(s, (Ell + K) * le, i, ld), T0Low, T0High)]]
  BY DEF SkDecode, Cut, Slice
<1>14. SkDecode([rho |-> rho, tr |-> tr, polys |-> s]) = [s1 |-> s1, s2 |-> s2, t0 |-> t0]
  <2>1. (Ell + K) * le = a + b
    BY <1>6
  <2> HIDE DEF a, b, c, le, ld, len
  <2> QED BY <1>9, <1>10, <1>11, <1>12, <1>13, <2>1
<1>15. s \in Bytes((Ell + K) * le + K * PolySize(Pow2(D) - 1))
  <2>1. len = (Ell + K) * le + K * PolySize(Pow2(D) - 1)
    BY <1>1, <1>6
  <2> QED BY <1>7, <2>1 DEF Bytes
<1> QED BY <1>5, <1>14, <1>15

\* sig_decode gives back the response that sig_encode packed.
LEMMA ZEncoding ==
  ASSUME NEW ct, NEW h, NEW z \in Vector(Ell, -(Gam1 - 1) .. Gam1)
  PROVE  LET s == SigEncode(ct, z, h)
         IN  /\ s.ct = ct /\ s.h = HintBitPack(h)
             /\ s.z \in Bytes(Ell * PolySize(2 * Gam1 - 1)) /\ SigDecodeZ(s) = z
<1> DEFINE g == Gam1 - 1
           u == SignedString(z, g, Gam1)
           le == PolySize(2 * Gam1 - 1)
<1>1. Ell \in Nat /\ g \in Nat /\ Gam1 \in Nat /\ g + Gam1 = 2 * Gam1 - 1 /\ z \in Vector(Ell, -g .. Gam1)
      /\ g + Gam1 \in Nat
  BY Parameters
<1>2. z \in Vector(Ell, Int) /\ le \in Nat
  <2>1. le \in Nat
    <3>1. 2 * Gam1 - 1 \in Nat
      BY <1>1
    <3> QED BY <3>1, PolySizeIs
  <2> QED BY <1>1, <2>1 DEF Vector
<1>3. SigEncode(ct, z, h) = [ct |-> ct, z |-> u, h |-> HintBitPack(h)]
  BY DEF SigEncode, Concat, SignedString
<1>4. PICK d \in Nat : d = Ell * le
  BY <1>1, <1>2
<1>5. u \in [1 .. d -> Byte] /\ le = PolySize(g + Gam1)
  <2>1. le = PolySize(g + Gam1)
    BY <1>1
  <2> HIDE DEF le, g
  <2>2. u \in [1 .. Ell * PolySize(g + Gam1) -> Byte]
    BY <1>1, <1>2, SignedVectorType
  <2> QED BY <1>4, <2>1, <2>2
<1> HIDE DEF g
<1>6. Within(u, Byte, d, 0, u, d)
  BY <1>5, WithinWhole
<1>7. ASSUME NEW i \in Col PROVE BitUnpack(Slice(u, 0, i, le), g, Gam1) = z[i]
  <2>1. i \in 0 .. Ell - 1 /\ 0 \in Nat /\ d = Ell * PolySize(g + Gam1)
    BY <1>4, <1>5 DEF Col
  <2> HIDE DEF le
  <2>2. VectorCut(u, 0, z, g, Gam1, Ell)
    BY <1>1, <1>5, <1>6, <2>1, SignedVector
  <2> QED BY <1>5, <2>1, <2>2 DEF VectorCut
<1>8. z = [i \in Col |-> z[i]]
  BY DEF Vector, Col
<1>9. SigDecodeZ([ct |-> ct, z |-> u, h |-> HintBitPack(h)]) =
        [i \in Col |-> BitUnpack(Slice(u, 0, i, le), g, Gam1)]
  BY DEF SigDecodeZ, Cut, Slice, g
<1>10. u \in Bytes(Ell * le)
  BY <1>4, <1>5 DEF Bytes
<1> HIDE DEF u
<1>11. SigDecodeZ([ct |-> ct, z |-> u, h |-> HintBitPack(h)]) = z
  BY <1>7, <1>8, <1>9
<1> QED BY <1>3, <1>10, <1>11

-----------------------------------------------------------------------------
(* What is taken.                                                           *)
\* The elements taken so far.
TakenRun(s, n, V, t) ==
  /\ t \in [0 .. n -> Seq(V)] /\ t[0] = <<>> /\ Taken(s) = t[n]
  /\ \A k \in 1 .. n : t[k] = IF s[k] = None THEN t[k - 1] ELSE Append(t[k - 1], s[k])

\* Elements are taken one place after the other.
LEMMA TakenSteps ==
  ASSUME NEW n \in Nat, NEW V, NEW s \in [1 .. n -> V \cup {None}]
  PROVE  \E t : TakenRun(s, n, V, t)
<1> DEFINE step == [p \in Seq(V) \X (1 .. n) |-> IF s[p[2]] = None THEN p[1] ELSE Append(p[1], s[p[2]])]
           Iter(f) == f = [u \in SUBSET (1 .. n) |->
                             IF u = {} THEN <<>>
                             ELSE IF s[Max(u)] = None THEN f[u \ {Max(u)}] ELSE Append(f[u \ {Max(u)}], s[Max(u)])]
<1>1. DOMAIN s = 1 .. n
  OBVIOUS
<1>2. step \in [Seq(V) \X (1 .. n) -> Seq(V)]
  <2>1. ASSUME NEW p \in Seq(V) \X (1 .. n)
        PROVE  (IF s[p[2]] = None THEN p[1] ELSE Append(p[1], s[p[2]])) \in Seq(V)
    <3>1. p[1] \in Seq(V) /\ p[2] \in 1 .. n
      OBVIOUS
    <3>2. s[p[2]] \in V \cup {None}
      BY <3>1
    <3> QED BY <3>1, <3>2
  <2> QED BY <2>1
<1>3. \A v \in Seq(V), i \in 1 .. n : step[<<v, i>>] = IF s[i] = None THEN v ELSE Append(v, s[i])
  OBVIOUS
<1>4. <<>> \in Seq(V)
  OBVIOUS
<1> HIDE DEF step
<1>5. PICK f : FoldRun(n, Seq(V), <<>>, step, f)
  BY <1>2, <1>4, FoldRunExists
<1>6. \A u \in SUBSET (1 .. n) : u # {} => Max(u) \in 1 .. n /\ u \ {Max(u)} \in SUBSET (1 .. n)
  BY FoldTakes
<1>7. Iter(f)
  <2>1. /\ f \in [SUBSET (1 .. n) -> Seq(V)]
        /\ \A u \in SUBSET (1 .. n) : f[u] = IF u = {} THEN <<>> ELSE step[<<f[u \ {Max(u)}], Max(u)>>]
    BY <1>5 DEF FoldRun
  <2>2. ASSUME NEW u \in SUBSET (1 .. n), u # {}
        PROVE  f[u] = IF s[Max(u)] = None THEN f[u \ {Max(u)}] ELSE Append(f[u \ {Max(u)}], s[Max(u)])
    <3>1. Max(u) \in 1 .. n /\ f[u \ {Max(u)}] \in Seq(V)
      BY <1>6, <2>1, <2>2
    <3>2. f[u] = step[<<f[u \ {Max(u)}], Max(u)>>]
      BY <2>1, <2>2
    <3> QED BY <1>3, <3>1, <3>2
  <2>3. \A u \in SUBSET (1 .. n) :
          f[u] = IF u = {} THEN <<>>
                 ELSE IF s[Max(u)] = None THEN f[u \ {Max(u)}] ELSE Append(f[u \ {Max(u)}], s[Max(u)])
    BY <2>1, <2>2
  <2>4. f = [u \in SUBSET (1 .. n) |-> f[u]]
    BY <2>1
  <2> QED BY <2>3, <2>4
<1> DEFINE g == CHOOSE f_1 : Iter(f_1)
<1>8. Iter(g)
  BY <1>7
<1>9. Taken(s) = g[1 .. n]
  BY <1>1 DEF Taken, FoldLeft, MapThenFoldSet
<1> HIDE DEF g
<1>10. FoldsBy(n, Seq(V), <<>>, step, g)
  BY <1>3, <1>6, <1>8 DEF FoldsBy
<1>11. PICK t : Chain(n, Seq(V), <<>>, step, t, g[1 .. n])
  BY <1>2, <1>4, <1>10, FoldChain
<1>12. t \in [0 .. n -> Seq(V)] /\ t[0] = <<>> /\ t[n] = g[1 .. n]
  BY <1>11 DEF Chain
<1>13. ASSUME NEW k \in 1 .. n
       PROVE  t[k] = IF s[k] = None THEN t[k - 1] ELSE Append(t[k - 1], s[k])
  <2>1. t[k - 1] \in Seq(V)
    BY <1>12
  <2>2. t[k] = step[<<t[k - 1], k>>]
    BY <1>11 DEF Chain
  <2> QED BY <1>3, <2>1, <2>2
<1> QED BY <1>9, <1>12, <1>13 DEF TakenRun

\* What is taken is of the elements.
LEMMA TakenType ==
  ASSUME NEW n \in Nat, NEW V, NEW s \in [1 .. n -> V \cup {None}]
  PROVE  Taken(s) \in Seq(V)
<1>1. PICK t : TakenRun(s, n, V, t)
  BY TakenSteps
<1> QED BY <1>1 DEF TakenRun

\* A sequence that rises.
Rising(w) == \A p, q \in 1 .. Len(w) : p < q => w[p] < w[q]

\* The places of the ones, in order.
Places(w, j) == [k \in 1 .. j |-> IF w[k - 1] # 0 THEN k - 1 ELSE None]
PlacesTaken(t, w) ==
  /\ t \in Seq(Nat) /\ Rising(t)
  /\ \A p \in 1 .. Len(t) : t[p] \in Coeff /\ w[t[p]] # 0
  /\ \A j \in Coeff : w[j] # 0 => \E p \in 1 .. Len(t) : t[p] = j

\* The places of the ones, in rising order.
LEMMA OnesTaken ==
  ASSUME NEW w
  PROVE  PlacesTaken(Taken(Places(w, N)), w)
<1> DEFINE s == Places(w, N)
<1>1. N \in Nat /\ None \notin Int
  BY ByteSize, NoneAssumption
<1>2. s \in [1 .. N -> Nat \cup {None}]
  BY <1>1 DEF Places
<1>3. \A k \in 1 .. N : s[k] = IF w[k - 1] # 0 THEN k - 1 ELSE None
  BY DEF Places
<1> HIDE DEF s
<1>4. PICK t : TakenRun(s, N, Nat, t)
  BY <1>1, <1>2, TakenSteps
<1>5. /\ t \in [0 .. N -> Seq(Nat)] /\ t[0] = <<>> /\ Taken(s) = t[N]
      /\ \A k \in 1 .. N : t[k] = IF s[k] = None THEN t[k - 1] ELSE Append(t[k - 1], s[k])
  BY <1>4 DEF TakenRun
<1> DEFINE Upto(x, k) == /\ x \in Seq(Nat) /\ Rising(x)
                         /\ \A p \in 1 .. Len(x) : x[p] \in 0 .. k - 1 /\ w[x[p]] # 0
                         /\ \A j \in 0 .. k - 1 : w[j] # 0 => \E p \in 1 .. Len(x) : x[p] = j
           S == {k \in Nat : k <= N => Upto(t[k], k)}
<1>6. 0 \in S
  BY <1>5 DEF Rising
<1>7. ASSUME NEW k \in Nat, k \in S PROVE k + 1 \in S
  <2> SUFFICES ASSUME k + 1 <= N PROVE Upto(t[k + 1], k + 1)
    OBVIOUS
  <2> DEFINE x == t[k]
             y == t[k + 1]
  <2>1. Upto(x, k)
    BY <1>1, <1>7
  <2>2. k + 1 \in 1 .. N /\ (k + 1) - 1 = k
    BY <1>1
  <2>3. y = IF w[k] # 0 THEN Append(x, k) ELSE x
    <3>1. t[k + 1] = IF s[k + 1] = None THEN t[(k + 1) - 1] ELSE Append(t[(k + 1) - 1], s[k + 1])
      BY <1>5, <2>2
    <3>2. s[k + 1] = IF w[k] # 0 THEN k ELSE None
      BY <1>3, <2>2
    <3> QED BY <1>1, <2>2, <3>1, <3>2
  <2> HIDE DEF x, y
  <2>4. CASE w[k] = 0
    <3>1. y = x
      BY <2>3, <2>4
    <3>2. \A j \in 0 .. k : j = k \/ j \in 0 .. k - 1
      OBVIOUS
    <3> QED BY <2>1, <2>4, <3>1, <3>2 DEF y
  <2>5. CASE w[k] # 0
    <3>1. /\ y \in Seq(Nat) /\ Len(y) = Len(x) + 1 /\ y[Len(x) + 1] = k
          /\ \A p \in 1 .. Len(x) : y[p] = x[p]
      BY <2>1, <2>3, <2>5
    <3>2. Len(x) \in Nat /\ \A p \in 1 .. Len(y) : p = Len(x) + 1 \/ p \in 1 .. Len(x)
      BY <2>1, <3>1
    <3>3. Rising(y)
      <4> SUFFICES ASSUME NEW p \in 1 .. Len(y), NEW q \in 1 .. Len(y), p < q PROVE y[p] < y[q]
        BY DEF Rising
      <4>1. p \in 1 .. Len(x)
        BY <3>1, <3>2
      <4>2. y[p] = x[p] /\ x[p] < k
        BY <2>1, <3>1, <4>1, SMTT(30)
      <4>3. q \in 1 .. Len(x) => x[p] < x[q]
        BY <2>1, <4>1 DEF Rising
      <4> QED BY <3>1, <3>2, <4>2, <4>3
    <3>4. \A p \in 1 .. Len(y) : y[p] \in 0 .. k /\ w[y[p]] # 0
      BY <2>1, <2>5, <3>1, <3>2, SMTT(30)
    <3>5. ASSUME NEW j \in 0 .. k, w[j] # 0 PROVE \E p \in 1 .. Len(y) : y[p] = j
      <4>1. CASE j = k
        BY <3>1, <3>2, <4>1
      <4>2. CASE j # k
        <5>1. PICK p \in 1 .. Len(x) : x[p] = j
          BY <2>1, <3>5, <4>2
        <5> QED BY <3>1, <3>2, <5>1
      <4> QED BY <4>1, <4>2
    <3> QED BY <3>1, <3>3, <3>4, <3>5 DEF y
  <2> QED BY <2>4, <2>5
<1> HIDE DEF S
<1>8. N \in S
  BY <1>1, <1>6, <1>7, SetInduction
<1>9. Upto(t[N], N)
  BY <1>1, <1>8 DEF S
<1>10. Coeff = 0 .. N - 1
  BY DEF Coeff
<1> QED BY <1>5, <1>9, <1>10 DEF PlacesTaken, s

-----------------------------------------------------------------------------
(* The hint.                                                                *)
HintOnes(h, i) == Taken(Places(h[i], N))
HintUpto(h, i) == FlattenSeq([r \in 1 .. i |-> HintOnes(h, r - 1)])
HintEnd(h, i) == Len(HintUpto(h, i))

\* One row more.
LEMMA HintRow ==
  ASSUME NEW h, NEW i \in Nat
  PROVE  /\ HintUpto(h, 0) = <<>> /\ HintEnd(h, 0) = 0
         /\ HintUpto(h, i) \in Seq(Nat) => HintUpto(h, i + 1) = HintUpto(h, i) \o HintOnes(h, i)
<1> DEFINE seqs == [r \in 1 .. i + 1 |-> HintOnes(h, r - 1)]
<1>1. \A j : HintOnes(h, j) \in Seq(Nat)
  BY OnesTaken DEF PlacesTaken, HintOnes
<1>2. seqs \in [1 .. i + 1 -> Seq(Nat)]
  BY <1>1
<1>3. /\ FlattenSeq(<<>>) = <<>>
      /\ i = 0 => FlattenSeq(seqs) = seqs[i + 1]
      /\ i > 0 => FlattenSeq(seqs) = FlattenSeq([r \in 1 .. i |-> seqs[r]]) \o seqs[i + 1]
  <2> HIDE DEF seqs
  <2> QED BY <1>2, FlattenStep
<1>4. HintUpto(h, 0) = <<>>
  <2>1. [r \in 1 .. 0 |-> HintOnes(h, r - 1)] = <<>>
    OBVIOUS
  <2> QED BY <1>3, <2>1 DEF HintUpto
<1>5. seqs[i + 1] = HintOnes(h, i) /\ \A r \in 1 .. i : seqs[r] = HintOnes(h, r - 1)
  <2>1. i + 1 \in 1 .. i + 1 /\ i + 1 - 1 = i
    OBVIOUS
  <2> QED BY <2>1
<1>6. [r \in 1 .. i |-> seqs[r]] = [r \in 1 .. i |-> HintOnes(h, r - 1)]
  BY <1>5
<1>7. HintUpto(h, i + 1) = FlattenSeq(seqs)
  BY DEF HintUpto
<1> HIDE DEF seqs
<1>8. CASE i = 0
  <2>1. HintUpto(h, i + 1) = HintOnes(h, i)
    BY <1>3, <1>5, <1>7, <1>8
  <2>2. HintOnes(h, i) \in Seq(Nat)
    BY <1>1
  <2> QED BY <1>4, <1>8, <2>1, <2>2, SMTT(30) DEF HintEnd
<1>9. CASE i > 0
  BY <1>3, <1>4, <1>5, <1>6, <1>7, <1>9 DEF HintUpto, HintEnd
<1> QED BY <1>8, <1>9

\* The rows lie one behind the other.
HintRows(x, h, m) ==
  /\ x \in Seq(Nat)
  /\ \A i \in 0 .. m : HintUpto(h, i) \in Seq(Nat) /\ HintEnd(h, i) \in Nat /\ HintEnd(h, i) <= Len(x)
  /\ \A i \in 0 .. m - 1 : /\ HintEnd(h, i + 1) = HintEnd(h, i) + Len(HintOnes(h, i))
                           /\ \A p \in 1 .. Len(HintOnes(h, i)) : x[HintEnd(h, i) + p] = HintOnes(h, i)[p]
  /\ \A q \in 1 .. HintEnd(h, m) : \E i \in 0 .. m - 1 : q \in HintEnd(h, i) + 1 .. HintEnd(h, i + 1)

\* Those of the rows up to n, and where each row ends (hint_bit_pack).
LEMMA HintPlaces ==
  ASSUME NEW h, NEW n \in Nat
  PROVE  HintRows(HintUpto(h, n), h, n)
<1> DEFINE S == {m \in Nat : HintRows(HintUpto(h, m), h, m)}
<1>1. 0 \in S
  <2>1. HintUpto(h, 0) = <<>> /\ HintEnd(h, 0) = 0
    BY HintRow
  <2>2. <<>> \in Seq(Nat)
    OBVIOUS
  <2>3. HintUpto(h, 0) \in Seq(Nat) /\ HintEnd(h, 0) \in Nat /\ HintEnd(h, 0) <= Len(HintUpto(h, 0))
    <3> DEFINE x == HintUpto(h, 0)
               e == HintEnd(h, 0)
    <3>1. e = Len(x)
      BY DEF HintEnd
    <3>2. x = <<>> /\ e = 0
      BY <2>1
    <3> HIDE DEF x, e
    <3>3. x \in Seq(Nat)
      BY <2>2, <3>2
    <3>4. e \in Nat /\ e <= Len(x)
      <4>1. e = 0
        BY <3>2
      <4> QED BY <3>1, <4>1
    <3> QED BY <3>3, <3>4 DEF x, e
  <2>4. HintRows(HintUpto(h, 0), h, 0)
    <3>1. (\A i \in 0 .. 0 : i = 0) /\ (\A i \in 0 .. 0 - 1 : FALSE) /\ (\A i \in 1 .. 0 : FALSE)
      OBVIOUS
    <3> QED BY <2>1, <2>3, <3>1 DEF HintRows
  <2> QED BY <2>4
<1>2. ASSUME NEW m \in Nat, m \in S PROVE m + 1 \in S
  <2> DEFINE x == HintUpto(h, m)
             y == HintUpto(h, m + 1)
             w == HintOnes(h, m)
             e == HintEnd(h, m)
  <2>1. HintRows(x, h, m)
    BY <1>2
  <2>2. w \in Seq(Nat)
    BY OnesTaken DEF PlacesTaken, HintOnes
  <2>3. x \in Seq(Nat) /\ e = Len(x) /\ HintEnd(h, m + 1) = Len(y)
    BY <2>1 DEF HintRows, HintEnd
  <2>4. y = x \o w
    BY <2>3, HintRow
  <2> HIDE DEF x, y, w, e
  <2>5. /\ y \in Seq(Nat) /\ Len(y) = e + Len(w) /\ e \in Nat /\ Len(w) \in Nat
        /\ \A p \in 1 .. e : y[p] = x[p]
        /\ \A p \in 1 .. Len(w) : y[e + p] = w[p]
    BY <2>2, <2>3, <2>4
  <2>6. ASSUME NEW i \in 0 .. m + 1
        PROVE  HintUpto(h, i) \in Seq(Nat) /\ HintEnd(h, i) \in Nat /\ HintEnd(h, i) <= Len(y)
    <3>1. CASE i = m + 1
      BY <2>3, <2>5, <3>1 DEF y
    <3>2. CASE i \in 0 .. m
      BY <2>1, <2>3, <2>5, <3>2 DEF HintRows
    <3> QED BY <3>1, <3>2
  <2>7. ASSUME NEW i \in 0 .. m
        PROVE  /\ HintEnd(h, i + 1) = HintEnd(h, i) + Len(HintOnes(h, i))
               /\ \A p \in 1 .. Len(HintOnes(h, i)) : y[HintEnd(h, i) + p] = HintOnes(h, i)[p]
    <3>1. CASE i = m
      BY <2>3, <2>5, <3>1 DEF w, e
    <3>2. CASE i # m
      <4>1. i \in 0 .. m - 1 /\ i \in 0 .. m /\ i + 1 \in 0 .. m
        BY <3>2
      <4>2. /\ HintEnd(h, i + 1) = HintEnd(h, i) + Len(HintOnes(h, i))
            /\ \A p \in 1 .. Len(HintOnes(h, i)) : x[HintEnd(h, i) + p] = HintOnes(h, i)[p]
            /\ HintEnd(h, i) \in Nat /\ HintEnd(h, i + 1) <= e
        BY <2>1, <2>3, <4>1 DEF HintRows
      <4>5. Len(HintOnes(h, i)) \in Nat
        BY OnesTaken DEF PlacesTaken, HintOnes
      <4>3. \A p \in 1 .. Len(HintOnes(h, i)) : HintEnd(h, i) + p \in 1 .. e
        BY <2>5, <4>2, <4>5, SMTT(30)
      <4> QED BY <2>5, <4>2, <4>3
    <3> QED BY <3>1, <3>2
  <2>8. ASSUME NEW q \in 1 .. HintEnd(h, m + 1)
        PROVE  \E i \in 0 .. m : q \in HintEnd(h, i) + 1 .. HintEnd(h, i + 1)
    <3>1. CASE q <= e
      <4>1. \A r \in 1 .. e : \E i \in 0 .. m - 1 : r \in HintEnd(h, i) + 1 .. HintEnd(h, i + 1)
        BY <2>1 DEF HintRows, e
      <4>2. q \in 1 .. e
        BY <2>3, <2>5, <3>1
      <4>3. PICK i \in 0 .. m - 1 : q \in HintEnd(h, i) + 1 .. HintEnd(h, i + 1)
        BY <4>1, <4>2
      <4> QED BY <4>3
    <3>2. CASE q > e
      <4>1. q \in HintEnd(h, m) + 1 .. HintEnd(h, m + 1)
        BY <2>3, <2>5, <3>2 DEF e
      <4> QED BY <4>1
    <3> QED BY <2>3, <2>5, <3>1, <3>2
  <2>9. 0 .. (m + 1) - 1 = 0 .. m
    OBVIOUS
  <2>10. HintRows(y, h, m + 1)
    <3>1. /\ y \in Seq(Nat)
          /\ \A i \in 0 .. m + 1 : HintUpto(h, i) \in Seq(Nat) /\ HintEnd(h, i) \in Nat /\ HintEnd(h, i) <= Len(y)
      BY <2>5, <2>6
    <3>2. \A i \in 0 .. (m + 1) - 1 :
            /\ HintEnd(h, i + 1) = HintEnd(h, i) + Len(HintOnes(h, i))
            /\ \A p \in 1 .. Len(HintOnes(h, i)) : y[HintEnd(h, i) + p] = HintOnes(h, i)[p]
      BY <2>7, <2>9
    <3>3. \A q \in 1 .. HintEnd(h, m + 1) :
            \E i \in 0 .. (m + 1) - 1 : q \in HintEnd(h, i) + 1 .. HintEnd(h, i + 1)
      BY <2>8, <2>9
    <3> QED BY <3>1, <3>2, <3>3 DEF HintRows
  <2> QED BY <2>10 DEF y
<1> HIDE DEF S
<1>3. n \in S
  BY <1>1, <1>2, SetInduction
<1> QED BY <1>3 DEF S

\* hint_bit_pack has room for the ones that make_hint let pass.
LEMMA HintFits ==
  ASSUME NEW h
  PROVE  HintEnd(h, K) <= Weight(h) /\ HintEnd(h, K) \in Nat /\ Weight(h) \in Nat
<1> DEFINE x == HintUpto(h, K)
           e == HintEnd(h, K)
           T == {p \in Row \X Coeff : h[p[1]][p[2]] # 0}
           row(q) == CHOOSE i \in Row : q \in HintEnd(h, i) + 1 .. HintEnd(h, i + 1)
           f == [q \in 1 .. e |-> <<row(q), x[q]>>]
<1>1. K \in Nat /\ N \in Nat /\ Row = 0 .. K - 1 /\ Coeff = 0 .. N - 1
  BY Parameters, ByteSize DEF Row, Coeff
<1>2. HintRows(x, h, K)
  BY <1>1, HintPlaces
<1>3. e \in Nat /\ \A i \in 0 .. K : HintEnd(h, i) \in Nat
  BY <1>1, <1>2 DEF HintRows
<1> HIDE DEF x
<1>4. IsFiniteSet(T)
  <2>1. IsFiniteSet(Row) /\ IsFiniteSet(Coeff)
    BY <1>1, FS_Interval
  <2>2. IsFiniteSet(Row \X Coeff)
    BY <2>1, FS_Product
  <2>3. T \in SUBSET (Row \X Coeff)
    OBVIOUS
  <2> HIDE DEF T
  <2> QED BY <2>2, <2>3, FS_Subset
<1>5. ASSUME NEW q \in 1 .. e
      PROVE  /\ row(q) \in Row /\ q \in HintEnd(h, row(q)) + 1 .. HintEnd(h, row(q) + 1)
             /\ HintEnd(h, row(q)) \in Nat
             /\ q - HintEnd(h, row(q)) \in 1 .. Len(HintOnes(h, row(q)))
             /\ x[q] = HintOnes(h, row(q))[q - HintEnd(h, row(q))]
  <2>1. \A r \in 1 .. e : \E i \in Row : r \in HintEnd(h, i) + 1 .. HintEnd(h, i + 1)
    BY <1>1, <1>2 DEF HintRows
  <2>2. row(q) \in Row /\ q \in HintEnd(h, row(q)) + 1 .. HintEnd(h, row(q) + 1)
    BY <2>1
  <2> DEFINE i == row(q)
  <2> HIDE DEF i
  <2>3. i \in Row /\ q \in HintEnd(h, i) + 1 .. HintEnd(h, i + 1)
    BY <2>2 DEF i
  <2>4. /\ HintEnd(h, i) \in Nat /\ HintEnd(h, i + 1) = HintEnd(h, i) + Len(HintOnes(h, i))
        /\ \A p \in 1 .. Len(HintOnes(h, i)) : x[HintEnd(h, i) + p] = HintOnes(h, i)[p]
    <3>1. i \in 0 .. K - 1 /\ i \in 0 .. K
      BY <1>1, <2>3
    <3> QED BY <1>2, <3>1 DEF HintRows
  <2>5. HintOnes(h, i) \in Seq(Nat)
    BY OnesTaken DEF PlacesTaken, HintOnes
  <2>6. Len(HintOnes(h, i)) \in Nat
    BY <2>5
  <2>7. q - HintEnd(h, i) \in 1 .. Len(HintOnes(h, i)) /\ HintEnd(h, i) + (q - HintEnd(h, i)) = q
    BY <2>3, <2>4, <2>6
  <2>8. x[q] = HintOnes(h, i)[q - HintEnd(h, i)]
    BY <2>4, <2>7
  <2> QED BY <2>3, <2>4, <2>7, <2>8 DEF i
<1> HIDE DEF row
<1>6. ASSUME NEW q \in 1 .. e PROVE f[q] \in T /\ f[q] = <<row(q), x[q]>>
  <2>1. x[q] \in Coeff /\ h[row(q)][x[q]] # 0
    BY <1>5, OnesTaken DEF PlacesTaken, HintOnes
  <2> QED BY <1>5, <2>1
<1> HIDE DEF T
<1>7. ASSUME NEW q \in 1 .. e, NEW r \in 1 .. e, f[q] = f[r] PROVE q = r
  <2> DEFINE i == row(q)
             a == q - HintEnd(h, i)
             b == r - HintEnd(h, i)
  <2>1. row(r) = i /\ x[q] = x[r]
    BY <1>6, <1>7
  <2> HIDE DEF f, i
  <2>2. /\ a \in 1 .. Len(HintOnes(h, i)) /\ b \in 1 .. Len(HintOnes(h, i)) /\ HintEnd(h, i) \in Nat
        /\ HintOnes(h, i)[a] = HintOnes(h, i)[b]
    BY <1>5, <2>1 DEF i
  <2>3. Rising(HintOnes(h, i)) /\ HintOnes(h, i) \in Seq(Nat)
    BY OnesTaken DEF PlacesTaken, HintOnes
  <2> HIDE DEF a, b
  <2>4. a = b
    BY <2>2, <2>3 DEF Rising
  <2> QED BY <2>2, <2>4 DEF a, b
<1>8. f \in Injection(1 .. e, T)
  <2>1. f \in [1 .. e -> T]
    BY <1>6
  <2> HIDE DEF f
  <2> QED BY <1>7, <2>1 DEF Injection, IsInjective
<1> HIDE DEF f
<1>9. Cardinality(1 .. e) <= Cardinality(T)
  BY <1>4, <1>8, FS_Injection
<1>10. Cardinality(1 .. e) = e
  <2> HIDE DEF e
  <2>1. Cardinality(1 .. e) = IF 1 > e THEN 0 ELSE e - 1 + 1
    BY <1>3, FS_Interval
  <2> QED BY <1>3, <2>1
<1>11. Cardinality(T) \in Nat
  BY <1>4, FS_CardinalityType
<1> QED BY <1>3, <1>9, <1>10, <1>11 DEF Weight, T

\* The bytes of a hint.
LEMMA HintBytes ==
  ASSUME NEW h, Weight(h) <= Omega
  PROVE  LET y == HintBitPack(h)
         IN  /\ y \in Bytes(Omega + K)
             /\ \A p \in 1 .. Omega : y[p] = IF p <= HintEnd(h, K) THEN HintUpto(h, K)[p] ELSE 0
             /\ \A i \in 1 .. K : y[Omega + i] = HintEnd(h, i)
<1> DEFINE x == HintUpto(h, K)
           e == HintEnd(h, K)
           u == [p \in 1 .. Omega |-> IF p <= e THEN x[p] ELSE 0]
           v == [i \in 1 .. K |-> HintEnd(h, i)]
<1>1. K \in Nat /\ K > 0 /\ N \in Nat /\ Omega \in Nat /\ Omega <= N - 1 /\ Byte = 0 .. N - 1 /\ Coeff = 0 .. N - 1
      /\ N > 0
  BY Parameters, ByteSize DEF Byte, Coeff
<1>2. HintRows(x, h, K) /\ e \in Nat /\ e <= Omega
  <2>1. e <= Weight(h) /\ e \in Nat
    BY HintFits
  <2>2. Weight(h) \in Int
    BY HintFits
  <2> HIDE DEF e
  <2>3. e <= Omega
    BY <1>1, <2>1, <2>2
  <2>4. HintRows(x, h, K)
    BY <1>1, HintPlaces
  <2> QED BY <2>1, <2>3, <2>4
<1>3. HintBitPack(h) = u \o v
  BY DEF HintBitPack, HintUpto, HintOnes, Places, HintEnd
<1> HIDE DEF x
<1>4. ASSUME NEW p \in 1 .. e PROVE x[p] \in Byte
  <2>1. PICK i \in 0 .. K - 1 : p \in HintEnd(h, i) + 1 .. HintEnd(h, i + 1)
    BY <1>2 DEF HintRows
  <2>2. /\ HintEnd(h, i) \in Nat /\ HintEnd(h, i + 1) = HintEnd(h, i) + Len(HintOnes(h, i))
        /\ \A q \in 1 .. Len(HintOnes(h, i)) : x[HintEnd(h, i) + q] = HintOnes(h, i)[q]
    <3>1. i \in 0 .. K
      BY <1>1
    <3> QED BY <1>2, <3>1 DEF HintRows
  <2>3. HintOnes(h, i) \in Seq(Nat) /\ \A q \in 1 .. Len(HintOnes(h, i)) : HintOnes(h, i)[q] \in Coeff
    BY OnesTaken DEF PlacesTaken, HintOnes
  <2>4. Len(HintOnes(h, i)) \in Nat
    BY <2>3
  <2> DEFINE q == p - HintEnd(h, i)
  <2>5. q \in 1 .. Len(HintOnes(h, i)) /\ HintEnd(h, i) + q = p
    BY <2>1, <2>2, <2>4
  <2> QED BY <1>1, <2>2, <2>3, <2>5
<1>5. u \in [1 .. Omega -> Byte]
  <2>1. \A p \in 1 .. Omega : (IF p <= e THEN x[p] ELSE 0) \in Byte
    BY <1>1, <1>2, <1>4
  <2> QED BY <2>1
<1>6. v \in [1 .. K -> Byte]
  <2>1. ASSUME NEW i \in 1 .. K PROVE HintEnd(h, i) \in Byte
    <3>1. i \in 0 .. K
      OBVIOUS
    <3>2. HintEnd(h, i) \in Nat /\ HintEnd(h, i) <= Len(x) /\ Len(x) = e
      BY <1>2, <3>1 DEF HintRows, HintEnd, x
    <3> QED BY <1>1, <1>2, <3>2
  <2> QED BY <2>1
<1>7. (\A p \in 1 .. Omega : u[p] = IF p <= e THEN x[p] ELSE 0) /\ \A i \in 1 .. K : v[i] = HintEnd(h, i)
  OBVIOUS
<1> DEFINE y == HintBitPack(h)
<1> HIDE DEF u, v
<1>8. JoinedTwo(y, Byte, Omega, u, K, v)
  <2>1. JoinedTwo(u \o v, Byte, Omega, u, K, v)
    BY <1>1, <1>5, <1>6, JoinTwo
  <2> QED BY <1>3, <2>1
<1> HIDE DEF y
<1>9. /\ y \in [1 .. Omega + K -> Byte]
      /\ \A p \in 1 .. Omega : y[p] = u[p]
      /\ \A i \in 1 .. K : y[Omega + i] = v[i]
  BY <1>8 DEF JoinedTwo
<1>10. \A p \in 1 .. Omega : y[p] = IF p <= e THEN x[p] ELSE 0
  BY <1>7, <1>9
<1>11. \A i \in 1 .. K : y[Omega + i] = HintEnd(h, i)
  BY <1>7, <1>9
<1> HIDE DEF e
<1>12. y \in Bytes(Omega + K)
  BY <1>9 DEF Bytes
<1> QED BY <1>10, <1>11, <1>12 DEF x, e, y

\* Where row i + 1 of a hint string starts and ends, and what it must be like.
HintStart(y, i) == IF i = 1 THEN 0 ELSE y[Omega + i - 1]
HintStop(y, i) == y[Omega + i]
HintValid(y) ==
  /\ \A i \in 1 .. K : /\ HintStop(y, i) \in HintStart(y, i) .. Omega
                       /\ \A p \in HintStart(y, i) + 2 .. HintStop(y, i) : y[p - 1] < y[p]
  /\ \A p \in HintStop(y, K) + 1 .. Omega : y[p] = 0
HintOf(y) ==
  [i \in Row |-> [j \in Coeff |->
     IF \E p \in HintStart(y, i + 1) + 1 .. HintStop(y, i + 1) : y[p] = j THEN 1 ELSE 0]]

\* hint_bit_unpack gives a hint or None.
LEMMA HintDecoded ==
  ASSUME NEW y
  PROVE  /\ HintBitUnpack(y) = IF HintValid(y) THEN HintOf(y) ELSE None
         /\ HintOf(y) \in [Row -> [Coeff -> {0, 1}]] /\ HintOf(y) # None
<1>1. HintBitUnpack(y) = IF HintValid(y) THEN HintOf(y) ELSE None
  BY DEF HintBitUnpack, HintValid, HintOf, HintStart, HintStop
<1>2. HintOf(y) \in [Row -> [Coeff -> {0, 1}]]
  BY DEF HintOf
<1> QED BY <1>1, <1>2, NoneAssumption

\* hint_bit_unpack gives back the hint that hint_bit_pack packed.
LEMMA HintPacking ==
  ASSUME NEW h \in [Row -> [Coeff -> {0, 1}]], Weight(h) <= Omega
  PROVE  HintBitUnpack(HintBitPack(h)) = h
<1> DEFINE x == HintUpto(h, K)
           e == HintEnd(h, K)
           y == HintBitPack(h)
<1>1. K \in Nat /\ K > 0 /\ N \in Nat /\ Omega \in Nat /\ Row = 0 .. K - 1 /\ Coeff = 0 .. N - 1
  BY Parameters, ByteSize DEF Row, Coeff
<1>2. /\ \A p \in 1 .. Omega : y[p] = IF p <= e THEN x[p] ELSE 0
      /\ \A i \in 1 .. K : y[Omega + i] = HintEnd(h, i)
  BY HintBytes
<1>3. HintRows(x, h, K) /\ HintEnd(h, 0) = 0
  BY <1>1, HintPlaces, HintRow
<1>4. e \in Nat /\ e <= Omega /\ e = Len(x)
  <2>1. e <= Weight(h) /\ e \in Nat
    BY HintFits
  <2>2. Weight(h) \in Int
    BY HintFits
  <2>3. e = Len(x)
    BY DEF HintEnd
  <2> HIDE DEF e, x
  <2> QED BY <1>1, <2>1, <2>2, <2>3
<1> HIDE DEF x, y, e
<1>5. ASSUME NEW i \in Row
      PROVE  /\ HintStart(y, i + 1) = HintEnd(h, i) /\ HintStop(y, i + 1) = HintEnd(h, i + 1)
             /\ HintEnd(h, i) \in Nat /\ HintEnd(h, i + 1) = HintEnd(h, i) + Len(HintOnes(h, i))
             /\ HintEnd(h, i + 1) <= e /\ Len(HintOnes(h, i)) \in Nat
             /\ \A p \in 1 .. Len(HintOnes(h, i)) : y[HintEnd(h, i) + p] = HintOnes(h, i)[p]
  <2>1. i \in 0 .. K - 1 /\ i \in 0 .. K /\ i + 1 \in 0 .. K /\ i + 1 \in 1 .. K
    BY <1>1
  <2>2. /\ HintEnd(h, i) \in Nat /\ HintEnd(h, i + 1) = HintEnd(h, i) + Len(HintOnes(h, i))
        /\ HintEnd(h, i + 1) <= e
        /\ \A p \in 1 .. Len(HintOnes(h, i)) : x[HintEnd(h, i) + p] = HintOnes(h, i)[p]
    BY <1>3, <1>4, <2>1 DEF HintRows
  <2>3. Len(HintOnes(h, i)) \in Nat
    BY OnesTaken DEF PlacesTaken, HintOnes
  <2>4. ASSUME NEW p \in 1 .. Len(HintOnes(h, i)) PROVE y[HintEnd(h, i) + p] = HintOnes(h, i)[p]
    <3>1. HintEnd(h, i) + p \in 1 .. Omega /\ HintEnd(h, i) + p <= e
      BY <1>1, <1>4, <2>2, <2>3
    <3> QED BY <1>2, <2>2, <3>1
  <2>5. HintStop(y, i + 1) = HintEnd(h, i + 1)
    BY <1>2, <2>1 DEF HintStop
  <2>6. HintStart(y, i + 1) = HintEnd(h, i)
    <3>1. CASE i = 0
      BY <1>3, <3>1 DEF HintStart
    <3>2. CASE i # 0
      <4>1. i \in 1 .. K /\ i + 1 # 1 /\ Omega + (i + 1) - 1 = Omega + i
        BY <1>1, <2>1, <3>2
      <4> QED BY <1>2, <4>1 DEF HintStart
    <3> QED BY <3>1, <3>2
  <2> QED BY <2>2, <2>3, <2>4, <2>5, <2>6
<1>6. HintValid(y)
  <2>1. ASSUME NEW j \in 1 .. K
        PROVE  /\ HintStop(y, j) \in HintStart(y, j) .. Omega
               /\ \A p \in HintStart(y, j) + 2 .. HintStop(y, j) : y[p - 1] < y[p]
    <3> DEFINE i == j - 1
               s == HintEnd(h, i)
               w == HintOnes(h, i)
    <3>1. i \in Row /\ i + 1 = j
      BY <1>1
    <3> HIDE DEF i
    <3>2. /\ HintStart(y, j) = s /\ HintStop(y, j) = s + Len(w) /\ s \in Nat /\ Len(w) \in Nat /\ s + Len(w) <= e
          /\ \A p \in 1 .. Len(w) : y[s + p] = w[p]
      BY <1>5, <3>1
    <3>3. Rising(w)
      BY OnesTaken DEF PlacesTaken, HintOnes
    <3> HIDE DEF s, w
    <3>4. ASSUME NEW p \in s + 2 .. s + Len(w) PROVE y[p - 1] < y[p]
      <4> DEFINE q == p - s
      <4>1. q \in 1 .. Len(w) /\ q - 1 \in 1 .. Len(w) /\ q - 1 < q /\ s + q = p /\ s + (q - 1) = p - 1
        BY <3>2
      <4> HIDE DEF q
      <4>2. w[q - 1] < w[q]
        BY <3>3, <4>1 DEF Rising
      <4> QED BY <3>2, <4>1, <4>2
    <3> QED BY <1>1, <1>4, <3>2, <3>4
  <2>2. HintStop(y, K) = e
    <3>1. K \in 1 .. K
      BY <1>1
    <3> QED BY <1>2, <3>1 DEF HintStop, e
  <2>3. \A p \in e + 1 .. Omega : y[p] = 0
    BY <1>1, <1>2, <1>4
  <2> QED BY <2>1, <2>2, <2>3 DEF HintValid
<1>7. ASSUME NEW i \in Row, NEW j \in Coeff
      PROVE  (\E p \in HintStart(y, i + 1) + 1 .. HintStop(y, i + 1) : y[p] = j) <=> h[i][j] # 0
  <2> DEFINE s == HintEnd(h, i)
             w == HintOnes(h, i)
  <2>1. /\ HintStart(y, i + 1) = s /\ HintStop(y, i + 1) = s + Len(w) /\ s \in Nat /\ Len(w) \in Nat
        /\ \A p \in 1 .. Len(w) : y[s + p] = w[p]
    BY <1>5
  <2>2. /\ \A p \in 1 .. Len(w) : w[p] \in Coeff /\ h[i][w[p]] # 0
        /\ h[i][j] # 0 => \E p \in 1 .. Len(w) : w[p] = j
    BY OnesTaken DEF PlacesTaken, HintOnes
  <2> HIDE DEF s, w
  <2>3. ASSUME NEW p \in s + 1 .. s + Len(w), y[p] = j PROVE h[i][j] # 0
    <3>1. p - s \in 1 .. Len(w) /\ s + (p - s) = p
      BY <2>1
    <3>2. w[p - s] = j
      BY <2>1, <2>3, <3>1
    <3> QED BY <2>2, <3>1, <3>2
  <2>4. ASSUME NEW p \in 1 .. Len(w), w[p] = j PROVE s + p \in s + 1 .. s + Len(w) /\ y[s + p] = j
    BY <2>1, <2>4
  <2> QED BY <2>1, <2>2, <2>3, <2>4
<1>8. ASSUME NEW i \in Row, NEW j \in Coeff PROVE HintOf(y)[i][j] = h[i][j]
  <2>1. HintOf(y)[i][j] = IF h[i][j] # 0 THEN 1 ELSE 0
    BY <1>7 DEF HintOf
  <2>2. h[i][j] \in {0, 1}
    OBVIOUS
  <2> QED BY <2>1, <2>2
<1>9. HintOf(y) = h
  <2>1. HintOf(y) \in [Row -> [Coeff -> {0, 1}]]
    BY HintDecoded
  <2>2. ASSUME NEW i \in Row PROVE HintOf(y)[i] = h[i]
    <3>1. HintOf(y)[i] \in [Coeff -> {0, 1}] /\ h[i] \in [Coeff -> {0, 1}]
      BY <2>1
    <3> QED BY <1>8, <3>1
  <2> QED BY <2>1, <2>2
<1> QED BY <1>6, <1>9, HintDecoded DEF y

\* Rising step by step is rising.
Steps(f, a) == f \in [1 .. a -> Nat] /\ \A p \in 2 .. a : f[p - 1] < f[p]
Rises(f, a) == \A p, q \in 1 .. a : p < q => f[p] < f[q]

\* From one place to the next, and so from any place to any later one.
LEMMA StepsRise ==
  ASSUME NEW a \in Nat, NEW f, Steps(f, a)
  PROVE  Rises(f, a)
<1> DEFINE S == {q \in Nat : q <= a => \A p \in 1 .. a : p < q => f[p] < f[q]}
<1>1. f \in [1 .. a -> Nat] /\ \A p \in 2 .. a : f[p - 1] < f[p]
  BY DEF Steps
<1>2. 0 \in S
  OBVIOUS
<1>3. ASSUME NEW q \in Nat, q \in S PROVE q + 1 \in S
  <2> SUFFICES ASSUME q + 1 <= a, NEW p \in 1 .. a, p < q + 1 PROVE f[p] < f[q + 1]
    OBVIOUS
  <2>1. q + 1 \in 2 .. a /\ (q + 1) - 1 = q /\ q \in 1 .. a
    OBVIOUS
  <2>2. f[q] < f[q + 1]
    BY <1>1, <2>1
  <2>3. f[p] \in Nat /\ f[q] \in Nat /\ f[q + 1] \in Nat
    BY <1>1, <2>1
  <2>4. p = q \/ f[p] < f[q]
    BY <1>3, <2>1
  <2> QED BY <2>2, <2>3, <2>4
<1> HIDE DEF S
<1>4. \A q \in Nat : q \in S
  BY <1>2, <1>3, SetInduction
<1>5. \A q \in 1 .. a : q \in Nat /\ q <= a
  OBVIOUS
<1> QED BY <1>4, <1>5 DEF S, Rises

Agree(f, g, a) == \A p \in 1 .. a : f[p] = g[p]
Covers(g, b, f, a) == \A p \in 1 .. a : \E q \in 1 .. b : g[q] = f[p]

\* A set of numbers can be written down rising in one way only.
LEMMA RisingOnce ==
  ASSUME NEW a \in Nat, NEW b \in Nat, NEW f, NEW g, Steps(f, a), Steps(g, b),
         Covers(g, b, f, a), Covers(f, a, g, b)
  PROVE  a = b /\ Agree(f, g, a)
<1> DEFINE S == {k \in Nat : \A i \in 1 .. k : i <= a /\ i <= b => f[i] = g[i]}
<1>1. f \in [1 .. a -> Nat] /\ g \in [1 .. b -> Nat]
  BY DEF Steps
<1>2. /\ \A p, q \in 1 .. a : p < q => f[p] < f[q]
      /\ \A p, q \in 1 .. b : p < q => g[p] < g[q]
  BY StepsRise DEF Rises
<1>9. /\ \A p \in 1 .. a : \E q \in 1 .. b : g[q] = f[p]
      /\ \A q \in 1 .. b : \E p \in 1 .. a : f[p] = g[q]
  BY DEF Covers
<1>3. 0 \in S
  OBVIOUS
<1>4. ASSUME NEW k \in Nat, k \in S PROVE k + 1 \in S
  <2> SUFFICES ASSUME k + 1 <= a, k + 1 <= b PROVE f[k + 1] = g[k + 1]
    <3>1. \A i \in 1 .. k + 1 : i = k + 1 \/ i \in 1 .. k
      OBVIOUS
    <3> QED BY <1>4, <3>1
  <2> DEFINE j == k + 1
  <2>1. j \in 1 .. a /\ j \in 1 .. b /\ f[j] \in Nat /\ g[j] \in Nat
    BY <1>1
  <2>2. \A i \in 1 .. k : i \in 1 .. a /\ i \in 1 .. b /\ i < j /\ f[i] = g[i]
    BY <1>4
  <2> HIDE DEF S
  <2>3. f[j] <= g[j]
    <3>1. PICK p \in 1 .. a : f[p] = g[j]
      BY <1>9, <2>1
    <3>2. CASE p < j
      <4>1. p \in 1 .. k
        BY <3>2
      <4>2. g[p] < g[j] /\ g[p] = g[j]
        BY <1>2, <2>1, <2>2, <3>1, <4>1
      <4> QED BY <2>1, <4>2
    <3>3. CASE p >= j
      <4>1. p = j \/ j < p
        BY <3>3
      <4>2. f[p] \in Nat /\ p \in Nat
        BY <1>1
      <4> HIDE DEF j
      <4>3. p = j => f[j] <= f[p]
        BY <4>2
      <4>4. j < p => f[j] <= f[p]
        <5>1. j < p => f[j] < f[p]
          BY <1>2, <2>1
        <5> QED BY <2>1, <4>2, <5>1
      <4> QED BY <3>1, <4>1, <4>3, <4>4
    <3>4. p \in Nat /\ j \in Nat
      OBVIOUS
    <3> HIDE DEF j
    <3> QED BY <3>2, <3>3, <3>4
  <2>4. g[j] <= f[j]
    <3>1. PICK p \in 1 .. b : g[p] = f[j]
      BY <1>9, <2>1
    <3>2. CASE p < j
      <4>1. p \in 1 .. k
        BY <3>2
      <4>2. f[p] < f[j] /\ f[p] = f[j]
        BY <1>2, <2>1, <2>2, <3>1, <4>1
      <4> QED BY <2>1, <4>2
    <3>3. CASE p >= j
      <4>1. p = j \/ j < p
        BY <3>3
      <4>2. g[p] \in Nat /\ p \in Nat
        BY <1>1
      <4> HIDE DEF j
      <4>3. p = j => g[j] <= g[p]
        BY <4>2
      <4>4. j < p => g[j] <= g[p]
        <5>1. j < p => g[j] < g[p]
          BY <1>2, <2>1
        <5> QED BY <2>1, <4>2, <5>1
      <4> QED BY <3>1, <4>1, <4>3, <4>4
    <3>4. p \in Nat /\ j \in Nat
      OBVIOUS
    <3> HIDE DEF j
    <3> QED BY <3>2, <3>3, <3>4
  <2>5. j = k + 1
    OBVIOUS
  <2> HIDE DEF j
  <2>6. f[j] = g[j]
    BY <2>1, <2>3, <2>4
  <2> QED BY <2>5, <2>6
<1> HIDE DEF S
<1>5. \A k \in Nat : k \in S
  BY <1>3, <1>4, SetInduction
<1>6. \A i \in 1 .. a : i <= b => f[i] = g[i]
  <2>1. a \in S
    BY <1>5
  <2> QED BY <2>1 DEF S
<1>7. a <= b
  <2> SUFFICES ASSUME b < a PROVE FALSE
    OBVIOUS
  <2>1. b + 1 \in 1 .. a
    OBVIOUS
  <2>2. PICK q \in 1 .. b : g[q] = f[b + 1]
    BY <1>9, <2>1
  <2>3. q \in 1 .. a /\ q < b + 1 /\ f[q] = g[q]
    BY <1>6
  <2>4. f[q] < f[b + 1] /\ f[q] \in Nat /\ f[b + 1] \in Nat
    BY <1>1, <1>2, <2>1, <2>3
  <2> QED BY <2>2, <2>3, <2>4
<1>8. b <= a
  <2> SUFFICES ASSUME a < b PROVE FALSE
    OBVIOUS
  <2>1. a + 1 \in 1 .. b
    OBVIOUS
  <2>2. PICK q \in 1 .. a : f[q] = g[a + 1]
    BY <1>9, <2>1
  <2>3. q \in 1 .. b /\ q < a + 1 /\ f[q] = g[q]
    BY <1>6
  <2>4. g[q] < g[a + 1] /\ g[q] \in Nat /\ g[a + 1] \in Nat
    BY <1>1, <1>2, <2>1, <2>3
  <2> QED BY <2>2, <2>3, <2>4
<1> QED BY <1>6, <1>7, <1>8 DEF Agree

\* hint_bit_unpack takes one encoding of a hint only.
LEMMA HintUnique ==
  ASSUME NEW y \in Bytes(Omega + K), NEW z \in Bytes(Omega + K), HintBitUnpack(y) = HintBitUnpack(z),
         HintBitUnpack(y) # None
  PROVE  y = z
<1>1. /\ K \in Nat /\ K > 0 /\ N \in Nat /\ Omega \in Nat /\ Row = 0 .. K - 1 /\ Coeff = 0 .. N - 1
      /\ Byte = Coeff
  BY Parameters, ByteSize DEF Row, Coeff, Byte
<1>2. y \in [1 .. Omega + K -> Byte] /\ z \in [1 .. Omega + K -> Byte]
  BY DEF Bytes
<1>3. HintValid(y) /\ HintValid(z) /\ HintOf(y) = HintOf(z)
  BY HintDecoded
<1> DEFINE Same(i) == HintStop(y, i) = HintStop(z, i) /\ \A p \in 1 .. HintStop(y, i) : y[p] = z[p]
           S == {i \in Nat : i \in 1 .. K => Same(i)}
<1>4. ASSUME NEW i \in 1 .. K, HintStart(y, i) = HintStart(z, i),
             \A p \in 1 .. HintStart(y, i) : y[p] = z[p]
      PROVE  Same(i)
  <2> DEFINE s == HintStart(y, i)
             a == HintStop(y, i) - s
             b == HintStop(z, i) - s
             f == [p \in 1 .. a |-> y[s + p]]
             g == [p \in 1 .. b |-> z[s + p]]
  <2>1. s \in Nat
    <3>1. i # 1 => Omega + i - 1 \in 1 .. Omega + K
      BY <1>1
    <3> QED BY <1>1, <1>2, <3>1 DEF HintStart
  <2>2. HintStop(y, i) \in Nat /\ HintStop(z, i) \in Nat
    <3>1. Omega + i \in 1 .. Omega + K
      BY <1>1
    <3> QED BY <1>1, <1>2, <3>1 DEF HintStop
  <2>3. /\ HintStop(y, i) \in s .. Omega /\ \A p \in s + 2 .. HintStop(y, i) : y[p - 1] < y[p]
        /\ HintStop(z, i) \in s .. Omega /\ \A p \in s + 2 .. HintStop(z, i) : z[p - 1] < z[p]
    BY <1>3, <1>4 DEF HintValid
  <2> HIDE DEF s
  <2>4. /\ a \in Nat /\ b \in Nat /\ s + a = HintStop(y, i) /\ s + b = HintStop(z, i)
        /\ s + a <= Omega /\ s + b <= Omega
    BY <1>1, <2>1, <2>2, <2>3
  <2> HIDE DEF a, b
  <2>5. (\A p \in 1 .. a : f[p] = y[s + p]) /\ (\A p \in 1 .. b : g[p] = z[s + p])
    OBVIOUS
  <2>6. f \in [1 .. a -> Nat] /\ g \in [1 .. b -> Nat]
    <3>1. \A p \in 1 .. a : y[s + p] \in Nat
      BY <1>1, <1>2, <2>1, <2>4
    <3>2. \A p \in 1 .. b : z[s + p] \in Nat
      BY <1>1, <1>2, <2>1, <2>4
    <3> QED BY <3>1, <3>2
  <2> HIDE DEF f, g
  <2>7. Steps(f, a)
    <3> SUFFICES ASSUME NEW p \in 2 .. a PROVE f[p - 1] < f[p]
      BY <2>6 DEF Steps
    <3>1. s + p \in s + 2 .. HintStop(y, i) /\ (s + p) - 1 = s + (p - 1) /\ p - 1 \in 1 .. a /\ p \in 1 .. a
      BY <2>1, <2>4
    <3>2. y[(s + p) - 1] < y[s + p]
      BY <2>3, <3>1
    <3> QED BY <2>5, <3>1, <3>2
  <2>8. Steps(g, b)
    <3> SUFFICES ASSUME NEW p \in 2 .. b PROVE g[p - 1] < g[p]
      BY <2>6 DEF Steps
    <3>1. s + p \in s + 2 .. HintStop(z, i) /\ (s + p) - 1 = s + (p - 1) /\ p - 1 \in 1 .. b /\ p \in 1 .. b
      BY <2>1, <2>4
    <3>2. z[(s + p) - 1] < z[s + p]
      BY <2>3, <3>1
    <3> QED BY <2>5, <3>1, <3>2
  <2>9. ASSUME NEW j \in Coeff
        PROVE  (\E p \in s + 1 .. s + a : y[p] = j) <=> (\E p \in s + 1 .. s + b : z[p] = j)
    <3> DEFINE r == i - 1
    <3>1. r \in Row /\ r + 1 = i
      BY <1>1
    <3> HIDE DEF r
    <3>2. /\ HintOf(y)[r][j] = IF \E p \in s + 1 .. s + a : y[p] = j THEN 1 ELSE 0
          /\ HintOf(z)[r][j] = IF \E p \in s + 1 .. s + b : z[p] = j THEN 1 ELSE 0
      BY <1>4, <2>4, <3>1 DEF HintOf, s
    <3> QED BY <1>3, <3>2
  <2>10. ASSUME NEW p \in 1 .. a PROVE \E q \in 1 .. b : g[q] = f[p]
    <3>1. s + p \in s + 1 .. s + a /\ y[s + p] \in Coeff
      BY <1>1, <1>2, <2>1, <2>4
    <3>2. PICK r \in s + 1 .. s + b : z[r] = y[s + p]
      BY <2>9, <3>1
    <3>3. r - s \in 1 .. b /\ s + (r - s) = r
      BY <2>1, <2>4
    <3>4. g[r - s] = f[p]
      BY <2>5, <3>2, <3>3
    <3> QED BY <3>3, <3>4
  <2>11. ASSUME NEW p \in 1 .. b PROVE \E q \in 1 .. a : f[q] = g[p]
    <3>1. s + p \in s + 1 .. s + b /\ z[s + p] \in Coeff
      BY <1>1, <1>2, <2>1, <2>4
    <3>2. PICK r \in s + 1 .. s + a : y[r] = z[s + p]
      BY <2>9, <3>1
    <3>3. r - s \in 1 .. a /\ s + (r - s) = r
      BY <2>1, <2>4
    <3>4. f[r - s] = g[p]
      BY <2>5, <3>2, <3>3
    <3> QED BY <3>3, <3>4
  <2>12. a = b /\ \A p \in 1 .. a : f[p] = g[p]
    <3>1. Covers(g, b, f, a) /\ Covers(f, a, g, b)
      BY <2>10, <2>11 DEF Covers
    <3>2. a = b /\ Agree(f, g, a)
      BY <2>4, <2>7, <2>8, <3>1, RisingOnce
    <3> QED BY <3>2 DEF Agree
  <2>13. ASSUME NEW p \in 1 .. s + a PROVE y[p] = z[p]
    <3>1. CASE p <= s
      BY <1>4, <2>1, <3>1 DEF s
    <3>2. CASE p > s
      <4>1. p - s \in 1 .. a /\ s + (p - s) = p
        BY <2>1, <2>4, <3>2
      <4> QED BY <2>5, <2>12, <4>1
    <3> QED BY <2>1, <2>4, <3>1, <3>2
  <2> QED BY <2>4, <2>12, <2>13
<1>5. 0 \in S
  OBVIOUS
<1>6. ASSUME NEW i \in Nat, i \in S PROVE i + 1 \in S
  <2> SUFFICES ASSUME i + 1 \in 1 .. K PROVE Same(i + 1)
    OBVIOUS
  <2>1. CASE i = 0
    <3>1. i + 1 = 1 /\ HintStart(y, i + 1) = 0 /\ HintStart(z, i + 1) = 0
      BY <2>1 DEF HintStart
    <3> QED BY <1>4, <3>1
  <2>2. CASE i # 0
    <3>1. i \in 1 .. K /\ i + 1 # 1 /\ Omega + (i + 1) - 1 = Omega + i
      BY <1>1, <2>2
    <3>2. HintStart(y, i + 1) = HintStop(y, i) /\ HintStart(z, i + 1) = HintStop(z, i)
      BY <3>1 DEF HintStart, HintStop
    <3>3. Same(i)
      BY <1>6, <3>1
    <3> QED BY <1>4, <3>2, <3>3
  <2> QED BY <2>1, <2>2
<1>7. \A i \in 1 .. K : Same(i)
  <2> HIDE DEF S
  <2>1. \A i \in Nat : i \in S
    BY <1>5, <1>6, SetInduction
  <2>2. \A i \in 1 .. K : i \in Nat
    OBVIOUS
  <2> QED BY <2>1, <2>2 DEF S
<1>8. ASSUME NEW p \in 1 .. Omega + K PROVE y[p] = z[p]
  <2>1. CASE p > Omega
    <3>1. p - Omega \in 1 .. K /\ Omega + (p - Omega) = p
      BY <1>1, <2>1
    <3> QED BY <1>7, <3>1 DEF HintStop
  <2>2. CASE p <= Omega
    <3>1. K \in 1 .. K /\ HintStop(y, K) \in Nat
      <4>1. K \in 1 .. K /\ Omega + K \in 1 .. Omega + K
        BY <1>1
      <4> QED BY <1>1, <1>2, <4>1 DEF HintStop
    <3>2. Same(K)
      BY <1>7, <3>1
    <3>3. CASE p <= HintStop(y, K)
      BY <3>1, <3>2, <3>3
    <3>4. CASE p > HintStop(y, K)
      <4>1. p \in HintStop(y, K) + 1 .. Omega /\ p \in HintStop(z, K) + 1 .. Omega
        BY <1>1, <2>2, <3>1, <3>2, <3>4
      <4> QED BY <1>3, <4>1 DEF HintValid
    <3> QED BY <3>1, <3>3, <3>4
  <2> QED BY <1>1, <2>1, <2>2
<1>9. PICK n : n = Omega + K
  OBVIOUS
<1>10. y \in [1 .. n -> Byte] /\ z \in [1 .. n -> Byte] /\ \A p \in 1 .. n : y[p] = z[p]
  BY <1>2, <1>8, <1>9
<1>11. y = [p \in 1 .. n |-> y[p]] /\ z = [p \in 1 .. n |-> z[p]]
  BY <1>10
<1> QED BY <1>10, <1>11

-----------------------------------------------------------------------------
(* Arithmetic modulo Q.                                                     *)
Eq(x, y) == x % Q = y % Q

\* A multiple of Q makes no difference.
LEMMA EqIf ==
  ASSUME NEW x \in Int, NEW y \in Int, NEW k \in Int, x = y + k * Q
  PROVE  Eq(x, y)
<1>1. Q \in Nat /\ Q > 0
  BY Parameters
<1> DEFINE a == y \div Q
           b == y % Q
<1>2. a \in Int /\ b \in Nat /\ b < Q /\ y = a * Q + b
  BY <1>1
<1> HIDE DEF a, b
<1>3. x = (a + k) * Q + b /\ a + k \in Int
  BY <1>1, <1>2
<1>4. ((a + k) * Q + b) % Q = b /\ (a * Q + b) % Q = b
  BY <1>1, <1>2, <1>3, DivisionUnique
<1> QED BY <1>2, <1>3, <1>4 DEF Eq

\* And nothing else makes none.
LEMMA EqThen ==
  ASSUME NEW x \in Int, NEW y \in Int, Eq(x, y)
  PROVE  \E k \in Int : x = y + k * Q
<1>1. Q \in Nat /\ Q > 0
  BY Parameters
<1> DEFINE a == x \div Q
           b == y \div Q
           r == x % Q
           s == y % Q
<1>2. a \in Int /\ b \in Int /\ r \in Int /\ s \in Int /\ x = a * Q + r /\ y = b * Q + s
  BY <1>1
<1>3. r = s
  BY DEF Eq
<1> HIDE DEF a, b, r, s
<1>4. x = y + (a - b) * Q /\ a - b \in Int
  BY <1>1, <1>2, <1>3
<1> QED BY <1>4

\* Sums, differences and opposites of equal numbers are equal.
LEMMA EqSum ==
  ASSUME NEW x \in Int, NEW y \in Int, NEW u \in Int, NEW v \in Int, Eq(x, y), Eq(u, v)
  PROVE  Eq(x + u, y + v) /\ Eq(x - u, y - v) /\ Eq(-x, -y)
<1>1. Q \in Nat /\ Q > 0
  BY Parameters
<1>2. PICK k \in Int : x = y + k * Q
  BY EqThen
<1>3. PICK m \in Int : u = v + m * Q
  BY EqThen
<1>4. x + u = (y + v) + (k + m) * Q /\ x - u = (y - v) + (k - m) * Q /\ -x = -y + (-k) * Q
  BY <1>1, <1>2, <1>3
<1>5. Eq(x + u, y + v)
  <2>1. x + u \in Int /\ y + v \in Int /\ k + m \in Int
    OBVIOUS
  <2> QED BY <1>4, <2>1, EqIf
<1>6. Eq(x - u, y - v)
  <2>1. x - u \in Int /\ y - v \in Int /\ k - m \in Int
    OBVIOUS
  <2> QED BY <1>4, <2>1, EqIf
<1>7. Eq(-x, -y)
  <2>1. -x \in Int /\ -y \in Int /\ -k \in Int
    OBVIOUS
  <2> QED BY <1>4, <2>1, EqIf
<1> QED BY <1>5, <1>6, <1>7

\* So are their products.
LEMMA EqProduct ==
  ASSUME NEW x \in Int, NEW y \in Int, NEW u \in Int, NEW v \in Int, Eq(x, y), Eq(u, v)
  PROVE  Eq(x * u, y * v)
<1>1. Q \in Nat /\ Q > 0
  BY Parameters
<1>2. PICK k \in Int : x = y + k * Q
  BY EqThen
<1>3. PICK m \in Int : u = v + m * Q
  BY EqThen
<1> DEFINE n == y * m + k * v + k * m * Q
<1>4. n \in Int /\ x * u \in Int /\ y * v \in Int
  BY <1>1
<1>5. x * u = y * v + n * Q
  <2>1. (y + k * Q) * (v + m * Q) = y * v + n * Q
    BY <1>1
  <2> QED BY <1>2, <1>3, <2>1
<1> HIDE DEF n
<1> QED BY <1>4, <1>5, EqIf

\* A number equals its remainder.
LEMMA EqModulus ==
  ASSUME NEW x \in Int
  PROVE  Eq(x % Q, x) /\ Eq(x, x % Q) /\ x % Q \in 0 .. Q - 1 /\ x % Q \in Int /\ Eq(x, x)
<1>1. Q \in Nat /\ Q > 0
  BY Parameters
<1> DEFINE a == x \div Q
           b == x % Q
<1>2. a \in Int /\ b \in 0 .. Q - 1 /\ x = a * Q + b
  BY <1>1
<1> HIDE DEF a, b
<1>3. b = x + (-a) * Q /\ x = b + a * Q /\ -a \in Int /\ b \in Int
  BY <1>1, <1>2
<1>4. Eq(b, x) /\ Eq(x, b)
  BY <1>2, <1>3, EqIf
<1>5. Eq(x, x)
  BY DEF Eq
<1> QED BY <1>2, <1>3, <1>4, <1>5 DEF b

\* Equality turned round and taken together.
LEMMA EqThrough ==
  ASSUME NEW x \in Int, NEW y \in Int, NEW u \in Int, Eq(x, y)
  PROVE  Eq(y, x) /\ (Eq(y, u) => Eq(x, u))
BY DEF Eq

\* Numbers that are closer than Q are equal when they are equal modulo Q.
LEMMA EqNear ==
  ASSUME NEW x \in Int, NEW y \in Int, Eq(x, y), x - y < Q, y - x < Q
  PROVE  x = y
<1>1. Q \in Nat /\ Q > 0
  BY Parameters
<1>2. PICK k \in Int : x = y + k * Q
  BY EqThen
<1>3. k < 1
  <2> SUFFICES ASSUME k >= 1 PROVE FALSE
    OBVIOUS
  <2>1. 1 * Q <= k * Q
    BY <1>1, TimesMonotone
  <2>2. k * Q \in Int
    BY <1>1
  <2> QED BY <1>1, <1>2, <2>1, <2>2
<1>4. k > -1
  <2> SUFFICES ASSUME k <= -1 PROVE FALSE
    OBVIOUS
  <2>1. k * Q <= (-1) * Q
    BY <1>1, TimesMonotone
  <2>2. k * Q \in Int
    BY <1>1
  <2> QED BY <1>1, <1>2, <2>1, <2>2
<1>5. k = 0
  BY <1>3, <1>4
<1> QED BY <1>1, <1>2, <1>5

-----------------------------------------------------------------------------
(* Powers of the root and the order of its exponents.                       *)
PowRun(x, n, t) == t \in [0 .. n -> Int] /\ t[0] = 1 /\ \A k \in 1 .. n : t[k] = (t[k - 1] * x) % Q

\* A power is reached by one multiplication after the other.
LEMMA PowSteps ==
  ASSUME NEW x \in Int, NEW n \in Nat
  PROVE  \E t : PowRun(x, n, t) /\ PowMod(x, n) = t[n]
<1> DEFINE s == [i \in 1 .. n |-> i]
           step == [p \in Int \X (1 .. n) |-> (p[1] * x) % Q]
           Iter(f) == f = [u \in SUBSET (1 .. n) |-> IF u = {} THEN 1 ELSE (f[u \ {Max(u)}] * x) % Q]
<1>1. DOMAIN s = 1 .. n /\ 1 \in Int /\ Q \in Nat /\ Q > 0
  BY Parameters
<1>2. \A v \in Int : (v * x) % Q \in Int
  <2> TAKE v \in Int
  <2>1. v * x \in Int
    OBVIOUS
  <2> QED BY <2>1, EqModulus
<1>3. step \in [Int \X (1 .. n) -> Int]
  BY <1>2
<1>4. \A v \in Int, i \in 1 .. n : step[<<v, i>>] = (v * x) % Q
  OBVIOUS
<1> HIDE DEF step
<1>5. PICK f : FoldRun(n, Int, 1, step, f)
  BY <1>1, <1>3, FoldRunExists
<1>6. \A u \in SUBSET (1 .. n) : u # {} => Max(u) \in 1 .. n /\ u \ {Max(u)} \in SUBSET (1 .. n)
  BY FoldTakes
<1>7. Iter(f)
  <2>1. /\ f \in [SUBSET (1 .. n) -> Int]
        /\ \A u \in SUBSET (1 .. n) : f[u] = IF u = {} THEN 1 ELSE step[<<f[u \ {Max(u)}], Max(u)>>]
    BY <1>5 DEF FoldRun
  <2>2. ASSUME NEW u \in SUBSET (1 .. n), u # {} PROVE f[u] = (f[u \ {Max(u)}] * x) % Q
    <3>1. Max(u) \in 1 .. n /\ f[u \ {Max(u)}] \in Int
      BY <1>6, <2>1, <2>2
    <3>2. f[u] = step[<<f[u \ {Max(u)}], Max(u)>>]
      BY <2>1, <2>2
    <3> QED BY <1>4, <3>1, <3>2
  <2>3. \A u \in SUBSET (1 .. n) : f[u] = IF u = {} THEN 1 ELSE (f[u \ {Max(u)}] * x) % Q
    BY <2>1, <2>2
  <2>4. f = [u \in SUBSET (1 .. n) |-> f[u]]
    BY <2>1
  <2> QED BY <2>3, <2>4
<1> DEFINE g == CHOOSE f_1 : Iter(f_1)
<1>8. Iter(g)
  BY <1>7
<1>9. PowMod(x, n) = g[1 .. n]
  BY <1>1 DEF PowMod, FoldLeft, MapThenFoldSet
<1> HIDE DEF g
<1>10. FoldsBy(n, Int, 1, step, g)
  BY <1>4, <1>6, <1>8 DEF FoldsBy
<1>11. PICK t : Chain(n, Int, 1, step, t, g[1 .. n])
  BY <1>1, <1>3, <1>10, FoldChain
<1>12. t \in [0 .. n -> Int] /\ t[0] = 1 /\ t[n] = g[1 .. n]
  BY <1>11 DEF Chain
<1>13. ASSUME NEW k \in 1 .. n PROVE t[k] = (t[k - 1] * x) % Q
  <2>1. t[k - 1] \in Int
    BY <1>12
  <2>2. t[k] = step[<<t[k - 1], k>>]
    BY <1>11 DEF Chain
  <2> QED BY <1>4, <2>1, <2>2
<1>14. PowRun(x, n, t)
  BY <1>12, <1>13 DEF PowRun
<1> QED BY <1>9, <1>12, <1>14

\* In the same steps, however far it goes.
LEMMA PowAgrees ==
  ASSUME NEW x \in Int, NEW m \in Nat, NEW n \in Nat, NEW t, NEW u, PowRun(x, m, t), PowRun(x, n, u),
         NEW k \in Nat, k <= m, k <= n
  PROVE  t[k] = u[k]
<1> DEFINE S == {i \in Nat : i <= m /\ i <= n => t[i] = u[i]}
<1>1. /\ t[0] = 1 /\ \A i \in 1 .. m : t[i] = (t[i - 1] * x) % Q
      /\ u[0] = 1 /\ \A i \in 1 .. n : u[i] = (u[i - 1] * x) % Q
  BY DEF PowRun
<1>2. 0 \in S
  BY <1>1
<1>3. ASSUME NEW i \in Nat, i \in S PROVE i + 1 \in S
  <2> SUFFICES ASSUME i + 1 <= m, i + 1 <= n PROVE t[i + 1] = u[i + 1]
    OBVIOUS
  <2>1. t[i] = u[i] /\ i + 1 \in 1 .. m /\ i + 1 \in 1 .. n /\ (i + 1) - 1 = i
    BY <1>3
  <2>2. t[i + 1] = (t[(i + 1) - 1] * x) % Q /\ u[i + 1] = (u[(i + 1) - 1] * x) % Q
    BY <1>1, <2>1
  <2> QED BY <2>1, <2>2
<1> HIDE DEF S
<1>4. k \in S
  BY <1>2, <1>3, SetInduction
<1> QED BY <1>4 DEF S

\* The first power and the next.
LEMMA PowNext ==
  ASSUME NEW x \in Int, NEW n \in Nat
  PROVE  /\ PowMod(x, 0) = 1 /\ PowMod(x, n) \in Int
         /\ PowMod(x, n + 1) = (PowMod(x, n) * x) % Q
<1>1. PICK t : PowRun(x, n, t) /\ PowMod(x, n) = t[n]
  BY PowSteps
<1>2. PICK u : PowRun(x, n + 1, u) /\ PowMod(x, n + 1) = u[n + 1]
  <2>1. n + 1 \in Nat
    OBVIOUS
  <2> QED BY <2>1, PowSteps
<1>3. PICK v : PowRun(x, 0, v) /\ PowMod(x, 0) = v[0]
  BY PowSteps
<1>4. t[n] = u[n]
  <2>1. n + 1 \in Nat /\ n <= n /\ n <= n + 1
    OBVIOUS
  <2> QED BY <1>1, <1>2, <2>1, PowAgrees
<1>5. v[0] = 1
  BY <1>3 DEF PowRun
<1>6. t[n] \in Int
  BY <1>1 DEF PowRun
<1>7. u[n + 1] = (u[n] * x) % Q
  <2>1. \A k \in 1 .. n + 1 : u[k] = (u[k - 1] * x) % Q
    BY <1>2 DEF PowRun
  <2>2. n + 1 \in 1 .. n + 1 /\ (n + 1) - 1 = n
    OBVIOUS
  <2>3. u[n + 1] = (u[(n + 1) - 1] * x) % Q
    BY <2>1, <2>2
  <2> QED BY <2>2, <2>3
<1> QED BY <1>1, <1>2, <1>3, <1>4, <1>5, <1>6, <1>7

\* x^(m + n) is x^m * x^n.
LEMMA PowPlus ==
  ASSUME NEW x \in Int, NEW m \in Nat, NEW n \in Nat
  PROVE  Eq(PowMod(x, m + n), PowMod(x, m) * PowMod(x, n))
<1> DEFINE p == PowMod(x, m)
           S == {i \in Nat : Eq(PowMod(x, m + i), p * PowMod(x, i))}
<1>1. p \in Int
  BY PowNext
<1> HIDE DEF p
<1>2. 0 \in S
  <2>1. PowMod(x, 0) = 1 /\ m + 0 = m /\ p * 1 = p
    BY <1>1, PowNext
  <2>2. Eq(p, p)
    BY <1>1, EqModulus
  <2> QED BY <2>1, <2>2 DEF p
<1>3. ASSUME NEW i \in Nat, i \in S PROVE i + 1 \in S
  <2> DEFINE a == PowMod(x, m + i)
             b == PowMod(x, i)
             c == PowMod(x, m + i + 1)
             d == PowMod(x, i + 1)
  <2>1. a \in Int /\ b \in Int /\ c = (a * x) % Q /\ d = (b * x) % Q
    <3>1. m + i \in Nat
      OBVIOUS
    <3> QED BY <3>1, PowNext
  <2>2. Eq(a, p * b)
    BY <1>3
  <2>3. m + (i + 1) = m + i + 1
    OBVIOUS
  <2> HIDE DEF a, b, c, d
  <2>4. a * x \in Int /\ b * x \in Int /\ p * b \in Int /\ (p * b) * x = p * (b * x) /\ (p * b) * x \in Int
    BY <1>1, <2>1
  <2>5. c \in Int /\ d \in Int /\ Eq(c, a * x) /\ Eq(b * x, d)
    BY <2>1, <2>4, EqModulus
  <2>6. Eq(a * x, (p * b) * x)
    <3>1. Eq(x, x)
      BY EqModulus
    <3> QED BY <2>1, <2>2, <2>4, <3>1, EqProduct
  <2>7. Eq(p * (b * x), p * d) /\ p * d \in Int
    <3>1. Eq(p, p)
      BY <1>1, EqModulus
    <3> QED BY <1>1, <2>4, <2>5, <3>1, EqProduct
  <2>8. Eq(c, p * d)
    BY <2>4, <2>5, <2>6, <2>7, EqThrough
  <2> QED BY <2>3, <2>8 DEF c, d
<1> HIDE DEF S
<1>4. n \in S
  BY <1>2, <1>3, SetInduction
<1> QED BY <1>4 DEF S, p

RevRun(m, t) ==
  t \in [0 .. B -> Nat] /\ t[0] = 0 /\ \A k \in 0 .. B - 1 : t[k + 1] = 2 * t[k] + ((m \div Pow2(k)) % 2)

\* The reversal of bits takes one bit after the other.
LEMMA RevSteps ==
  ASSUME NEW m \in Nat
  PROVE  \E t : RevRun(m, t) /\ BitRev(m) = t[B]
<1> DEFINE x == IntegerToBits(m, B)
           y == Reverse(x)
<1>1. B \in Nat /\ B > 0
  BY ByteSize
<1>2. x \in [1 .. B -> Nat] /\ \A i \in 1 .. B : x[i] = (m \div Pow2(i - 1)) % 2
  <2>1. m \in Int
    OBVIOUS
  <2>2. x \in [1 .. B -> Nat]
    BY <1>1, <2>1, IntegerToBitsType
  <2> QED BY <2>2 DEF IntegerToBits
<1> HIDE DEF x
<1>3. x \in Seq(Nat) /\ Len(x) = B
  BY <1>1, <1>2, AsSequence
<1>4. y = [i \in 1 .. B |-> x[B - i + 1]]
  BY <1>3 DEF Reverse
<1>5. y \in [1 .. B -> Nat]
  BY <1>1, <1>2, <1>4
<1>6. \A k \in 1 .. B : y[B + 1 - k] = x[k]
  <2> TAKE k \in 1 .. B
  <2>1. B + 1 - k \in 1 .. B /\ B - (B + 1 - k) + 1 = k
    BY <1>1
  <2> QED BY <1>4, <2>1
<1> HIDE DEF y
<1>7. PICK t \in [0 .. B -> Nat] :
        /\ BitsToInteger(y) = t[B] /\ t[0] = 0
        /\ \A k \in 1 .. B : t[k] = 2 * t[k - 1] + y[B + 1 - k]
  BY <1>1, <1>5, BitsToIntegerSteps
<1>8. ASSUME NEW k \in 0 .. B - 1 PROVE t[k + 1] = 2 * t[k] + ((m \div Pow2(k)) % 2)
  <2>1. k + 1 \in 1 .. B /\ (k + 1) - 1 = k
    BY <1>1
  <2>2. t[k + 1] = 2 * t[(k + 1) - 1] + y[B + 1 - (k + 1)]
    BY <1>7, <2>1
  <2>3. y[B + 1 - (k + 1)] = x[k + 1] /\ x[k + 1] = (m \div Pow2((k + 1) - 1)) % 2
    BY <1>2, <1>6, <2>1
  <2> QED BY <2>1, <2>2, <2>3
<1>9. RevRun(m, t)
  BY <1>7, <1>8 DEF RevRun
<1>10. BitRev(m) = t[B]
  BY <1>7 DEF BitRev, x, y
<1> QED BY <1>9, <1>10

\* It gives a number.
LEMMA RevType ==
  ASSUME NEW m \in Nat
  PROVE  BitRev(m) \in Nat
<1>1. PICK t : RevRun(m, t) /\ BitRev(m) = t[B]
  BY RevSteps
<1> QED BY <1>1, ByteSize DEF RevRun

\* A number with a bit more in front.
LEMMA RevDouble ==
  ASSUME NEW m \in Nat, NEW b \in {0, 1}, 2 * m < N
  PROVE  2 * BitRev(2 * m + b) = b * N + BitRev(m)
<1> DEFINE n == 2 * m + b
           c == B - 1
<1>1. n \in Nat /\ B \in Nat /\ B > 0 /\ c \in Nat /\ N = Pow2(B) /\ c + 1 = B
  BY ByteSize
<1>2. Pow2(c) \in Nat /\ N = 2 * Pow2(c)
  BY <1>1, PowerType, PowerOfTwo
<1>3. PICK t : RevRun(m, t) /\ BitRev(m) = t[B]
  BY RevSteps
<1>4. PICK u : RevRun(n, u) /\ BitRev(n) = u[B]
  BY <1>1, RevSteps
<1>5. t \in [0 .. B -> Nat] /\ t[0] = 0 /\ \A k \in 0 .. B - 1 : t[k + 1] = 2 * t[k] + ((m \div Pow2(k)) % 2)
  BY <1>3 DEF RevRun
<1>6. u \in [0 .. B -> Nat] /\ u[0] = 0 /\ \A k \in 0 .. B - 1 : u[k + 1] = 2 * u[k] + ((n \div Pow2(k)) % 2)
  BY <1>4 DEF RevRun
<1>7. n \div Pow2(0) = n /\ n % 2 = b /\ n \div 2 = m
  <2>1. (m * 2 + b) \div 2 = m /\ (m * 2 + b) % 2 = b
    BY DivisionUnique
  <2>2. n \div Pow2(0) = n
    BY <1>1, ShiftStep
  <2> QED BY <2>1, <2>2
<1> HIDE DEF n
<1>8. ASSUME NEW k \in Nat PROVE n \div Pow2(k + 1) = m \div Pow2(k)
  <2>1. (n \div 2) \div Pow2(k) = n \div (2 * Pow2(k))
    BY <1>1, PowerType, DivisionTwice
  <2>2. Pow2(k + 1) = 2 * Pow2(k)
    BY PowerOfTwo
  <2> QED BY <1>7, <2>1, <2>2
<1> DEFINE S == {k \in Nat : k + 1 <= B => u[k + 1] = b * Pow2(k) + t[k]}
<1>9. 0 \in S
  <2>1. 0 \in 0 .. B - 1 /\ Pow2(0) = 1
    BY <1>1, PowerOfTwo
  <2>2. u[0 + 1] = 2 * u[0] + ((n \div Pow2(0)) % 2)
    BY <1>6, <2>1
  <2>3. u[0 + 1] = b
    BY <1>6, <1>7, <2>2
  <2> QED BY <1>5, <2>1, <2>3
<1>10. ASSUME NEW k \in Nat, k \in S PROVE k + 1 \in S
  <2> SUFFICES ASSUME k + 2 <= B PROVE u[k + 2] = b * Pow2(k + 1) + t[k + 1]
    <3>1. (k + 1) + 1 = k + 2
      OBVIOUS
    <3> QED BY <3>1
  <2> DEFINE q == (m \div Pow2(k)) % 2
             p == Pow2(k)
  <2>1. k + 1 \in 0 .. B - 1 /\ k \in 0 .. B - 1 /\ (k + 1) + 1 = k + 2
    BY <1>1
  <2>2. u[(k + 1) + 1] = 2 * u[k + 1] + ((n \div Pow2(k + 1)) % 2)
    BY <1>6, <2>1
  <2>3. t[k + 1] = 2 * t[k] + q
    BY <1>5, <2>1
  <2>4. u[k + 1] = b * p + t[k]
    BY <1>1, <1>10, <2>1
  <2>5. Pow2(k + 1) = 2 * p /\ p \in Nat
    BY PowerOfTwo, PowerType
  <2>6. u[k + 2] = 2 * u[k + 1] + q
    BY <1>8, <2>1, <2>2
  <2>7. q \in Int /\ t[k] \in Nat /\ t[k + 1] \in Nat /\ u[k + 1] \in Nat /\ u[k + 2] \in Nat
    <3>1. k \in 0 .. B /\ k + 1 \in 0 .. B /\ k + 2 \in 0 .. B
      BY <1>1, <2>1
    <3>2. t[k] \in Nat /\ t[k + 1] \in Nat /\ u[k + 1] \in Nat /\ u[k + 2] \in Nat
      BY <1>5, <1>6, <3>1
    <3> DEFINE d == m \div Pow2(k)
    <3>3. d \in Nat
      BY ShiftStep
    <3> HIDE DEF d
    <3>4. d % 2 \in Int
      BY <3>3
    <3> QED BY <3>2, <3>4 DEF d
  <2> HIDE DEF q, p
  <2>8. CASE b = 0
    BY <2>3, <2>4, <2>5, <2>6, <2>7, <2>8
  <2>9. CASE b = 1
    BY <2>3, <2>4, <2>5, <2>6, <2>7, <2>9
  <2> QED BY <2>8, <2>9
<1> HIDE DEF S
<1>11. c \in S
  BY <1>1, <1>9, <1>10, SetInduction
<1>12. u[B] = b * Pow2(c) + t[c]
  BY <1>1, <1>11 DEF S
<1>13. t[B] = 2 * t[c]
  <2>1. c \in 0 .. B - 1
    BY <1>1
  <2>2. t[c + 1] = 2 * t[c] + ((m \div Pow2(c)) % 2)
    BY <1>5, <2>1
  <2>3. m \in 0 .. Pow2(c) - 1
    BY <1>2
  <2> DEFINE d == m \div Pow2(c)
  <2>4. d = 0
    BY <1>1, <2>3, NoBitsBeyond
  <2>5. t[c + 1] = 2 * t[c] + (d % 2)
    BY <2>2
  <2> HIDE DEF d
  <2>6. d % 2 = 0 /\ t[c] \in Nat /\ t[c + 1] = t[B]
    <3>1. c \in 0 .. B /\ c + 1 = B
      BY <1>1
    <3> QED BY <1>5, <2>4, <3>1
  <2> HIDE DEF c
  <2> QED BY <2>5, <2>6
<1>14. t[c] \in Nat /\ u[B] \in Nat
  BY <1>1, <1>5, <1>6
<1> HIDE DEF c
<1>15. CASE b = 0
  BY <1>2, <1>3, <1>4, <1>12, <1>13, <1>14, <1>15 DEF n
<1>16. CASE b = 1
  BY <1>2, <1>3, <1>4, <1>12, <1>13, <1>14, <1>16 DEF n
<1> QED BY <1>15, <1>16

-----------------------------------------------------------------------------
(* Rounding.                                                                *)
\* y is m modulo alpha, in the middle.
Centred(y, m, alpha) ==
  /\ y \in Int /\ y <= alpha \div 2 /\ y > (alpha \div 2) - alpha
  /\ \E k \in Int : y = m + k * alpha

\* ModPm is the representative in the middle, and the only one.
LEMMA ModPmCentred ==
  ASSUME NEW m \in Int, NEW alpha \in Nat, alpha > 0
  PROVE  Centred(ModPm(m, alpha), m, alpha)
<1> DEFINE h == alpha \div 2
           x == h - m
           q == x \div alpha
           r == x % alpha
<1>1. h \in Nat
  OBVIOUS
<1>2. x \in Int /\ m = h - x
  BY <1>1
<1>3. q \in Int /\ r \in 0 .. alpha - 1 /\ x = q * alpha + r
  BY <1>2
<1>4. ModPm(m, alpha) = -r + h
  BY DEF ModPm
<1> HIDE DEF h, x, q, r
<1>5. -r + h = m + q * alpha /\ -r + h \in Int /\ -r + h <= h /\ -r + h > h - alpha
  BY <1>1, <1>2, <1>3
<1> QED BY <1>3, <1>4, <1>5 DEF Centred, h

\* ModPm gives the one number in the centred range.
LEMMA ModPmIs ==
  ASSUME NEW m \in Int, NEW alpha \in Nat, alpha > 0, NEW y, Centred(y, m, alpha)
  PROVE  ModPm(m, alpha) = y
<1> DEFINE h == alpha \div 2
<1>1. h \in Nat
  OBVIOUS
<1>2. y \in Int /\ y <= h /\ y > h - alpha
  BY DEF Centred
<1>3. PICK k \in Int : y = m + k * alpha
  BY DEF Centred
<1> DEFINE x == h - m
           r == h - y
<1>4. r \in Nat /\ r < alpha
  BY <1>1, <1>2
<1>5. x = k * alpha + r
  BY <1>1, <1>2, <1>3
<1>6. (k * alpha + r) % alpha = r
  <2> HIDE DEF r
  <2> QED BY <1>4, DivisionUnique
<1>7. ModPm(m, alpha) = -(x % alpha) + h
  BY DEF ModPm
<1>8. x % alpha = r
  <2> HIDE DEF x, r
  <2> QED BY <1>5, <1>6
<1> HIDE DEF x, h
<1> QED BY <1>1, <1>2, <1>7, <1>8

\* The absolute value of the representative in the middle.
Small(x, b) == x \in Int /\ -b < x /\ x < b

\* The absolute value bounds the centred number.
LEMMA AbsIs ==
  ASSUME NEW x \in Int
  PROVE  /\ AbsModPm(x) \in 0 .. Q /\ ModPm(x, Q) \in Int /\ Eq(ModPm(x, Q), x)
         /\ \A b \in Int : AbsModPm(x) < b => Small(ModPm(x, Q), b)
<1>1. Q \in Nat /\ Q > 0
  BY Parameters
<1> DEFINE y == ModPm(x, Q)
<1>2. Centred(y, x, Q)
  BY <1>1, ModPmCentred
<1> HIDE DEF y
<1>3. y \in Int /\ y <= Q \div 2 /\ y > (Q \div 2) - Q
  BY <1>2 DEF Centred
<1>4. y <= Q /\ -y <= Q
  BY <1>1, <1>3
<1>5. PICK k \in Int : y = x + k * Q
  BY <1>2 DEF Centred
<1>6. Eq(y, x)
  BY <1>3, <1>5, EqIf
<1>7. AbsModPm(x) = IF y < 0 THEN -y ELSE y
  BY DEF AbsModPm, y
<1>8. AbsModPm(x) \in 0 .. Q
  BY <1>1, <1>3, <1>4, <1>7
<1>9. ASSUME NEW b \in Int, AbsModPm(x) < b PROVE Small(y, b)
  BY <1>3, <1>7, <1>9 DEF Small
<1> QED BY <1>3, <1>6, <1>8, <1>9 DEF y

\* Of numbers that are equal modulo Q the same representative is taken.
LEMMA ModPmEq ==
  ASSUME NEW x \in Int, NEW y \in Int, Eq(x, y)
  PROVE  ModPm(x, Q) = ModPm(y, Q) /\ AbsModPm(x) = AbsModPm(y)
<1>1. Q \in Nat /\ Q > 0
  BY Parameters
<1> DEFINE z == ModPm(y, Q)
<1>2. Centred(z, y, Q)
  BY <1>1, ModPmCentred
<1> HIDE DEF z
<1>3. PICK k \in Int : z = y + k * Q
  BY <1>2 DEF Centred
<1>4. Eq(y, x)
  BY EqThrough
<1>5. PICK i \in Int : y = x + i * Q
  BY <1>4, EqThen
<1>6. z = x + (k + i) * Q /\ k + i \in Int
  BY <1>1, <1>3, <1>5
<1>7. Centred(z, x, Q)
  BY <1>2, <1>6 DEF Centred
<1>8. ModPm(x, Q) = z
  BY <1>1, <1>7, ModPmIs
<1> QED BY <1>8 DEF z, AbsModPm

\* A number below half of Q is its own representative.
LEMMA ModPmSelf ==
  ASSUME NEW x \in Int, NEW b \in Nat, Small(x, b), 2 * b <= Q
  PROVE  ModPm(x, Q) = x /\ AbsModPm(x) < b
<1>1. Q \in Nat /\ Q > 0
  BY Parameters
<1>2. -b < x /\ x < b
  BY DEF Small
<1>3. x <= Q \div 2 /\ x > (Q \div 2) - Q
  BY <1>1, <1>2
<1>4. x = x + 0 * Q /\ 0 \in Int
  BY <1>1
<1>5. Centred(x, x, Q)
  BY <1>3, <1>4 DEF Centred
<1>6. ModPm(x, Q) = x
  BY <1>1, <1>5, ModPmIs
<1> QED BY <1>2, <1>6 DEF AbsModPm

\* The infinity norm is below a bound when every coefficient is.
Below(v, n, b) == \A i \in 0 .. n - 1, j \in Coeff : AbsModPm(v[i][j]) < b

\* The norm of a vector is the largest of all coefficients.
LEMMA NormBound ==
  ASSUME NEW n \in Nat, n > 0, NEW v \in Vector(n, Int), NEW b \in Int
  PROVE  InfNorm(v) < b <=> Below(v, n, b)
<1> DEFINE s == UNION {{AbsModPm(v[i][j]) : j \in Coeff} : i \in DOMAIN v}
<1>1. Q \in Nat /\ N \in Nat /\ N > 0
  BY Parameters, ByteSize
<1>2. DOMAIN v = 0 .. n - 1 /\ \A i \in 0 .. n - 1, j \in Coeff : v[i][j] \in Int
  BY DEF Vector
<1>3. \A i \in 0 .. n - 1, j \in Coeff : AbsModPm(v[i][j]) \in 0 .. Q /\ AbsModPm(v[i][j]) \in s
  BY <1>2, AbsIs
<1>4. \A y \in s : \E i \in 0 .. n - 1, j \in Coeff : y = AbsModPm(v[i][j])
  BY <1>2
<1>5. 0 \in 0 .. n - 1 /\ 0 \in Coeff
  BY <1>1 DEF Coeff
<1> HIDE DEF s
<1>6. s \in SUBSET (0 .. Q) /\ s # {}
  BY <1>3, <1>4, <1>5
<1>7. Max(s) \in s /\ \A y \in s : Max(s) >= y
  BY <1>1, <1>6, Greatest
<1>8. InfNorm(v) = Max(s)
  BY DEF InfNorm, s
<1>9. \A y \in s : y \in Int
  BY <1>6
<1> QED BY <1>3, <1>4, <1>7, <1>8, <1>9 DEF Below

\* Twice gamma_2 and how often it fits.
Gamma == 2 * Gam2
Parts == (Q - 1) \div (2 * Gam2)

\* Parts of width 2 * Gam2 make up all numbers below Q - 1.
LEMMA GammaIs ==
  /\ Gamma \in Nat /\ Gamma > 0 /\ Gamma = 2 * Gam2 /\ Gam2 \in Nat /\ Gam2 > 0 /\ Gamma \div 2 = Gam2
  /\ Parts \in Nat /\ Parts >= 2 /\ Q - 1 = Parts * Gamma /\ Q \in Nat /\ Q > 0 /\ W1Bound = Parts - 1
  /\ Gamma <= Q - 1
<1>1. /\ Q \in Nat /\ Q > 2 /\ Gam2 \in Nat /\ Gam2 > 0
      /\ (Q - 1) % (2 * Gam2) = 0 /\ (Q - 1) \div (2 * Gam2) >= 2
  BY Parameters
<1> DEFINE g == 2 * Gam2
           x == Q - 1
           a == x \div g
           b == x % g
<1>2. g \in Nat /\ g > 0 /\ x \in Nat
  BY <1>1
<1>3. a \in Int /\ x = a * g + b /\ b = 0 /\ a >= 2
  <2> HIDE DEF g, x
  <2>1. a \in Int /\ x = a * g + b
    BY <1>2
  <2> USE DEF g, x
  <2> QED BY <1>1, <2>1
<1>4. g \div 2 = Gam2
  BY <1>1
<1>5. Gamma = g /\ Parts = a /\ W1Bound = a - 1
  BY DEF Gamma, Parts, W1Bound
<1> HIDE DEF g, a, b
<1>6. 1 * g <= a * g /\ a * g \in Int
  <2>1. 1 \in Int /\ 1 <= a
    BY <1>3
  <2>2. 1 * g <= a * g
    BY <1>2, <1>3, <2>1, TimesMonotone
  <2> QED BY <1>2, <1>3, <2>2
<1>7. g <= x
  BY <1>2, <1>3, <1>6
<1> QED BY <1>1, <1>2, <1>3, <1>4, <1>5, <1>7 DEF g

\* High part a and low part e; the low part is the one in the middle, and one less below
\* zero when the number wraps.
Cuts(x, a, e) ==
  /\ a \in 0 .. Parts - 1 /\ e \in Int /\ Eq(x, a * Gamma + e)
  /\ e <= Gam2 /\ (e > -Gam2 \/ (e = -Gam2 /\ a = 0))

\* decompose says in which part a number lies, and where in it.
LEMMA DecomposeCuts ==
  ASSUME NEW r \in Int
  PROVE  Cuts(r, Decompose(r).r1, Decompose(r).r0)
<1>1. /\ Gamma \in Nat /\ Gamma > 0 /\ Gamma = 2 * Gam2 /\ Gam2 \in Nat /\ Gam2 > 0 /\ Gamma \div 2 = Gam2
      /\ Parts \in Nat /\ Parts >= 2 /\ Q - 1 = Parts * Gamma /\ Q \in Nat /\ Q > 0
  BY GammaIs
<1> DEFINE rp == r % Q
           r0 == ModPm(rp, Gamma)
           k == (rp - r0) \div Gamma
<1>2. rp \in 0 .. Q - 1 /\ rp \in Int /\ Eq(r, rp)
  BY EqModulus
<1> HIDE DEF rp
<1>3. Centred(r0, rp, Gamma)
  BY <1>1, <1>2, ModPmCentred
<1> HIDE DEF r0
<1>4. r0 \in Int /\ r0 <= Gam2 /\ r0 > -Gam2
  BY <1>1, <1>3 DEF Centred
<1>5. PICK i \in Int : r0 = rp + i * Gamma
  BY <1>3 DEF Centred
<1>6. rp - r0 = (-i) * Gamma + 0 /\ -i \in Int
  BY <1>1, <1>2, <1>4, <1>5
<1>7. k = -i
  <2>1. ((-i) * Gamma + 0) \div Gamma = -i
    BY <1>1, <1>6, DivisionUnique
  <2> QED BY <1>6, <2>1
<1> HIDE DEF k
<1>8. k \in Int /\ rp - r0 = k * Gamma /\ k * Gamma \in Int
  BY <1>1, <1>6, <1>7
<1>9. k >= 0
  <2> SUFFICES ASSUME k <= -1 PROVE FALSE
    BY <1>8
  <2>1. k * Gamma <= (-1) * Gamma
    BY <1>1, <1>8, TimesMonotone
  <2> QED BY <1>1, <1>2, <1>4, <1>8, <2>1
<1>10. k <= Parts
  <2> SUFFICES ASSUME k >= Parts + 1 PROVE FALSE
    BY <1>1, <1>8
  <2>1. (Parts + 1) * Gamma <= k * Gamma
    <3>1. Parts + 1 \in Int
      BY <1>1
    <3> QED BY <1>1, <1>8, <3>1, TimesMonotone
  <2>2. (Parts + 1) * Gamma = Parts * Gamma + Gamma
    BY <1>1
  <2> QED BY <1>1, <1>2, <1>4, <1>8, <2>1, <2>2
<1>11. Decompose(r) = IF rp - r0 = Q - 1 THEN [r1 |-> 0, r0 |-> r0 - 1] ELSE [r1 |-> k, r0 |-> r0]
  BY DEF Decompose, rp, r0, k, Gamma
<1>12. CASE rp - r0 = Q - 1
  <2>1. Decompose(r).r1 = 0 /\ Decompose(r).r0 = r0 - 1
    BY <1>11, <1>12
  <2>2. r0 <= 0
    BY <1>2, <1>4, <1>12
  <2>3. rp = (0 * Gamma + (r0 - 1)) + 1 * Q /\ 0 * Gamma + (r0 - 1) \in Int /\ 1 \in Int
    BY <1>1, <1>2, <1>4, <1>12
  <2>4. Eq(rp, 0 * Gamma + (r0 - 1))
    BY <1>2, <2>3, EqIf
  <2>5. Eq(r, 0 * Gamma + (r0 - 1))
    BY <1>2, <2>3, <2>4, EqThrough
  <2>6. 0 \in 0 .. Parts - 1 /\ r0 - 1 \in Int /\ r0 - 1 <= Gam2 /\ r0 - 1 >= -Gam2
    BY <1>1, <1>4
  <2>7. Cuts(r, 0, r0 - 1)
    BY <1>1, <2>5, <2>6 DEF Cuts
  <2> QED BY <2>1, <2>7
<1>13. CASE rp - r0 # Q - 1
  <2>1. Decompose(r).r1 = k /\ Decompose(r).r0 = r0
    BY <1>11, <1>13
  <2>2. k # Parts
    BY <1>1, <1>8, <1>13
  <2>3. k \in 0 .. Parts - 1
    BY <1>1, <1>8, <1>9, <1>10, <2>2
  <2>4. rp = k * Gamma + r0
    BY <1>2, <1>4, <1>8
  <2>5. Eq(r, k * Gamma + r0)
    BY <1>2, <2>4
  <2>6. Cuts(r, k, r0)
    BY <1>4, <2>3, <2>5 DEF Cuts
  <2> QED BY <2>1, <2>6
<1> QED BY <1>12, <1>13

\* There is one way to cut a number.
LEMMA DecomposeIs ==
  ASSUME NEW r \in Int, NEW a, NEW e, Cuts(r, a, e)
  PROVE  Decompose(r) = [r1 |-> a, r0 |-> e]
<1>1. /\ Gamma \in Nat /\ Gamma > 0 /\ Gamma = 2 * Gam2 /\ Gam2 \in Nat /\ Gam2 > 0 /\ Gamma \div 2 = Gam2
      /\ Parts \in Nat /\ Parts >= 2 /\ Q - 1 = Parts * Gamma /\ Q \in Nat /\ Q > 0
  BY GammaIs
<1>2. /\ a \in 0 .. Parts - 1 /\ e \in Int /\ Eq(r, a * Gamma + e) /\ e <= Gam2 /\ e >= -Gam2
      /\ (e > -Gam2 \/ a = 0)
  BY <1>1 DEF Cuts
<1> DEFINE rp == r % Q
           p == a * Gamma
           r0 == ModPm(rp, Gamma)
<1>3. rp \in 0 .. Q - 1 /\ rp \in Int
  BY EqModulus
<1>4. p \in Int /\ p >= 0 /\ p <= Q - 1 - Gamma
  <2>1. a \in Int /\ 0 <= a /\ Parts - 1 \in Int /\ a <= Parts - 1 /\ 0 \in Int
    BY <1>1, <1>2
  <2>2. 0 * Gamma <= a * Gamma
    BY <1>1, <2>1, TimesMonotone
  <2>3. a * Gamma <= (Parts - 1) * Gamma
    BY <1>1, <2>1, TimesMonotone
  <2>4. (Parts - 1) * Gamma = Parts * Gamma - Gamma /\ a * Gamma \in Int /\ 0 * Gamma = 0
    BY <1>1, <2>1
  <2> QED BY <1>1, <2>2, <2>3, <2>4
<1>5. Eq(rp, p + e) /\ p + e \in Int
  <2>1. p + e \in Int
    BY <1>2, <1>4
  <2>2. Eq(r, rp)
    BY EqModulus
  <2>3. Eq(rp, r)
    BY <1>3, <2>2, EqThrough
  <2> QED BY <1>2, <1>3, <2>1, <2>3, EqThrough
<1>6. Decompose(r) = IF rp - r0 = Q - 1 THEN [r1 |-> 0, r0 |-> r0 - 1]
                     ELSE [r1 |-> (rp - r0) \div Gamma, r0 |-> r0]
  BY DEF Decompose, Gamma
<1> HIDE DEF rp
<1>7. CASE p + e >= 0
  <2>1. rp = p + e
    <3>1. rp - (p + e) < Q /\ (p + e) - rp < Q
      BY <1>1, <1>2, <1>3, <1>4, <1>7
    <3> QED BY <1>3, <1>5, <3>1, EqNear
  <2>2. e > -Gam2
    BY <1>1, <1>2, <1>7
  <2>3. e = rp + (-a) * Gamma /\ -a \in Int
    BY <1>1, <1>2, <2>1
  <2>4. Centred(e, rp, Gamma)
    BY <1>1, <1>2, <2>2, <2>3 DEF Centred
  <2>5. r0 = e
    BY <1>1, <1>3, <2>4, ModPmIs
  <2>6. rp - r0 = a * Gamma + 0
    BY <1>2, <1>4, <2>1, <2>5
  <2>7. (a * Gamma + 0) \div Gamma = a
    BY <1>1, <1>2, DivisionUnique
  <2>8. rp - r0 # Q - 1
    <3>1. a * Gamma \in Int /\ a * Gamma <= Q - 1 - Gamma
      BY <1>4
    <3> QED BY <1>1, <2>6, <3>1
  <2> QED BY <1>6, <2>5, <2>6, <2>7, <2>8
<1>8. CASE p + e < 0
  <2>1. a = 0
    <3> SUFFICES ASSUME a >= 1 PROVE FALSE
      BY <1>2
    <3>1. 1 * Gamma <= a * Gamma
      <4>1. a \in Int /\ 1 \in Int
        BY <1>2
      <4> QED BY <1>1, <4>1, TimesMonotone
    <3> QED BY <1>1, <1>2, <1>4, <1>8, <3>1
  <2>2. p = 0
    BY <1>1, <2>1
  <2>3. Eq(rp, Q + e) /\ Q + e \in Int
    <3>1. Q + e \in Int /\ p + e = (Q + e) + (-1) * Q /\ -1 \in Int
      BY <1>1, <1>2, <2>2
    <3>2. Eq(p + e, Q + e)
      BY <1>5, <3>1, EqIf
    <3> QED BY <1>3, <1>5, <3>1, <3>2, EqThrough
  <2>4. rp = Q + e
    <3>1. rp - (Q + e) < Q /\ (Q + e) - rp < Q
      <4>1. Q + e >= 0 /\ Q + e < Q
        <5>1. Gamma <= Q - 1
          BY GammaIs
        <5> QED BY <1>1, <1>2, <1>8, <2>2, <5>1
      <4> QED BY <1>1, <1>2, <1>3, <4>1
    <3> QED BY <1>3, <2>3, <3>1, EqNear
  <2>5. e + 1 = rp + (-Parts) * Gamma /\ -Parts \in Int
    BY <1>1, <1>2, <2>4
  <2>6. e < 0
    BY <1>2, <1>8, <2>2
  <2>7. Centred(e + 1, rp, Gamma)
    <3>1. e + 1 \in Int /\ e + 1 <= Gam2 /\ e + 1 > Gam2 - Gamma
      BY <1>1, <1>2, <2>6
    <3> QED BY <1>1, <2>5, <3>1 DEF Centred
  <2>8. r0 = e + 1
    BY <1>1, <1>3, <2>7, ModPmIs
  <2>9. rp - r0 = Q - 1 /\ r0 - 1 = e
    BY <1>1, <1>2, <2>4, <2>8
  <2> QED BY <1>6, <2>1, <2>9
<1> QED BY <1>2, <1>4, <1>7, <1>8

\* What decompose gives back.
LEMMA DecomposeType ==
  ASSUME NEW r \in Int
  PROVE  /\ Decompose(r).r1 \in 0 .. W1Bound /\ Decompose(r).r0 \in Int
         /\ Decompose(r).r0 <= Gam2 /\ Decompose(r).r0 >= -Gam2
<1> DEFINE a == Decompose(r).r1
           e == Decompose(r).r0
<1>1. Cuts(r, a, e)
  BY DecomposeCuts
<1> HIDE DEF a, e
<1>2. a \in 0 .. Parts - 1 /\ e \in Int /\ e <= Gam2 /\ e >= -Gam2
  BY <1>1, GammaIs DEF Cuts
<1>3. W1Bound = Parts - 1
  BY GammaIs
<1> QED BY <1>2, <1>3 DEF a, e

\* Numbers that are equal modulo Q are cut alike.
LEMMA DecomposeEq ==
  ASSUME NEW x \in Int, NEW y \in Int, Eq(x, y)
  PROVE  Decompose(x) = Decompose(y)
<1>1. Q \in Nat /\ Q > 0 /\ Gamma = 2 * Gam2
  BY GammaIs
<1> QED BY DEF Decompose, Eq

\* A number close to another one with a low part well inside has the same high part.
LEMMA HighKept ==
  ASSUME NEW x \in Int, NEW s \in Int, NEW y \in Int, Eq(y, x - s), NEW b \in Nat,
         s <= b, s >= -b, Small(Decompose(y).r0, Gam2 - b)
  PROVE  Decompose(x).r1 = Decompose(y).r1
<1> DEFINE a == Decompose(y).r1
           e == Decompose(y).r0
<1>1. Cuts(y, a, e)
  BY DecomposeCuts
<1>2. e < Gam2 - b /\ -(Gam2 - b) < e
  BY DEF Small
<1> HIDE DEF a, e
<1>3. a \in 0 .. Parts - 1 /\ e \in Int /\ Eq(y, a * Gamma + e)
  BY <1>1 DEF Cuts
<1>4. Gamma \in Nat /\ Gam2 \in Nat /\ Gam2 > 0 /\ Parts \in Nat
  BY GammaIs
<1> DEFINE p == a * Gamma
<1>5. p \in Int
  BY <1>3, <1>4
<1>6. Eq(y, p + e)
  BY <1>3
<1> HIDE DEF p
<1>7. Eq(x, p + (e + s))
  <2>1. x - s \in Int /\ p + e \in Int /\ (p + e) + s = p + (e + s) /\ (x - s) + s = x
    BY <1>3, <1>5
  <2>2. Eq(x - s, y)
    BY <2>1, EqThrough
  <2>3. Eq(x - s, p + e)
    BY <1>6, <2>1, <2>2, EqThrough
  <2>4. Eq(s, s)
    BY EqModulus
  <2>5. Eq((x - s) + s, (p + e) + s)
    BY <2>1, <2>3, <2>4, EqSum
  <2> QED BY <2>1, <2>5
<1>8. e + s \in Int /\ e + s <= Gam2 /\ e + s > -Gam2
  BY <1>2, <1>3, <1>4
<1>9. Cuts(x, a, e + s)
  BY <1>3, <1>7, <1>8 DEF Cuts, p
<1>10. Decompose(x).r1 = a
  BY <1>9, DecomposeIs
<1> QED BY <1>10 DEF a

\* The high part moves by one at most when less than gamma_2 is added, up when the low part
\* was above zero and down otherwise.
Hinted(bit, d) == IF bit # 1 THEN d.r1 ELSE IF d.r0 > 0 THEN (d.r1 + 1) % Parts ELSE (d.r1 - 1) % Parts

\* A number moved by less than Gam2 stays in its part or gets to the next one (use_hint).
LEMMA CutMove ==
  ASSUME NEW x \in Int, NEW a, NEW e, Cuts(x, a, e), NEW z \in Int, z < Gam2, z > -Gam2, NEW y \in Int,
         Eq(y, x + z)
  PROVE  \/ Decompose(y).r1 = a
         \/ e > 0 /\ Decompose(y).r1 = (a + 1) % Parts
         \/ e <= 0 /\ Decompose(y).r1 = (a - 1) % Parts
<1>1. /\ Gamma \in Nat /\ Gamma > 0 /\ Gamma = 2 * Gam2 /\ Gam2 \in Nat /\ Gam2 > 0
      /\ Parts \in Nat /\ Parts >= 2 /\ Q - 1 = Parts * Gamma /\ Q \in Nat /\ Q > 0
  BY GammaIs
<1>2. /\ a \in 0 .. Parts - 1 /\ e \in Int /\ Eq(x, a * Gamma + e) /\ e <= Gam2 /\ e >= -Gam2
      /\ (e > -Gam2 \/ a = 0)
  BY <1>1 DEF Cuts
<1> DEFINE p == a * Gamma
           t == e + z
<1>3. p \in Int /\ t \in Int
  BY <1>1, <1>2
<1>4. Eq(y, p + t)
  <2>1. x + z \in Int /\ p + e \in Int /\ (p + e) + z = p + t
    BY <1>2, <1>3
  <2>2. Eq(z, z)
    BY EqModulus
  <2>3. Eq(x + z, (p + e) + z)
    BY <1>2, <2>1, <2>2, EqSum
  <2>4. (p + e) + z \in Int
    BY <2>1
  <2> QED BY <2>1, <2>3, <2>4, EqThrough
<1>5. ASSUME NEW b \in 0 .. Parts - 1, NEW f \in Int, NEW k \in Int, p + t = (b * Gamma + f) + k * Q,
             f <= Gam2, f > -Gam2 \/ (f = -Gam2 /\ b = 0)
      PROVE  Decompose(y).r1 = b
  <2>1. b * Gamma + f \in Int /\ p + t \in Int
    BY <1>1, <1>3, <1>5
  <2>2. Eq(p + t, b * Gamma + f)
    BY <1>5, <2>1, EqIf
  <2>3. Eq(y, b * Gamma + f)
    BY <1>4, <2>1, <2>2, EqThrough
  <2>4. Cuts(y, b, f)
    BY <1>5, <2>3 DEF Cuts
  <2>5. Decompose(y) = [r1 |-> b, r0 |-> f]
    BY <2>4, DecomposeIs
  <2> QED BY <2>5
<1>6. CASE t <= Gam2 /\ (t > -Gam2 \/ (t = -Gam2 /\ a = 0))
  <2>1. p + t = (a * Gamma + t) + 0 * Q /\ 0 \in Int
    BY <1>1, <1>3
  <2>2. Decompose(y).r1 = a
    BY <1>2, <1>3, <1>5, <1>6, <2>1
  <2> QED BY <2>2
<1>7. CASE t > Gam2
  <2>1. e > 0 /\ t - Gamma \in Int /\ t - Gamma <= Gam2 /\ t - Gamma > -Gam2 /\ t - Gamma < 0
    BY <1>1, <1>2, <1>3, <1>7
  <2>2. CASE a + 1 < Parts
    <3>1. a + 1 \in 0 .. Parts - 1
      BY <1>1, <1>2, <2>2
    <3>2. p + t = ((a + 1) * Gamma + (t - Gamma)) + 0 * Q /\ 0 \in Int
      <4>1. (a + 1) * Gamma = p + Gamma
        BY <1>1, <1>2
      <4> QED BY <1>1, <1>3, <4>1
    <3>3. Decompose(y).r1 = a + 1
      BY <1>5, <2>1, <3>1, <3>2
    <3>4. (a + 1) % Parts = a + 1
      <4>1. a + 1 \in Nat
        BY <3>1
      <4>2. (0 * Parts + (a + 1)) % Parts = a + 1
        BY <1>1, <2>2, <4>1, DivisionUnique
      <4>3. 0 * Parts + (a + 1) = a + 1
        BY <1>1, <4>1
      <4> QED BY <4>2, <4>3
    <3> QED BY <2>1, <3>3, <3>4
  <2>3. CASE a + 1 >= Parts
    <3>1. a + 1 = Parts
      BY <1>1, <1>2, <2>3
    <3>2. p + t = (0 * Gamma + (t - Gamma - 1)) + 1 * Q /\ 1 \in Int
      <4>1. p + Gamma = Parts * Gamma
        <5>1. (a + 1) * Gamma = p + Gamma
          BY <1>1, <1>2
        <5> QED BY <3>1, <5>1
      <4> QED BY <1>1, <1>3, <4>1
    <3>3. 0 \in 0 .. Parts - 1 /\ t - Gamma - 1 \in Int /\ t - Gamma - 1 <= Gam2
      BY <1>1, <2>1
    <3>4. t - Gamma - 1 > -Gam2 \/ t - Gamma - 1 = -Gam2
      BY <1>1, <1>3, <2>1
    <3>5. Decompose(y).r1 = 0
      BY <1>5, <3>2, <3>3, <3>4
    <3>6. (1 * Parts + 0) % Parts = 0 /\ 1 * Parts + 0 = Parts
      <4>1. (1 * Parts + 0) % Parts = 0
        BY <1>1, DivisionUnique
      <4> QED BY <1>1, <4>1
    <3> QED BY <2>1, <3>1, <3>5, <3>6
  <2> QED BY <1>1, <1>2, <2>2, <2>3
<1>8. CASE ~ (t <= Gam2 /\ (t > -Gam2 \/ (t = -Gam2 /\ a = 0))) /\ ~ (t > Gam2)
  <2>1. t <= -Gam2 /\ (a = 0 => t < -Gam2)
    BY <1>1, <1>2, <1>3, <1>8
  <2>2. e <= 0 /\ t > -Gamma /\ t + Gamma \in Int /\ t + Gamma <= Gam2 /\ t + Gamma > 0
    BY <1>1, <1>2, <1>3, <2>1
  <2>3. CASE a > 0
    <3>1. a - 1 \in 0 .. Parts - 1 /\ a - 1 \in Nat
      BY <1>1, <1>2, <2>3
    <3>2. p + t = ((a - 1) * Gamma + (t + Gamma)) + 0 * Q /\ 0 \in Int
      <4>1. (a - 1) * Gamma = p - Gamma
        BY <1>1, <1>2
      <4> QED BY <1>1, <1>3, <4>1
    <3>3. t + Gamma > -Gam2
      BY <1>1, <2>2
    <3>4. Decompose(y).r1 = a - 1
      BY <1>5, <2>2, <3>1, <3>2, <3>3
    <3>5. (a - 1) % Parts = a - 1
      <4>1. (0 * Parts + (a - 1)) % Parts = a - 1
        BY <1>1, <3>1, DivisionUnique
      <4>2. 0 * Parts + (a - 1) = a - 1
        BY <1>1, <3>1
      <4> QED BY <4>1, <4>2
    <3> QED BY <2>2, <3>4, <3>5
  <2>4. CASE a = 0
    <3>1. Parts - 1 \in 0 .. Parts - 1 /\ Parts - 1 \in Nat
      BY <1>1
    <3>2. p + t = ((Parts - 1) * Gamma + (t + Gamma + 1)) + (-1) * Q /\ -1 \in Int
      <4>1. (Parts - 1) * Gamma = Parts * Gamma - Gamma /\ p = 0
        BY <1>1, <2>4
      <4> QED BY <1>1, <1>3, <4>1
    <3>3. t + Gamma + 1 \in Int /\ t + Gamma + 1 > -Gam2 /\ t + Gamma + 1 <= Gam2
      BY <1>1, <1>3, <2>1, <2>2, <2>4
    <3>4. Decompose(y).r1 = Parts - 1
      BY <1>5, <3>1, <3>2, <3>3
    <3>5. (a - 1) % Parts = Parts - 1
      <4>1. ((-1) * Parts + (Parts - 1)) % Parts = Parts - 1
        BY <1>1, <3>1, DivisionUnique
      <4>2. (-1) * Parts + (Parts - 1) = a - 1
        BY <1>1, <2>4
      <4> QED BY <4>1, <4>2
    <3> QED BY <2>2, <3>4, <3>5
  <2> QED BY <1>2, <2>3, <2>4
<1> QED BY <1>6, <1>7, <1>8

\* use_hint gives the high part of what make_hint saw.
LEMMA HintedIs ==
  ASSUME NEW x \in Int, NEW z \in Int, z < Gam2, z > -Gam2, NEW y \in Int, Eq(y, x + z)
  PROVE  Hinted(IF Decompose(x).r1 = Decompose(y).r1 THEN 0 ELSE 1, Decompose(x)) = Decompose(y).r1
<1> DEFINE a == Decompose(x).r1
           e == Decompose(x).r0
<1>1. Cuts(x, a, e)
  BY DecomposeCuts
<1> HIDE DEF a, e
<1>2. \/ Decompose(y).r1 = a
      \/ e > 0 /\ Decompose(y).r1 = (a + 1) % Parts
      \/ e <= 0 /\ Decompose(y).r1 = (a - 1) % Parts
  BY <1>1, CutMove
<1>3. e \in Int
  BY <1>1 DEF Cuts
<1>4. CASE Decompose(y).r1 = a
  BY <1>4 DEF Hinted, a
<1>5. CASE Decompose(y).r1 # a
  <2>1. (e > 0 /\ Decompose(y).r1 = (a + 1) % Parts) \/ (~ (e > 0) /\ Decompose(y).r1 = (a - 1) % Parts)
    BY <1>2, <1>3, <1>5
  <2> QED BY <1>5, <2>1 DEF Hinted, a, e
<1> QED BY <1>4, <1>5

\* A hint changes the high part.
LEMMA HintedOther ==
  ASSUME NEW x \in Int
  PROVE  /\ Hinted(0, Decompose(x)) # Hinted(1, Decompose(x))
         /\ Hinted(0, Decompose(x)) \in 0 .. W1Bound /\ Hinted(1, Decompose(x)) \in 0 .. W1Bound
<1> DEFINE a == Decompose(x).r1
           e == Decompose(x).r0
<1>1. Parts \in Nat /\ Parts >= 2 /\ W1Bound = Parts - 1
  BY GammaIs
<1>2. a \in 0 .. Parts - 1
  BY <1>1, DecomposeType
<1>3. Hinted(0, Decompose(x)) = a
        /\ Hinted(1, Decompose(x)) = IF e > 0 THEN (a + 1) % Parts ELSE (a - 1) % Parts
  BY DEF Hinted
<1> HIDE DEF a, e
<1>4. (a + 1) % Parts # a /\ (a + 1) % Parts \in 0 .. Parts - 1
  <2>1. CASE a + 1 < Parts
    <3>1. (0 * Parts + (a + 1)) % Parts = a + 1
      <4>1. a + 1 \in Nat
        BY <1>2
      <4> QED BY <1>1, <2>1, <4>1, DivisionUnique
    <3>2. 0 * Parts + (a + 1) = a + 1
      BY <1>1, <1>2
    <3> QED BY <1>1, <1>2, <2>1, <3>1, <3>2
  <2>2. CASE a + 1 = Parts
    <3>1. (1 * Parts + 0) % Parts = 0 /\ 1 * Parts + 0 = Parts
      <4>1. (1 * Parts + 0) % Parts = 0
        BY <1>1, DivisionUnique
      <4> QED BY <1>1, <4>1
    <3> QED BY <1>1, <1>2, <2>2, <3>1
  <2> QED BY <1>1, <1>2, <2>1, <2>2
<1>5. (a - 1) % Parts # a /\ (a - 1) % Parts \in 0 .. Parts - 1
  <2>1. CASE a > 0
    <3>1. (0 * Parts + (a - 1)) % Parts = a - 1
      <4>1. a - 1 \in Nat /\ a - 1 < Parts
        BY <1>1, <1>2, <2>1
      <4> QED BY <1>1, <4>1, DivisionUnique
    <3>2. 0 * Parts + (a - 1) = a - 1
      BY <1>1, <1>2
    <3> QED BY <1>1, <1>2, <2>1, <3>1, <3>2
  <2>2. CASE a = 0
    <3>1. ((-1) * Parts + (Parts - 1)) % Parts = Parts - 1
      <4>1. Parts - 1 \in Nat /\ Parts - 1 < Parts /\ -1 \in Int
        BY <1>1
      <4> QED BY <1>1, <4>1, DivisionUnique
    <3>2. (-1) * Parts + (Parts - 1) = a - 1
      BY <1>1, <2>2
    <3> QED BY <1>1, <1>2, <2>2, <3>1, <3>2
  <2> QED BY <1>2, <2>1, <2>2
<1> QED BY <1>1, <1>2, <1>3, <1>4, <1>5

\* power2round cuts t in two parts that pk and sk have room for.
Halves(r, a, e) ==
  a \in 0 .. T1Bound /\ e \in -T0Low .. T0High /\ Eq(r, a * Pow2(D) + e)

\* power2round cuts a number in two.
LEMMA Power2RoundHalves ==
  ASSUME NEW r \in Int
  PROVE  Halves(r, Power2Round1(r), Power2Round0(r))
<1> DEFINE d == Pow2(D)
           rp == r % Q
           r0 == ModPm(rp, d)
           k == (rp - r0) \div d
<1>1. /\ Q \in Nat /\ Q > 0 /\ d \in Nat /\ d > 1 /\ T0Low \in Nat /\ T0High \in Nat /\ T0High = T0Low + 1
      /\ d = 2 * T0High
  BY Parameters, Bounds
<1>2. rp \in 0 .. Q - 1 /\ rp \in Int /\ Eq(r, rp)
  BY EqModulus
<1> DEFINE c == (Q - 1) \div d
<1>3. c \in Nat /\ Q - 1 = c * d
  <2>1. Q % d = 1
    BY Parameters
  <2> DEFINE i == Q \div d
             j == Q % d
  <2>2. i \in Nat /\ Q = i * d + j
    <3> HIDE DEF d
    <3> QED BY <1>1, Division
  <2>3. Q - 1 = i * d + 0
    <3> HIDE DEF d, i
    <3> QED BY <1>1, <2>1, <2>2
  <2>4. (i * d + 0) \div d = i
    <3> HIDE DEF i, d
    <3> QED BY <1>1, <2>2, DivisionUnique
  <2> HIDE DEF i, d
  <2> QED BY <1>1, <2>2, <2>3, <2>4
<1>4. \A q \in Nat : q * d <= Q - 1 => q <= T1Bound
  BY Bounds
<1> HIDE DEF d, c, rp
<1>5. Centred(r0, rp, d)
  BY <1>1, <1>2, ModPmCentred
<1> HIDE DEF r0
<1>6. r0 \in Int /\ r0 <= T0High /\ r0 > T0High - d
  BY <1>1, <1>5 DEF Centred
<1>7. PICK i \in Int : r0 = rp + i * d
  BY <1>5 DEF Centred
<1>8. rp - r0 = (-i) * d + 0 /\ -i \in Int
  BY <1>1, <1>2, <1>6, <1>7
<1>9. k = -i
  <2>1. ((-i) * d + 0) \div d = -i
    BY <1>1, <1>8, DivisionUnique
  <2> QED BY <1>8, <2>1
<1> HIDE DEF k
<1>10. k \in Int /\ rp - r0 = k * d /\ k * d \in Int
  BY <1>1, <1>8, <1>9
<1>11. k >= 0
  <2> SUFFICES ASSUME k <= -1 PROVE FALSE
    BY <1>10
  <2>1. k * d <= (-1) * d
    BY <1>1, <1>10, TimesMonotone
  <2> QED BY <1>1, <1>2, <1>6, <1>10, <2>1
<1>12. k <= c
  <2> SUFFICES ASSUME k >= c + 1 PROVE FALSE
    BY <1>3, <1>10
  <2>1. (c + 1) * d <= k * d
    <3>1. c + 1 \in Int
      BY <1>3
    <3> QED BY <1>1, <1>10, <3>1, TimesMonotone
  <2>2. (c + 1) * d = c * d + d
    BY <1>1, <1>3
  <2> QED BY <1>1, <1>2, <1>3, <1>6, <1>10, <2>1, <2>2
<1>13. k <= T1Bound
  <2>1. k * d <= c * d
    BY <1>1, <1>3, <1>10, <1>12, TimesMonotone
  <2>2. k \in Nat
    BY <1>10, <1>11
  <2> QED BY <1>3, <1>4, <2>1, <2>2
<1>14. T1Bound \in Nat
  BY Bounds
<1>15. k \in 0 .. T1Bound /\ r0 \in -T0Low .. T0High
  BY <1>1, <1>6, <1>10, <1>11, <1>13, <1>14
<1>16. Eq(r, k * d + r0)
  <2>1. rp = k * d + r0
    BY <1>2, <1>6, <1>10
  <2> QED BY <1>2, <2>1
<1>17. Power2Round0(r) = r0 /\ Power2Round1(r) = k
  BY DEF Power2Round0, Power2Round1, r0, k, rp, d
<1> QED BY <1>15, <1>16, <1>17 DEF Halves, d

\* The powers that ntt uses.
LEMMA ZetaIs ==
  ASSUME NEW m \in Coeff
  PROVE  m \in Nat /\ BitRev(m) \in Nat /\ ZetaAt(m) = PowMod(Zeta, BitRev(m)) /\ ZetaAt(m) \in Int
<1>1. m \in Nat
  BY ByteSize DEF Coeff
<1>2. BitRev(m) \in Nat
  BY <1>1, RevType
<1>3. Zeta \in Int
  BY Parameters
<1>4. PowMod(Zeta, BitRev(m)) \in Int
  BY <1>2, <1>3, PowNext
<1> DEFINE p == CHOOSE p_1 \in Zetas : p_1[1] = m
<1>5. <<m, PowMod(Zeta, BitRev(m))>> \in Zetas
  BY DEF Zetas
<1>6. p \in Zetas /\ p[1] = m
  BY <1>5
<1>7. p[2] = PowMod(Zeta, BitRev(m))
  <2> HIDE DEF p
  <2>1. PICK q \in Coeff : p = <<q, PowMod(Zeta, BitRev(q))>>
    BY <1>6 DEF Zetas
  <2> QED BY <1>6, <2>1
<1> QED BY <1>1, <1>2, <1>4, <1>7 DEF ZetaAt

\* Products of two powers whose exponents add up to s.
PowPair(s, i, j) == Eq(PowMod(Zeta, i) * PowMod(Zeta, j), PowMod(Zeta, s))

\* Exponents are added.
LEMMA ZetaSum ==
  ASSUME NEW i \in Nat, NEW j \in Nat, NEW s \in Nat, s = i + j
  PROVE  PowPair(s, i, j) /\ PowMod(Zeta, s) \in Int
<1>1. Zeta \in Int
  BY Parameters
<1> DEFINE x == PowMod(Zeta, i)
           y == PowMod(Zeta, j)
           z == PowMod(Zeta, s)
<1>2. x \in Int /\ y \in Int /\ z \in Int
  BY <1>1, PowNext
<1>3. Eq(z, x * y)
  BY <1>1, PowPlus
<1> HIDE DEF x, y, z
<1>4. x * y \in Int
  BY <1>2
<1>5. Eq(x * y, z)
  BY <1>2, <1>3, <1>4, EqThrough
<1> QED BY <1>2, <1>5 DEF PowPair, x, y, z

\* The N-th power of the root is -1.
LEMMA HalfTurn ==
  /\ PowMod(Zeta, N) = Q - 1 /\ Eq(PowMod(Zeta, N), -1)
<1>1. Q \in Nat /\ Q > 0
  BY Parameters
<1>2. PowMod(Zeta, N) = Q - 1
  BY RootAssumption
<1>3. Q - 1 = -1 + 1 * Q /\ Q - 1 \in Int /\ -1 \in Int /\ 1 \in Int
  BY <1>1
<1>4. Eq(Q - 1, -1)
  BY <1>3, EqIf
<1> QED BY <1>2, <1>4

\* The first exponents.
LEMMA RevFirst ==
  BitRev(0) = 0 /\ 2 * BitRev(1) = N
<1>1. N \in Nat /\ N > 0
  BY ByteSize
<1>2. 2 * BitRev(2 * 0 + 0) = 0 * N + BitRev(0)
  BY <1>1, RevDouble
<1>3. 2 * BitRev(2 * 0 + 1) = 1 * N + BitRev(0)
  BY <1>1, RevDouble
<1>4. 2 * 0 + 0 = 0 /\ 2 * 0 + 1 = 1
  OBVIOUS
<1>5. BitRev(0) \in Nat
  BY RevType
<1> DEFINE r == BitRev(0)
           q == BitRev(1)
<1>6. 2 * r = 0 * N + r /\ 2 * q = 1 * N + r
  BY <1>2, <1>3, <1>4
<1> HIDE DEF r, q
<1>7. r = 0
  BY <1>1, <1>5, <1>6 DEF r
<1> QED BY <1>1, <1>6, <1>7 DEF r, q

\* The square of a factor is the factor of the block that is split, or its opposite.
Square(m, y) == Eq(ZetaAt(m) * ZetaAt(m), y)

\* The first factor is a root of -1.
LEMMA SquareFirst ==
  1 \in Coeff /\ Square(1, -1)
<1>1. N \in Nat /\ N > 1
  BY ByteSize
<1>2. 1 \in Coeff
  BY <1>1 DEF Coeff
<1> DEFINE i == BitRev(1)
<1>3. i \in Nat /\ ZetaAt(1) = PowMod(Zeta, i) /\ ZetaAt(1) \in Int
  BY <1>2, ZetaIs
<1>4. 2 * i = N
  BY RevFirst
<1> HIDE DEF i
<1>5. N = i + i
  BY <1>3, <1>4
<1>6. PowPair(N, i, i) /\ PowMod(Zeta, N) \in Int
  BY <1>1, <1>3, <1>5, ZetaSum
<1> DEFINE z == ZetaAt(1)
<1>7. Eq(z * z, PowMod(Zeta, N))
  BY <1>3, <1>6 DEF PowPair
<1>8. z * z \in Int /\ -1 \in Int
  BY <1>3
<1>9. Eq(z * z, -1)
  BY <1>6, <1>7, <1>8, HalfTurn, EqThrough
<1> QED BY <1>2, <1>9 DEF Square

\* The factors of a block in the next layer are the roots of its own.
LEMMA SquareNext ==
  ASSUME NEW m \in Nat, m > 0, 2 * m + 1 < N
  PROVE  /\ m \in Coeff /\ 2 * m \in Coeff /\ 2 * m + 1 \in Coeff
         /\ Square(2 * m, ZetaAt(m)) /\ Square(2 * m + 1, -ZetaAt(m))
<1>1. N \in Nat
  BY ByteSize
<1> DEFINE e == 2 * m
           o == 2 * m + 1
<1>2. m \in Coeff /\ e \in Coeff /\ o \in Coeff
  BY <1>1 DEF Coeff
<1> DEFINE r == BitRev(m)
           re == BitRev(e)
           ro == BitRev(o)
<1>3. 2 * BitRev(2 * m + 0) = 0 * N + BitRev(m)
  <2>1. 0 \in {0, 1} /\ 2 * m < N
    BY <1>1
  <2> QED BY <2>1, RevDouble
<1>4. 2 * BitRev(2 * m + 1) = 1 * N + BitRev(m)
  <2>1. 1 \in {0, 1} /\ 2 * m < N
    BY <1>1
  <2> QED BY <2>1, RevDouble
<1>5. 2 * m + 0 = e
  OBVIOUS
<1> HIDE DEF e, o
<1>6. /\ r \in Nat /\ ZetaAt(m) = PowMod(Zeta, r) /\ ZetaAt(m) \in Int
      /\ re \in Nat /\ ZetaAt(e) = PowMod(Zeta, re) /\ ZetaAt(e) \in Int
      /\ ro \in Nat /\ ZetaAt(o) = PowMod(Zeta, ro) /\ ZetaAt(o) \in Int
  BY <1>2, ZetaIs
<1>7. 2 * re = 0 * N + r
  BY <1>3, <1>5
<1>8. 2 * ro = 1 * N + r
  BY <1>4 DEF o
<1> HIDE DEF r, re, ro
<1>9. r = re + re /\ N + r = ro + ro /\ N + r \in Nat
  BY <1>1, <1>6, <1>7, <1>8
<1>10. Square(e, ZetaAt(m))
  <2>1. PowPair(r, re, re)
    BY <1>6, <1>9, ZetaSum
  <2> QED BY <1>6, <2>1 DEF PowPair, Square
<1>11. Square(o, -ZetaAt(m))
  <2> DEFINE s == N + r
             z == ZetaAt(o)
             y == ZetaAt(m)
             h == PowMod(Zeta, N)
             g == PowMod(Zeta, s)
  <2>1. PowPair(s, ro, ro) /\ g \in Int
    BY <1>6, <1>9, ZetaSum
  <2>2. PowPair(s, N, r)
    BY <1>1, <1>6, <1>9, ZetaSum
  <2>3. Eq(z * z, g) /\ Eq(h * y, g)
    BY <1>6, <2>1, <2>2 DEF PowPair
  <2>4. Eq(h, -1) /\ h \in Int
    <3>1. h = Q - 1 /\ Eq(h, -1)
      BY HalfTurn
    <3> QED BY <3>1, Parameters
  <2>5. z \in Int /\ y \in Int
    BY <1>6
  <2> HIDE DEF s, z, y, h, g
  <2>6. z * z \in Int /\ h * y \in Int /\ (-1) * y \in Int /\ (-1) * y = -y /\ -1 \in Int
    BY <2>4, <2>5
  <2>7. Eq(h * y, (-1) * y)
    <3>1. Eq(y, y)
      BY <2>5, EqModulus
    <3> QED BY <2>4, <2>5, <2>6, <3>1, EqProduct
  <2>8. Eq(g, h * y)
    BY <2>1, <2>3, <2>6, EqThrough DEF g
  <2>9. Eq(z * z, (-1) * y)
    <3>1. Eq(z * z, h * y)
      BY <2>1, <2>3, <2>6, <2>8, EqThrough DEF g
    <3> QED BY <2>6, <2>7, <3>1, EqThrough
  <2>10. Eq(z * z, -y)
    BY <2>6, <2>9
  <2> QED BY <2>10 DEF Square, z, y
<1> QED BY <1>2, <1>10, <1>11 DEF e, o

\* The factors of ntt and of ntt_inverse for one block are opposite inverses of each other.
Mirrored(m, n) == BitRev(m) + BitRev(n) = N

\* Bits reversed in two mirrored blocks add up to N.
LEMMA RevMirror ==
  ASSUME NEW l \in Nat, NEW m \in Nat, Pow2(l) <= m, m < 2 * Pow2(l), 2 * Pow2(l) <= N
  PROVE  Mirrored(m, 3 * Pow2(l) - 1 - m)
<1> DEFINE P(i, j) == Pow2(i) <= j /\ j < 2 * Pow2(i) /\ 2 * Pow2(i) <= N => Mirrored(j, 3 * Pow2(i) - 1 - j)
           S == {i \in Nat : \A j \in Nat : P(i, j)}
<1>1. N \in Nat
  BY ByteSize
<1>2. 0 \in S
  <2> SUFFICES ASSUME NEW j \in Nat, Pow2(0) <= j, j < 2 * Pow2(0) PROVE Mirrored(j, 3 * Pow2(0) - 1 - j)
    OBVIOUS
  <2>1. Pow2(0) = 1
    BY PowerOfTwo
  <2>2. j = 1 /\ 3 * Pow2(0) - 1 - j = 1
    BY <2>1
  <2>3. BitRev(1) + BitRev(1) = N
    <3>1. 2 * BitRev(1) = N /\ BitRev(1) \in Nat
      BY RevFirst, RevType
    <3> QED BY <3>1
  <2> QED BY <2>2, <2>3 DEF Mirrored
<1>3. ASSUME NEW i \in Nat, i \in S PROVE i + 1 \in S
  <2> SUFFICES ASSUME NEW j \in Nat, Pow2(i + 1) <= j, j < 2 * Pow2(i + 1), 2 * Pow2(i + 1) <= N
               PROVE  Mirrored(j, 3 * Pow2(i + 1) - 1 - j)
    OBVIOUS
  <2> DEFINE p == Pow2(i)
             a == j \div 2
             b == j % 2
             c == 3 * p - 1 - a
             d == 1 - b
  <2>1. p \in Nat /\ Pow2(i + 1) = 2 * p
    BY PowerOfTwo, PowerType
  <2>2. a \in Nat /\ b \in {0, 1} /\ j = 2 * a + b
    OBVIOUS
  <2>3. P(i, a)
    BY <1>3, <2>2
  <2> HIDE DEF a, b
  <2>4. p <= a /\ a < 2 * p /\ 2 * p <= N
    <3> HIDE DEF p
    <3> QED BY <1>1, <2>1, <2>2
  <2>5. Mirrored(a, c)
    BY <2>3, <2>4
  <2> HIDE DEF p
  <2>6. c \in Nat /\ d \in {0, 1} /\ 3 * Pow2(i + 1) - 1 - j = 2 * c + d /\ 2 * c < N /\ 2 * a < N
    BY <1>1, <2>1, <2>2, <2>4
  <2> HIDE DEF c
  <2>7. 2 * BitRev(2 * a + b) = b * N + BitRev(a)
    BY <2>2, <2>6, RevDouble
  <2>8. 2 * BitRev(2 * c + d) = d * N + BitRev(c)
    <3> HIDE DEF d
    <3> QED BY <2>6, RevDouble
  <2>9. BitRev(a) \in Nat /\ BitRev(c) \in Nat /\ BitRev(a) + BitRev(c) = N
    BY <2>2, <2>5, <2>6, RevType DEF Mirrored
  <2>10. BitRev(2 * a + b) \in Nat /\ BitRev(2 * c + d) \in Nat
    <3>1. 2 * a + b \in Nat /\ 2 * c + d \in Nat
      BY <2>2, <2>6
    <3> QED BY <3>1, RevType
  <2> DEFINE x == BitRev(2 * a + b)
             y == BitRev(2 * c + d)
             u == BitRev(a)
             v == BitRev(c)
  <2>11. 2 * x = b * N + u /\ 2 * y = d * N + v /\ x \in Nat /\ y \in Nat /\ u \in Nat /\ v \in Nat /\ u + v = N
    BY <2>7, <2>8, <2>9, <2>10
  <2> HIDE DEF x, y, u, v
  <2>12. x + y = N
    <3>1. CASE b = 0
      BY <1>1, <2>11, <3>1
    <3>2. CASE b = 1
      BY <1>1, <2>11, <3>2
    <3> QED BY <2>2, <3>1, <3>2
  <2> QED BY <2>2, <2>6, <2>12 DEF Mirrored, x, y
<1> HIDE DEF S
<1>4. l \in S
  BY <1>2, <1>3, SetInduction
<1> QED BY <1>4 DEF S

\* The factors of ntt_inverse undo those of ntt.
LEMMA ZetaMirror ==
  ASSUME NEW m \in Coeff, NEW n \in Coeff, Mirrored(m, n)
  PROVE  Eq(ZetaAt(m) * (-ZetaAt(n)), 1)
<1> DEFINE i == BitRev(m)
           j == BitRev(n)
           x == ZetaAt(m)
           y == ZetaAt(n)
           h == PowMod(Zeta, N)
<1>1. i \in Nat /\ x = PowMod(Zeta, i) /\ x \in Int /\ j \in Nat /\ y = PowMod(Zeta, j) /\ y \in Int
  BY ZetaIs
<1>2. N \in Nat /\ N = i + j
  BY ByteSize DEF Mirrored
<1> HIDE DEF i, j
<1>3. PowPair(N, i, j) /\ h \in Int
  BY <1>1, <1>2, ZetaSum
<1>4. Eq(x * y, h) /\ Eq(h, -1)
  BY <1>1, <1>3, HalfTurn DEF PowPair
<1> HIDE DEF x, y, h
<1>5. PICK u \in Int : u + 1 = 0
  <2>1. -1 \in Int /\ -1 + 1 = 0
    OBVIOUS
  <2> QED BY <2>1
<1>6. PICK v \in Int : v = -u
  OBVIOUS
<1>7. x * y \in Int
  BY <1>1
<1>8. v = 1
  BY <1>5, <1>6
<1>9. x * (-y) = -(x * y)
  BY <1>1
<1>10. Eq(x * y, u)
  <2>1. u = -1
    BY <1>5
  <2> QED BY <1>3, <1>4, <1>7, <2>1, EqThrough
<1>11. Eq(-(x * y), -u)
  BY <1>5, <1>7, <1>10, EqSum
<1>12. Eq(x * (-y), 1)
  BY <1>6, <1>8, <1>9, <1>11
<1> QED BY <1>12 DEF x, y

-----------------------------------------------------------------------------
(* The layers of ntt and ntt_inverse: butterflies of two coefficients.      *)
Poly == [Coeff -> Int]
W(l) == Pow2(B - l)

\* The widths of a layer and its number of blocks.
LEMMA WidthIs ==
  ASSUME NEW l \in 1 .. B
  PROVE  /\ l \in Nat /\ l - 1 \in Nat /\ W(l) \in Nat /\ W(l) > 0 /\ Pow2(l - 1) \in Nat /\ Pow2(l - 1) > 0
         /\ N = Pow2(l - 1) * (2 * W(l)) /\ Pow2(l) = 2 * Pow2(l - 1)
         /\ N \div Pow2(l) = W(l) /\ N \div W(l) = Pow2(l) /\ N \in Nat
<1>1. B \in Nat /\ N = Pow2(B) /\ N \in Nat
  BY ByteSize
<1>2. B - l \in Nat /\ l \in Nat /\ l - 1 \in Nat /\ l + (B - l) = B /\ (l - 1) + 1 = l
  BY <1>1
<1> DEFINE p == Pow2(l - 1)
           q == Pow2(l)
           w == W(l)
<1>3. p \in Nat /\ p > 0 /\ q \in Nat /\ q > 0 /\ w \in Nat /\ w > 0
  BY <1>2, PowerType DEF W
<1>4. Pow2(l + (B - l)) = q * w
  BY <1>2, PowerSum DEF W
<1>5. q = 2 * p
  <2>1. Pow2((l - 1) + 1) = 2 * p
    BY <1>2, PowerOfTwo
  <2> QED BY <1>2, <2>1
<1>6. N = q * w
  BY <1>1, <1>2, <1>4
<1> HIDE DEF p, q, w
<1>7. N = p * (2 * w)
  BY <1>3, <1>5, <1>6
<1>8. (w * q + 0) \div q = w /\ (q * w + 0) \div w = q
  BY <1>3, DivisionUnique
<1>9. N = w * q + 0 /\ N = q * w + 0
  BY <1>3, <1>6
<1>10. N \div q = w /\ N \div w = q
  BY <1>8, <1>9
<1> QED BY <1>1, <1>2, <1>3, <1>5, <1>7, <1>10 DEF p, q, w

\* The lower coefficient of a pair, and the block of a pair.
Lower(j, l) == j \in Coeff /\ j % (2 * W(l)) < W(l)
Blk(j, l) == j \div (2 * W(l))
PairOf(j, l) ==
  /\ Blk(j, l) \in 0 .. Pow2(l - 1) - 1
  /\ Lower(j, l) => /\ j + W(l) \in Coeff /\ ~ Lower(j + W(l), l) /\ Blk(j + W(l), l) = Blk(j, l)
                    /\ (j + W(l)) - W(l) = j
  /\ ~ Lower(j, l) => /\ Lower(j - W(l), l) /\ Blk(j - W(l), l) = Blk(j, l) /\ (j - W(l)) + W(l) = j

\* Each place has its partner in its block.
LEMMA Pairs ==
  ASSUME NEW l \in 1 .. B, NEW j \in Coeff
  PROVE  PairOf(j, l)
<1> DEFINE w == W(l)
           p == Pow2(l - 1)
           d == 2 * w
           k == j \div d
           r == j % d
<1>1. w \in Nat /\ w > 0 /\ p \in Nat /\ p > 0 /\ N = p * d /\ N \in Nat
  BY WidthIs
<1>2. j \in Nat /\ j < N
  BY <1>1 DEF Coeff
<1> HIDE DEF w, p
<1>3. d \in Nat /\ d > 0
  BY <1>1
<1>4. k \in Nat /\ r \in 0 .. d - 1 /\ j = k * d + r
  <2> HIDE DEF d
  <2> QED BY <1>2, <1>3, Division
<1>5. k < p
  <2> SUFFICES ASSUME k >= p PROVE FALSE
    BY <1>1, <1>4
  <2> HIDE DEF d, k, r
  <2>1. p * d <= k * d
    BY <1>1, <1>3, <1>4, TimesMonotone
  <2>2. k * d \in Int
    BY <1>3, <1>4
  <2> QED BY <1>1, <1>2, <1>3, <1>4, <2>1, <2>2
<1>6. Blk(j, l) = k /\ (Lower(j, l) <=> r < w)
  BY DEF Blk, Lower, w
<1>7. ASSUME r < w
      PROVE  j + w \in Coeff /\ ~ Lower(j + w, l) /\ Blk(j + w, l) = k /\ (j + w) - w = j
  <2>1. r + w \in Nat /\ r + w < d /\ j + w = k * d + (r + w)
    <3> HIDE DEF k, r
    <3>1. k * d \in Int
      BY <1>3, <1>4
    <3> QED BY <1>1, <1>4, <1>7, <3>1
  <2>2. (k * d + (r + w)) \div d = k /\ (k * d + (r + w)) % d = r + w
    <3> HIDE DEF k, r, d
    <3> DEFINE u == r + w
    <3>1. k \in Int /\ d \in Nat /\ d > 0 /\ u \in Nat /\ u < d
      BY <1>3, <1>4, <2>1
    <3> HIDE DEF u
    <3>2. (k * d + u) \div d = k /\ (k * d + u) % d = u
      BY ONLY <3>1, DivisionUnique
    <3> QED BY <3>2 DEF u
  <2>3. (j + w) \div d = k /\ (j + w) % d = r + w
    <3> HIDE DEF k, r, d
    <3> QED BY <2>1, <2>2
  <2>4. j + w < N /\ j + w \in Nat
    <3> HIDE DEF k, r
    <3>1. (k + 1) * d <= p * d
      <4>1. k + 1 \in Int /\ k + 1 <= p
        BY <1>1, <1>4, <1>5
      <4> QED BY <1>1, <1>3, <4>1, TimesMonotone
    <3>2. (k + 1) * d = k * d + d /\ k * d \in Int
      BY <1>3, <1>4
    <3> QED BY <1>1, <1>2, <1>3, <2>1, <3>1, <3>2
  <2>5. j + w \in Coeff
    BY <1>1, <2>4 DEF Coeff
  <2>6. ~ (r + w < w)
    BY <1>1, <1>4
  <2>7. ~ Lower(j + w, l)
    BY <2>3, <2>6 DEF Lower, w, d
  <2>8. Blk(j + w, l) = k
    BY <2>3 DEF Blk, w, d
  <2>9. (j + w) - w = j
    BY <1>1, <1>2
  <2> QED BY <2>5, <2>7, <2>8, <2>9
<1>8. ASSUME ~ (r < w)
      PROVE  Lower(j - w, l) /\ Blk(j - w, l) = k /\ (j - w) + w = j
  <2>1. r - w \in Nat /\ r - w < w /\ j - w = k * d + (r - w) /\ r - w < d
    <3> HIDE DEF k, r
    <3>1. k * d \in Int
      BY <1>3, <1>4
    <3> QED BY <1>1, <1>4, <1>8, <3>1
  <2>2. (k * d + (r - w)) \div d = k /\ (k * d + (r - w)) % d = r - w
    <3> HIDE DEF k, r, d
    <3> DEFINE u == r - w
    <3>1. k \in Int /\ d \in Nat /\ d > 0 /\ u \in Nat /\ u < d
      BY <1>3, <1>4, <2>1
    <3> HIDE DEF u
    <3>2. (k * d + u) \div d = k /\ (k * d + u) % d = u
      BY ONLY <3>1, DivisionUnique
    <3> QED BY <3>2 DEF u
  <2>3. (j - w) \div d = k /\ (j - w) % d = r - w
    <3> HIDE DEF k, r, d
    <3> QED BY <2>1, <2>2
  <2>4. j - w \in Nat /\ j - w < N
    <3> HIDE DEF k, r
    <3>1. k * d \in Nat
      BY <1>3, <1>4
    <3> QED BY <1>1, <1>2, <2>1, <3>1
  <2>5. j - w \in Coeff
    BY <1>1, <2>4 DEF Coeff
  <2>6. Lower(j - w, l)
    BY <2>1, <2>3, <2>5 DEF Lower, w, d
  <2>7. Blk(j - w, l) = k
    BY <2>3 DEF Blk, w, d
  <2>8. (j - w) + w = j
    BY <1>1, <1>2
  <2> QED BY <2>6, <2>7, <2>8
<1>9. k \in 0 .. p - 1
  <2> HIDE DEF k
  <2> QED BY <1>1, <1>4, <1>5
<1> HIDE DEF k, r, d
<1> QED BY <1>6, <1>7, <1>8, <1>9 DEF PairOf, w, p

\* The factor of a pair, and the one that undoes it.
Root(j, l) == ZetaAt(Pow2(l - 1) + Blk(j, l))
BackRoot(j, l) == -ZetaAt(Pow2(l) - 1 - Blk(j, l))

\* The factor of a block and the one that undoes it.
LEMMA Roots ==
  ASSUME NEW l \in 1 .. B, NEW j \in Coeff
  PROVE  Root(j, l) \in Int /\ BackRoot(j, l) \in Int /\ Eq(Root(j, l) * BackRoot(j, l), 1)
<1> DEFINE p == Pow2(l - 1)
           k == Blk(j, l)
           m == p + k
           n == Pow2(l) - 1 - k
<1>1. /\ p \in Nat /\ p > 0 /\ N = p * (2 * W(l)) /\ N \in Nat /\ Pow2(l) = 2 * p /\ W(l) \in Nat /\ W(l) > 0
      /\ l - 1 \in Nat
  BY WidthIs
<1>2. k \in 0 .. p - 1
  BY Pairs DEF PairOf
<1> HIDE DEF p, k
<1>3. 2 * p <= N
  <2>1. 1 * (2 * p) <= W(l) * (2 * p)
    <3>1. 2 * p \in Nat /\ 1 \in Int /\ 1 <= W(l) /\ W(l) \in Int
      BY <1>1
    <3> QED BY <3>1, TimesMonotone
  <2>2. W(l) * (2 * p) = p * (2 * W(l)) /\ 1 * (2 * p) = 2 * p
    BY <1>1
  <2> QED BY <1>1, <2>1, <2>2
<1>4. m \in Nat /\ p <= m /\ m < 2 * p /\ n = 3 * p - 1 - m /\ m \in Coeff /\ n \in Coeff
  BY <1>1, <1>2, <1>3 DEF Coeff
<1>5. Mirrored(m, 3 * p - 1 - m)
  <2> HIDE DEF m
  <2> QED BY <1>1, <1>3, <1>4, RevMirror DEF p
<1>6. Mirrored(m, n)
  BY <1>4, <1>5
<1> HIDE DEF m, n
<1>7. Eq(ZetaAt(m) * (-ZetaAt(n)), 1)
  BY <1>4, <1>6, ZetaMirror
<1>8. ZetaAt(m) \in Int /\ ZetaAt(n) \in Int
  BY <1>4, ZetaIs
<1>9. -ZetaAt(n) \in Int
  BY <1>8
<1> QED BY <1>7, <1>8, <1>9 DEF Root, BackRoot, m, n, p, k

\* What a layer does to the pairs, modulo Q.
Forward(b, a, l) ==
  \A j \in Coeff : Lower(j, l) => /\ Eq(b[j], a[j] + Root(j, l) * a[j + W(l)])
                                  /\ Eq(b[j + W(l)], a[j] - Root(j, l) * a[j + W(l)])
Backward(b, a, l) ==
  \A j \in Coeff : Lower(j, l) => /\ Eq(b[j], a[j] + a[j + W(l)])
                                  /\ Eq(b[j + W(l)], BackRoot(j, l) * (a[j] - a[j + W(l)]))

\* One layer of ntt, with its remainders left out.
LEMMA NttLayerIs ==
  ASSUME NEW a \in Poly, NEW l \in 1 .. B
  PROVE  NttLayer(a, l) \in Poly /\ Forward(NttLayer(a, l), a, l)
<1> DEFINE w == W(l)
           b == NttLayer(a, l)
<1>1. w \in Nat /\ w > 0 /\ N \div Pow2(l) = w
  BY WidthIs
<1>2. b = [j \in Coeff |-> IF j % (2 * w) < w THEN (a[j] + Root(j, l) * a[j + w]) % Q
                           ELSE (a[j - w] - (Root(j, l) * a[j])) % Q]
  <2>1. \A j : ZetaAt(Pow2(l - 1) + j \div (2 * w)) = Root(j, l)
    BY DEF Root, Blk
  <2> HIDE DEF w
  <2> QED BY <1>1, <2>1 DEF NttLayer
<1>3. \A j \in Coeff : Root(j, l) \in Int /\ a[j] \in Int
  BY Roots DEF Poly
<1>4. ASSUME NEW j \in Coeff PROVE b[j] \in Int
  <2> HIDE DEF b
  <2>1. CASE Lower(j, l)
    <3>1. j + w \in Coeff /\ b[j] = (a[j] + Root(j, l) * a[j + w]) % Q
      BY <1>2, <2>1, Pairs DEF PairOf, Lower
    <3>2. a[j + w] \in Int /\ a[j] \in Int /\ Root(j, l) \in Int
      BY <1>3, <3>1
    <3>3. a[j] + Root(j, l) * a[j + w] \in Int
      BY <3>2
    <3> QED BY <3>1, <3>3, EqModulus
  <2>2. CASE ~ Lower(j, l)
    <3>1. j - w \in Coeff /\ b[j] = (a[j - w] - (Root(j, l) * a[j])) % Q
      BY <1>2, <2>2, Pairs DEF PairOf, Lower
    <3>2. a[j - w] \in Int /\ a[j] \in Int /\ Root(j, l) \in Int
      BY <1>3, <3>1
    <3>3. a[j - w] - Root(j, l) * a[j] \in Int
      BY <3>2
    <3> QED BY <3>1, <3>3, EqModulus
  <2> QED BY <2>1, <2>2
<1>5. ASSUME NEW j \in Coeff, Lower(j, l)
      PROVE  /\ Eq(b[j], a[j] + Root(j, l) * a[j + w])
             /\ Eq(b[j + w], a[j] - Root(j, l) * a[j + w])
  <2> HIDE DEF b
  <2>1. j + w \in Coeff /\ ~ Lower(j + w, l) /\ Blk(j + w, l) = Blk(j, l) /\ (j + w) - w = j
    BY <1>5, Pairs DEF PairOf
  <2>2. Root(j + w, l) = Root(j, l)
    BY <2>1 DEF Root
  <2>3. b[j] = (a[j] + Root(j, l) * a[j + w]) % Q
    BY <1>2, <1>5 DEF Lower
  <2>4. b[j + w] = (a[(j + w) - w] - (Root(j + w, l) * a[j + w])) % Q
    <3>1. ~ ((j + w) % (2 * w) < w)
      BY <2>1 DEF Lower
    <3> QED BY <1>2, <2>1, <3>1
  <2>5. b[j + w] = (a[j] - Root(j, l) * a[j + w]) % Q
    BY <2>1, <2>2, <2>4
  <2>6. a[j] \in Int /\ a[j + w] \in Int /\ Root(j, l) \in Int
    BY <1>3, <2>1
  <2>7. a[j] + Root(j, l) * a[j + w] \in Int /\ a[j] - Root(j, l) * a[j + w] \in Int
    BY <2>6
  <2> QED BY <2>3, <2>5, <2>7, EqModulus
<1>6. b \in Poly
  <2>1. b = [j \in Coeff |-> b[j]]
    BY DEF NttLayer
  <2> HIDE DEF b
  <2> QED BY <1>4, <2>1 DEF Poly
<1> QED BY <1>5, <1>6 DEF Forward

\* One layer of ntt_inverse, with its remainders left out.
LEMMA InverseLayerIs ==
  ASSUME NEW a \in Poly, NEW l \in 1 .. B
  PROVE  InverseLayer(a, B - l + 1) \in Poly /\ Backward(InverseLayer(a, B - l + 1), a, l)
<1> DEFINE w == W(l)
           m == B - l + 1
           b == InverseLayer(a, m)
<1>1. w \in Nat /\ w > 0 /\ N \div w = Pow2(l)
  BY WidthIs
<1>2. Pow2(m - 1) = w
  <2>1. m - 1 = B - l
    BY ByteSize
  <2> QED BY <2>1 DEF W
<1>3. b = [j \in Coeff |-> IF j % (2 * w) < w THEN (a[j] + a[j + w]) % Q
                           ELSE (BackRoot(j, l) * (a[j - w] - a[j])) % Q]
  <2>1. \A j : -ZetaAt(Pow2(l) - 1 - j \div (2 * w)) = BackRoot(j, l)
    BY DEF BackRoot, Blk
  <2> HIDE DEF w, m
  <2> QED BY <1>1, <1>2, <2>1 DEF InverseLayer
<1> HIDE DEF m
<1>4. \A j \in Coeff : BackRoot(j, l) \in Int /\ a[j] \in Int
  BY Roots DEF Poly
<1>5. ASSUME NEW j \in Coeff PROVE b[j] \in Int
  <2> HIDE DEF b
  <2>1. CASE Lower(j, l)
    <3>1. j + w \in Coeff /\ b[j] = (a[j] + a[j + w]) % Q
      BY <1>3, <2>1, Pairs DEF PairOf, Lower
    <3>2. a[j + w] \in Int /\ a[j] \in Int
      BY <1>4, <3>1
    <3>3. a[j] + a[j + w] \in Int
      BY <3>2
    <3> QED BY <3>1, <3>3, EqModulus
  <2>2. CASE ~ Lower(j, l)
    <3>1. j - w \in Coeff /\ b[j] = (BackRoot(j, l) * (a[j - w] - a[j])) % Q
      BY <1>3, <2>2, Pairs DEF PairOf, Lower
    <3>2. a[j - w] \in Int /\ a[j] \in Int /\ BackRoot(j, l) \in Int
      BY <1>4, <3>1
    <3>3. BackRoot(j, l) * (a[j - w] - a[j]) \in Int
      BY <3>2
    <3> QED BY <3>1, <3>3, EqModulus
  <2> QED BY <2>1, <2>2
<1>6. ASSUME NEW j \in Coeff, Lower(j, l)
      PROVE  /\ Eq(b[j], a[j] + a[j + w])
             /\ Eq(b[j + w], BackRoot(j, l) * (a[j] - a[j + w]))
  <2> HIDE DEF b
  <2>1. j + w \in Coeff /\ ~ Lower(j + w, l) /\ Blk(j + w, l) = Blk(j, l) /\ (j + w) - w = j
    BY <1>6, Pairs DEF PairOf
  <2>2. BackRoot(j + w, l) = BackRoot(j, l)
    BY <2>1 DEF BackRoot
  <2>3. b[j] = (a[j] + a[j + w]) % Q
    BY <1>3, <1>6 DEF Lower
  <2>4. b[j + w] = (BackRoot(j + w, l) * (a[(j + w) - w] - a[j + w])) % Q
    <3>1. ~ ((j + w) % (2 * w) < w)
      BY <2>1 DEF Lower
    <3> QED BY <1>3, <2>1, <3>1
  <2>5. b[j + w] = (BackRoot(j, l) * (a[j] - a[j + w])) % Q
    BY <2>1, <2>2, <2>4
  <2>6. a[j] \in Int /\ a[j + w] \in Int /\ BackRoot(j, l) \in Int
    BY <1>4, <2>1
  <2>7. a[j] + a[j + w] \in Int /\ BackRoot(j, l) * (a[j] - a[j + w]) \in Int
    BY <2>6
  <2> QED BY <2>3, <2>5, <2>7, EqModulus
<1>7. b \in Poly
  <2>1. b = [j \in Coeff |-> b[j]]
    BY DEF InverseLayer
  <2> HIDE DEF b
  <2> QED BY <1>5, <2>1 DEF Poly
<1> QED BY <1>6, <1>7 DEF Backward, m

\* The polynomials that ntt and ntt_inverse go through.
NttRun(w, t) == t \in [0 .. B -> Poly] /\ t[0] = w /\ \A l \in 1 .. B : Forward(t[l], t[l - 1], l)
InverseRun(w, t) ==
  t \in [0 .. B -> Poly] /\ t[0] = w /\ \A l \in 1 .. B : Backward(t[B - l + 1], t[B - l], l)

\* ntt is one layer after the other.
LEMMA NttSteps ==
  ASSUME NEW w \in Poly
  PROVE  \E t : NttRun(w, t) /\ Ntt(w) = t[B]
<1> DEFINE s == [l \in 1 .. B |-> l]
           step == [p \in Poly \X (1 .. B) |-> NttLayer(p[1], p[2])]
           Iter(f) == f = [u \in SUBSET (1 .. B) |-> IF u = {} THEN w ELSE NttLayer(f[u \ {Max(u)}], s[Max(u)])]
<1>1. DOMAIN s = 1 .. B /\ B \in Nat /\ B > 0
  BY ByteSize
<1>2. \A v \in Poly, l \in 1 .. B : NttLayer(v, l) \in Poly
  BY NttLayerIs
<1>3. step \in [Poly \X (1 .. B) -> Poly]
  BY <1>2
<1>4. \A v \in Poly, i \in 1 .. B : step[<<v, i>>] = NttLayer(v, i)
  OBVIOUS
<1> HIDE DEF step
<1>5. PICK f : FoldRun(B, Poly, w, step, f)
  BY <1>1, <1>3, FoldRunExists
<1>6. \A u \in SUBSET (1 .. B) : u # {} => Max(u) \in 1 .. B /\ u \ {Max(u)} \in SUBSET (1 .. B)
  BY <1>1, FoldTakes
<1>7. Iter(f)
  <2>1. /\ f \in [SUBSET (1 .. B) -> Poly]
        /\ \A u \in SUBSET (1 .. B) : f[u] = IF u = {} THEN w ELSE step[<<f[u \ {Max(u)}], Max(u)>>]
    BY <1>5 DEF FoldRun
  <2>2. ASSUME NEW u \in SUBSET (1 .. B), u # {} PROVE f[u] = NttLayer(f[u \ {Max(u)}], s[Max(u)])
    <3>1. Max(u) \in 1 .. B /\ f[u \ {Max(u)}] \in Poly
      BY <1>6, <2>1, <2>2
    <3>2. f[u] = step[<<f[u \ {Max(u)}], Max(u)>>]
      BY <2>1, <2>2
    <3> QED BY <1>4, <3>1, <3>2
  <2>3. \A u \in SUBSET (1 .. B) : f[u] = IF u = {} THEN w ELSE NttLayer(f[u \ {Max(u)}], s[Max(u)])
    BY <2>1, <2>2
  <2>4. f = [u \in SUBSET (1 .. B) |-> f[u]]
    BY <2>1
  <2> QED BY <2>3, <2>4
<1> DEFINE g == CHOOSE f_1 : Iter(f_1)
<1>8. Iter(g)
  BY <1>7
<1>9. Ntt(w) = g[1 .. B]
  BY <1>1 DEF Ntt, FoldLeft, MapThenFoldSet
<1> HIDE DEF g
<1>10. FoldsBy(B, Poly, w, step, g)
  BY <1>4, <1>6, <1>8 DEF FoldsBy
<1>11. PICK t : Chain(B, Poly, w, step, t, g[1 .. B])
  BY <1>1, <1>3, <1>10, FoldChain
<1>12. t \in [0 .. B -> Poly] /\ t[0] = w /\ t[B] = g[1 .. B]
  BY <1>11 DEF Chain
<1>13. ASSUME NEW l \in 1 .. B PROVE t[l - 1] \in Poly /\ t[l] = NttLayer(t[l - 1], l)
  <2>1. t[l - 1] \in Poly
    BY <1>1, <1>12
  <2>2. t[l] = step[<<t[l - 1], l>>]
    BY <1>11 DEF Chain
  <2> QED BY <1>4, <2>1, <2>2
<1>14. NttRun(w, t)
  BY <1>12, <1>13, NttLayerIs DEF NttRun
<1> QED BY <1>9, <1>12, <1>14

\* So is ntt_inverse, with a factor at the end.
LEMMA InverseSteps ==
  ASSUME NEW w \in Poly
  PROVE  \E t : InverseRun(w, t) /\ NttInverse(w) = [j \in Coeff |-> (Scale * t[B][j]) % Q]
<1> DEFINE s == [l \in 1 .. B |-> l]
           step == [p \in Poly \X (1 .. B) |-> InverseLayer(p[1], p[2])]
           Iter(f) == f = [u \in SUBSET (1 .. B) |-> IF u = {} THEN w ELSE InverseLayer(f[u \ {Max(u)}], s[Max(u)])]
<1>1. DOMAIN s = 1 .. B /\ B \in Nat /\ B > 0
  BY ByteSize
<1>2. \A v \in Poly, l \in 1 .. B : InverseLayer(v, l) \in Poly
  <2> TAKE v \in Poly, l \in 1 .. B
  <2>1. B - l + 1 \in 1 .. B /\ B - (B - l + 1) + 1 = l
    BY <1>1
  <2>2. InverseLayer(v, B - (B - l + 1) + 1) \in Poly
    BY <2>1, InverseLayerIs
  <2> QED BY <2>1, <2>2
<1>3. step \in [Poly \X (1 .. B) -> Poly]
  BY <1>2
<1>4. \A v \in Poly, i \in 1 .. B : step[<<v, i>>] = InverseLayer(v, i)
  OBVIOUS
<1> HIDE DEF step
<1>5. PICK f : FoldRun(B, Poly, w, step, f)
  BY <1>1, <1>3, FoldRunExists
<1>6. \A u \in SUBSET (1 .. B) : u # {} => Max(u) \in 1 .. B /\ u \ {Max(u)} \in SUBSET (1 .. B)
  BY <1>1, FoldTakes
<1>7. Iter(f)
  <2>1. /\ f \in [SUBSET (1 .. B) -> Poly]
        /\ \A u \in SUBSET (1 .. B) : f[u] = IF u = {} THEN w ELSE step[<<f[u \ {Max(u)}], Max(u)>>]
    BY <1>5 DEF FoldRun
  <2>2. ASSUME NEW u \in SUBSET (1 .. B), u # {} PROVE f[u] = InverseLayer(f[u \ {Max(u)}], s[Max(u)])
    <3>1. Max(u) \in 1 .. B /\ f[u \ {Max(u)}] \in Poly
      BY <1>6, <2>1, <2>2
    <3>2. f[u] = step[<<f[u \ {Max(u)}], Max(u)>>]
      BY <2>1, <2>2
    <3> QED BY <1>4, <3>1, <3>2
  <2>3. \A u \in SUBSET (1 .. B) : f[u] = IF u = {} THEN w ELSE InverseLayer(f[u \ {Max(u)}], s[Max(u)])
    BY <2>1, <2>2
  <2>4. f = [u \in SUBSET (1 .. B) |-> f[u]]
    BY <2>1
  <2> QED BY <2>3, <2>4
<1> DEFINE g == CHOOSE f_1 : Iter(f_1)
<1>8. Iter(g)
  BY <1>7
<1>9. NttInverse(w) = [j \in Coeff |-> (Scale * g[1 .. B][j]) % Q]
  BY <1>1 DEF NttInverse, FoldLeft, MapThenFoldSet
<1> HIDE DEF g
<1>10. FoldsBy(B, Poly, w, step, g)
  BY <1>4, <1>6, <1>8 DEF FoldsBy
<1>11. PICK t : Chain(B, Poly, w, step, t, g[1 .. B])
  BY <1>1, <1>3, <1>10, FoldChain
<1>12. t \in [0 .. B -> Poly] /\ t[0] = w /\ t[B] = g[1 .. B]
  BY <1>11 DEF Chain
<1>13. ASSUME NEW l \in 1 .. B PROVE t[l - 1] \in Poly /\ t[l] = InverseLayer(t[l - 1], l)
  <2>1. t[l - 1] \in Poly
    BY <1>1, <1>12
  <2>2. t[l] = step[<<t[l - 1], l>>]
    BY <1>11 DEF Chain
  <2> QED BY <1>4, <2>1, <2>2
<1>14. ASSUME NEW l \in 1 .. B PROVE Backward(t[B - l + 1], t[B - l], l)
  <2>1. B - l + 1 \in 1 .. B /\ (B - l + 1) - 1 = B - l
    BY <1>1
  <2>2. t[(B - l + 1) - 1] \in Poly /\ t[B - l + 1] = InverseLayer(t[(B - l + 1) - 1], B - l + 1)
    BY <1>13, <2>1
  <2>3. t[B - l] \in Poly /\ t[B - l + 1] = InverseLayer(t[B - l], B - l + 1)
    BY <2>1, <2>2
  <2> QED BY <2>3, InverseLayerIs
<1>15. InverseRun(w, t)
  BY <1>12, <1>14 DEF InverseRun
<1>16. NttInverse(w) = [j \in Coeff |-> (Scale * t[B][j]) % Q]
  BY <1>9, <1>12
<1> QED BY <1>15, <1>16

\* t is the combination of a and b with the factors x and y, modulo Q; all coefficients of
\* a polynomial are.
Comb(t, x, a, y, b) == Eq(t, x * a + y * b)
Mixed(c, x, a, y, b) == \A j \in Coeff : Comb(c[j], x, a[j], y, b[j])
Scaled(b, x, a) == \A j \in Coeff : Eq(b[j], x * a[j])
Alike(a, b) == \A j \in Coeff : Eq(a[j], b[j])

CombBy(t, x, a, y, b, k) == t = x * a + y * b + k * Q

\* A combination modulo Q has a quotient.
LEMMA CombThen ==
  ASSUME NEW t \in Int, NEW x \in Int, NEW a \in Int, NEW y \in Int, NEW b \in Int, Comb(t, x, a, y, b)
  PROVE  \E k \in Int : CombBy(t, x, a, y, b, k)
<1>1. x * a + y * b \in Int
  OBVIOUS
<1>2. Eq(t, x * a + y * b)
  BY DEF Comb
<1> DEFINE s == x * a + y * b
<1> HIDE DEF s
<1>3. \E k \in Int : t = s + k * Q
  BY <1>1, <1>2, EqThen DEF s
<1> QED BY <1>3 DEF s, CombBy

\* And whatever has a quotient is one.
LEMMA CombIf ==
  ASSUME NEW t \in Int, NEW x \in Int, NEW a \in Int, NEW y \in Int, NEW b \in Int, NEW k \in Int,
         CombBy(t, x, a, y, b, k)
  PROVE  Comb(t, x, a, y, b)
<1> DEFINE s == x * a + y * b
<1>1. s \in Int /\ t = s + k * Q
  BY DEF CombBy
<1> HIDE DEF s
<1>2. Eq(t, s)
  BY <1>1, EqIf
<1> QED BY <1>2 DEF Comb, s

\* Combinations of combinations, in either order.
LEMMA CombSwap ==
  ASSUME NEW x \in Int, NEW y \in Int, NEW u \in Int, NEW v \in Int,
         NEW a \in Int, NEW b \in Int, NEW c \in Int, NEW a2 \in Int, NEW b2 \in Int, NEW c2 \in Int,
         NEW a1 \in Int, NEW b1 \in Int, NEW c1 \in Int,
         Comb(c, x, a, y, b), Comb(c2, x, a2, y, b2),
         Comb(a1, u, a, v, a2), Comb(b1, u, b, v, b2), Comb(c1, u, c, v, c2)
  PROVE  Comb(c1, x, a1, y, b1)
<1>1. Q \in Int
  BY Parameters
<1>2a. PICK k \in Int : CombBy(c, x, a, y, b, k)
  BY CombThen
<1>2. c = x * a + y * b + k * Q
  BY <1>2a DEF CombBy
<1>3a. PICK k2 \in Int : CombBy(c2, x, a2, y, b2, k2)
  BY CombThen
<1>3. c2 = x * a2 + y * b2 + k2 * Q
  BY <1>3a DEF CombBy
<1>4a. PICK ka \in Int : CombBy(a1, u, a, v, a2, ka)
  BY CombThen
<1>4. a1 = u * a + v * a2 + ka * Q
  BY <1>4a DEF CombBy
<1>5a. PICK kb \in Int : CombBy(b1, u, b, v, b2, kb)
  BY CombThen
<1>5. b1 = u * b + v * b2 + kb * Q
  BY <1>5a DEF CombBy
<1>6a. PICK kc \in Int : CombBy(c1, u, c, v, c2, kc)
  BY CombThen
<1>6. c1 = u * c + v * c2 + kc * Q
  BY <1>6a DEF CombBy
<1> DEFINE n == kc + u * k + v * k2 - x * ka - y * kb
<1>7. n \in Int
  OBVIOUS
<1>8. u * (x * a + y * b + k * Q) + v * (x * a2 + y * b2 + k2 * Q) + kc * Q
        = x * (u * a + v * a2 + ka * Q) + y * (u * b + v * b2 + kb * Q) + n * Q
  BY <1>1
<1>9. c1 = x * a1 + y * b1 + n * Q
  BY <1>2, <1>3, <1>4, <1>5, <1>6, <1>8
<1> HIDE DEF n
<1>10. CombBy(c1, x, a1, y, b1, n)
  BY <1>9 DEF CombBy
<1> QED BY <1>7, <1>10, CombIf

\* What a layer makes of a pair, as combinations.
PairForward(b, a, l, j) ==
  Comb(b[j], 1, a[j], Root(j, l), a[j + W(l)]) /\ Comb(b[j + W(l)], 1, a[j], -Root(j, l), a[j + W(l)])
PairBackward(b, a, l, j) ==
  Comb(b[j], 1, a[j], 1, a[j + W(l)]) /\ Comb(b[j + W(l)], BackRoot(j, l), a[j], -BackRoot(j, l), a[j + W(l)])

\* Where a coefficient stands in its pair.
LEMMA PairCase ==
  ASSUME NEW l \in 1 .. B, NEW j \in Coeff
  PROVE  \/ Lower(j, l) /\ j + W(l) \in Coeff
         \/ \E i \in Coeff : Lower(i, l) /\ j = i + W(l) /\ i + W(l) \in Coeff
<1>1. PairOf(j, l)
  BY Pairs
<1>2. CASE Lower(j, l)
  BY <1>1, <1>2 DEF PairOf
<1>3. CASE ~ Lower(j, l)
  <2>1. Lower(j - W(l), l) /\ (j - W(l)) + W(l) = j
    BY <1>1, <1>3 DEF PairOf
  <2>2. j - W(l) \in Coeff
    BY <2>1 DEF Lower
  <2> QED BY <2>1, <2>2
<1> QED BY <1>2, <1>3

\* What a layer does to a place and its partner.
LEMMA PairIs ==
  ASSUME NEW l \in 1 .. B, NEW a \in Poly, NEW b \in Poly, NEW j \in Coeff, Lower(j, l)
  PROVE  /\ j + W(l) \in Coeff
         /\ Forward(b, a, l) => PairForward(b, a, l, j)
         /\ Backward(b, a, l) => PairBackward(b, a, l, j)
<1> DEFINE i == j + W(l)
           z == Root(j, l)
           r == BackRoot(j, l)
           p == a[j]
           q == a[i]
<1>1. i \in Coeff
  BY Pairs DEF PairOf
<1>2. z \in Int /\ r \in Int /\ p \in Int /\ q \in Int
  BY <1>1, Roots DEF Poly
<1>3. Forward(b, a, l) => Eq(b[j], p + z * q) /\ Eq(b[i], p - z * q)
  BY DEF Forward
<1>4. Backward(b, a, l) => Eq(b[j], p + q) /\ Eq(b[i], r * (p - q))
  BY DEF Backward
<1> HIDE DEF i, z, r, p, q
<1>5. p + z * q = 1 * p + z * q /\ p - z * q = 1 * p + (-z) * q
  BY <1>2
<1>6. p + q = 1 * p + 1 * q
  BY <1>2
<1>7. r * (p - q) = r * p + (-r) * q
  BY <1>2
<1>8. Forward(b, a, l) => Comb(b[j], 1, p, z, q) /\ Comb(b[i], 1, p, -z, q)
  BY <1>3, <1>5 DEF Comb
<1>9. Backward(b, a, l) => Comb(b[j], 1, p, 1, q) /\ Comb(b[i], r, p, -r, q)
  BY <1>4, <1>6, <1>7 DEF Comb
<1> QED BY <1>1, <1>8, <1>9 DEF PairForward, PairBackward, i, z, r, p, q

\* Layers are linear.
LEMMA ForwardMixed ==
  ASSUME NEW l \in 1 .. B, NEW x \in Int, NEW y \in Int, NEW a \in Poly, NEW b \in Poly, NEW c \in Poly,
         NEW a1 \in Poly, NEW b1 \in Poly, NEW c1 \in Poly,
         Forward(a1, a, l), Forward(b1, b, l), Forward(c1, c, l), Mixed(c, x, a, y, b)
  PROVE  Mixed(c1, x, a1, y, b1)
<1>1. ASSUME NEW j \in Coeff, Lower(j, l), NEW i, i = j + W(l), i \in Coeff
      PROVE  Comb(c1[j], x, a1[j], y, b1[j]) /\ Comb(c1[i], x, a1[i], y, b1[i])
  <2>1. PairForward(a1, a, l, j) /\ PairForward(b1, b, l, j) /\ PairForward(c1, c, l, j)
    BY <1>1, PairIs
  <2>2. Comb(c[j], x, a[j], y, b[j]) /\ Comb(c[i], x, a[i], y, b[i])
    BY <1>1 DEF Mixed
  <2> DEFINE z == Root(j, l)
             n == -Root(j, l)
  <2>3. z \in Int /\ n \in Int /\ 1 \in Int
    BY Roots
  <2>4. /\ a[j] \in Int /\ b[j] \in Int /\ c[j] \in Int /\ a[i] \in Int /\ b[i] \in Int /\ c[i] \in Int
        /\ a1[j] \in Int /\ b1[j] \in Int /\ c1[j] \in Int /\ a1[i] \in Int /\ b1[i] \in Int /\ c1[i] \in Int
    BY <1>1 DEF Poly
  <2>5. /\ Comb(a1[j], 1, a[j], z, a[i]) /\ Comb(b1[j], 1, b[j], z, b[i]) /\ Comb(c1[j], 1, c[j], z, c[i])
        /\ Comb(a1[i], 1, a[j], n, a[i]) /\ Comb(b1[i], 1, b[j], n, b[i]) /\ Comb(c1[i], 1, c[j], n, c[i])
    BY <1>1, <2>1 DEF PairForward
  <2> HIDE DEF z, n
  <2>6. Comb(c1[j], x, a1[j], y, b1[j])
    BY <2>2, <2>3, <2>4, <2>5, CombSwap
  <2>7. Comb(c1[i], x, a1[i], y, b1[i])
    BY <2>2, <2>3, <2>4, <2>5, CombSwap
  <2> QED BY <2>6, <2>7
<1> QED BY <1>1, PairCase DEF Mixed

\* A layer of ntt_inverse keeps combinations.
LEMMA BackwardMixed ==
  ASSUME NEW l \in 1 .. B, NEW x \in Int, NEW y \in Int, NEW a \in Poly, NEW b \in Poly, NEW c \in Poly,
         NEW a1 \in Poly, NEW b1 \in Poly, NEW c1 \in Poly,
         Backward(a1, a, l), Backward(b1, b, l), Backward(c1, c, l), Mixed(c, x, a, y, b)
  PROVE  Mixed(c1, x, a1, y, b1)
<1>1. ASSUME NEW j \in Coeff, Lower(j, l), NEW i, i = j + W(l), i \in Coeff
      PROVE  Comb(c1[j], x, a1[j], y, b1[j]) /\ Comb(c1[i], x, a1[i], y, b1[i])
  <2>1. PairBackward(a1, a, l, j) /\ PairBackward(b1, b, l, j) /\ PairBackward(c1, c, l, j)
    BY <1>1, PairIs
  <2>2. Comb(c[j], x, a[j], y, b[j]) /\ Comb(c[i], x, a[i], y, b[i])
    BY <1>1 DEF Mixed
  <2> DEFINE z == BackRoot(j, l)
             n == -BackRoot(j, l)
  <2>3. z \in Int /\ n \in Int /\ 1 \in Int
    BY Roots
  <2>4. /\ a[j] \in Int /\ b[j] \in Int /\ c[j] \in Int /\ a[i] \in Int /\ b[i] \in Int /\ c[i] \in Int
        /\ a1[j] \in Int /\ b1[j] \in Int /\ c1[j] \in Int /\ a1[i] \in Int /\ b1[i] \in Int /\ c1[i] \in Int
    BY <1>1 DEF Poly
  <2>5. /\ Comb(a1[j], 1, a[j], 1, a[i]) /\ Comb(b1[j], 1, b[j], 1, b[i]) /\ Comb(c1[j], 1, c[j], 1, c[i])
        /\ Comb(a1[i], z, a[j], n, a[i]) /\ Comb(b1[i], z, b[j], n, b[i]) /\ Comb(c1[i], z, c[j], n, c[i])
    BY <1>1, <2>1 DEF PairBackward
  <2> HIDE DEF z, n
  <2>6. Comb(c1[j], x, a1[j], y, b1[j])
    BY <2>2, <2>3, <2>4, <2>5, CombSwap
  <2>7. Comb(c1[i], x, a1[i], y, b1[i])
    BY <2>2, <2>3, <2>4, <2>5, CombSwap
  <2> QED BY <2>6, <2>7
<1> QED BY <1>1, PairCase DEF Mixed

\* A layer of ntt_inverse after the layer of ntt it undoes doubles, and the other way round.
LEMMA BackAfterForward ==
  ASSUME NEW l \in 1 .. B, NEW a \in Poly, NEW b \in Poly, NEW c \in Poly, Forward(b, a, l), Backward(c, b, l)
  PROVE  Scaled(c, 2, a)
<1>1. ASSUME NEW j \in Coeff, Lower(j, l), NEW i, i = j + W(l), i \in Coeff
      PROVE  Eq(c[j], 2 * a[j]) /\ Eq(c[i], 2 * a[i])
  <2>1. PairForward(b, a, l, j) /\ PairBackward(c, b, l, j)
    BY <1>1, PairIs
  <2> DEFINE z == Root(j, l)
             r == BackRoot(j, l)
             n == -Root(j, l)
             m == -BackRoot(j, l)
             p == a[j]
             q == a[i]
             p1 == b[j]
             q1 == b[i]
             p2 == c[j]
             q2 == c[i]
  <2>2. z \in Int /\ r \in Int /\ Eq(z * r, 1) /\ z * r \in Int /\ 1 \in Int
    BY Roots
  <2>3. p \in Int /\ q \in Int /\ p1 \in Int /\ q1 \in Int /\ p2 \in Int /\ q2 \in Int
    BY <1>1 DEF Poly
  <2>4. Comb(p1, 1, p, z, q) /\ Comb(q1, 1, p, n, q) /\ Comb(p2, 1, p1, 1, q1) /\ Comb(q2, r, p1, m, q1)
    BY <1>1, <2>1 DEF PairForward, PairBackward
  <2>5. n = -z /\ m = -r /\ n \in Int /\ m \in Int /\ Q \in Int
    BY <2>2, Parameters
  <2> HIDE DEF z, r, n, m, p, q, p1, q1, p2, q2
  <2>6. PICK k \in Int : z * r = 1 + k * Q
    BY <2>2, EqThen
  <2>7a. PICK k1 \in Int : CombBy(p1, 1, p, z, q, k1)
    BY <2>2, <2>3, <2>4, CombThen
  <2>7. p1 = 1 * p + z * q + k1 * Q
    BY <2>7a DEF CombBy
  <2>8a. PICK k2 \in Int : CombBy(q1, 1, p, n, q, k2)
    BY <2>2, <2>3, <2>4, <2>5, CombThen
  <2>8. q1 = 1 * p + n * q + k2 * Q
    BY <2>8a DEF CombBy
  <2>9a. PICK k3 \in Int : CombBy(p2, 1, p1, 1, q1, k3)
    BY <2>2, <2>3, <2>4, CombThen
  <2>9. p2 = 1 * p1 + 1 * q1 + k3 * Q
    BY <2>9a DEF CombBy
  <2>10a. PICK k4 \in Int : CombBy(q2, r, p1, m, q1, k4)
    BY <2>2, <2>3, <2>4, <2>5, CombThen
  <2>10. q2 = r * p1 + m * q1 + k4 * Q
    BY <2>10a DEF CombBy
  <2>11. Eq(p2, 2 * p)
    <3>1. p2 = 2 * p + (k1 + k2 + k3) * Q
      <4>1. (1 * p + z * q + k1 * Q) + (1 * p + (-z) * q + k2 * Q) + k3 * Q = 2 * p + (k1 + k2 + k3) * Q
        BY <2>2, <2>3, <2>5
      <4>2. p2 = p1 + q1 + k3 * Q
        BY <2>3, <2>9
      <4> QED BY <2>5, <2>7, <2>8, <4>1, <4>2
    <3>2. 2 * p \in Int /\ k1 + k2 + k3 \in Int
      BY <2>3
    <3> QED BY <2>3, <3>1, <3>2, EqIf
  <2>12. Eq(q2, 2 * q)
    <3> DEFINE e == 2 * q * k + r * (k1 - k2) + k4
    <3>1. r * (1 * p + z * q + k1 * Q) + (-r) * (1 * p + (-z) * q + k2 * Q) + k4 * Q
            = (2 * q) * (z * r) + (r * (k1 - k2) + k4) * Q
      BY <2>2, <2>3, <2>5
    <3>2. (2 * q) * (1 + k * Q) + (r * (k1 - k2) + k4) * Q = 2 * q + e * Q
      BY <2>2, <2>3, <2>5
    <3>3. q2 = (2 * q) * (z * r) + (r * (k1 - k2) + k4) * Q
      BY <2>5, <2>7, <2>8, <2>10, <3>1
    <3>4. q2 = 2 * q + e * Q
      BY <2>6, <3>2, <3>3
    <3>5. 2 * q \in Int /\ e \in Int
      BY <2>2, <2>3
    <3> HIDE DEF e
    <3> QED BY <2>3, <3>4, <3>5, EqIf
  <2> QED BY <2>11, <2>12 DEF p, q, p2, q2
<1> QED BY <1>1, PairCase DEF Scaled

\* A layer of ntt after that of ntt_inverse doubles.
LEMMA ForwardAfterBack ==
  ASSUME NEW l \in 1 .. B, NEW a \in Poly, NEW b \in Poly, NEW c \in Poly, Backward(b, a, l), Forward(c, b, l)
  PROVE  Scaled(c, 2, a)
<1>1. ASSUME NEW j \in Coeff, Lower(j, l), NEW i, i = j + W(l), i \in Coeff
      PROVE  Eq(c[j], 2 * a[j]) /\ Eq(c[i], 2 * a[i])
  <2>1. PairBackward(b, a, l, j) /\ PairForward(c, b, l, j)
    BY <1>1, PairIs
  <2> DEFINE z == Root(j, l)
             r == BackRoot(j, l)
             n == -Root(j, l)
             m == -BackRoot(j, l)
             p == a[j]
             q == a[i]
             p1 == b[j]
             q1 == b[i]
             p2 == c[j]
             q2 == c[i]
  <2>2. z \in Int /\ r \in Int /\ Eq(z * r, 1) /\ z * r \in Int /\ 1 \in Int
    BY Roots
  <2>3. p \in Int /\ q \in Int /\ p1 \in Int /\ q1 \in Int /\ p2 \in Int /\ q2 \in Int
    BY <1>1 DEF Poly
  <2>4. Comb(p1, 1, p, 1, q) /\ Comb(q1, r, p, m, q) /\ Comb(p2, 1, p1, z, q1) /\ Comb(q2, 1, p1, n, q1)
    BY <1>1, <2>1 DEF PairForward, PairBackward
  <2>5. n = -z /\ m = -r /\ n \in Int /\ m \in Int /\ Q \in Int
    BY <2>2, Parameters
  <2> HIDE DEF z, r, n, m, p, q, p1, q1, p2, q2
  <2>6. PICK k \in Int : z * r = 1 + k * Q
    BY <2>2, EqThen
  <2>7a. PICK k1 \in Int : CombBy(p1, 1, p, 1, q, k1)
    BY <2>2, <2>3, <2>4, CombThen
  <2>7. p1 = 1 * p + 1 * q + k1 * Q
    BY <2>7a DEF CombBy
  <2>8a. PICK k2 \in Int : CombBy(q1, r, p, m, q, k2)
    BY <2>2, <2>3, <2>4, <2>5, CombThen
  <2>8. q1 = r * p + m * q + k2 * Q
    BY <2>8a DEF CombBy
  <2>9a. PICK k3 \in Int : CombBy(p2, 1, p1, z, q1, k3)
    BY <2>2, <2>3, <2>4, CombThen
  <2>9. p2 = 1 * p1 + z * q1 + k3 * Q
    BY <2>9a DEF CombBy
  <2>10a. PICK k4 \in Int : CombBy(q2, 1, p1, n, q1, k4)
    BY <2>2, <2>3, <2>4, <2>5, CombThen
  <2>10. q2 = 1 * p1 + n * q1 + k4 * Q
    BY <2>10a DEF CombBy
  <2>11. Eq(p2, 2 * p)
    <3> DEFINE e == k * (p - q) + k1 + z * k2 + k3
    <3>1. 1 * (1 * p + 1 * q + k1 * Q) + z * (r * p + (-r) * q + k2 * Q) + k3 * Q
            = p + q + (z * r) * (p - q) + (k1 + z * k2 + k3) * Q
      BY <2>2, <2>3, <2>5
    <3>2. p + q + (1 + k * Q) * (p - q) + (k1 + z * k2 + k3) * Q = 2 * p + e * Q
      BY <2>2, <2>3, <2>5
    <3>3. p2 = p + q + (z * r) * (p - q) + (k1 + z * k2 + k3) * Q
      BY <2>5, <2>7, <2>8, <2>9, <3>1
    <3>4. p2 = 2 * p + e * Q
      BY <2>6, <3>2, <3>3
    <3>5. 2 * p \in Int /\ e \in Int
      BY <2>2, <2>3
    <3> HIDE DEF e
    <3> QED BY <2>3, <3>4, <3>5, EqIf
  <2>12. Eq(q2, 2 * q)
    <3> DEFINE e == k1 + k4 - z * k2 - k * (p - q)
    <3>1. 1 * (1 * p + 1 * q + k1 * Q) + (-z) * (r * p + (-r) * q + k2 * Q) + k4 * Q
            = p + q - (z * r) * (p - q) + (k1 - z * k2 + k4) * Q
      BY <2>2, <2>3, <2>5
    <3>2. p + q - (1 + k * Q) * (p - q) + (k1 - z * k2 + k4) * Q = 2 * q + e * Q
      BY <2>2, <2>3, <2>5
    <3>3. q2 = p + q - (z * r) * (p - q) + (k1 - z * k2 + k4) * Q
      BY <2>5, <2>7, <2>8, <2>10, <3>1
    <3>4. q2 = 2 * q + e * Q
      BY <2>6, <3>2, <3>3
    <3>5. 2 * q \in Int /\ e \in Int
      BY <2>2, <2>3
    <3> HIDE DEF e
    <3> QED BY <2>3, <3>4, <3>5, EqIf
  <2> QED BY <2>11, <2>12 DEF p, q, p2, q2
<1> QED BY <1>1, PairCase DEF Scaled

\* Multiples of multiples.
LEMMA ScaledType ==
  ASSUME NEW b, NEW x \in Int, NEW a \in Poly, Scaled(b, x, a)
  PROVE  Mixed(b, x, a, 0, a)
<1>1. ASSUME NEW j \in Coeff PROVE Comb(b[j], x, a[j], 0, a[j])
  <2>1. a[j] \in Int
    BY DEF Poly
  <2>2. x * a[j] + 0 * a[j] = x * a[j]
    BY <2>1
  <2>3. Eq(b[j], x * a[j])
    BY DEF Scaled
  <2> QED BY <2>2, <2>3 DEF Comb
<1> QED BY <1>1 DEF Mixed

\* One factor after another.
LEMMA ScaledTwice ==
  ASSUME NEW c \in Poly, NEW x \in Int, NEW b \in Poly, NEW y \in Int, NEW a \in Poly,
         Mixed(c, x, b, 0, b), Scaled(b, y, a), NEW z \in Int, z = x * y
  PROVE  Scaled(c, z, a)
<1>1. ASSUME NEW j \in Coeff PROVE Eq(c[j], z * a[j])
  <2> DEFINE p == a[j]
             q == b[j]
  <2>1. p \in Int /\ q \in Int /\ c[j] \in Int
    BY DEF Poly
  <2>2. Eq(c[j], x * q + 0 * q)
    BY DEF Mixed, Comb
  <2>3. Eq(q, y * p)
    BY DEF Scaled
  <2> HIDE DEF p, q
  <2>4. x * q + 0 * q = x * q /\ x * q \in Int /\ y * p \in Int /\ x * (y * p) = (x * y) * p /\ x * (y * p) \in Int
    BY <2>1
  <2>5. Eq(x, x)
    BY EqModulus
  <2>6. Eq(x * q, x * (y * p))
    BY <2>1, <2>3, <2>4, <2>5, EqProduct
  <2>7. Eq(c[j], x * q)
    BY <2>2, <2>4
  <2>8. Eq(c[j], x * (y * p))
    BY <2>1, <2>4, <2>6, <2>7, EqThrough
  <2> QED BY <2>4, <2>8 DEF p
<1> QED BY <1>1 DEF Scaled

\* What ntt_inverse divides by.
LEMMA ScaleIs ==
  Scale \in 1 .. Q - 1 /\ Scale \in Int /\ Eq(Scale * N, 1)
<1>1. Q \in Nat /\ Q > 2 /\ N \in Nat
  BY Parameters, ByteSize
<1>2. \E f \in 1 .. Q - 1 : (f * N) % Q = 1
  BY RootAssumption
<1>3. Scale \in 1 .. Q - 1 /\ (Scale * N) % Q = 1
  BY <1>2 DEF Scale
<1>4. (0 * Q + 1) % Q = 1 /\ 0 * Q + 1 = 1
  <2>1. (0 * Q + 1) % Q = 1
    BY <1>1, DivisionUnique
  <2> QED BY <1>1, <2>1
<1> QED BY <1>1, <1>3, <1>4 DEF Eq

\* ntt and ntt_inverse give polynomials.
LEMMA NttType ==
  ASSUME NEW w \in Poly
  PROVE  Ntt(w) \in Poly /\ NttInverse(w) \in [Coeff -> 0 .. Q - 1] /\ NttInverse(w) \in Poly
<1>1. B \in 0 .. B
  BY ByteSize
<1>2. PICK u : NttRun(w, u) /\ Ntt(w) = u[B]
  BY NttSteps
<1>3. PICK t : InverseRun(w, t) /\ NttInverse(w) = [j \in Coeff |-> (Scale * t[B][j]) % Q]
  BY InverseSteps
<1>4. u[B] \in Poly /\ t[B] \in Poly
  BY <1>1, <1>2, <1>3 DEF NttRun, InverseRun
<1>5. ASSUME NEW j \in Coeff PROVE (Scale * t[B][j]) % Q \in 0 .. Q - 1
  <2>1. t[B][j] \in Int /\ Scale \in Int
    BY <1>4, ScaleIs DEF Poly
  <2>2. Scale * t[B][j] \in Int
    BY <2>1
  <2> QED BY <2>2, EqModulus
<1>6. NttInverse(w) \in [Coeff -> 0 .. Q - 1]
  BY <1>3, <1>5
<1>7. 0 .. Q - 1 \subseteq Int
  BY Parameters
<1>8. NttInverse(w) \in Poly
  BY <1>6, <1>7 DEF Poly
<1> QED BY <1>2, <1>4, <1>6, <1>8

\* ntt_inverse undoes ntt.
LEMMA InverseOfNtt ==
  ASSUME NEW w \in Poly
  PROVE  Alike(NttInverse(Ntt(w)), w)
<1>1. PICK u : NttRun(w, u) /\ Ntt(w) = u[B]
  BY NttSteps
<1>2. Ntt(w) \in Poly /\ B \in Nat
  BY NttType, ByteSize
<1>3. PICK v : InverseRun(Ntt(w), v) /\ NttInverse(Ntt(w)) = [j \in Coeff |-> (Scale * v[B][j]) % Q]
  BY <1>2, InverseSteps
<1>4. u \in [0 .. B -> Poly] /\ u[0] = w /\ \A l \in 1 .. B : Forward(u[l], u[l - 1], l)
  BY <1>1 DEF NttRun
<1>5. v \in [0 .. B -> Poly] /\ v[0] = u[B] /\ \A l \in 1 .. B : Backward(v[B - l + 1], v[B - l], l)
  BY <1>1, <1>3 DEF InverseRun
<1> DEFINE S == {m \in Nat : m <= B => Scaled(v[m], Pow2(m), u[B - m])}
<1>6. 0 \in S
  <2>1. ASSUME NEW j \in Coeff PROVE Eq(v[0][j], Pow2(0) * u[B - 0][j])
    <3>1. B - 0 = B /\ B \in 0 .. B /\ Pow2(0) = 1
      BY <1>2, PowerOfTwo
    <3>2. u[B][j] \in Int
      BY <1>4, <3>1 DEF Poly
    <3>3. 1 * u[B][j] = u[B][j]
      BY <3>2
    <3>4. Eq(u[B][j], u[B][j])
      BY <3>2, EqModulus
    <3> QED BY <1>5, <3>1, <3>3, <3>4
  <2> QED BY <2>1 DEF Scaled
<1>7. ASSUME NEW m \in Nat, m \in S PROVE m + 1 \in S
  <2> SUFFICES ASSUME m + 1 <= B PROVE Scaled(v[m + 1], Pow2(m + 1), u[B - (m + 1)])
    OBVIOUS
  <2> DEFINE l == B - m
             d == InverseLayer(u[l], B - l + 1)
  <2>1. l \in 1 .. B /\ l - 1 = B - (m + 1) /\ B - l + 1 = m + 1 /\ B - l = m /\ l \in 0 .. B /\ l - 1 \in 0 .. B
        /\ m \in 0 .. B /\ m + 1 \in 0 .. B
    BY <1>2
  <2>2. Scaled(v[m], Pow2(m), u[l])
    BY <1>2, <1>7
  <2> HIDE DEF l
  <2>3. u[l] \in Poly /\ u[l - 1] \in Poly /\ v[m] \in Poly /\ v[m + 1] \in Poly
    BY <1>4, <1>5, <2>1
  <2>4. d \in Poly /\ Backward(d, u[l], l)
    BY <2>1, <2>3, InverseLayerIs
  <2> HIDE DEF d
  <2>5. Forward(u[l], u[l - 1], l)
    BY <1>4, <2>1
  <2>6. Scaled(d, 2, u[l - 1])
    BY <2>1, <2>3, <2>4, <2>5, BackAfterForward
  <2>7. Backward(v[m + 1], v[m], l)
    <3>1. Backward(v[B - l + 1], v[B - l], l)
      BY <1>5, <2>1
    <3> QED BY <2>1, <3>1
  <2>8. Pow2(m) \in Nat /\ Pow2(m + 1) = 2 * Pow2(m)
    BY PowerType, PowerOfTwo
  <2>9. Mixed(v[m], Pow2(m), u[l], 0, u[l])
    BY <2>2, <2>3, <2>8, ScaledType
  <2>10. Mixed(v[m + 1], Pow2(m), d, 0, d)
    <3>1. Pow2(m) \in Int /\ 0 \in Int
      BY <2>8
    <3> QED BY <2>1, <2>3, <2>4, <2>7, <2>9, <3>1, BackwardMixed
  <2>11. Scaled(v[m + 1], Pow2(m + 1), u[l - 1])
    <3>1. Pow2(m + 1) \in Int /\ Pow2(m) \in Int /\ 2 \in Int /\ Pow2(m + 1) = Pow2(m) * 2
      BY <2>8
    <3> QED BY <2>3, <2>4, <2>6, <2>10, <3>1, ScaledTwice
  <2> QED BY <2>1, <2>11
<1> HIDE DEF S
<1>8. B \in S
  BY <1>2, <1>6, <1>7, SetInduction
<1>9. Scaled(v[B], N, w)
  <2>1. B - B = 0 /\ N = Pow2(B)
    BY <1>2, ByteSize
  <2> QED BY <1>2, <1>4, <1>8, <2>1 DEF S
<1>10. ASSUME NEW j \in Coeff PROVE Eq(NttInverse(Ntt(w))[j], w[j])
  <2> DEFINE x == v[B][j]
             y == w[j]
  <2>1. B \in 0 .. B
    BY <1>2
  <2>2. x \in Int /\ y \in Int /\ N \in Int /\ Scale \in Int
    BY <1>5, <2>1, ByteSize, ScaleIs DEF Poly
  <2>3. Eq(x, N * y)
    BY <1>9 DEF Scaled
  <2>4. NttInverse(Ntt(w))[j] = (Scale * x) % Q
    BY <1>3
  <2> HIDE DEF x, y
  <2>5. Scale * x \in Int /\ N * y \in Int /\ Scale * (N * y) = (Scale * N) * y /\ Scale * N \in Int
        /\ (Scale * N) * y \in Int /\ 1 * y = y
    BY <2>2
  <2>6. Eq(Scale * x, Scale * (N * y))
    <3>1. Eq(Scale, Scale)
      BY <2>2, EqModulus
    <3> QED BY <2>2, <2>3, <2>5, <3>1, EqProduct
  <2>7. Eq((Scale * N) * y, 1 * y)
    <3>1. Eq(y, y) /\ 1 \in Int
      BY <2>2, EqModulus
    <3> QED BY <2>2, <2>5, <3>1, ScaleIs, EqProduct
  <2>8. Eq(Scale * x, y)
    BY <2>2, <2>5, <2>6, <2>7, EqThrough
  <2>9. Eq((Scale * x) % Q, Scale * x) /\ (Scale * x) % Q \in Int
    BY <2>5, EqModulus
  <2>10. Eq((Scale * x) % Q, y)
    BY <2>2, <2>5, <2>8, <2>9, EqThrough
  <2> QED BY <2>4, <2>10 DEF y
<1> QED BY <1>10 DEF Alike

\* ntt undoes ntt_inverse.
LEMMA NttOfInverse ==
  ASSUME NEW w \in Poly
  PROVE  Alike(Ntt(NttInverse(w)), w)
<1>1. B \in Nat /\ Scale \in Int
  BY ByteSize, ScaleIs
<1>2. PICK v : InverseRun(w, v) /\ NttInverse(w) = [j \in Coeff |-> (Scale * v[B][j]) % Q]
  BY InverseSteps
<1> DEFINE s == NttInverse(w)
<1>3. s \in Poly
  BY NttType
<1>4. PICK u : NttRun(s, u) /\ Ntt(s) = u[B]
  BY <1>3, NttSteps
<1>5. u \in [0 .. B -> Poly] /\ u[0] = s /\ \A l \in 1 .. B : Forward(u[l], u[l - 1], l)
  BY <1>4 DEF NttRun
<1>6. v \in [0 .. B -> Poly] /\ v[0] = w /\ \A l \in 1 .. B : Backward(v[B - l + 1], v[B - l], l)
  BY <1>2 DEF InverseRun
<1> DEFINE S == {m \in Nat : m <= B => Scaled(u[m], Scale * Pow2(m), v[B - m])}
<1>7. 0 \in S
  <2>1. ASSUME NEW j \in Coeff PROVE Eq(u[0][j], (Scale * Pow2(0)) * v[B - 0][j])
    <3>1. B - 0 = B /\ B \in 0 .. B /\ Pow2(0) = 1
      BY <1>1, PowerOfTwo
    <3>2. v[B][j] \in Int
      BY <1>6, <3>1 DEF Poly
    <3>3. Scale * Pow2(0) = Scale /\ Scale * v[B][j] \in Int
      BY <1>1, <3>1, <3>2
    <3>4. Eq((Scale * v[B][j]) % Q, Scale * v[B][j])
      BY <3>3, EqModulus
    <3>5. u[0][j] = (Scale * v[B][j]) % Q
      BY <1>2, <1>5
    <3> QED BY <3>1, <3>3, <3>4, <3>5
  <2> QED BY <2>1 DEF Scaled
<1> HIDE DEF s
<1>8. ASSUME NEW m \in Nat, m \in S PROVE m + 1 \in S
  <2> SUFFICES ASSUME m + 1 <= B PROVE Scaled(u[m + 1], Scale * Pow2(m + 1), v[B - (m + 1)])
    OBVIOUS
  <2> DEFINE l == m + 1
             k == B - m
             d == NttLayer(v[k], l)
             c == Scale * Pow2(m)
  <2>1. l \in 1 .. B /\ l - 1 = m /\ B - l + 1 = k /\ B - l = B - (m + 1) /\ k \in 0 .. B /\ B - l \in 0 .. B
        /\ m \in 0 .. B /\ l \in 0 .. B
    BY <1>1
  <2>2. Scaled(u[m], c, v[k])
    BY <1>1, <1>8
  <2> HIDE DEF l, k
  <2>3. u[m] \in Poly /\ u[l] \in Poly /\ v[k] \in Poly /\ v[B - l] \in Poly
    BY <1>5, <1>6, <2>1
  <2>4. d \in Poly /\ Forward(d, v[k], l)
    BY <2>1, <2>3, NttLayerIs
  <2> HIDE DEF d
  <2>5. Backward(v[k], v[B - l], l)
    <3>1. Backward(v[B - l + 1], v[B - l], l)
      BY <1>6, <2>1
    <3> QED BY <2>1, <3>1
  <2>6. Scaled(d, 2, v[B - l])
    BY <2>1, <2>3, <2>4, <2>5, ForwardAfterBack
  <2>7. Forward(u[l], u[m], l)
    <3>1. Forward(u[l], u[l - 1], l)
      BY <1>5, <2>1
    <3> QED BY <2>1, <3>1
  <2>8. Pow2(m) \in Nat /\ Pow2(m + 1) = 2 * Pow2(m)
    BY PowerType, PowerOfTwo
  <2>9. c \in Int /\ c * 2 = Scale * Pow2(m + 1)
    BY <1>1, <2>8
  <2> HIDE DEF c
  <2>10. Mixed(u[m], c, v[k], 0, v[k])
    BY <2>2, <2>3, <2>9, ScaledType
  <2>11. Mixed(u[l], c, d, 0, d)
    <3>1. 0 \in Int
      OBVIOUS
    <3> QED BY <2>1, <2>3, <2>4, <2>7, <2>9, <2>10, <3>1, ForwardMixed
  <2>12. Scaled(u[l], Scale * Pow2(m + 1), v[B - l])
    <3> DEFINE e == Scale * Pow2(m + 1)
    <3>1. e \in Int /\ 2 \in Int /\ e = c * 2
      BY <1>1, <2>8, <2>9
    <3> HIDE DEF e
    <3>2. Scaled(u[l], e, v[B - l])
      BY <2>3, <2>4, <2>6, <2>9, <2>11, <3>1, ScaledTwice
    <3> QED BY <3>2 DEF e
  <2> QED BY <2>1, <2>12 DEF l
<1> HIDE DEF S
<1>9. B \in S
  BY <1>1, <1>7, <1>8, SetInduction
<1>10. Scaled(u[B], Scale * N, w)
  <2>1. B - B = 0 /\ N = Pow2(B)
    BY <1>1, ByteSize
  <2> QED BY <1>1, <1>6, <1>9, <2>1 DEF S
<1>11. ASSUME NEW j \in Coeff PROVE Eq(Ntt(s)[j], w[j])
  <2> DEFINE x == u[B][j]
             y == w[j]
             c == Scale * N
  <2>1. B \in 0 .. B /\ N \in Int
    BY <1>1, ByteSize
  <2>2. x \in Int /\ y \in Int /\ c \in Int
    BY <1>1, <1>5, <2>1 DEF Poly
  <2>3. Eq(x, c * y) /\ Eq(c, 1)
    BY <1>10, ScaleIs DEF Scaled
  <2> HIDE DEF x, y, c
  <2>4. c * y \in Int /\ 1 * y = y /\ 1 \in Int
    BY <2>2
  <2>5. Eq(c * y, 1 * y)
    <3>1. Eq(y, y)
      BY <2>2, EqModulus
    <3> QED BY <2>2, <2>3, <2>4, <3>1, EqProduct
  <2>6. Eq(x, y)
    BY <2>2, <2>3, <2>4, <2>5, EqThrough
  <2> QED BY <1>4, <2>6 DEF x, y
<1> QED BY <1>11 DEF Alike, s

\* Both are linear.
LEMMA NttMixed ==
  ASSUME NEW x \in Int, NEW y \in Int, NEW a \in Poly, NEW b \in Poly, NEW c \in Poly, Mixed(c, x, a, y, b)
  PROVE  Mixed(Ntt(c), x, Ntt(a), y, Ntt(b)) /\ Mixed(NttInverse(c), x, NttInverse(a), y, NttInverse(b))
<1>1. B \in Nat
  BY ByteSize
<1>2. Mixed(Ntt(c), x, Ntt(a), y, Ntt(b))
  <2>1. PICK ra : NttRun(a, ra) /\ Ntt(a) = ra[B]
    BY NttSteps
  <2>2. PICK rb : NttRun(b, rb) /\ Ntt(b) = rb[B]
    BY NttSteps
  <2>3. PICK rc : NttRun(c, rc) /\ Ntt(c) = rc[B]
    BY NttSteps
  <2>4. /\ ra \in [0 .. B -> Poly] /\ ra[0] = a /\ \A l \in 1 .. B : Forward(ra[l], ra[l - 1], l)
        /\ rb \in [0 .. B -> Poly] /\ rb[0] = b /\ \A l \in 1 .. B : Forward(rb[l], rb[l - 1], l)
        /\ rc \in [0 .. B -> Poly] /\ rc[0] = c /\ \A l \in 1 .. B : Forward(rc[l], rc[l - 1], l)
    BY <2>1, <2>2, <2>3 DEF NttRun
  <2> DEFINE S == {m \in Nat : m <= B => Mixed(rc[m], x, ra[m], y, rb[m])}
  <2>5. 0 \in S
    BY <2>4
  <2>6. ASSUME NEW m \in Nat, m \in S PROVE m + 1 \in S
    <3> SUFFICES ASSUME m + 1 <= B PROVE Mixed(rc[m + 1], x, ra[m + 1], y, rb[m + 1])
      OBVIOUS
    <3> DEFINE l == m + 1
    <3>1. l \in 1 .. B /\ l - 1 = m /\ m \in 0 .. B /\ l \in 0 .. B
      BY <1>1
    <3>2. Mixed(rc[m], x, ra[m], y, rb[m])
      BY <1>1, <2>6
    <3> HIDE DEF l
    <3>3. Forward(ra[l], ra[m], l) /\ Forward(rb[l], rb[m], l) /\ Forward(rc[l], rc[m], l)
      <4>1. Forward(ra[l], ra[l - 1], l) /\ Forward(rb[l], rb[l - 1], l) /\ Forward(rc[l], rc[l - 1], l)
        BY <2>4, <3>1
      <4> QED BY <3>1, <4>1
    <3>4. ra[m] \in Poly /\ rb[m] \in Poly /\ rc[m] \in Poly /\ ra[l] \in Poly /\ rb[l] \in Poly /\ rc[l] \in Poly
      BY <2>4, <3>1
    <3>5. Mixed(rc[l], x, ra[l], y, rb[l])
      BY <3>1, <3>2, <3>3, <3>4, ForwardMixed
    <3> QED BY <3>5 DEF l
  <2> HIDE DEF S
  <2>7. B \in S
    BY <1>1, <2>5, <2>6, SetInduction
  <2> QED BY <1>1, <2>1, <2>2, <2>3, <2>7 DEF S
<1>3. Mixed(NttInverse(c), x, NttInverse(a), y, NttInverse(b))
  <2>1. PICK ra : InverseRun(a, ra) /\ NttInverse(a) = [j \in Coeff |-> (Scale * ra[B][j]) % Q]
    BY InverseSteps
  <2>2. PICK rb : InverseRun(b, rb) /\ NttInverse(b) = [j \in Coeff |-> (Scale * rb[B][j]) % Q]
    BY InverseSteps
  <2>3. PICK rc : InverseRun(c, rc) /\ NttInverse(c) = [j \in Coeff |-> (Scale * rc[B][j]) % Q]
    BY InverseSteps
  <2>4. /\ ra \in [0 .. B -> Poly] /\ ra[0] = a /\ \A l \in 1 .. B : Backward(ra[B - l + 1], ra[B - l], l)
        /\ rb \in [0 .. B -> Poly] /\ rb[0] = b /\ \A l \in 1 .. B : Backward(rb[B - l + 1], rb[B - l], l)
        /\ rc \in [0 .. B -> Poly] /\ rc[0] = c /\ \A l \in 1 .. B : Backward(rc[B - l + 1], rc[B - l], l)
    BY <2>1, <2>2, <2>3 DEF InverseRun
  <2> DEFINE S == {m \in Nat : m <= B => Mixed(rc[m], x, ra[m], y, rb[m])}
  <2>5. 0 \in S
    BY <2>4
  <2>6. ASSUME NEW m \in Nat, m \in S PROVE m + 1 \in S
    <3> SUFFICES ASSUME m + 1 <= B PROVE Mixed(rc[m + 1], x, ra[m + 1], y, rb[m + 1])
      OBVIOUS
    <3> DEFINE l == B - m
               n == m + 1
    <3>1. l \in 1 .. B /\ B - l + 1 = n /\ B - l = m /\ m \in 0 .. B /\ n \in 0 .. B
      BY <1>1
    <3>2. Mixed(rc[m], x, ra[m], y, rb[m])
      BY <1>1, <2>6
    <3> HIDE DEF l, n
    <3>3. Backward(ra[n], ra[m], l) /\ Backward(rb[n], rb[m], l) /\ Backward(rc[n], rc[m], l)
      <4>1. /\ Backward(ra[B - l + 1], ra[B - l], l) /\ Backward(rb[B - l + 1], rb[B - l], l)
            /\ Backward(rc[B - l + 1], rc[B - l], l)
        BY <2>4, <3>1
      <4> QED BY <3>1, <4>1
    <3>4. ra[m] \in Poly /\ rb[m] \in Poly /\ rc[m] \in Poly /\ ra[n] \in Poly /\ rb[n] \in Poly /\ rc[n] \in Poly
      BY <2>4, <3>1
    <3>5. Mixed(rc[n], x, ra[n], y, rb[n])
      BY <3>1, <3>2, <3>3, <3>4, BackwardMixed
    <3> QED BY <3>5 DEF n
  <2> HIDE DEF S
  <2>7. B \in S
    BY <1>1, <2>5, <2>6, SetInduction
  <2>8. Mixed(rc[B], x, ra[B], y, rb[B])
    BY <1>1, <2>7 DEF S
  <2>9. ASSUME NEW j \in Coeff PROVE Comb(NttInverse(c)[j], x, NttInverse(a)[j], y, NttInverse(b)[j])
    <3> DEFINE f == Scale
               p == ra[B][j]
               q == rb[B][j]
               r == rc[B][j]
               p1 == NttInverse(a)[j]
               q1 == NttInverse(b)[j]
               r1 == NttInverse(c)[j]
    <3>1. B \in 0 .. B
      BY <1>1
    <3>2. p \in Int /\ q \in Int /\ r \in Int /\ f \in Int /\ 0 \in Int
      BY <2>4, <3>1, ScaleIs DEF Poly
    <3>3. Comb(r, x, p, y, q)
      BY <2>8 DEF Mixed
    <3>4. p1 = (f * p) % Q /\ q1 = (f * q) % Q /\ r1 = (f * r) % Q
      BY <2>1, <2>2, <2>3
    <3> HIDE DEF f, p, q, r, p1, q1, r1
    <3>5. f * p + 0 * p = f * p /\ f * q + 0 * q = f * q /\ f * r + 0 * r = f * r
          /\ f * p \in Int /\ f * q \in Int /\ f * r \in Int
      BY <3>2
    <3>6. p1 \in Int /\ q1 \in Int /\ r1 \in Int /\ Eq(p1, f * p) /\ Eq(q1, f * q) /\ Eq(r1, f * r)
      BY <3>4, <3>5, EqModulus
    <3>7. Comb(p1, f, p, 0, p) /\ Comb(q1, f, q, 0, q) /\ Comb(r1, f, r, 0, r)
      BY <3>5, <3>6 DEF Comb
    <3>8. Comb(r1, x, p1, y, q1)
      BY <3>2, <3>3, <3>6, <3>7, CombSwap
    <3> QED BY <3>8 DEF p1, q1, r1
  <2> QED BY <2>9 DEF Mixed
<1> QED BY <1>2, <1>3

-----------------------------------------------------------------------------
(* Multiplication by X.  After l layers each of the 2^l blocks is a         *)
(* polynomial modulo X^W(l) - ShiftRoot(l, k).                              *)
ShiftRoot(l, k) ==
  IF l = 0 THEN -1
  ELSE IF k % 2 = 0 THEN ZetaAt(Pow2(l - 1) + k \div 2) ELSE -ZetaAt(Pow2(l - 1) + k \div 2)

\* The factor of a layer is a square root of the one before.
LEMMA RootSquare ==
  ASSUME NEW l \in 1 .. B, NEW k \in 0 .. Pow2(l - 1) - 1
  PROVE  Square(Pow2(l - 1) + k, ShiftRoot(l - 1, k)) /\ ShiftRoot(l - 1, k) \in Int
<1>1. /\ B \in Nat /\ l \in Nat /\ l - 1 \in Nat /\ Pow2(l - 1) \in Nat /\ Pow2(l - 1) > 0 /\ N \in Nat
      /\ N = Pow2(l - 1) * (2 * W(l)) /\ W(l) \in Nat /\ W(l) > 0
  BY WidthIs, ByteSize
<1>2. CASE l = 1
  <2>1. Pow2(l - 1) = 1 /\ k = 0 /\ l - 1 = 0
    <3>1. l - 1 = 0 /\ Pow2(0) = 1
      BY <1>2, PowerOfTwo
    <3>2. Pow2(l - 1) = 1
      BY <3>1
    <3> QED BY <3>1, <3>2
  <2>2. ShiftRoot(l - 1, k) = -1 /\ Pow2(l - 1) + k = 1
    BY <2>1 DEF ShiftRoot
  <2> QED BY <2>2, SquareFirst
<1>3. CASE l # 1
  <2> DEFINE q == Pow2(l - 2)
             h == k \div 2
             b == k % 2
             m == q + h
  <2>1. l - 2 \in Nat /\ (l - 2) + 1 = l - 1 /\ l - 1 # 0
    BY <1>1, <1>3
  <2>2. q \in Nat /\ q > 0 /\ Pow2(l - 1) = 2 * q
    <3>1. Pow2((l - 2) + 1) = 2 * Pow2(l - 2) /\ Pow2(l - 2) \in Nat /\ Pow2(l - 2) > 0
      BY <2>1, PowerOfTwo, PowerType
    <3> QED BY <2>1, <3>1
  <2>3. h \in Nat /\ b \in {0, 1} /\ k = 2 * h + b
    <3>1. k \in Nat
      BY <1>1
    <3> QED BY <3>1
  <2>4. ShiftRoot(l - 1, k) = IF b = 0 THEN ZetaAt(m) ELSE -ZetaAt(m)
    <3>1. (l - 1) - 1 = l - 2
      BY <1>1
    <3> QED BY <2>1, <3>1 DEF ShiftRoot
  <2> HIDE DEF q, h, b
  <2>5. 4 * q <= N
    <3>1. 1 * (4 * q) <= W(l) * (4 * q)
      <4>1. 4 * q \in Nat /\ 1 \in Int /\ 1 <= W(l) /\ W(l) \in Int
        BY <1>1, <2>2
      <4> QED BY <4>1, TimesMonotone
    <3>2. W(l) * (4 * q) = (2 * q) * (2 * W(l)) /\ 1 * (4 * q) = 4 * q
      BY <1>1, <2>2
    <3> QED BY <1>1, <2>2, <3>1, <3>2
  <2>6. m \in Nat /\ m > 0 /\ 2 * m + 1 < N /\ Pow2(l - 1) + k = 2 * m + b
    BY <1>1, <2>2, <2>3, <2>5
  <2> HIDE DEF m
  <2>7. m \in Coeff /\ Square(2 * m, ZetaAt(m)) /\ Square(2 * m + 1, -ZetaAt(m))
    BY <2>6, SquareNext
  <2>8. ZetaAt(m) \in Int
    BY <2>7, ZetaIs
  <2>9. CASE b = 0
    <3>1. Pow2(l - 1) + k = 2 * m
      BY <2>6, <2>9
    <3> QED BY <2>4, <2>7, <2>8, <2>9, <3>1
  <2>10. CASE b = 1
    <3>1. Pow2(l - 1) + k = 2 * m + 1
      BY <2>6, <2>10
    <3>2. -ZetaAt(m) \in Int
      BY <2>8
    <3> QED BY <2>4, <2>7, <2>10, <3>1, <3>2
  <2> QED BY <2>3, <2>9, <2>10
<1> QED BY <1>2, <1>3

\* b is X times a, block by block.
Shifted(b, a, l) ==
  \A j \in Coeff : IF j % W(l) = 0 THEN Eq(b[j], ShiftRoot(l, j \div W(l)) * a[j + W(l) - 1])
                   ELSE Eq(b[j], a[j - 1])

\* Where the two coefficients of a pair stand before and after a layer.
LowerAt(j, l, w, k, r) ==
  /\ w \in Nat /\ w > 0 /\ w = W(l) /\ W(l - 1) = 2 * w /\ k \in 0 .. Pow2(l - 1) - 1 /\ r \in 0 .. w - 1
  /\ j \in Nat /\ j + w \in Coeff
  /\ j % w = r /\ j \div w = 2 * k /\ j % (2 * w) = r /\ j \div (2 * w) = k
  /\ (j + w) % w = r /\ (j + w) \div w = 2 * k + 1 /\ (j + w) % (2 * w) = r + w
NeighbourAt(j, l, w, k, r) ==
  /\ r = 0 => Lower(j + w - 1, l) /\ Blk(j + w - 1, l) = k /\ j + 2 * w - 1 = (j + w - 1) + w
  /\ r # 0 => Lower(j - 1, l) /\ Blk(j - 1, l) = k /\ (j + w) - 1 = (j - 1) + w

\* The lower places of a layer and the one before each.
LEMMA LowerPlaces ==
  ASSUME NEW l \in 1 .. B, NEW j \in Coeff, Lower(j, l)
  PROVE  \E r \in Nat : LowerAt(j, l, W(l), Blk(j, l), r) /\ NeighbourAt(j, l, W(l), Blk(j, l), r)
<1> DEFINE w == W(l)
           d == 2 * w
           p == Pow2(l - 1)
           k == j \div d
           r == j % d
<1>1. w \in Nat /\ w > 0 /\ p \in Nat /\ p > 0 /\ N = p * d /\ N \in Nat /\ l - 1 \in Nat
  BY WidthIs
<1>2. W(l - 1) = d
  <2>1. B - l \in Nat /\ B - (l - 1) = (B - l) + 1
    BY ByteSize
  <2>2. Pow2((B - l) + 1) = 2 * Pow2(B - l)
    BY <2>1, PowerOfTwo
  <2> QED BY <2>1, <2>2 DEF W
<1>3. j \in Nat /\ j < N
  BY <1>1 DEF Coeff
<1>4. PairOf(j, l)
  BY Pairs
<1>5. r < w /\ Blk(j, l) = k
  BY DEF Lower, Blk
<1>6. k \in 0 .. p - 1 /\ j + w \in Coeff
  <2>1. Blk(j, l) \in 0 .. Pow2(l - 1) - 1 /\ j + W(l) \in Coeff
    BY <1>4 DEF PairOf
  <2> QED BY <1>5, <2>1
<1> HIDE DEF w, p
<1>7. d \in Nat /\ d > 0
  BY <1>1
<1>8. k \in Nat /\ r \in 0 .. d - 1 /\ j = k * d + r
  <2> HIDE DEF d
  <2> QED BY <1>3, <1>7, Division
<1>9. r \in 0 .. w - 1 /\ r \in Nat
  <2> HIDE DEF r
  <2> QED BY <1>1, <1>5, <1>8
<1>10. j % w = r /\ j \div w = 2 * k /\ (j + w) % w = r /\ (j + w) \div w = 2 * k + 1 /\ (j + w) % d = r + w
  <2> HIDE DEF k, r
  <2>1. j = (2 * k) * w + r /\ j + w = (2 * k + 1) * w + r /\ j + w = k * d + (r + w)
    BY <1>1, <1>8, <1>9
  <2>2. ((2 * k) * w + r) % w = r /\ ((2 * k) * w + r) \div w = 2 * k
    <3>1. 2 * k \in Int /\ r < w
      BY <1>1, <1>8, <1>9
    <3> QED BY <1>1, <1>9, <3>1, DivisionUnique
  <2>3. ((2 * k + 1) * w + r) % w = r /\ ((2 * k + 1) * w + r) \div w = 2 * k + 1
    <3>1. 2 * k + 1 \in Int /\ r < w
      BY <1>1, <1>8, <1>9
    <3> QED BY <1>1, <1>9, <3>1, DivisionUnique
  <2>4. (k * d + (r + w)) % d = r + w
    <3>1. r + w \in Nat /\ r + w < d /\ k \in Int
      BY <1>1, <1>8, <1>9
    <3> HIDE DEF d
    <3> QED BY <1>7, <3>1, DivisionUnique
  <2> QED BY <2>1, <2>2, <2>3, <2>4
<1>11. LowerAt(j, l, w, k, r)
  <2>1. w = W(l) /\ p = Pow2(l - 1)
    BY DEF w, p
  <2> HIDE DEF k, r
  <2>2. j % (2 * w) = r /\ j \div (2 * w) = k
    BY DEF k, r
  <2>3. (j + w) % (2 * w) = r + w /\ W(l - 1) = 2 * w
    BY <1>2, <1>10
  <2> QED BY <1>1, <1>3, <1>6, <1>9, <1>10, <2>1, <2>2, <2>3 DEF LowerAt
<1>12. ASSUME NEW i \in Nat, NEW s \in 0 .. w - 1, i = k * d + s PROVE Lower(i, l) /\ Blk(i, l) = k
  <2> HIDE DEF k, r
  <2>1. (k * d + s) \div d = k /\ (k * d + s) % d = s
    <3>1. s \in Nat /\ s < d /\ k \in Int
      BY <1>1, <1>8
    <3> HIDE DEF d
    <3> QED BY <1>7, <3>1, DivisionUnique
  <2>2. i \div d = k /\ i % d = s
    BY <1>12, <2>1
  <2>3. i < N
    <3>1. (k + 1) * d <= p * d
      <4>1. k + 1 \in Int /\ k + 1 <= p /\ p \in Int
        BY <1>1, <1>6, <1>8
      <4> HIDE DEF d
      <4> QED BY <1>7, <4>1, TimesMonotone
    <3>2. (k + 1) * d = k * d + d /\ k * d \in Int
      BY <1>7, <1>8
    <3> QED BY <1>1, <1>12, <3>1, <3>2
  <2>4. i \in Coeff
    BY <1>1, <2>3 DEF Coeff
  <2>5. s < w
    BY <1>1
  <2> QED BY <2>2, <2>4, <2>5 DEF Lower, Blk, w, d
<1>13. NeighbourAt(j, l, w, k, r)
  <2> HIDE DEF k, r, d
  <2>1. ASSUME r = 0
        PROVE  Lower(j + w - 1, l) /\ Blk(j + w - 1, l) = k /\ j + 2 * w - 1 = (j + w - 1) + w
    <3>1. k * d \in Int
      BY <1>7, <1>8
    <3>2. j + w - 1 \in Nat /\ w - 1 \in 0 .. w - 1 /\ j + w - 1 = k * d + (w - 1)
      BY <1>1, <1>3, <1>8, <2>1, <3>1
    <3>3. j + 2 * w - 1 = (j + w - 1) + w
      BY <1>1, <1>3
    <3> QED BY <1>12, <3>2, <3>3
  <2>2. ASSUME r # 0
        PROVE  Lower(j - 1, l) /\ Blk(j - 1, l) = k /\ (j + w) - 1 = (j - 1) + w
    <3>1. k * d \in Nat
      BY <1>7, <1>8
    <3>2. j - 1 \in Nat /\ r - 1 \in 0 .. w - 1 /\ j - 1 = k * d + (r - 1)
      BY <1>1, <1>3, <1>8, <1>9, <2>2, <3>1
    <3>3. (j + w) - 1 = (j - 1) + w
      BY <1>1, <1>3
    <3> QED BY <1>12, <3>2, <3>3
  <2> QED BY <2>1, <2>2 DEF NeighbourAt
<1>14. w = W(l) /\ k = Blk(j, l)
  BY <1>5 DEF w
<1> HIDE DEF k, r, d
<1> QED BY <1>9, <1>11, <1>13, <1>14

EqTimes(x, y, u) == Eq(x, y * u)

\* Multiplying by X and a butterfly, in either order: at the seam of two blocks.
LEMMA SeamPair ==
  ASSUME NEW z \in Int, NEW m \in Int, m = -z, NEW g \in Int, EqTimes(g, z, z),
         NEW p \in Int, NEW q \in Int, NEW p1 \in Int, NEW q1 \in Int,
         NEW s \in Int, NEW t \in Int, NEW s1 \in Int, NEW t1 \in Int,
         Comb(p1, 1, p, z, q), Comb(q1, 1, p, m, q), Comb(s1, 1, s, z, t), Comb(t1, 1, s, m, t),
         EqTimes(s, g, q), Eq(t, p)
  PROVE  EqTimes(s1, z, p1) /\ EqTimes(t1, m, q1)
<1>1. Q \in Int /\ 1 \in Int /\ z * z \in Int /\ g * q \in Int /\ z * p1 \in Int /\ m * q1 \in Int
  BY Parameters
<1>2. PICK k1 \in Int : s = g * q + k1 * Q
  <2> DEFINE x == g * q
  <2>1. x \in Int /\ Eq(s, x)
    BY <1>1 DEF EqTimes
  <2> HIDE DEF x
  <2>2. \E k \in Int : s = x + k * Q
    BY <2>1, EqThen
  <2> QED BY <2>2 DEF x
<1>3. PICK k2 \in Int : t = p + k2 * Q
  BY EqThen
<1>4a. PICK k3 \in Int : CombBy(s1, 1, s, z, t, k3)
  BY <1>1, CombThen
<1>4. s1 = 1 * s + z * t + k3 * Q
  BY <1>4a DEF CombBy
<1>5a. PICK k4 \in Int : CombBy(t1, 1, s, m, t, k4)
  BY <1>1, CombThen
<1>5. t1 = 1 * s + m * t + k4 * Q
  BY <1>5a DEF CombBy
<1>6a. PICK k5 \in Int : CombBy(p1, 1, p, z, q, k5)
  BY <1>1, CombThen
<1>6. p1 = 1 * p + z * q + k5 * Q
  BY <1>6a DEF CombBy
<1>7a. PICK k6 \in Int : CombBy(q1, 1, p, m, q, k6)
  BY <1>1, CombThen
<1>7. q1 = 1 * p + m * q + k6 * Q
  BY <1>7a DEF CombBy
<1>8. PICK k7 \in Int : g = z * z + k7 * Q
  <2> DEFINE x == z * z
  <2>1. x \in Int /\ Eq(g, x)
    BY <1>1 DEF EqTimes
  <2> HIDE DEF x
  <2>2. \E k \in Int : g = x + k * Q
    BY <2>1, EqThen
  <2> QED BY <2>2 DEF x
<1>9. EqTimes(s1, z, p1)
  <2> DEFINE e == k1 + z * k2 + k3 - z * k5 + k7 * q
  <2>1. 1 * ((z * z + k7 * Q) * q + k1 * Q) + z * (p + k2 * Q) + k3 * Q = z * (1 * p + z * q + k5 * Q) + e * Q
    BY <1>1
  <2>2. s1 = z * p1 + e * Q
    BY <1>2, <1>3, <1>4, <1>6, <1>8, <2>1
  <2>3. e \in Int
    OBVIOUS
  <2> DEFINE x == z * p1
  <2> HIDE DEF e
  <2>4. s1 = x + e * Q /\ x \in Int
    BY <1>1, <2>2
  <2> HIDE DEF x
  <2>5. Eq(s1, x)
    BY <2>3, <2>4, EqIf
  <2> QED BY <2>5 DEF x, EqTimes
<1>10. EqTimes(t1, m, q1)
  <2> DEFINE e == k1 - z * k2 + k4 + z * k6 + k7 * q
  <2>1. 1 * ((z * z + k7 * Q) * q + k1 * Q) + (-z) * (p + k2 * Q) + k4 * Q
          = (-z) * (1 * p + (-z) * q + k6 * Q) + e * Q
    BY <1>1
  <2>2. t1 = m * q1 + e * Q
    BY <1>2, <1>3, <1>5, <1>7, <1>8, <2>1
  <2>3. e \in Int
    OBVIOUS
  <2> DEFINE x == m * q1
  <2> HIDE DEF e
  <2>4. t1 = x + e * Q /\ x \in Int
    BY <1>1, <2>2
  <2> HIDE DEF x
  <2>5. Eq(t1, x)
    BY <2>3, <2>4, EqIf
  <2> QED BY <2>5 DEF x, EqTimes
<1> QED BY <1>9, <1>10

\* The same combination of equal numbers.
LEMMA CombEq ==
  ASSUME NEW x \in Int, NEW y \in Int, NEW a \in Int, NEW b \in Int, NEW c \in Int, NEW d \in Int,
         NEW s \in Int, NEW t \in Int, Comb(s, x, a, y, b), Comb(t, x, c, y, d), Eq(a, c), Eq(b, d)
  PROVE  Eq(s, t)
<1>1. Eq(x, x) /\ Eq(y, y)
  BY EqModulus
<1> DEFINE e == x * a
           f == y * b
           g == x * c
           h == y * d
<1>2. e \in Int /\ f \in Int /\ g \in Int /\ h \in Int /\ Eq(e, g) /\ Eq(f, h)
  BY <1>1, EqProduct
<1>3. Eq(s, e + f) /\ Eq(t, g + h)
  BY DEF Comb
<1> HIDE DEF e, f, g, h
<1>4. Eq(e + f, g + h) /\ e + f \in Int /\ g + h \in Int
  BY <1>2, EqSum
<1>5. Eq(g + h, t)
  BY <1>3, <1>4, EqThrough
<1> QED BY <1>3, <1>4, <1>5, EqThrough

\* A layer keeps what one is of the other: shifted within its blocks.
LEMMA ShiftLayer ==
  ASSUME NEW l \in 1 .. B, NEW a \in Poly, NEW b \in Poly, NEW a1 \in Poly, NEW b1 \in Poly,
         Forward(a1, a, l), Forward(b1, b, l), Shifted(b, a, l - 1)
  PROVE  Shifted(b1, a1, l)
<1> DEFINE At(c, d, j) == IF j % W(l) = 0 THEN Eq(d[j], ShiftRoot(l, j \div W(l)) * c[j + W(l) - 1])
                          ELSE Eq(d[j], c[j - 1])
<1>1. ASSUME NEW j \in Coeff, Lower(j, l), NEW i, i = j + W(l), i \in Coeff PROVE At(a1, b1, j) /\ At(a1, b1, i)
  <2> DEFINE w == W(l)
             k == Blk(j, l)
             z == ZetaAt(Pow2(l - 1) + k)
             m == -z
             g == ShiftRoot(l - 1, k)
  <2>1. PICK r \in Nat : LowerAt(j, l, w, k, r) /\ NeighbourAt(j, l, w, k, r)
    BY <1>1, LowerPlaces
  <2>2. /\ w \in Nat /\ w > 0 /\ W(l - 1) = 2 * w /\ k \in 0 .. Pow2(l - 1) - 1 /\ r \in 0 .. w - 1
        /\ j \in Nat /\ j % w = r /\ j \div w = 2 * k /\ j % (2 * w) = r /\ j \div (2 * w) = k
        /\ i % w = r /\ i \div w = 2 * k + 1 /\ i % (2 * w) = r + w
    BY <1>1, <2>1 DEF LowerAt
  <2>3. z \in Int /\ z = Root(j, l)
    BY <1>1, Roots DEF Root
  <2>4. g \in Int /\ EqTimes(g, z, z)
    <3>1. Square(Pow2(l - 1) + k, g) /\ g \in Int
      BY <2>2, RootSquare
    <3>2. Eq(z * z, g) /\ z * z \in Int
      BY <2>3, <3>1 DEF Square
    <3>3. Eq(g, z * z)
      BY <3>1, <3>2, EqThrough
    <3> QED BY <3>1, <3>3 DEF EqTimes
  <2>5. ShiftRoot(l, 2 * k) = z /\ ShiftRoot(l, 2 * k + 1) = m
    <3>1. k \in Nat /\ l # 0
      BY <2>2, WidthIs
    <3>2. (2 * k) % 2 = 0 /\ (2 * k) \div 2 = k /\ (2 * k + 1) % 2 = 1 /\ (2 * k + 1) \div 2 = k
      <4> HIDE DEF k
      <4> QED BY <3>1
    <3> HIDE DEF k
    <3> QED BY <3>1, <3>2 DEF ShiftRoot
  <2> HIDE DEF g
  <2>6. PairForward(b1, b, l, j)
    BY <1>1, PairIs
  <2>7. Comb(b1[j], 1, b[j], z, b[i]) /\ Comb(b1[i], 1, b[j], m, b[i])
    BY <1>1, <2>3, <2>6 DEF PairForward
  <2>8. b[j] \in Int /\ b[i] \in Int /\ b1[j] \in Int /\ b1[i] \in Int /\ m \in Int /\ m = -z /\ 1 \in Int
    BY <1>1, <2>3 DEF Poly
  <2>9. i \in Nat
    BY <1>1, <2>2
  <2>10. \A x \in Coeff : IF x % (2 * w) = 0 THEN Eq(b[x], ShiftRoot(l - 1, x \div (2 * w)) * a[x + 2 * w - 1])
                          ELSE Eq(b[x], a[x - 1])
    BY <2>2 DEF Shifted
  <2>11. ASSUME NEW n, Lower(n, l), Blk(n, l) = k
         PROVE  /\ n \in Coeff /\ n + w \in Coeff
                /\ Comb(a1[n], 1, a[n], z, a[n + w]) /\ Comb(a1[n + w], 1, a[n], m, a[n + w])
                /\ a[n] \in Int /\ a[n + w] \in Int /\ a1[n] \in Int /\ a1[n + w] \in Int
    <3>1. n \in Coeff
      BY <2>11 DEF Lower
    <3>2. PairForward(a1, a, l, n) /\ n + w \in Coeff
      BY <2>11, <3>1, PairIs
    <3>3. Root(n, l) = z
      BY <2>11 DEF Root
    <3> HIDE DEF z, k
    <3> QED BY <3>1, <3>2, <3>3 DEF PairForward, Poly
  <2>12. CASE r = 0
    <3> DEFINE n == j + w - 1
    <3>1. Lower(n, l) /\ Blk(n, l) = k /\ j + 2 * w - 1 = n + w
      BY <2>1, <2>12 DEF NeighbourAt
    <3>2. i - 1 = n /\ i + w - 1 = n + w
      <4>1. j \in Nat /\ w \in Nat /\ i = j + w
        BY <1>1, <2>2
      <4> HIDE DEF w
      <4> QED BY <4>1
    <3> HIDE DEF n, k, z
    <3>3. /\ n \in Coeff /\ n + w \in Coeff
          /\ Comb(a1[n], 1, a[n], z, a[n + w]) /\ Comb(a1[n + w], 1, a[n], m, a[n + w])
          /\ a[n] \in Int /\ a[n + w] \in Int /\ a1[n] \in Int /\ a1[n + w] \in Int
      BY <2>11, <3>1
    <3>4. EqTimes(b[j], g, a[n + w])
      <4>1. Eq(b[j], ShiftRoot(l - 1, k) * a[n + w])
        <5>1. Eq(b[j], ShiftRoot(l - 1, j \div (2 * w)) * a[j + 2 * w - 1])
          BY <2>2, <2>10, <2>12
        <5> QED BY <2>2, <3>1, <5>1
      <4> QED BY <4>1 DEF EqTimes, g
    <3>5. Eq(b[i], a[n])
      <4>1. i % (2 * w) # 0
        BY <2>2, <2>12
      <4>2. Eq(b[i], a[i - 1])
        BY <1>1, <2>10, <4>1
      <4> QED BY <3>2, <4>2
    <3> HIDE DEF m
    <3>6. EqTimes(b1[j], z, a1[n]) /\ EqTimes(b1[i], m, a1[n + w])
      BY <2>3, <2>4, <2>7, <2>8, <3>3, <3>4, <3>5, SeamPair
    <3>7. Eq(b1[j], z * a1[n]) /\ Eq(b1[i], m * a1[n + w])
      BY <3>6 DEF EqTimes
    <3>8. At(a1, b1, j)
      <4>1. j % w = 0 /\ ShiftRoot(l, j \div w) = z /\ j + w - 1 = n
        BY <2>2, <2>5, <2>12 DEF n
      <4>2. Eq(b1[j], ShiftRoot(l, j \div w) * a1[j + w - 1])
        BY <3>7, <4>1
      <4> QED BY <4>1, <4>2
    <3>9. At(a1, b1, i)
      <4>1. i % w = 0 /\ ShiftRoot(l, i \div w) = m
        BY <2>2, <2>5, <2>12
      <4>2. Eq(b1[i], ShiftRoot(l, i \div w) * a1[i + w - 1])
        BY <3>2, <3>7, <4>1
      <4> QED BY <4>1, <4>2
    <3> QED BY <3>8, <3>9
  <2>13. CASE r # 0
    <3> DEFINE n == j - 1
    <3>1. Lower(n, l) /\ Blk(n, l) = k /\ i - 1 = n + w
      BY <1>1, <2>1, <2>13 DEF NeighbourAt
    <3> HIDE DEF n, k, z
    <3>2. /\ n \in Coeff /\ n + w \in Coeff
          /\ Comb(a1[n], 1, a[n], z, a[n + w]) /\ Comb(a1[n + w], 1, a[n], m, a[n + w])
          /\ a[n] \in Int /\ a[n + w] \in Int /\ a1[n] \in Int /\ a1[n + w] \in Int
      BY <2>11, <3>1
    <3>3. Eq(b[j], a[n])
      <4>1. j % (2 * w) # 0
        BY <2>2, <2>13
      <4>2. Eq(b[j], a[j - 1])
        BY <2>10, <4>1
      <4> QED BY <4>2 DEF n
    <3>4. Eq(b[i], a[n + w])
      <4>1. i % (2 * w) # 0
        BY <2>2
      <4>2. Eq(b[i], a[i - 1])
        BY <1>1, <2>10, <4>1
      <4> QED BY <3>1, <4>2
    <3> HIDE DEF m
    <3>5. Eq(b1[j], a1[n])
      BY <2>3, <2>7, <2>8, <3>2, <3>3, <3>4, CombEq
    <3>6. Eq(b1[i], a1[n + w])
      BY <2>3, <2>7, <2>8, <3>2, <3>3, <3>4, CombEq
    <3>7. At(a1, b1, j)
      <4>1. j % w # 0
        BY <2>2, <2>13
      <4>2. Eq(b1[j], a1[j - 1])
        BY <3>5 DEF n
      <4> QED BY <4>1, <4>2
    <3>8. At(a1, b1, i)
      <4>1. i % w # 0
        BY <2>2, <2>13
      <4>2. Eq(b1[i], a1[i - 1])
        BY <3>1, <3>6
      <4> QED BY <4>1, <4>2
    <3> QED BY <3>7, <3>8
  <2> QED BY <2>12, <2>13
<1>2. ASSUME NEW j \in Coeff PROVE At(a1, b1, j)
  BY <1>1, PairCase
<1> QED BY <1>2 DEF Shifted

\* ntt of X times a polynomial: each value times the root that belongs to its place.
TimesRoot(b, a) == \A j \in Coeff : ShiftRoot(B, j) \in Int /\ EqTimes(b[j], ShiftRoot(B, j), a[j])

\* Behind all layers a shift has become a product with a root.
LEMMA NttShift ==
  ASSUME NEW a \in Poly, NEW b \in Poly, Shifted(b, a, 0)
  PROVE  TimesRoot(Ntt(b), Ntt(a))
<1>1. B \in Nat /\ B > 0 /\ N = Pow2(B) /\ N \in Nat
  BY ByteSize
<1>2. PICK u : NttRun(a, u) /\ Ntt(a) = u[B]
  BY NttSteps
<1>3. PICK v : NttRun(b, v) /\ Ntt(b) = v[B]
  BY NttSteps
<1>4. /\ u \in [0 .. B -> Poly] /\ u[0] = a /\ \A l \in 1 .. B : Forward(u[l], u[l - 1], l)
      /\ v \in [0 .. B -> Poly] /\ v[0] = b /\ \A l \in 1 .. B : Forward(v[l], v[l - 1], l)
  BY <1>2, <1>3 DEF NttRun
<1> DEFINE S == {m \in Nat : m <= B => Shifted(v[m], u[m], m)}
<1>5. 0 \in S
  BY <1>4
<1>6. ASSUME NEW m \in Nat, m \in S PROVE m + 1 \in S
  <2> SUFFICES ASSUME m + 1 <= B PROVE Shifted(v[m + 1], u[m + 1], m + 1)
    OBVIOUS
  <2> DEFINE l == m + 1
  <2>1. l \in 1 .. B /\ l - 1 = m /\ m \in 0 .. B /\ l \in 0 .. B
    BY <1>1
  <2>2. Shifted(v[m], u[m], m)
    BY <1>1, <1>6
  <2> HIDE DEF l
  <2>3. Forward(u[l], u[m], l) /\ Forward(v[l], v[m], l) /\ Shifted(v[m], u[m], l - 1)
    <3>1. Forward(u[l], u[l - 1], l) /\ Forward(v[l], v[l - 1], l)
      BY <1>4, <2>1
    <3> QED BY <2>1, <2>2, <3>1
  <2>4. u[m] \in Poly /\ v[m] \in Poly /\ u[l] \in Poly /\ v[l] \in Poly
    BY <1>4, <2>1
  <2>5. Shifted(v[l], u[l], l)
    BY <2>1, <2>3, <2>4, ShiftLayer
  <2> QED BY <2>5 DEF l
<1> HIDE DEF S
<1>7. B \in S
  BY <1>1, <1>5, <1>6, SetInduction
<1>8. Shifted(v[B], u[B], B)
  BY <1>1, <1>7 DEF S
<1>9. W(B) = 1
  <2>1. B - B = 0 /\ Pow2(0) = 1
    BY <1>1, PowerOfTwo
  <2> QED BY <2>1 DEF W
<1>10. ASSUME NEW j \in Coeff PROVE EqTimes(v[B][j], ShiftRoot(B, j), u[B][j])
  <2>1. j \in Nat
    BY <1>1 DEF Coeff
  <2>2. j % 1 = 0 /\ j \div 1 = j /\ j + 1 - 1 = j
    BY <2>1
  <2>3. j % W(B) = 0 /\ j \div W(B) = j /\ j + W(B) - 1 = j
    BY <1>9, <2>2
  <2>4. Eq(v[B][j], ShiftRoot(B, j \div W(B)) * u[B][j + W(B) - 1])
    BY <1>8, <2>3 DEF Shifted
  <2>5. Eq(v[B][j], ShiftRoot(B, j) * u[B][j])
    BY <2>3, <2>4
  <2> QED BY <2>5 DEF EqTimes
<1>11. ASSUME NEW j \in Coeff PROVE ShiftRoot(B, j) \in Int
  <2> DEFINE p == Pow2(B - 1)
             h == j \div 2
  <2>1. p \in Nat /\ N = 2 * p
    <3>1. B \in 1 .. B
      BY <1>1
    <3>2. Pow2(B - 1) \in Nat /\ Pow2(B) = 2 * Pow2(B - 1)
      BY <3>1, WidthIs
    <3> QED BY <1>1, <3>2
  <2>2. j \in Nat /\ j < N
    BY <1>1 DEF Coeff
  <2> HIDE DEF p
  <2>3. h \in Nat /\ h < p
    BY <2>1, <2>2
  <2> HIDE DEF h
  <2>4. p + h \in Coeff
    BY <2>1, <2>3 DEF Coeff
  <2>5. ZetaAt(p + h) \in Int
    BY <2>4, ZetaIs
  <2>6. -ZetaAt(p + h) \in Int
    BY <2>5
  <2>7. ShiftRoot(B, j) = IF j % 2 = 0 THEN ZetaAt(p + h) ELSE -ZetaAt(p + h)
    BY <1>1 DEF ShiftRoot, p, h
  <2> QED BY <2>5, <2>6, <2>7
<1> QED BY <1>2, <1>3, <1>10, <1>11 DEF TimesRoot

\* ntt of one is one everywhere.
Unit == [j \in Coeff |-> IF j = 0 THEN 1 ELSE 0]
Ones(u, l) == \A j \in Coeff : Eq(u[j], IF j % W(l) = 0 THEN 1 ELSE 0)

\* A layer keeps the unit polynomial, which is 1 at the start of every block.
LEMMA OnesLayer ==
  ASSUME NEW l \in 1 .. B, NEW a \in Poly, NEW a1 \in Poly, Forward(a1, a, l), Ones(a, l - 1)
  PROVE  Ones(a1, l)
<1> DEFINE At(c, j) == Eq(c[j], IF j % W(l) = 0 THEN 1 ELSE 0)
<1>1. ASSUME NEW j \in Coeff, Lower(j, l), NEW i, i = j + W(l), i \in Coeff PROVE At(a1, j) /\ At(a1, i)
  <2> DEFINE w == W(l)
             k == Blk(j, l)
             z == Root(j, l)
             m == -z
  <2>1. PICK r \in Nat : LowerAt(j, l, w, k, r)
    BY <1>1, LowerPlaces
  <2>2. /\ w \in Nat /\ w > 0 /\ W(l - 1) = 2 * w /\ j % w = r /\ j % (2 * w) = r /\ r \in 0 .. w - 1
        /\ i % w = r /\ i % (2 * w) = r + w
    BY <1>1, <2>1 DEF LowerAt
  <2>3. z \in Int /\ m \in Int /\ 1 \in Int /\ 0 \in Int
    <3>1. z \in Int
      BY <1>1, Roots
    <3> QED BY <3>1
  <2>4. PairForward(a1, a, l, j)
    BY <1>1, PairIs
  <2>5. Comb(a1[j], 1, a[j], z, a[i]) /\ Comb(a1[i], 1, a[j], m, a[i])
    BY <1>1, <2>4 DEF PairForward
  <2>6. a[j] \in Int /\ a[i] \in Int /\ a1[j] \in Int /\ a1[i] \in Int
    BY <1>1 DEF Poly
  <2>7. Eq(a[j], IF j % (2 * w) = 0 THEN 1 ELSE 0) /\ Eq(a[i], IF i % (2 * w) = 0 THEN 1 ELSE 0)
    BY <1>1, <2>2 DEF Ones
  <2>8. Eq(a[i], 0)
    <3>1. i % (2 * w) # 0
      BY <2>2
    <3> QED BY <2>7, <3>1
  <2> HIDE DEF z, m
  <2>9. Comb(1, 1, 1, z, 0) /\ Comb(1, 1, 1, m, 0) /\ Comb(0, 1, 0, z, 0) /\ Comb(0, 1, 0, m, 0)
    <3>1. 1 * 1 + z * 0 = 1 /\ 1 * 1 + m * 0 = 1 /\ 1 * 0 + z * 0 = 0 /\ 1 * 0 + m * 0 = 0
      BY <2>3
    <3>2. Eq(1, 1) /\ Eq(0, 0)
      BY DEF Eq
    <3> QED BY <3>1, <3>2 DEF Comb
  <2>10. CASE r = 0
    <3>1. Eq(a[j], 1)
      BY <2>2, <2>7, <2>10
    <3>2. Eq(a1[j], 1) /\ Eq(a1[i], 1)
      BY <2>3, <2>5, <2>6, <2>8, <2>9, <3>1, CombEq
    <3> QED BY <2>2, <2>10, <3>2
  <2>11. CASE r # 0
    <3>1. Eq(a[j], 0)
      BY <2>2, <2>7, <2>11
    <3>2. Eq(a1[j], 0) /\ Eq(a1[i], 0)
      BY <2>3, <2>5, <2>6, <2>8, <2>9, <3>1, CombEq
    <3> QED BY <2>2, <2>11, <3>2
  <2> QED BY <2>10, <2>11
<1>2. ASSUME NEW j \in Coeff PROVE At(a1, j)
  BY <1>1, PairCase
<1> QED BY <1>2 DEF Ones

\* ntt of the unit polynomial is 1 everywhere.
LEMMA NttUnit ==
  /\ Unit \in Poly
  /\ \A j \in Coeff : Eq(Ntt(Unit)[j], 1)
<1>1. B \in Nat /\ B > 0 /\ N = Pow2(B) /\ N \in Nat
  BY ByteSize
<1>2. Unit \in Poly
  BY DEF Unit, Poly
<1>3. PICK u : NttRun(Unit, u) /\ Ntt(Unit) = u[B]
  BY <1>2, NttSteps
<1>4. u \in [0 .. B -> Poly] /\ u[0] = Unit /\ \A l \in 1 .. B : Forward(u[l], u[l - 1], l)
  BY <1>3 DEF NttRun
<1> DEFINE S == {m \in Nat : m <= B => Ones(u[m], m)}
<1>5. 0 \in S
  <2>1. ASSUME NEW j \in Coeff PROVE Eq(Unit[j], IF j % W(0) = 0 THEN 1 ELSE 0)
    <3>1. W(0) = N
      <4>1. B - 0 = B
        BY <1>1
      <4> QED BY <1>1, <4>1 DEF W
    <3>2. j \in Nat /\ j < N /\ N > 0
      BY <1>1 DEF Coeff
    <3>3. j % N = j
      <4>1. (0 * N + j) % N = j
        BY <1>1, <3>2, DivisionUnique
      <4>2. 0 * N + j = j
        BY <1>1, <3>2
      <4> QED BY <4>1, <4>2
    <3>4. Eq(Unit[j], Unit[j])
      BY DEF Eq
    <3> QED BY <3>1, <3>3, <3>4 DEF Unit
  <2> QED BY <1>4, <2>1 DEF Ones
<1>6. ASSUME NEW m \in Nat, m \in S PROVE m + 1 \in S
  <2> SUFFICES ASSUME m + 1 <= B PROVE Ones(u[m + 1], m + 1)
    OBVIOUS
  <2> DEFINE l == m + 1
  <2>1. l \in 1 .. B /\ l - 1 = m /\ m \in 0 .. B /\ l \in 0 .. B
    BY <1>1
  <2>2. Ones(u[m], m)
    BY <1>1, <1>6
  <2> HIDE DEF l
  <2>3. Forward(u[l], u[m], l) /\ Ones(u[m], l - 1)
    <3>1. Forward(u[l], u[l - 1], l)
      BY <1>4, <2>1
    <3> QED BY <2>1, <2>2, <3>1
  <2>4. u[m] \in Poly /\ u[l] \in Poly
    BY <1>4, <2>1
  <2>5. Ones(u[l], l)
    BY <2>1, <2>3, <2>4, OnesLayer
  <2> QED BY <2>5 DEF l
<1> HIDE DEF S
<1>7. B \in S
  BY <1>1, <1>5, <1>6, SetInduction
<1>8. Ones(u[B], B)
  BY <1>1, <1>7 DEF S
<1>9. W(B) = 1
  <2>1. B - B = 0 /\ Pow2(0) = 1
    BY <1>1, PowerOfTwo
  <2> QED BY <2>1 DEF W
<1>10. ASSUME NEW j \in Coeff PROVE Eq(u[B][j], 1)
  <2>1. j \in Nat
    BY <1>1 DEF Coeff
  <2>2. j % 1 = 0
    BY <2>1
  <2> QED BY <1>8, <1>9, <2>2 DEF Ones
<1> QED BY <1>2, <1>3, <1>10

\* X^i times b.
LEMMA RotType ==
  ASSUME NEW b \in Poly, NEW i \in Coeff
  PROVE  Rot(i, b) \in Poly
<1>1. N \in Nat /\ Coeff = 0 .. N - 1
  BY ByteSize DEF Coeff
<1>2. ASSUME NEW j \in Coeff PROVE (IF i <= j THEN b[j - i] ELSE -b[N + j - i]) \in Int
  <2>1. CASE i <= j
    <3>1. j - i \in Coeff
      BY <1>1, <2>1
    <3> QED BY <2>1, <3>1 DEF Poly
  <2>2. CASE ~ (i <= j)
    <3>1. N + j - i \in Coeff
      BY <1>1, <2>2
    <3>2. b[N + j - i] \in Int
      BY <3>1 DEF Poly
    <3> QED BY <2>2, <3>2
  <2> QED BY <2>1, <2>2
<1> QED BY <1>2 DEF Rot, Poly

\* The next multiple of X is the last one, shifted.
LEMMA RotNext ==
  ASSUME NEW b \in Poly, NEW i \in Coeff, i + 1 \in Coeff
  PROVE  Shifted(Rot(i + 1, b), Rot(i, b), 0)
<1>1. N \in Nat /\ Coeff = 0 .. N - 1 /\ N > 0 /\ B \in Nat /\ N = Pow2(B)
  BY ByteSize DEF Coeff
<1>2. W(0) = N
  <2>1. B - 0 = B
    BY <1>1
  <2> QED BY <1>1, <2>1 DEF W
<1>3. Rot(i, b) \in Poly
  BY RotType
<1> DEFINE c == Rot(i, b)
           d == Rot(i + 1, b)
<1>4. ASSUME NEW j \in Coeff
      PROVE  IF j % N = 0 THEN Eq(d[j], ShiftRoot(0, j \div N) * c[j + N - 1]) ELSE Eq(d[j], c[j - 1])
  <2>1. j \in Nat /\ j < N
    BY <1>1
  <2>2. j % N = j /\ j \div N = 0
    <3>1. (0 * N + j) % N = j /\ (0 * N + j) \div N = 0
      <4>1. N \in Nat /\ N > 0 /\ 0 \in Int /\ j \in Nat /\ j < N
        BY <1>1, <2>1
      <4> QED BY <4>1, DivisionUnique
    <3>2. 0 * N + j = j
      BY <1>1, <2>1
    <3> QED BY <3>1, <3>2
  <2>3. d[j] = IF i + 1 <= j THEN b[j - (i + 1)] ELSE -b[N + j - (i + 1)]
    BY DEF Rot
  <2>4. CASE j = 0
    <3>1. N - 1 \in Coeff /\ j + N - 1 = N - 1 /\ i <= N - 1 /\ ~ (i + 1 <= j) /\ N + j - (i + 1) = (N - 1) - i
          /\ (N - 1) - i \in Coeff
      BY <1>1, <2>4
    <3>2. c[N - 1] = b[(N - 1) - i] /\ d[j] = -b[(N - 1) - i]
      BY <2>3, <3>1 DEF Rot
    <3>3. b[(N - 1) - i] \in Int
      BY <3>1 DEF Poly
    <3> DEFINE x == b[(N - 1) - i]
    <3>4. x \in Int /\ c[N - 1] = x /\ d[j] = -x
      BY <3>2, <3>3
    <3> HIDE DEF x, c, d
    <3>5. ShiftRoot(0, j \div N) * c[j + N - 1] = -x
      <4>1. ShiftRoot(0, j \div N) = -1
        BY DEF ShiftRoot
      <4>2. (-1) * x = -x
        BY <3>4
      <4> QED BY <3>1, <3>4, <4>1, <4>2
    <3>6. Eq(d[j], ShiftRoot(0, j \div N) * c[j + N - 1])
      BY <3>4, <3>5 DEF Eq
    <3> QED BY <2>2, <2>4, <3>6
  <2>5. CASE j # 0
    <3>1. j - 1 \in Coeff /\ (j - 1) - i = j - (i + 1) /\ N + (j - 1) - i = N + j - (i + 1)
          /\ (i <= j - 1 <=> i + 1 <= j)
      BY <1>1, <2>5
    <3>2. c[j - 1] = IF i <= j - 1 THEN b[(j - 1) - i] ELSE -b[N + (j - 1) - i]
      BY <3>1 DEF Rot
    <3>3. d[j] = c[j - 1]
      BY <2>3, <3>1, <3>2
    <3>4. Eq(d[j], c[j - 1])
      BY <3>3 DEF Eq
    <3> QED BY <2>2, <2>5, <3>4
  <2> QED BY <2>4, <2>5
<1> QED BY <1>2, <1>4 DEF Shifted

\* The first is the polynomial itself.
LEMMA RotFirst ==
  ASSUME NEW b \in Poly
  PROVE  Rot(0, b) = b
<1>1. N \in Nat /\ Coeff = 0 .. N - 1
  BY ByteSize DEF Coeff
<1>2. ASSUME NEW j \in Coeff PROVE Rot(0, b)[j] = b[j]
  <2>1. 0 <= j /\ j - 0 = j
    BY <1>1
  <2> QED BY <2>1 DEF Rot
<1>3. Rot(0, b) = [j \in Coeff |-> Rot(0, b)[j]] /\ b = [j \in Coeff |-> b[j]]
  BY DEF Rot, Poly
<1> QED BY <1>2, <1>3

\* ntt turns X^i times b into the product of the values.
RotValues(i, b) == \A j \in Coeff : Eq(Ntt(Rot(i, Unit))[j] * Ntt(b)[j], Ntt(Rot(i, b))[j])

\* ntt of X^i times b, from that of b.
LEMMA NttRot ==
  ASSUME NEW b \in Poly, NEW i \in Coeff
  PROVE  RotValues(i, b)
<1>1. N \in Nat /\ N > 0 /\ Coeff = 0 .. N - 1
  BY ByteSize DEF Coeff
<1>2. Unit \in Poly /\ \A j \in Coeff : Eq(Ntt(Unit)[j], 1)
  BY NttUnit
<1> DEFINE S == {m \in Nat : m \in Coeff => RotValues(m, b)}
<1>3. 0 \in S
  <2>1. ASSUME NEW j \in Coeff PROVE Eq(Ntt(Rot(0, Unit))[j] * Ntt(b)[j], Ntt(Rot(0, b))[j])
    <3> DEFINE x == Ntt(Unit)[j]
               y == Ntt(b)[j]
    <3>1. x \in Int /\ y \in Int /\ Eq(x, 1)
      BY <1>2, NttType DEF Poly
    <3> HIDE DEF x, y
    <3>2. Eq(x * y, 1 * y)
      <4>1. Eq(y, y) /\ 1 \in Int
        BY <3>1, EqModulus
      <4> QED BY <3>1, <4>1, EqProduct
    <3>3. 1 * y = y
      BY <3>1
    <3>4. Eq(x * y, y)
      BY <3>2, <3>3
    <3> QED BY <1>2, <3>4, RotFirst DEF x, y
  <2> QED BY <2>1 DEF RotValues
<1>4. ASSUME NEW m \in Nat, m \in S PROVE m + 1 \in S
  <2> SUFFICES ASSUME m + 1 \in Coeff PROVE RotValues(m + 1, b)
    OBVIOUS
  <2>1. m \in Coeff
    BY <1>1
  <2>2. RotValues(m, b)
    BY <1>4, <2>1
  <2> DEFINE n == m + 1
  <2>3. n \in Coeff
    OBVIOUS
  <2>4. Rot(m, b) \in Poly /\ Rot(m, Unit) \in Poly /\ Rot(n, b) \in Poly /\ Rot(n, Unit) \in Poly
    BY <1>2, <2>1, <2>3, RotType
  <2>5. Shifted(Rot(n, b), Rot(m, b), 0) /\ Shifted(Rot(n, Unit), Rot(m, Unit), 0)
    BY <1>2, <2>1, RotNext
  <2> HIDE DEF n
  <2>6. TimesRoot(Ntt(Rot(n, b)), Ntt(Rot(m, b))) /\ TimesRoot(Ntt(Rot(n, Unit)), Ntt(Rot(m, Unit)))
    BY <2>4, <2>5, NttShift
  <2>7. ASSUME NEW j \in Coeff PROVE Eq(Ntt(Rot(n, Unit))[j] * Ntt(b)[j], Ntt(Rot(n, b))[j])
    <3> DEFINE g == ShiftRoot(B, j)
               x == Ntt(Rot(m, Unit))[j]
               x1 == Ntt(Rot(n, Unit))[j]
               y == Ntt(b)[j]
               v == Ntt(Rot(m, b))[j]
               v1 == Ntt(Rot(n, b))[j]
    <3>1. x \in Int /\ x1 \in Int /\ y \in Int /\ v \in Int /\ v1 \in Int
      BY <2>4, NttType DEF Poly
    <3>2. g \in Int /\ Eq(v1, g * v) /\ Eq(x1, g * x)
      BY <2>6 DEF TimesRoot, EqTimes
    <3>3. Eq(x * y, v)
      BY <2>2 DEF RotValues
    <3> HIDE DEF g, x, x1, y, v, v1
    <3>4. g * v \in Int /\ g * x \in Int /\ x * y \in Int /\ x1 * y \in Int /\ (g * x) * y \in Int
          /\ g * (x * y) \in Int
      BY <3>1, <3>2
    <3>5. (g * x) * y = g * (x * y)
      BY <3>1, <3>2
    <3>6. Eq(x1 * y, (g * x) * y)
      <4>1. Eq(y, y)
        BY <3>1, EqModulus
      <4> QED BY <3>1, <3>2, <3>4, <4>1, EqProduct
    <3>7. Eq(g * (x * y), g * v)
      <4>1. Eq(g, g)
        BY <3>2, EqModulus
      <4> QED BY <3>1, <3>2, <3>3, <3>4, <4>1, EqProduct
    <3>8. Eq(g * v, v1)
      BY <3>1, <3>2, <3>4, EqThrough
    <3>9. Eq(x1 * y, g * v)
      BY <3>4, <3>5, <3>6, <3>7, EqThrough
    <3>10. Eq(x1 * y, v1)
      BY <3>1, <3>4, <3>8, <3>9, EqThrough
    <3> QED BY <3>10 DEF x1, y, v1
  <2>8. RotValues(n, b)
    BY <2>7 DEF RotValues
  <2> QED BY <2>8 DEF n
<1> HIDE DEF S
<1>5. i \in Nat
  BY <1>1
<1>6. i \in S
  BY <1>3, <1>4, <1>5, SetInduction
<1> QED BY <1>5, <1>6 DEF S

-----------------------------------------------------------------------------
(* Products of polynomials.                                                 *)
\* The sums that RingProduct goes through.
ProductRun(a, b, t) ==
  /\ t \in [0 .. N -> Poly] /\ t[0] = Zero
  /\ \A k \in Coeff : t[k + 1] = [j \in Coeff |-> t[k][j] + a[k] * Rot(k, b)[j]]

\* The product in the ring is summed up one coefficient after the other.
LEMMA ProductSteps ==
  ASSUME NEW a \in Poly, NEW b \in Poly
  PROVE  \E t : ProductRun(a, b, t) /\ RingProduct(a, b) = [j \in Coeff |-> t[N][j] % Q]
<1> DEFINE s == [i \in 1 .. N |-> i - 1]
           More(v, i) == [j \in Coeff |-> v[j] + a[i] * Rot(i, b)[j]]
           step == [p \in Poly \X (1 .. N) |-> More(p[1], p[2] - 1)]
           Iter(f) == f = [u \in SUBSET (1 .. N) |-> IF u = {} THEN Zero ELSE More(f[u \ {Max(u)}], s[Max(u)])]
<1>1. DOMAIN s = 1 .. N /\ N \in Nat /\ N > 0 /\ Zero \in Poly /\ \A i \in 1 .. N : s[i] = i - 1 /\ i - 1 \in Coeff
  <2>1. Zero \in Poly
    BY DEF Zero, Poly
  <2>2. N \in Nat /\ N > 0
    BY ByteSize
  <2> QED BY <2>1, <2>2 DEF Coeff
<1>2. \A v \in Poly, i \in Coeff : More(v, i) \in Poly
  <2> TAKE v \in Poly, i \in Coeff
  <2>1. ASSUME NEW j \in Coeff PROVE v[j] + a[i] * Rot(i, b)[j] \in Int
    <3>1. v[j] \in Int /\ a[i] \in Int /\ Rot(i, b)[j] \in Int
      BY RotType DEF Poly
    <3> QED BY <3>1
  <2> QED BY <2>1 DEF Poly
<1>3. step \in [Poly \X (1 .. N) -> Poly]
  <2> HIDE DEF More
  <2>1. \A p \in Poly \X (1 .. N) : p[1] \in Poly /\ p[2] - 1 \in Coeff
    BY <1>1
  <2>2. \A p \in Poly \X (1 .. N) : More(p[1], p[2] - 1) \in Poly
    BY <1>2, <2>1
  <2> QED BY <2>2
<1>4. \A v \in Poly, i \in 1 .. N : step[<<v, i>>] = More(v, i - 1)
  <2> HIDE DEF More
  <2> QED OBVIOUS
<1> HIDE DEF step
<1>5. PICK f : FoldRun(N, Poly, Zero, step, f)
  BY <1>1, <1>3, FoldRunExists
<1>6. \A u \in SUBSET (1 .. N) : u # {} => Max(u) \in 1 .. N /\ u \ {Max(u)} \in SUBSET (1 .. N)
  BY <1>1, FoldTakes
<1>7. Iter(f)
  <2> HIDE DEF More, s
  <2>1. /\ f \in [SUBSET (1 .. N) -> Poly]
        /\ \A u \in SUBSET (1 .. N) : f[u] = IF u = {} THEN Zero ELSE step[<<f[u \ {Max(u)}], Max(u)>>]
    BY <1>5 DEF FoldRun
  <2>2. ASSUME NEW u \in SUBSET (1 .. N), u # {} PROVE f[u] = More(f[u \ {Max(u)}], s[Max(u)])
    <3>1. Max(u) \in 1 .. N /\ f[u \ {Max(u)}] \in Poly
      BY <1>6, <2>1, <2>2
    <3>2. f[u] = step[<<f[u \ {Max(u)}], Max(u)>>]
      BY <2>1, <2>2
    <3> QED BY <1>1, <1>4, <3>1, <3>2
  <2>3. \A u \in SUBSET (1 .. N) : f[u] = IF u = {} THEN Zero ELSE More(f[u \ {Max(u)}], s[Max(u)])
    BY <2>1, <2>2
  <2>4. f = [u \in SUBSET (1 .. N) |-> f[u]]
    BY <2>1
  <2> QED BY <2>3, <2>4
<1> DEFINE g == CHOOSE f_1 : Iter(f_1)
<1>8. Iter(g)
  <2> HIDE DEF Iter
  <2> QED BY <1>7
<1>9. RingProduct(a, b) = [j \in Coeff |-> g[1 .. N][j] % Q]
  BY <1>1 DEF RingProduct, FoldLeft, MapThenFoldSet
<1> HIDE DEF g
<1>10. FoldsBy(N, Poly, Zero, step, g)
  <2> HIDE DEF More, s
  <2>1. g = [u \in SUBSET (1 .. N) |-> IF u = {} THEN Zero ELSE More(g[u \ {Max(u)}], s[Max(u)])]
    BY <1>8
  <2>2. DOMAIN g = SUBSET (1 .. N) /\ g[{}] = Zero
    BY <2>1
  <2>3. ASSUME NEW u \in SUBSET (1 .. N), u # {}, g[u \ {Max(u)}] \in Poly
        PROVE  g[u] = step[<<g[u \ {Max(u)}], Max(u)>>]
    <3>1. g[u] = More(g[u \ {Max(u)}], s[Max(u)])
      BY <2>1, <2>3
    <3>2. Max(u) \in 1 .. N /\ s[Max(u)] = Max(u) - 1
      BY <1>1, <1>6, <2>3
    <3> QED BY <1>4, <2>3, <3>1, <3>2
  <2> HIDE DEF g
  <2> QED BY <2>1, <2>2, <2>3 DEF FoldsBy
<1>11. PICK t : Chain(N, Poly, Zero, step, t, g[1 .. N])
  BY <1>1, <1>3, <1>10, FoldChain
<1>12. t \in [0 .. N -> Poly] /\ t[0] = Zero /\ t[N] = g[1 .. N]
  BY <1>11 DEF Chain
<1>13. ASSUME NEW k \in Coeff PROVE t[k + 1] = More(t[k], k)
  <2> HIDE DEF More
  <2>1. k + 1 \in 1 .. N /\ (k + 1) - 1 = k /\ k \in 0 .. N
    BY <1>1 DEF Coeff
  <2>2. t[k] \in Poly
    BY <1>12, <2>1
  <2>3. t[k + 1] = step[<<t[(k + 1) - 1], k + 1>>]
    BY <1>11, <2>1 DEF Chain
  <2>4. t[k + 1] = step[<<t[k], k + 1>>]
    BY <2>1, <2>3
  <2>5. step[<<t[k], k + 1>>] = More(t[k], (k + 1) - 1)
    BY <1>4, <2>1, <2>2
  <2> QED BY <2>1, <2>4, <2>5
<1>14. ProductRun(a, b, t)
  BY <1>12, <1>13 DEF ProductRun
<1>15. RingProduct(a, b) = [j \in Coeff |-> t[N][j] % Q]
  BY <1>9, <1>12
<1> QED BY <1>14, <1>15

\* A polynomial times one.
LEMMA ProductUnit ==
  ASSUME NEW a \in Poly, NEW t, ProductRun(a, Unit, t)
  PROVE  t[N] = a
<1>1. N \in Nat /\ N > 0 /\ Coeff = 0 .. N - 1
  BY ByteSize DEF Coeff
<1>2. /\ t \in [0 .. N -> Poly] /\ t[0] = Zero
      /\ \A k \in Coeff : t[k + 1] = [j \in Coeff |-> t[k][j] + a[k] * Rot(k, Unit)[j]]
  BY DEF ProductRun
<1>3. ASSUME NEW k \in Coeff, NEW j \in Coeff PROVE Rot(k, Unit)[j] = IF j = k THEN 1 ELSE 0
  <2>1. Rot(k, Unit)[j] = IF k <= j THEN Unit[j - k] ELSE -Unit[N + j - k]
    BY DEF Rot
  <2>2. CASE k <= j
    <3>1. j - k \in Coeff /\ (j - k = 0 <=> j = k)
      BY <1>1, <2>2
    <3>2. Unit[j - k] = IF j - k = 0 THEN 1 ELSE 0
      BY <3>1 DEF Unit
    <3> QED BY <2>1, <2>2, <3>1, <3>2
  <2>3. CASE ~ (k <= j)
    <3>1. N + j - k \in Coeff /\ N + j - k # 0 /\ j # k
      BY <1>1, <2>3
    <3>2. Unit[N + j - k] = 0
      BY <3>1 DEF Unit
    <3> DEFINE x == Unit[N + j - k]
    <3>3. x = 0 /\ Rot(k, Unit)[j] = -x
      BY <2>1, <2>3, <3>2
    <3> HIDE DEF x
    <3>4. ASSUME NEW u \in Int, u = 0 PROVE -u = 0
      <4> DEFINE v == -u
      <4>1. v \in Int /\ u + v = 0
        OBVIOUS
      <4> HIDE DEF v
      <4>2. v = 0
        BY <3>4, <4>1
      <4> QED BY <4>2 DEF v
    <3>5. Rot(k, Unit)[j] = 0
      <4>1. x \in Int
        BY <3>3
      <4> QED BY <3>3, <3>4, <4>1
    <3> QED BY <3>1, <3>5
  <2> QED BY <2>2, <2>3
<1> DEFINE S == {m \in Nat : m <= N => \A j \in Coeff : t[m][j] = IF j < m THEN a[j] ELSE 0}
<1>4. 0 \in S
  <2>1. \A j \in Coeff : t[0][j] = 0 /\ ~ (j < 0)
    BY <1>1, <1>2 DEF Zero
  <2> QED BY <2>1
<1>5. ASSUME NEW m \in Nat, m \in S PROVE m + 1 \in S
  <2> SUFFICES ASSUME m + 1 <= N, NEW j \in Coeff PROVE t[m + 1][j] = IF j < m + 1 THEN a[j] ELSE 0
    OBVIOUS
  <2>1. m \in Coeff /\ m \in 0 .. N
    BY <1>1
  <2>2. t[m + 1][j] = t[m][j] + a[m] * Rot(m, Unit)[j]
    BY <1>2, <2>1
  <2>3. t[m][j] = IF j < m THEN a[j] ELSE 0
    BY <1>1, <1>5
  <2>4. Rot(m, Unit)[j] = IF j = m THEN 1 ELSE 0
    BY <1>3, <2>1
  <2>5. a[m] \in Int /\ a[j] \in Int
    BY <2>1 DEF Poly
  <2>6. a[m] * 1 = a[m] /\ a[m] * 0 = 0
    BY <2>5
  <2>7. j \in Nat
    BY <1>1
  <2>8. CASE j < m
    BY <2>2, <2>3, <2>4, <2>5, <2>6, <2>7, <2>8
  <2>9. CASE j = m
    BY <2>2, <2>3, <2>4, <2>5, <2>6, <2>7, <2>9
  <2>10. CASE j > m
    BY <2>2, <2>3, <2>4, <2>5, <2>6, <2>7, <2>10
  <2> QED BY <2>7, <2>8, <2>9, <2>10
<1> HIDE DEF S
<1>6. N \in S
  BY <1>1, <1>4, <1>5, SetInduction
<1>7. \A j \in Coeff : t[N][j] = a[j]
  <2>1. \A j \in Coeff : j < N
    BY <1>1
  <2>2. \A j \in Coeff : t[N][j] = IF j < N THEN a[j] ELSE 0
    BY <1>1, <1>6 DEF S
  <2> QED BY <2>1, <2>2
<1>8. t[N] \in Poly
  BY <1>1, <1>2
<1>9. t[N] = [j \in Coeff |-> t[N][j]] /\ a = [j \in Coeff |-> a[j]]
  BY <1>8 DEF Poly
<1> QED BY <1>7, <1>9

\* ntt of a sum of multiples is the sum of the values.
LEMMA ProductValues ==
  ASSUME NEW a \in Poly, NEW b \in Poly, NEW t, ProductRun(a, b, t), NEW c, ProductRun(a, Unit, c)
  PROVE  \A j \in Coeff : Eq(Ntt(c[N])[j] * Ntt(b)[j], Ntt(t[N])[j])
<1>1. N \in Nat /\ N > 0 /\ Coeff = 0 .. N - 1 /\ Unit \in Poly
  BY ByteSize, NttUnit DEF Coeff
<1>2. /\ t \in [0 .. N -> Poly] /\ t[0] = Zero
      /\ \A k \in Coeff : t[k + 1] = [j \in Coeff |-> t[k][j] + a[k] * Rot(k, b)[j]]
      /\ c \in [0 .. N -> Poly] /\ c[0] = Zero
      /\ \A k \in Coeff : c[k + 1] = [j \in Coeff |-> c[k][j] + a[k] * Rot(k, Unit)[j]]
  BY DEF ProductRun
<1> DEFINE S == {m \in Nat : m <= N => \A j \in Coeff : Eq(Ntt(c[m])[j] * Ntt(b)[j], Ntt(t[m])[j])}
<1>3. 0 \in S
  <2>1. Zero \in Poly
    BY DEF Zero, Poly
  <2>2. Mixed(Zero, 0, Zero, 0, Zero)
    <3>1. 0 * 0 + 0 * 0 = 0
      OBVIOUS
    <3>2. Eq(0, 0)
      BY DEF Eq
    <3>3. \A j \in Coeff : Zero[j] = 0
      BY DEF Zero
    <3> QED BY <3>1, <3>2, <3>3 DEF Mixed, Comb
  <2>3. Mixed(Ntt(Zero), 0, Ntt(Zero), 0, Ntt(Zero))
    BY <2>1, <2>2, NttMixed
  <2>4. ASSUME NEW j \in Coeff PROVE Eq(Ntt(Zero)[j] * Ntt(b)[j], Ntt(Zero)[j])
    <3> DEFINE x == Ntt(Zero)[j]
               y == Ntt(b)[j]
    <3>1. x \in Int /\ y \in Int /\ Comb(x, 0, x, 0, x)
      BY <2>1, <2>3, NttType DEF Poly, Mixed
    <3> HIDE DEF x, y
    <3>2. Eq(x, 0)
      <4>1. 0 * x + 0 * x = 0
        BY <3>1
      <4> QED BY <3>1, <4>1 DEF Comb
    <3>3. Eq(x * y, 0 * y) /\ 0 * y = 0 /\ x * y \in Int /\ 0 \in Int
      <4>1. Eq(y, y)
        BY <3>1, EqModulus
      <4>2. 0 \in Int /\ 0 * y = 0 /\ x * y \in Int
        BY <3>1
      <4> QED BY <3>1, <3>2, <4>1, <4>2, EqProduct
    <3>4. Eq(x * y, 0)
      BY <3>3
    <3>5. Eq(0, x)
      BY <3>1, <3>2, <3>3, EqThrough
    <3>6. Eq(x * y, x)
      BY <3>1, <3>3, <3>4, <3>5, EqThrough
    <3> QED BY <3>6 DEF x, y
  <2> QED BY <1>2, <2>4
<1>4. ASSUME NEW m \in Nat, m \in S PROVE m + 1 \in S
  <2> SUFFICES ASSUME m + 1 <= N, NEW j \in Coeff PROVE Eq(Ntt(c[m + 1])[j] * Ntt(b)[j], Ntt(t[m + 1])[j])
    OBVIOUS
  <2> DEFINE n == m + 1
  <2>1. m \in Coeff /\ m \in 0 .. N /\ n \in 0 .. N
    BY <1>1
  <2>2. /\ t[n] = [i \in Coeff |-> t[m][i] + a[m] * Rot(m, b)[i]]
        /\ c[n] = [i \in Coeff |-> c[m][i] + a[m] * Rot(m, Unit)[i]]
    BY <1>2, <2>1
  <2>3. Eq(Ntt(c[m])[j] * Ntt(b)[j], Ntt(t[m])[j])
    BY <1>1, <1>4
  <2> HIDE DEF n
  <2>4. t[m] \in Poly /\ t[n] \in Poly /\ c[m] \in Poly /\ c[n] \in Poly /\ a[m] \in Int
        /\ Rot(m, b) \in Poly /\ Rot(m, Unit) \in Poly
    BY <1>1, <1>2, <2>1, RotType DEF Poly
  <2> DEFINE f == a[m]
             p == Rot(m, b)
             q == Rot(m, Unit)
  <2>5. Mixed(t[n], 1, t[m], f, p)
    <3>1. ASSUME NEW i \in Coeff PROVE Comb(t[n][i], 1, t[m][i], f, p[i])
      <4>1. t[n][i] = t[m][i] + f * p[i] /\ t[m][i] \in Int /\ p[i] \in Int /\ t[n][i] \in Int
        BY <2>2, <2>4 DEF Poly
      <4> DEFINE x == t[m][i]
                 y == p[i]
                 z == t[n][i]
      <4>2. z = x + f * y /\ x \in Int /\ y \in Int /\ z \in Int /\ f \in Int
        BY <2>4, <4>1
      <4> HIDE DEF x, y, z, f
      <4>3. z = 1 * x + f * y
        BY <4>2
      <4>4. Eq(z, 1 * x + f * y)
        BY <4>3 DEF Eq
      <4> QED BY <4>4 DEF Comb, x, y, z
    <3> QED BY <3>1 DEF Mixed
  <2>6. Mixed(c[n], 1, c[m], f, q)
    <3>1. ASSUME NEW i \in Coeff PROVE Comb(c[n][i], 1, c[m][i], f, q[i])
      <4>1. c[n][i] = c[m][i] + f * q[i] /\ c[m][i] \in Int /\ q[i] \in Int /\ c[n][i] \in Int
        BY <2>2, <2>4 DEF Poly
      <4> DEFINE x == c[m][i]
                 y == q[i]
                 z == c[n][i]
      <4>2. z = x + f * y /\ x \in Int /\ y \in Int /\ z \in Int /\ f \in Int
        BY <2>4, <4>1
      <4> HIDE DEF x, y, z, f
      <4>3. z = 1 * x + f * y
        BY <4>2
      <4>4. Eq(z, 1 * x + f * y)
        BY <4>3 DEF Eq
      <4> QED BY <4>4 DEF Comb, x, y, z
    <3> QED BY <3>1 DEF Mixed
  <2> HIDE DEF f
  <2>7. Mixed(Ntt(t[n]), 1, Ntt(t[m]), f, Ntt(p)) /\ Mixed(Ntt(c[n]), 1, Ntt(c[m]), f, Ntt(q))
    <3>1. 1 \in Int /\ f \in Int
      BY <2>4 DEF f
    <3> QED BY <2>4, <2>5, <2>6, <3>1, NttMixed
  <2>8. Eq(Ntt(q)[j] * Ntt(b)[j], Ntt(p)[j])
    BY <2>1, NttRot DEF RotValues
  <2> DEFINE x == Ntt(c[m])[j]
             x1 == Ntt(c[n])[j]
             y == Ntt(b)[j]
             v == Ntt(t[m])[j]
             v1 == Ntt(t[n])[j]
             w == Ntt(p)[j]
             z == Ntt(q)[j]
  <2>9. x \in Int /\ x1 \in Int /\ y \in Int /\ v \in Int /\ v1 \in Int /\ w \in Int /\ z \in Int /\ f \in Int
    BY <2>4, NttType DEF Poly, f
  <2>10. Comb(v1, 1, v, f, w) /\ Comb(x1, 1, x, f, z) /\ Eq(x * y, v) /\ Eq(z * y, w)
    BY <2>3, <2>7, <2>8 DEF Mixed
  <2> HIDE DEF x, x1, y, v, v1, w, z, p, q
  <2>11. x * y \in Int /\ z * y \in Int /\ x1 * y \in Int /\ 1 \in Int
    BY <2>9
  <2>12. Comb(x1 * y, 1, x * y, f, z * y)
    <3> DEFINE e == 1 * x + f * z
    <3>1. e \in Int /\ Eq(x1, e) /\ e * y = 1 * (x * y) + f * (z * y)
      BY <2>9, <2>10 DEF Comb
    <3> HIDE DEF e
    <3>2. Eq(x1 * y, e * y)
      <4>1. Eq(y, y)
        BY <2>9, EqModulus
      <4> QED BY <2>9, <3>1, <4>1, EqProduct
    <3> QED BY <3>1, <3>2 DEF Comb
  <2>13. Eq(x1 * y, v1)
    <3> DEFINE g == x * y
               h == z * y
               k == x1 * y
    <3>1. g \in Int /\ h \in Int /\ k \in Int /\ Comb(k, 1, g, f, h) /\ Eq(g, v) /\ Eq(h, w)
      BY <2>10, <2>11, <2>12
    <3> HIDE DEF g, h, k
    <3>2. Eq(k, v1)
      BY <2>9, <2>10, <2>11, <3>1, CombEq
    <3> QED BY <3>2 DEF k
  <2> QED BY <2>13 DEF x1, y, v1, n
<1> HIDE DEF S
<1>5. N \in S
  BY <1>1, <1>3, <1>4, SetInduction
<1> QED BY <1>1, <1>5 DEF S

\* The values of polynomials that are equal modulo Q.
LEMMA AlikeNtt ==
  ASSUME NEW a \in Poly, NEW b \in Poly, Alike(a, b)
  PROVE  Alike(Ntt(a), Ntt(b)) /\ Alike(NttInverse(a), NttInverse(b))
<1>1. ASSUME NEW j \in Coeff PROVE Comb(a[j], 1, b[j], 0, b[j])
  <2>1. b[j] \in Int /\ Eq(a[j], b[j])
    BY DEF Poly, Alike
  <2>2. 1 * b[j] + 0 * b[j] = b[j]
    BY <2>1
  <2> QED BY <2>1, <2>2 DEF Comb
<1>2. Mixed(a, 1, b, 0, b)
  BY <1>1 DEF Mixed
<1>3. /\ Mixed(Ntt(a), 1, Ntt(b), 0, Ntt(b))
      /\ Mixed(NttInverse(a), 1, NttInverse(b), 0, NttInverse(b))
  <2>1. 1 \in Int /\ 0 \in Int
    OBVIOUS
  <2> QED BY <1>2, <2>1, NttMixed
<1>4. ASSUME NEW x \in Int, NEW y \in Int, Comb(x, 1, y, 0, y) PROVE Eq(x, y)
  <2>1. 1 * y + 0 * y = y
    OBVIOUS
  <2> QED BY <1>4, <2>1 DEF Comb
<1>5. \A j \in Coeff : /\ Ntt(a)[j] \in Int /\ Ntt(b)[j] \in Int
                       /\ NttInverse(a)[j] \in Int /\ NttInverse(b)[j] \in Int
  BY NttType DEF Poly
<1> QED BY <1>3, <1>4, <1>5 DEF Mixed, Alike

\* What goes by way of ntt and ntt_inverse is the product in the ring, for all polynomials.
LEMMA ProductIs ==
  ASSUME NEW a \in Poly, NEW b \in Poly
  PROVE  /\ NttInverse(MulNtt(Ntt(a), Ntt(b))) = RingProduct(a, b)
         /\ \E t : ProductRun(a, b, t) /\ Alike(NttInverse(MulNtt(Ntt(a), Ntt(b))), t[N])
<1>1. N \in Nat /\ N > 0 /\ Unit \in Poly
  BY ByteSize, NttUnit
<1>2. PICK t : ProductRun(a, b, t) /\ RingProduct(a, b) = [j \in Coeff |-> t[N][j] % Q]
  BY ProductSteps
<1>3. PICK c : ProductRun(a, Unit, c)
  BY <1>1, ProductSteps
<1>4. c[N] = a
  BY <1>3, ProductUnit
<1>5. \A j \in Coeff : Eq(Ntt(a)[j] * Ntt(b)[j], Ntt(t[N])[j])
  <2>1. \A j \in Coeff : Eq(Ntt(c[N])[j] * Ntt(b)[j], Ntt(t[N])[j])
    BY <1>2, <1>3, ProductValues
  <2> QED BY <1>4, <2>1
<1>6. t[N] \in Poly
  <2>1. N \in 0 .. N
    BY <1>1
  <2> QED BY <1>2, <2>1 DEF ProductRun
<1> DEFINE m == MulNtt(Ntt(a), Ntt(b))
<1>7. m \in Poly /\ Alike(m, Ntt(t[N]))
  <2>1. ASSUME NEW j \in Coeff PROVE m[j] \in Int /\ Eq(m[j], Ntt(t[N])[j])
    <3> DEFINE x == Ntt(a)[j]
               y == Ntt(b)[j]
               z == Ntt(t[N])[j]
    <3>1. x \in Int /\ y \in Int /\ z \in Int /\ Eq(x * y, z) /\ m[j] = (x * y) % Q
      BY <1>5, <1>6, NttType DEF Poly, MulNtt
    <3> HIDE DEF x, y, z, m
    <3>2. x * y \in Int
      BY <3>1
    <3>3. m[j] \in Int /\ Eq(m[j], x * y)
      BY <3>1, <3>2, EqModulus
    <3>4. Eq(m[j], z)
      BY <3>1, <3>2, <3>3, EqThrough
    <3> QED BY <3>3, <3>4 DEF z
  <2>2. m = [j \in Coeff |-> m[j]]
    BY DEF MulNtt
  <2> HIDE DEF m
  <2> QED BY <2>1, <2>2 DEF Poly, Alike
<1> HIDE DEF m
<1>8. Ntt(t[N]) \in Poly
  BY <1>6, NttType
<1>9. Alike(NttInverse(m), NttInverse(Ntt(t[N])))
  BY <1>7, <1>8, AlikeNtt
<1>10. Alike(NttInverse(Ntt(t[N])), t[N])
  BY <1>6, InverseOfNtt
<1>11. NttInverse(m) \in [Coeff -> 0 .. Q - 1] /\ NttInverse(m) \in Poly /\ NttInverse(Ntt(t[N])) \in Poly
  BY <1>7, <1>8, NttType
<1>12. ASSUME NEW j \in Coeff PROVE Eq(NttInverse(m)[j], t[N][j]) /\ NttInverse(m)[j] = t[N][j] % Q
  <2> DEFINE x == NttInverse(m)[j]
             y == NttInverse(Ntt(t[N]))[j]
             z == t[N][j]
  <2>1. x \in 0 .. Q - 1 /\ x \in Int /\ y \in Int /\ z \in Int /\ Eq(x, y) /\ Eq(y, z)
    BY <1>6, <1>9, <1>10, <1>11 DEF Poly, Alike
  <2> HIDE DEF x, y, z
  <2>2. Eq(x, z)
    BY <2>1, EqThrough
  <2>3. z % Q \in 0 .. Q - 1 /\ z % Q \in Int /\ Eq(z, z % Q)
    BY <2>1, EqModulus
  <2>4. Eq(x, z % Q)
    BY <2>1, <2>2, <2>3, EqThrough
  <2>5. Q \in Nat
    BY Parameters
  <2> DEFINE r == z % Q
  <2>6. r \in 0 .. Q - 1 /\ r \in Int /\ Eq(x, r)
    BY <2>3, <2>4
  <2> HIDE DEF r
  <2>7. x - r < Q /\ r - x < Q
    BY <2>1, <2>5, <2>6
  <2>8. x = r
    BY <2>1, <2>6, <2>7, EqNear
  <2> QED BY <2>2, <2>8 DEF x, z, r
<1>13. NttInverse(m) = [j \in Coeff |-> NttInverse(m)[j]]
  BY <1>11
<1>14. NttInverse(m) = RingProduct(a, b)
  BY <1>2, <1>12, <1>13
<1>15. Alike(NttInverse(m), t[N])
  BY <1>12 DEF Alike
<1> QED BY <1>2, <1>14, <1>15 DEF m

-----------------------------------------------------------------------------
(* The polynomial of a challenge.                                           *)
\* The places where a polynomial is not zero.
Marked(c) == {j \in Coeff : c[j] # 0}

\* The states sample_in_ball goes through: no more signs than places behind it.
Balls ==
  {s \in [i : N - Tau .. N, c : [Coeff -> -1 .. 1]] :
     IsFiniteSet(Marked(s.c)) /\ Cardinality(Marked(s.c)) <= s.i - (N - Tau)}

\* A set that one element joins.
LEMMA OneMore ==
  ASSUME NEW S, IsFiniteSet(S), NEW x, NEW T \in SUBSET (S \cup {x})
  PROVE  IsFiniteSet(T) /\ Cardinality(T) \in Nat /\ Cardinality(T) <= Cardinality(S) + 1
<1>1. Cardinality(S) \in Nat /\ IsFiniteSet(S \cup {x})
  BY FS_CardinalityType, FS_AddElement
<1>2. Cardinality(S \cup {x}) <= Cardinality(S) + 1
  BY <1>1, FS_AddElement
<1>3. IsFiniteSet(T) /\ Cardinality(T) <= Cardinality(S \cup {x})
  BY <1>1, FS_Subset
<1>4. Cardinality(T) \in Nat /\ Cardinality(S \cup {x}) \in Nat
  BY <1>1, <1>3, FS_CardinalityType
<1> QED BY <1>1, <1>2, <1>3, <1>4

\* A byte moves a coefficient and leaves a sign.
LEMMA BallNext ==
  ASSUME NEW s \in Balls, s.i # N, NEW j \in Coeff, j <= s.i, NEW g \in -1 .. 1
  PROVE  [i |-> s.i + 1, c |-> [s.c EXCEPT ![s.i] = s.c[j], ![j] = g]] \in Balls
<1>1. N \in Nat /\ Tau \in Nat /\ Tau <= N /\ Coeff = 0 .. N - 1
  BY ByteSize, Parameters DEF Coeff
<1>2. /\ s.i \in N - Tau .. N /\ s.c \in [Coeff -> -1 .. 1] /\ IsFiniteSet(Marked(s.c))
      /\ Cardinality(Marked(s.c)) <= s.i - (N - Tau)
  BY DEF Balls
<1> DEFINE k == s.i
           c == s.c
           d == [c EXCEPT ![k] = c[j], ![j] = g]
<1>3. k \in Coeff /\ k + 1 \in N - Tau .. N
  BY <1>1, <1>2
<1>4. \A i \in Coeff : d[i] = IF i = j THEN g ELSE IF i = k THEN c[j] ELSE c[i]
  BY <1>2, <1>3
<1>5. d \in [Coeff -> -1 .. 1]
  BY <1>2, <1>3
<1> HIDE DEF d
<1>6. PICK x : Marked(d) \in SUBSET (Marked(c) \cup {x})
  <2>1. CASE c[j] = 0
    <3>1. Marked(d) \in SUBSET (Marked(c) \cup {j})
      BY <1>4, <2>1 DEF Marked
    <3> QED BY <3>1
  <2>2. CASE c[j] # 0
    <3>1. Marked(d) \in SUBSET (Marked(c) \cup {k})
      BY <1>4, <2>2 DEF Marked
    <3> QED BY <3>1
  <2> QED BY <2>1, <2>2
<1>7. /\ IsFiniteSet(Marked(d)) /\ Cardinality(Marked(d)) \in Nat
      /\ Cardinality(Marked(d)) <= Cardinality(Marked(c)) + 1
  BY <1>2, <1>6, OneMore
<1>8. Cardinality(Marked(c)) \in Nat
  BY <1>2, FS_CardinalityType
<1>9. Cardinality(Marked(d)) <= (k + 1) - (N - Tau)
  BY <1>1, <1>2, <1>7, <1>8
<1>10. [i |-> k + 1, c |-> d] \in Balls
  BY <1>3, <1>5, <1>7, <1>9 DEF Balls
<1> QED BY <1>10 DEF d

\* A challenge has Tau ones and minus ones at most (sample_in_ball).
LEMMA SampleInBallIs ==
  ASSUME NEW draw \in ChallengeCoins
  PROVE  LET c == SampleInBall(draw)
         IN  c \in [Coeff -> -1 .. 1] /\ c \in Poly /\ IsFiniteSet(Marked(c)) /\ Cardinality(Marked(c)) <= Tau
<1>1. N \in Nat /\ N > 0 /\ Tau \in Nat /\ Tau <= N /\ Coeff = 0 .. N - 1 /\ Byte = 0 .. N - 1
  BY ByteSize, Parameters DEF Coeff, Byte
<1>2. draw.bytes \in Seq(Byte)
  BY CoinAssumption
<1> DEFINE n == Len(draw.bytes)
           base == [i |-> N - Tau, c |-> Zero]
           More(s, j) == IF s.i = N \/ j > s.i THEN s
                         ELSE [i |-> s.i + 1,
                               c |-> [s.c EXCEPT ![s.i] = s.c[j],
                                                 ![j] = IF draw.bits[s.i + Tau - N + 1] = 1 THEN -1 ELSE 1]]
           step == [p \in Balls \X (1 .. n) |-> More(p[1], draw.bytes[p[2]])]
           Iter(f) == f = [u \in SUBSET (1 .. n) |-> IF u = {} THEN base ELSE More(f[u \ {Max(u)}], draw.bytes[Max(u)])]
<1>3. n \in Nat /\ DOMAIN draw.bytes = 1 .. n /\ \A p \in 1 .. n : draw.bytes[p] \in Coeff
  BY <1>1, <1>2
<1>4. base \in Balls
  <2>1. Zero \in [Coeff -> -1 .. 1] /\ Marked(Zero) = {}
    BY DEF Zero, Marked
  <2>2. IsFiniteSet(Marked(Zero)) /\ Cardinality(Marked(Zero)) = 0
    BY <2>1, FS_EmptySet
  <2>3. N - Tau \in N - Tau .. N /\ 0 <= (N - Tau) - (N - Tau)
    BY <1>1
  <2> QED BY <2>1, <2>2, <2>3 DEF Balls
<1>5. \A s \in Balls, j \in Coeff : More(s, j) \in Balls
  <2> TAKE s \in Balls, j \in Coeff
  <2>1. s.i \in Int /\ j \in Int
    BY <1>1 DEF Balls
  <2>2. CASE s.i = N \/ j > s.i
    BY <2>2
  <2>3. CASE ~ (s.i = N \/ j > s.i)
    <3> DEFINE g == IF draw.bits[s.i + Tau - N + 1] = 1 THEN -1 ELSE 1
    <3>1. g \in -1 .. 1
      OBVIOUS
    <3>2. j <= s.i /\ s.i # N
      BY <2>1, <2>3
    <3> HIDE DEF g
    <3>3. [i |-> s.i + 1, c |-> [s.c EXCEPT ![s.i] = s.c[j], ![j] = g]] \in Balls
      BY <3>1, <3>2, BallNext
    <3> QED BY <2>3, <3>3 DEF g
  <2> QED BY <2>2, <2>3
<1> HIDE DEF base
<1>6. step \in [Balls \X (1 .. n) -> Balls]
  <2> HIDE DEF More
  <2>1. ASSUME NEW p \in Balls \X (1 .. n) PROVE More(p[1], draw.bytes[p[2]]) \in Balls
    <3>1. p[1] \in Balls /\ draw.bytes[p[2]] \in Coeff
      BY <1>3
    <3> QED BY <1>5, <3>1
  <2> QED BY <2>1
<1>7. \A v \in Balls, i \in 1 .. n : step[<<v, i>>] = More(v, draw.bytes[i])
  <2> HIDE DEF More
  <2> QED OBVIOUS
<1> HIDE DEF step
<1>8. PICK f : FoldRun(n, Balls, base, step, f)
  BY <1>3, <1>4, <1>6, FoldRunExists
<1>9. \A u \in SUBSET (1 .. n) : u # {} => Max(u) \in 1 .. n /\ u \ {Max(u)} \in SUBSET (1 .. n)
  BY <1>3, FoldTakes
<1>10. Iter(f)
  <2> HIDE DEF More, n
  <2>1. /\ f \in [SUBSET (1 .. n) -> Balls]
        /\ \A u \in SUBSET (1 .. n) : f[u] = IF u = {} THEN base ELSE step[<<f[u \ {Max(u)}], Max(u)>>]
    BY <1>8 DEF FoldRun
  <2>2. ASSUME NEW u \in SUBSET (1 .. n), u # {} PROVE f[u] = More(f[u \ {Max(u)}], draw.bytes[Max(u)])
    <3>1. Max(u) \in 1 .. n /\ f[u \ {Max(u)}] \in Balls
      BY <1>9, <2>1, <2>2
    <3>2. f[u] = step[<<f[u \ {Max(u)}], Max(u)>>]
      BY <2>1, <2>2
    <3> QED BY <1>7, <3>1, <3>2
  <2>3. \A u \in SUBSET (1 .. n) : f[u] = IF u = {} THEN base ELSE More(f[u \ {Max(u)}], draw.bytes[Max(u)])
    BY <2>1, <2>2
  <2>4. f = [u \in SUBSET (1 .. n) |-> f[u]]
    BY <2>1
  <2> QED BY <2>3, <2>4
<1> DEFINE g == CHOOSE f_1 : Iter(f_1)
<1>11. Iter(g)
  <2> HIDE DEF Iter
  <2> QED BY <1>10
<1>12. SampleInBall(draw) = g[1 .. n].c
  BY <1>3 DEF SampleInBall, FoldLeft, MapThenFoldSet, base
<1> HIDE DEF g
<1>13. FoldsBy(n, Balls, base, step, g)
  <2> HIDE DEF More, n
  <2>1. g = [u \in SUBSET (1 .. n) |-> IF u = {} THEN base ELSE More(g[u \ {Max(u)}], draw.bytes[Max(u)])]
    BY <1>11
  <2>2. DOMAIN g = SUBSET (1 .. n) /\ g[{}] = base
    BY <2>1
  <2>3. ASSUME NEW u \in SUBSET (1 .. n), u # {}, g[u \ {Max(u)}] \in Balls
        PROVE  g[u] = step[<<g[u \ {Max(u)}], Max(u)>>]
    <3>1. g[u] = More(g[u \ {Max(u)}], draw.bytes[Max(u)])
      BY <2>1, <2>3
    <3>2. Max(u) \in 1 .. n
      BY <1>9, <2>3
    <3> QED BY <1>7, <2>3, <3>1, <3>2
  <2> QED BY <2>1, <2>2, <2>3 DEF FoldsBy
<1>14. PICK t : Chain(n, Balls, base, step, t, g[1 .. n])
  BY <1>3, <1>4, <1>6, <1>13, FoldChain
<1>15. g[1 .. n] \in Balls
  <2>1. n \in 0 .. n
    BY <1>3
  <2> HIDE DEF n
  <2> QED BY <1>14, <2>1 DEF Chain
<1> DEFINE e == g[1 .. n]
<1>16. /\ e.i \in N - Tau .. N /\ e.c \in [Coeff -> -1 .. 1] /\ IsFiniteSet(Marked(e.c))
       /\ Cardinality(Marked(e.c)) <= e.i - (N - Tau) /\ Cardinality(Marked(e.c)) \in Nat
  BY <1>15, FS_CardinalityType DEF Balls
<1> HIDE DEF e
<1>17. Cardinality(Marked(e.c)) <= Tau
  BY <1>1, <1>16
<1>18. e.c \in Poly
  BY <1>16 DEF Poly
<1> QED BY <1>12, <1>16, <1>17, <1>18 DEF e

-----------------------------------------------------------------------------
(* What is drawn from a hash.                                               *)
\* The first N elements.
LEMMA FirstType ==
  ASSUME NEW V, NEW s \in Seq(V), Len(s) >= N
  PROVE  First(s) \in [Coeff -> V]
<1>1. N \in Nat /\ Coeff = 0 .. N - 1
  BY ByteSize DEF Coeff
<1>2. ASSUME NEW j \in Coeff PROVE s[j + 1] \in V
  <2>1. j + 1 \in 1 .. Len(s)
    BY <1>1
  <2> QED BY <2>1
<1> QED BY <1>2 DEF First

\* A coefficient of the matrix is reduced (coeff_from_three_bytes).
LEMMA ThreeBytesType ==
  ASSUME NEW z \in Nat
  PROVE  CoeffFromThreeBytes(z) \in (0 .. Q - 1) \cup {None}
<1>1. Q \in Nat /\ BitLength(Q) \in Nat
  BY Parameters, PolySizeIs
<1>2. Pow2(BitLength(Q)) \in Nat /\ Pow2(BitLength(Q)) > 0
  BY <1>1, PowerType
<1> DEFINE m == Pow2(BitLength(Q))
           x == z % m
<1>3. x \in 0 .. m - 1 /\ m \in Nat
  <2> HIDE DEF m
  <2>1. m \in Nat /\ m > 0
    BY <1>2 DEF m
  <2> QED BY <2>1
<1>4. CoeffFromThreeBytes(z) = IF x < Q THEN x ELSE None
  BY DEF CoeffFromThreeBytes
<1> HIDE DEF x, m
<1> QED BY <1>1, <1>3, <1>4

\* A coefficient of a secret is small (coeff_from_half_byte).
LEMMA HalfByteType ==
  ASSUME NEW b \in Nat
  PROVE  CoeffFromHalfByte(b) \in (-Eta .. Eta) \cup {None}
<1>1. Eta = 2 \/ Eta = 4
  BY Parameters
<1>2. b % 5 \in 0 .. 4
  OBVIOUS
<1> DEFINE m == b % 5
<1>3. CASE Eta = 2
  <2>1. CoeffFromHalfByte(b) = IF b < 15 THEN 2 - m ELSE None
    BY <1>3 DEF CoeffFromHalfByte
  <2>2. m \in 0 .. 4
    BY <1>2
  <2> HIDE DEF m
  <2>3. 2 - m \in -2 .. 2
    BY <2>2
  <2> QED BY <1>3, <2>1, <2>3
<1>4. CASE Eta = 4
  <2>1. CoeffFromHalfByte(b) = IF b < 9 THEN 4 - b ELSE None
    BY <1>4 DEF CoeffFromHalfByte
  <2>2. b < 9 => 4 - b \in -4 .. 4
    OBVIOUS
  <2> QED BY <1>4, <2>1, <2>2
<1> QED BY <1>1, <1>3, <1>4

\* What the matrix is drawn from.
LEMMA NttCoeffsType ==
  ASSUME NEW draws \in Seq(Nat)
  PROVE  NttCoeffs(draws) \in Seq(0 .. Q - 1)
<1> DEFINE n == Len(draws)
           s == [i \in 1 .. n |-> CoeffFromThreeBytes(draws[i])]
<1>1. n \in Nat /\ \A i \in 1 .. n : draws[i] \in Nat
  OBVIOUS
<1>2. s \in [1 .. n -> (0 .. Q - 1) \cup {None}]
  <2> HIDE DEF n
  <2> QED BY <1>1, ThreeBytesType
<1>3. NttCoeffs(draws) = Taken(s)
  BY DEF NttCoeffs
<1> HIDE DEF s, n
<1> QED BY <1>1, <1>2, <1>3, TakenType

\* What the secrets are drawn from.
LEMMA BoundedCoeffsType ==
  ASSUME NEW bytes \in Seq(Nat)
  PROVE  BoundedCoeffs(bytes) \in Seq(-Eta .. Eta)
<1> DEFINE n == Len(bytes)
           V == (-Eta .. Eta) \cup {None}
           p == [i \in 1 .. n |-> <<CoeffFromHalfByte(bytes[i] % 16), CoeffFromHalfByte(bytes[i] \div 16)>>]
<1>1. n \in Nat /\ \A i \in 1 .. n : bytes[i] \in Nat
  OBVIOUS
<1>2. ASSUME NEW i \in 1 .. n
      PROVE  <<CoeffFromHalfByte(bytes[i] % 16), CoeffFromHalfByte(bytes[i] \div 16)>> \in [1 .. 2 -> V]
  <2> DEFINE lo == bytes[i] % 16
             hi == bytes[i] \div 16
  <2>1. lo \in Nat /\ hi \in Nat
    <3> DEFINE x == bytes[i]
    <3>1. x \in Nat
      BY <1>1
    <3> HIDE DEF x
    <3>2. x % 16 \in Nat /\ x \div 16 \in Nat
      BY <3>1
    <3> QED BY <3>2 DEF x
  <2> HIDE DEF lo, hi
  <2>2. CoeffFromHalfByte(lo) \in V /\ CoeffFromHalfByte(hi) \in V
    BY <2>1, HalfByteType
  <2> DEFINE a == CoeffFromHalfByte(lo)
             b == CoeffFromHalfByte(hi)
  <2>3. a \in V /\ b \in V
    BY <2>2
  <2> HIDE DEF a, b, V
  <2>4. <<a, b>> \in [1 .. 2 -> V]
    BY <2>3
  <2> QED BY <2>4 DEF a, b, lo, hi
<1>3. p \in Pieces(n, 2, V)
  <2> HIDE DEF V, n
  <2> QED BY <1>2 DEF Pieces
<1>4. BoundedCoeffs(bytes) = Taken(FlattenSeq(p))
  BY DEF BoundedCoeffs
<1> HIDE DEF p
<1>5. FlattenSeq(p) \in [1 .. n * 2 -> V]
  <2> HIDE DEF V, n
  <2>1. Joined(FlattenSeq(p), p, n, 2, V)
    BY <1>1, <1>3, FlattenPieces
  <2> QED BY <2>1 DEF Joined
<1> DEFINE m == n * 2
<1>6. m \in Nat /\ FlattenSeq(p) \in [1 .. m -> (-Eta .. Eta) \cup {None}]
  <2> HIDE DEF n
  <2> QED BY <1>1, <1>5
<1> HIDE DEF m
<1>7. Taken(FlattenSeq(p)) \in Seq(-Eta .. Eta)
  BY <1>6, TakenType
<1> QED BY <1>4, <1>7

\* The matrix of a seed (expand_a).
LEMMA ExpandAType ==
  ASSUME NEW xi \in Seeds
  PROVE  ExpandA(<<"rho", xi>>) \in [Row -> [Col -> [Coeff -> 0 .. Q - 1]]]
<1>1. ASSUME NEW r \in Row, NEW s \in Col
      PROVE  RejNttPoly(Shake128(<<"rho", xi>>, <<s, r>>)) \in [Coeff -> 0 .. Q - 1]
  <2> DEFINE draws == Shake128(<<"rho", xi>>, <<s, r>>)
  <2>1. draws \in Seq(Nat) /\ Len(NttCoeffs(draws)) >= N
    BY DrawAssumption
  <2> HIDE DEF draws
  <2>2. NttCoeffs(draws) \in Seq(0 .. Q - 1)
    BY <2>1, NttCoeffsType
  <2>3. First(NttCoeffs(draws)) \in [Coeff -> 0 .. Q - 1]
    BY <2>1, <2>2, FirstType
  <2> QED BY <2>3 DEF RejNttPoly, draws
<1> QED BY <1>1 DEF ExpandA

\* The secrets of a seed (expand_s).
LEMMA ExpandSType ==
  ASSUME NEW xi \in Seeds
  PROVE  LET s == ExpandS(<<"rhop", xi>>)
         IN  s.s1 \in Vector(Ell, -Eta .. Eta) /\ s.s2 \in Vector(K, -Eta .. Eta)
<1>1. Ell \in Nat /\ Ell > 0 /\ K \in Nat /\ K > 0
  BY Parameters
<1>2. ASSUME NEW r \in 0 .. Ell + K - 1
      PROVE  RejBoundedPoly(Shake256(<<"rhop", xi>>, r)) \in [Coeff -> -Eta .. Eta]
  <2> DEFINE bytes == Shake256(<<"rhop", xi>>, r)
  <2>1. bytes \in Seq(Nat) /\ Len(BoundedCoeffs(bytes)) >= N
    BY DrawAssumption
  <2> HIDE DEF bytes
  <2>2. BoundedCoeffs(bytes) \in Seq(-Eta .. Eta)
    BY <2>1, BoundedCoeffsType
  <2>3. First(BoundedCoeffs(bytes)) \in [Coeff -> -Eta .. Eta]
    BY <2>1, <2>2, FirstType
  <2> QED BY <2>3 DEF RejBoundedPoly, bytes
<1>3. ASSUME NEW r \in Col PROVE RejBoundedPoly(Shake256(<<"rhop", xi>>, r)) \in [Coeff -> -Eta .. Eta]
  <2>1. r \in 0 .. Ell + K - 1
    BY <1>1 DEF Col
  <2> QED BY <1>2, <2>1
<1>4. ASSUME NEW r \in Row PROVE RejBoundedPoly(Shake256(<<"rhop", xi>>, r + Ell)) \in [Coeff -> -Eta .. Eta]
  <2> DEFINE m == r + Ell
  <2>1. m \in 0 .. Ell + K - 1
    BY <1>1 DEF Row
  <2> HIDE DEF m
  <2>2. RejBoundedPoly(Shake256(<<"rhop", xi>>, m)) \in [Coeff -> -Eta .. Eta]
    BY <1>2, <2>1
  <2> QED BY <2>2 DEF m
<1> QED BY <1>3, <1>4 DEF ExpandS, Vector, Row, Col

-----------------------------------------------------------------------------
(* The matrix times a vector.                                               *)
\* The sums of a row.
RowRun(m, v, i, t) ==
  /\ t \in [0 .. Ell -> Poly] /\ t[0] = Zero /\ MatrixVectorNtt(m, v)[i] = t[Ell]
  /\ \A k \in 1 .. Ell : t[k] = Add(t[k - 1], MulNtt(m[i][k - 1], v[k - 1]))

\* Coefficients are reduced by each operation.
LEMMA OperationTypes ==
  ASSUME NEW a \in Poly, NEW b \in Poly
  PROVE  /\ Add(a, b) \in Poly /\ Sub(a, b) \in Poly /\ MulNtt(a, b) \in Poly /\ Neg(a) \in Poly
         /\ \A j \in Coeff : /\ Eq(Add(a, b)[j], a[j] + b[j]) /\ Eq(Sub(a, b)[j], a[j] - b[j])
                             /\ Eq(MulNtt(a, b)[j], a[j] * b[j]) /\ Eq(Neg(a)[j], -a[j])
<1>1. ASSUME NEW j \in Coeff
      PROVE  /\ (a[j] + b[j]) % Q \in Int /\ Eq((a[j] + b[j]) % Q, a[j] + b[j])
             /\ (a[j] - b[j]) % Q \in Int /\ Eq((a[j] - b[j]) % Q, a[j] - b[j])
             /\ (a[j] * b[j]) % Q \in Int /\ Eq((a[j] * b[j]) % Q, a[j] * b[j])
             /\ (-a[j]) % Q \in Int /\ Eq((-a[j]) % Q, -a[j])
  <2> DEFINE x == a[j]
             y == b[j]
             s == x + y
             d == x - y
             p == x * y
             n == -x
  <2>1. x \in Int /\ y \in Int
    BY DEF Poly
  <2>2. s \in Int /\ d \in Int /\ p \in Int /\ n \in Int
    <3> HIDE DEF x, y
    <3> QED BY <2>1
  <2> HIDE DEF s, d, p, n
  <2>3. /\ s % Q \in Int /\ Eq(s % Q, s) /\ d % Q \in Int /\ Eq(d % Q, d)
        /\ p % Q \in Int /\ Eq(p % Q, p) /\ n % Q \in Int /\ Eq(n % Q, n)
    BY <2>2, EqModulus
  <2> QED BY <2>3 DEF s, d, p, n
<1> QED BY <1>1 DEF Add, Sub, MulNtt, Neg, Poly

\* A row of matrix_vector_ntt is summed up one column after the other.
LEMMA RowSteps ==
  ASSUME NEW m \in [Row -> [Col -> Poly]], NEW v \in [Col -> Poly], NEW i \in Row
  PROVE  \E t : RowRun(m, v, i, t)
<1> DEFINE s == [j \in 1 .. Ell |-> j]
           More(w, j) == Add(w, MulNtt(m[i][j - 1], v[j - 1]))
           step == [p \in Poly \X (1 .. Ell) |-> More(p[1], p[2])]
           Iter(f) == f = [u \in SUBSET (1 .. Ell) |-> IF u = {} THEN Zero ELSE More(f[u \ {Max(u)}], s[Max(u)])]
<1>1. /\ DOMAIN s = 1 .. Ell /\ Ell \in Nat /\ Zero \in Poly
      /\ \A j \in 1 .. Ell : s[j] = j /\ j - 1 \in Col
  <2>1. Zero \in Poly
    BY DEF Zero, Poly
  <2>2. Ell \in Nat
    BY Parameters
  <2> QED BY <2>1, <2>2 DEF Col
<1>2. \A w \in Poly, j \in 1 .. Ell : More(w, j) \in Poly
  <2> TAKE w \in Poly, j \in 1 .. Ell
  <2>1. m[i][j - 1] \in Poly /\ v[j - 1] \in Poly
    BY <1>1
  <2>2. MulNtt(m[i][j - 1], v[j - 1]) \in Poly
    BY <2>1, OperationTypes
  <2> QED BY <2>2, OperationTypes
<1>3. step \in [Poly \X (1 .. Ell) -> Poly]
  <2> HIDE DEF More
  <2>1. \A p \in Poly \X (1 .. Ell) : More(p[1], p[2]) \in Poly
    BY <1>2
  <2> QED BY <2>1
<1>4. \A w \in Poly, j \in 1 .. Ell : step[<<w, j>>] = More(w, j)
  <2> HIDE DEF More
  <2> QED OBVIOUS
<1> HIDE DEF step
<1>5. PICK f : FoldRun(Ell, Poly, Zero, step, f)
  BY <1>1, <1>3, FoldRunExists
<1>6. \A u \in SUBSET (1 .. Ell) : u # {} => Max(u) \in 1 .. Ell /\ u \ {Max(u)} \in SUBSET (1 .. Ell)
  BY <1>1, FoldTakes
<1>7. Iter(f)
  <2> HIDE DEF More, s
  <2>1. /\ f \in [SUBSET (1 .. Ell) -> Poly]
        /\ \A u \in SUBSET (1 .. Ell) : f[u] = IF u = {} THEN Zero ELSE step[<<f[u \ {Max(u)}], Max(u)>>]
    BY <1>5 DEF FoldRun
  <2>2. ASSUME NEW u \in SUBSET (1 .. Ell), u # {} PROVE f[u] = More(f[u \ {Max(u)}], s[Max(u)])
    <3>1. Max(u) \in 1 .. Ell /\ f[u \ {Max(u)}] \in Poly
      BY <1>6, <2>1, <2>2
    <3>2. f[u] = step[<<f[u \ {Max(u)}], Max(u)>>]
      BY <2>1, <2>2
    <3> QED BY <1>1, <1>4, <3>1, <3>2
  <2>3. \A u \in SUBSET (1 .. Ell) : f[u] = IF u = {} THEN Zero ELSE More(f[u \ {Max(u)}], s[Max(u)])
    BY <2>1, <2>2
  <2>4. f = [u \in SUBSET (1 .. Ell) |-> f[u]]
    BY <2>1
  <2> QED BY <2>3, <2>4
<1> DEFINE g == CHOOSE f_1 : Iter(f_1)
<1>8. Iter(g)
  <2> HIDE DEF Iter
  <2> QED BY <1>7
<1>9. MatrixVectorNtt(m, v)[i] = g[1 .. Ell]
  BY <1>1 DEF MatrixVectorNtt, FoldLeft, MapThenFoldSet
<1> HIDE DEF g
<1>10. FoldsBy(Ell, Poly, Zero, step, g)
  <2> HIDE DEF More, s
  <2>1. g = [u \in SUBSET (1 .. Ell) |-> IF u = {} THEN Zero ELSE More(g[u \ {Max(u)}], s[Max(u)])]
    BY <1>8
  <2>2. DOMAIN g = SUBSET (1 .. Ell) /\ g[{}] = Zero
    BY <2>1
  <2>3. ASSUME NEW u \in SUBSET (1 .. Ell), u # {}, g[u \ {Max(u)}] \in Poly
        PROVE  g[u] = step[<<g[u \ {Max(u)}], Max(u)>>]
    <3>1. g[u] = More(g[u \ {Max(u)}], s[Max(u)])
      BY <2>1, <2>3
    <3>2. Max(u) \in 1 .. Ell /\ s[Max(u)] = Max(u)
      BY <1>1, <1>6, <2>3
    <3> QED BY <1>4, <2>3, <3>1, <3>2
  <2> HIDE DEF g
  <2> QED BY <2>1, <2>2, <2>3 DEF FoldsBy
<1>11. PICK t : Chain(Ell, Poly, Zero, step, t, g[1 .. Ell])
  BY <1>1, <1>3, <1>10, FoldChain
<1>12. t \in [0 .. Ell -> Poly] /\ t[0] = Zero /\ t[Ell] = g[1 .. Ell]
  BY <1>11 DEF Chain
<1>13. ASSUME NEW k \in 1 .. Ell PROVE t[k] = More(t[k - 1], k)
  <2> HIDE DEF More
  <2>1. t[k] = step[<<t[k - 1], k>>]
    BY <1>11 DEF Chain
  <2>2. t[k - 1] \in Poly
    <3>1. k - 1 \in 0 .. Ell
      BY <1>1
    <3> QED BY <1>12, <3>1
  <2> QED BY <1>4, <2>1, <2>2
<1> QED BY <1>9, <1>12, <1>13 DEF RowRun

\* A vector of polynomials again.
LEMMA MatrixType ==
  ASSUME NEW m \in [Row -> [Col -> Poly]], NEW v \in [Col -> Poly]
  PROVE  MatrixVectorNtt(m, v) \in [Row -> Poly]
<1>1. ASSUME NEW i \in Row PROVE MatrixVectorNtt(m, v)[i] \in Poly
  <2>1. PICK t : RowRun(m, v, i, t)
    BY RowSteps
  <2>2. Ell \in 0 .. Ell
    BY Parameters
  <2> QED BY <2>1, <2>2 DEF RowRun
<1> DEFINE w == MatrixVectorNtt(m, v)
<1>2. w = [i \in Row |-> w[i]]
  BY DEF MatrixVectorNtt
<1> HIDE DEF w
<1>3. \A i \in Row : w[i] \in Poly
  BY <1>1 DEF w
<1>4. w \in [Row -> Poly]
  BY <1>2, <1>3
<1> QED BY <1>4 DEF w

\* One polynomial is another plus a product, value by value.
PlusAt(x, y, c, s) == Eq(x, y + c * s)
PlusBy(x, y, c, s, k) == x = y + c * s + k * Q
Plus(w, y, c, s) == \A j \in Coeff : PlusAt(w[j], y[j], c[j], s[j])

\* Three sums that go on, each with a product.
PlusTerms(w, y, c, s, v, u, r, m, w1, y1, s1) ==
  /\ w \in Int /\ y \in Int /\ c \in Int /\ s \in Int /\ v \in Int /\ u \in Int /\ r \in Int
  /\ m \in Int /\ w1 \in Int /\ y1 \in Int /\ s1 \in Int
  /\ PlusAt(w, y, c, s) /\ PlusAt(v, u, c, r)
  /\ PlusAt(w1, w, m, v) /\ PlusAt(y1, y, m, u) /\ PlusAt(s1, s, m, r)

\* What holds of the sums goes on with them.
LEMMA PlusStep ==
  ASSUME NEW w, NEW y, NEW c, NEW s, NEW v, NEW u, NEW r, NEW m, NEW w1, NEW y1, NEW s1,
         PlusTerms(w, y, c, s, v, u, r, m, w1, y1, s1)
  PROVE  PlusAt(w1, y1, c, s1)
<1>0. /\ w \in Int /\ y \in Int /\ c \in Int /\ s \in Int /\ v \in Int /\ u \in Int /\ r \in Int
      /\ m \in Int /\ w1 \in Int /\ y1 \in Int /\ s1 \in Int
      /\ PlusAt(w, y, c, s) /\ PlusAt(v, u, c, r)
      /\ PlusAt(w1, w, m, v) /\ PlusAt(y1, y, m, u) /\ PlusAt(s1, s, m, r)
  BY DEF PlusTerms
<1>1. ASSUME NEW x \in Int, NEW z \in Int, NEW a \in Int, NEW b \in Int, PlusAt(x, z, a, b)
      PROVE  \E k \in Int : PlusBy(x, z, a, b, k)
  <2> DEFINE d == z + a * b
  <2>1. d \in Int
    OBVIOUS
  <2>2. Eq(x, d)
    BY <1>1 DEF PlusAt
  <2> HIDE DEF d
  <2>3. PICK k \in Int : x = d + k * Q
    BY <2>1, <2>2, EqThen
  <2>4. PlusBy(x, z, a, b, k)
    BY <2>3 DEF PlusBy, d
  <2> QED BY <2>4
<1>2. PICK k1 \in Int : PlusBy(w, y, c, s, k1)
  BY <1>0, <1>1
<1>3. PICK k2 \in Int : PlusBy(v, u, c, r, k2)
  BY <1>0, <1>1
<1>4. PICK k3 \in Int : PlusBy(w1, w, m, v, k3)
  BY <1>0, <1>1
<1>5. PICK k4 \in Int : PlusBy(y1, y, m, u, k4)
  BY <1>0, <1>1
<1>6. PICK k5 \in Int : PlusBy(s1, s, m, r, k5)
  BY <1>0, <1>1
<1> DEFINE k == k1 + m * k2 + k3 - k4 - c * k5
           d == y1 + c * s1
<1>7. Q \in Int
  BY Parameters
<1>8. y + c * s + k1 * Q + m * (u + c * r + k2 * Q) + k3 * Q
        = (y + m * u + k4 * Q) + c * (s + m * r + k5 * Q) + (k1 + m * k2 + k3 - k4 - c * k5) * Q
  BY <1>0, <1>7
<1>9. w1 = d + k * Q
  BY <1>2, <1>3, <1>4, <1>5, <1>6, <1>8 DEF PlusBy
<1>10. k \in Int /\ d \in Int
  BY <1>0
<1> HIDE DEF k, d
<1>11. Eq(w1, d)
  BY <1>0, <1>9, <1>10, EqIf
<1> QED BY <1>11 DEF PlusAt, d

\* The matrix times a vector that is another plus a product.
LEMMA MatrixPlus ==
  ASSUME NEW m \in [Row -> [Col -> Poly]], NEW c \in Poly,
         NEW v \in [Col -> Poly], NEW y \in [Col -> Poly], NEW s \in [Col -> Poly],
         \A k \in Col : Plus(v[k], y[k], c, s[k]), NEW i \in Row
  PROVE  Plus(MatrixVectorNtt(m, v)[i], MatrixVectorNtt(m, y)[i], c, MatrixVectorNtt(m, s)[i])
<1>1. PICK t : RowRun(m, v, i, t)
  BY RowSteps
<1>2. PICK p : RowRun(m, y, i, p)
  BY RowSteps
<1>3. PICK q : RowRun(m, s, i, q)
  BY RowSteps
<1>4. Ell \in Nat /\ Col = 0 .. Ell - 1
  BY Parameters DEF Col
<1> DEFINE S == {k \in Nat : k <= Ell => Plus(t[k], p[k], c, q[k])}
<1>5. 0 \in S
  <2>1. t[0] = Zero /\ p[0] = Zero /\ q[0] = Zero
    BY <1>1, <1>2, <1>3 DEF RowRun
  <2>2. ASSUME NEW j \in Coeff PROVE PlusAt(Zero[j], Zero[j], c[j], Zero[j])
    <3>1. Zero[j] = 0 /\ c[j] \in Int
      BY DEF Zero, Poly
    <3>2. 0 + c[j] * 0 = 0
      BY <3>1
    <3> QED BY <3>1, <3>2 DEF PlusAt, Eq
  <2> QED BY <2>1, <2>2 DEF Plus
<1>6. ASSUME NEW k \in Nat, k \in S PROVE k + 1 \in S
  <2> SUFFICES ASSUME k + 1 <= Ell, NEW j \in Coeff PROVE PlusAt(t[k + 1][j], p[k + 1][j], c[j], q[k + 1][j])
    BY DEF Plus
  <2> DEFINE n == k + 1
  <2>1. n \in 1 .. Ell /\ n \in 0 .. Ell /\ n - 1 = k /\ k \in 0 .. Ell /\ k \in Col
    BY <1>4
  <2>2. PlusAt(t[k][j], p[k][j], c[j], q[k][j])
    BY <1>4, <1>6 DEF Plus
  <2> HIDE DEF n
  <2> DEFINE e == m[i][k]
  <2>3. /\ t[n] = Add(t[k], MulNtt(e, v[k])) /\ p[n] = Add(p[k], MulNtt(e, y[k]))
        /\ q[n] = Add(q[k], MulNtt(e, s[k]))
    BY <1>1, <1>2, <1>3, <2>1 DEF RowRun
  <2>4. t[k] \in Poly /\ p[k] \in Poly /\ q[k] \in Poly /\ t[n] \in Poly /\ p[n] \in Poly /\ q[n] \in Poly
    BY <1>1, <1>2, <1>3, <2>1 DEF RowRun
  <2>5. e \in Poly /\ v[k] \in Poly /\ y[k] \in Poly /\ s[k] \in Poly
    BY <2>1
  <2>6. PlusAt(v[k][j], y[k][j], c[j], s[k][j])
    BY <2>1 DEF Plus
  <2> HIDE DEF e
  <2>7. ASSUME NEW a \in Poly, NEW b \in Poly
        PROVE  PlusAt(Add(a, MulNtt(e, b))[j], a[j], e[j], b[j])
    <3> DEFINE d == MulNtt(e, b)
               x == Add(a, d)
    <3>1. d \in Poly /\ Eq(d[j], e[j] * b[j])
      BY <2>5, OperationTypes
    <3> HIDE DEF d
    <3>2. x \in Poly /\ Eq(x[j], a[j] + d[j])
      BY <3>1, OperationTypes
    <3> HIDE DEF x
    <3> DEFINE a0 == a[j]
               b0 == b[j]
               d0 == d[j]
               e0 == e[j]
               x0 == x[j]
    <3>3. a0 \in Int /\ b0 \in Int /\ d0 \in Int /\ e0 \in Int /\ x0 \in Int /\ Eq(d0, e0 * b0) /\ Eq(x0, a0 + d0)
      BY <2>5, <3>1, <3>2 DEF Poly
    <3> HIDE DEF a0, b0, d0, e0, x0
    <3> DEFINE f == e0 * b0
    <3>4. f \in Int /\ Eq(d0, f)
      BY <3>3
    <3> HIDE DEF f
    <3>5. Eq(a0 + d0, a0 + f)
      BY <3>3, <3>4, EqModulus, EqSum
    <3>6. a0 + d0 \in Int /\ a0 + f \in Int
      BY <3>3, <3>4
    <3>7. Eq(x0, a0 + f)
      BY <3>3, <3>5, <3>6, EqThrough
    <3> QED BY <3>7 DEF PlusAt, f, a0, b0, e0, x0, x, d
  <2>8. /\ PlusAt(t[n][j], t[k][j], e[j], v[k][j]) /\ PlusAt(p[n][j], p[k][j], e[j], y[k][j])
        /\ PlusAt(q[n][j], q[k][j], e[j], s[k][j])
    BY <2>3, <2>4, <2>5, <2>7
  <2>9. /\ t[k][j] \in Int /\ p[k][j] \in Int /\ q[k][j] \in Int /\ t[n][j] \in Int /\ p[n][j] \in Int
        /\ q[n][j] \in Int /\ e[j] \in Int /\ v[k][j] \in Int /\ y[k][j] \in Int /\ s[k][j] \in Int /\ c[j] \in Int
    BY <2>4, <2>5 DEF Poly
  <2> DEFINE w0 == t[k][j]
             y0 == p[k][j]
             c0 == c[j]
             s0 == q[k][j]
             v0 == v[k][j]
             u0 == y[k][j]
             r0 == s[k][j]
             m0 == e[j]
             w1 == t[n][j]
             y1 == p[n][j]
             s1 == q[n][j]
  <2>10. /\ w0 \in Int /\ y0 \in Int /\ c0 \in Int /\ s0 \in Int /\ v0 \in Int /\ u0 \in Int /\ r0 \in Int
         /\ m0 \in Int /\ w1 \in Int /\ y1 \in Int /\ s1 \in Int
         /\ PlusAt(w0, y0, c0, s0) /\ PlusAt(v0, u0, c0, r0) /\ PlusAt(w1, w0, m0, v0)
         /\ PlusAt(y1, y0, m0, u0) /\ PlusAt(s1, s0, m0, r0)
    BY <2>2, <2>6, <2>8, <2>9
  <2> HIDE DEF w0, y0, c0, s0, v0, u0, r0, m0, w1, y1, s1
  <2>11. PlusAt(w1, y1, c0, s1)
    <3>1. PlusTerms(w0, y0, c0, s0, v0, u0, r0, m0, w1, y1, s1)
      BY <2>10 DEF PlusTerms
    <3> QED BY <3>1, PlusStep
  <2> QED BY <2>11 DEF n, w1, y1, c0, s1
<1> HIDE DEF S
<1>7. Ell \in S
  BY <1>4, <1>5, <1>6, SetInduction
<1>8. Plus(t[Ell], p[Ell], c, q[Ell])
  BY <1>4, <1>7 DEF S
<1> QED BY <1>1, <1>2, <1>3, <1>8 DEF RowRun

-----------------------------------------------------------------------------
(* A challenge times a secret.                                              *)
\* Within a bound on either side.
Within2(x, d) == x \in Int /\ -d <= x /\ x <= d

\* One summand more.
LEMMA WithinSum ==
  ASSUME NEW x, NEW d \in Nat, Within2(x, d), NEW a \in -1 .. 1, NEW b, NEW e \in Nat, Within2(b, e),
         NEW y, y = x + a * b
  PROVE  Within2(y, d + e) /\ (a = 0 => Within2(y, d))
<1>1. x \in Int /\ -d <= x /\ x <= d /\ b \in Int /\ -e <= b /\ b <= e
  BY DEF Within2
<1>2. CASE a = 0
  <2>1. a * b = 0
    BY <1>1, <1>2
  <2>2. y = x
    BY <1>1, <2>1
  <2> QED BY <1>1, <2>2 DEF Within2
<1>3. CASE a = 1
  <2>1. y = x + b
    BY <1>1, <1>3
  <2> QED BY <1>1, <1>3, <2>1 DEF Within2
<1>4. CASE a = -1
  <2>1. a + 1 = 0
    BY <1>4
  <2>2. a * b = (a + 1) * b - b
    BY <1>1
  <2>3. (a + 1) * b = 0
    BY <1>1, <2>1
  <2>4. y = x - b
    BY <1>1, <2>2, <2>3
  <2>5. a # 0
    BY <2>1
  <2> QED BY <1>1, <2>4, <2>5 DEF Within2
<1> QED BY <1>2, <1>3, <1>4

\* The coefficients of a rotated polynomial are those of the polynomial up to a sign.
LEMMA RotWithin ==
  ASSUME NEW e \in Nat, NEW b \in Poly, \A j \in Coeff : Within2(b[j], e), NEW i \in Coeff, NEW j \in Coeff
  PROVE  Within2(Rot(i, b)[j], e)
<1>1. N \in Nat /\ N > 0 /\ Coeff = 0 .. N - 1
  BY ByteSize DEF Coeff
<1>2. Rot(i, b)[j] = IF i <= j THEN b[j - i] ELSE -b[N + j - i]
  BY DEF Rot
<1>3. CASE i <= j
  <2>1. j - i \in Coeff
    BY <1>1, <1>3
  <2> QED BY <1>2, <1>3, <2>1
<1>4. CASE ~ (i <= j)
  <2>1. N + j - i \in Coeff
    BY <1>1, <1>4
  <2> DEFINE x == b[N + j - i]
  <2>2. Within2(x, e) /\ Rot(i, b)[j] = -x
    BY <1>2, <1>4, <2>1
  <2> HIDE DEF x
  <2>3. Within2(-x, e)
    BY <2>2 DEF Within2
  <2> QED BY <2>2, <2>3
<1> QED BY <1>3, <1>4

\* A product with Tau signs is Tau times as large at most.
LEMMA ProductSmall ==
  ASSUME NEW a \in Poly, a \in [Coeff -> -1 .. 1], IsFiniteSet(Marked(a)), Cardinality(Marked(a)) <= Tau,
         NEW b \in Poly, \A j \in Coeff : Within2(b[j], Eta), NEW t, ProductRun(a, b, t)
  PROVE  t[N] \in Poly /\ \A j \in Coeff : Within2(t[N][j], Beta)
<1>1. N \in Nat /\ N > 0 /\ Coeff = 0 .. N - 1
  BY ByteSize DEF Coeff
<1>2. /\ t \in [0 .. N -> Poly] /\ t[0] = Zero
      /\ \A k \in Coeff : t[k + 1] = [j \in Coeff |-> t[k][j] + a[k] * Rot(k, b)[j]]
  BY DEF ProductRun
<1>3. Eta \in Nat /\ Tau \in Nat /\ Beta = Tau * Eta /\ Beta \in Nat
  BY Parameters
<1> DEFINE Before(k) == {i \in Marked(a) : i < k}
           n(k) == Cardinality(Before(k))
           S == {k \in Nat : k <= N => \A j \in Coeff : Within2(t[k][j], n(k) * Eta)}
<1>4. \A k \in Nat : IsFiniteSet(Before(k)) /\ n(k) \in Nat
  BY FS_Subset, FS_CardinalityType
<1>5. 0 \in S
  <2>1. Before(0) = {}
    BY <1>1 DEF Marked
  <2>2. n(0) = 0
    BY <2>1, FS_EmptySet
  <2>3. \A j \in Coeff : t[0][j] = 0
    BY <1>2 DEF Zero
  <2>4. 0 * Eta = 0 /\ Within2(0, 0)
    BY <1>3 DEF Within2
  <2>5. \A j \in Coeff : Within2(t[0][j], n(0) * Eta)
    <3> HIDE DEF n
    <3> QED BY <2>2, <2>3, <2>4
  <2> QED BY <2>5
<1>6. ASSUME NEW k \in Nat, k \in S PROVE k + 1 \in S
  <2> SUFFICES ASSUME k + 1 <= N, NEW j \in Coeff PROVE Within2(t[k + 1][j], n(k + 1) * Eta)
    OBVIOUS
  <2>1. k \in Coeff /\ k <= N /\ k + 1 \in Nat
    BY <1>1
  <2> DEFINE m == n(k)
             q == n(k + 1)
             x == t[k][j]
             r == Rot(k, b)[j]
             y == t[k + 1][j]
             d == m * Eta
  <2>2. y = x + a[k] * r
    BY <1>2, <2>1
  <2>3. Within2(x, d)
    BY <1>6, <2>1
  <2>4. Within2(r, Eta)
    BY <1>3, <2>1, RotWithin
  <2>5. a[k] \in -1 .. 1 /\ m \in Nat /\ q \in Nat
    BY <1>4, <2>1
  <2>6. a[k] = 0 => q = m
    <3> SUFFICES ASSUME a[k] = 0 PROVE Before(k + 1) = Before(k)
      OBVIOUS
    <3>1. \A i \in Marked(a) : i < k + 1 <=> i < k
      <4>1. k \notin Marked(a) /\ \A i \in Marked(a) : i \in Coeff
        BY DEF Marked
      <4> QED BY <1>1, <4>1
    <3> QED BY <3>1
  <2>7. a[k] # 0 => q = m + 1
    <3> SUFFICES ASSUME a[k] # 0 PROVE q = m + 1
      OBVIOUS
    <3>1. k \notin Before(k) /\ Before(k + 1) = Before(k) \cup {k}
      <4>1. k \in Marked(a) /\ \A i \in Marked(a) : i \in Coeff
        BY <2>1 DEF Marked
      <4>2. \A i \in Marked(a) : i < k + 1 <=> i < k \/ i = k
        BY <1>1, <4>1
      <4>3. \A i : i \in Before(k + 1) <=> i \in Before(k) \cup {k}
        BY <2>1, <4>1, <4>2
      <4> QED BY <2>1, <4>3
    <3> HIDE DEF Before
    <3>2. IsFiniteSet(Before(k))
      BY <1>4
    <3> QED BY <3>1, <3>2, FS_AddElement
  <2>8. d \in Nat
    <3> HIDE DEF m
    <3> QED BY <1>3, <2>5
  <2> DEFINE f == a[k]
  <2>9. f \in -1 .. 1 /\ y = x + f * r
    BY <2>2, <2>5
  <2> HIDE DEF m, q, x, r, y, d, f
  <2>10. Within2(y, d + Eta) /\ (f = 0 => Within2(y, d))
    BY <1>3, <2>3, <2>4, <2>8, <2>9, WithinSum
  <2>11. Within2(y, q * Eta)
    <3>1. CASE f = 0
      BY <2>6, <2>10, <3>1 DEF f, d
    <3>2. CASE f # 0
      <4>1. q = m + 1
        BY <2>7, <3>2 DEF f
      <4>2. (m + 1) * Eta = m * Eta + Eta
        BY <1>3, <2>5
      <4>3. q * Eta = d + Eta
        BY <4>1, <4>2 DEF d
      <4> QED BY <2>10, <4>3
    <3> QED BY <3>1, <3>2
  <2> QED BY <2>11 DEF y, q
<1> HIDE DEF S
<1>7. N \in S
  BY <1>1, <1>5, <1>6, SetInduction
<1>8. \A j \in Coeff : Within2(t[N][j], n(N) * Eta)
  BY <1>1, <1>7 DEF S
<1>9. n(N) \in Nat /\ n(N) <= Tau
  <2>1. Cardinality(Before(N)) <= Cardinality(Marked(a)) /\ Cardinality(Marked(a)) \in Nat
    BY FS_Subset, FS_CardinalityType
  <2>2. n(N) \in Nat
    BY <1>1, <1>4
  <2> QED BY <1>3, <2>1, <2>2
<1> DEFINE c == n(N)
           d == c * Eta
<1> HIDE DEF Before
<1>10. d <= Beta /\ d \in Nat
  <2>1. c \in Nat /\ c <= Tau
    BY <1>9
  <2> HIDE DEF c
  <2>2. c * Eta <= Tau * Eta
    BY <1>3, <2>1, TimesMonotone
  <2> QED BY <1>3, <2>1, <2>2
<1>11. \A j \in Coeff : Within2(t[N][j], d)
  BY <1>8
<1> HIDE DEF d
<1>12. \A j \in Coeff : Within2(t[N][j], Beta)
  BY <1>3, <1>10, <1>11 DEF Within2
<1>13. t[N] \in Poly
  <2>1. N \in 0 .. N
    BY <1>1
  <2> QED BY <1>2, <2>1
<1> QED BY <1>12, <1>13

\* What a challenge adds to a coefficient is Beta at most.
LEMMA TimesSmall ==
  ASSUME NEW draw \in ChallengeCoins, NEW b \in Poly, b \in [Coeff -> -Eta .. Eta]
  PROVE  \E s \in Poly : /\ Alike(NttInverse(MulNtt(Ntt(SampleInBall(draw)), Ntt(b))), s)
                         /\ \A j \in Coeff : Within2(s[j], Beta)
<1> DEFINE c == SampleInBall(draw)
<1>1. c \in [Coeff -> -1 .. 1] /\ c \in Poly /\ IsFiniteSet(Marked(c)) /\ Cardinality(Marked(c)) <= Tau
  BY SampleInBallIs
<1>2. \A j \in Coeff : Within2(b[j], Eta)
  BY Parameters DEF Within2
<1> HIDE DEF c
<1>3. PICK t : ProductRun(c, b, t) /\ Alike(NttInverse(MulNtt(Ntt(c), Ntt(b))), t[N])
  BY <1>1, ProductIs
<1>4. t[N] \in Poly /\ \A j \in Coeff : Within2(t[N][j], Beta)
  BY <1>1, <1>2, <1>3, ProductSmall
<1> QED BY <1>3, <1>4 DEF c

-----------------------------------------------------------------------------
(* The equation verification rests on, row by row.                          *)
\* One polynomial is the sum of two.
Sums(c, a, b) == \A j \in Coeff : Eq(c[j], a[j] + b[j])

\* ntt and ntt_inverse of a sum.
LEMMA NttSums ==
  ASSUME NEW a \in Poly, NEW b \in Poly, NEW c \in Poly, Sums(c, a, b)
  PROVE  Sums(Ntt(c), Ntt(a), Ntt(b)) /\ Sums(NttInverse(c), NttInverse(a), NttInverse(b))
<1>1. ASSUME NEW x \in Int, NEW y \in Int, NEW z \in Int
      PROVE  Eq(z, x + y) <=> Comb(z, 1, x, 1, y)
  <2>1. 1 * x + 1 * y = x + y
    OBVIOUS
  <2> QED BY <2>1 DEF Comb
<1>2. \A j \in Coeff : a[j] \in Int /\ b[j] \in Int /\ c[j] \in Int
  BY DEF Poly
<1>3. Mixed(c, 1, a, 1, b)
  BY <1>1, <1>2 DEF Mixed, Sums
<1>4. Mixed(Ntt(c), 1, Ntt(a), 1, Ntt(b)) /\ Mixed(NttInverse(c), 1, NttInverse(a), 1, NttInverse(b))
  <2>1. 1 \in Int
    OBVIOUS
  <2> QED BY <1>3, <2>1, NttMixed
<1>5. \A j \in Coeff : /\ Ntt(a)[j] \in Int /\ Ntt(b)[j] \in Int /\ Ntt(c)[j] \in Int
                       /\ NttInverse(a)[j] \in Int /\ NttInverse(b)[j] \in Int /\ NttInverse(c)[j] \in Int
  BY NttType DEF Poly
<1> QED BY <1>1, <1>4, <1>5 DEF Mixed, Sums

\* The values at one place: az, the matrix times z; an, times the mask; rs, times s1;
\* sb, tb, pb, ob of s2, t, its high part and its low part; u what the verifier goes back from;
\* p and q what the signer multiplies s2 and t0 into; v the difference.
PlaceTerms(az, an, rs, c, sb, tb, pb, ob, e, u, p, q, v) ==
  /\ az \in Int /\ an \in Int /\ rs \in Int /\ c \in Int /\ sb \in Int /\ tb \in Int /\ pb \in Int /\ ob \in Int
  /\ e \in Int /\ u \in Int /\ p \in Int /\ q \in Int /\ v \in Int
  /\ PlusAt(az, an, c, rs) /\ Eq(tb, rs + sb) /\ Eq(tb, pb + ob) /\ Eq(e, c * pb) /\ Eq(u, az - e)
  /\ Eq(p, c * sb) /\ Eq(q, c * ob) /\ v = an - p

\* Equality modulo Q with a quotient.
By(x, y, k) == x = y + k * Q

\* Equal numbers have a quotient.
LEMMA EqBy ==
  ASSUME NEW x \in Int, NEW y \in Int, Eq(x, y)
  PROVE  \E k \in Int : By(x, y, k)
BY EqThen DEF By

\* The equation at one place.
LEMMA PlaceEquation ==
  ASSUME NEW az, NEW an, NEW rs, NEW c, NEW sb, NEW tb, NEW pb, NEW ob, NEW e, NEW u, NEW p, NEW q, NEW v,
         PlaceTerms(az, an, rs, c, sb, tb, pb, ob, e, u, p, q, v)
  PROVE  Eq(an, v + p) /\ Eq(u, v + q)
<1>0. /\ az \in Int /\ an \in Int /\ rs \in Int /\ c \in Int /\ sb \in Int /\ tb \in Int /\ pb \in Int /\ ob \in Int
      /\ e \in Int /\ u \in Int /\ p \in Int /\ q \in Int /\ v \in Int
      /\ PlusAt(az, an, c, rs) /\ Eq(tb, rs + sb) /\ Eq(tb, pb + ob) /\ Eq(e, c * pb) /\ Eq(u, az - e)
      /\ Eq(p, c * sb) /\ Eq(q, c * ob) /\ v = an - p
  BY DEF PlaceTerms
<1>1. Eq(an, v + p)
  <2>1. an = v + p
    BY <1>0
  <2> QED BY <2>1 DEF Eq
<1> DEFINE x == c * rs
           y == c * sb
           z == c * ob
           w == c * pb
           h == rs + sb
           g == pb + ob
<1>2. x \in Int /\ y \in Int /\ z \in Int /\ w \in Int /\ h \in Int /\ g \in Int
  BY <1>0
<1>3. Eq(h, g) /\ c * h = x + y /\ c * g = w + z
  <2>1. c * (rs + sb) = c * rs + c * sb /\ c * (pb + ob) = c * pb + c * ob
    <3>1. ASSUME NEW a1 \in Int, NEW a2 \in Int, NEW a3 \in Int PROVE a1 * (a2 + a3) = a1 * a2 + a1 * a3
      OBVIOUS
    <3>2. c \in Int /\ rs \in Int /\ sb \in Int /\ pb \in Int /\ ob \in Int
      BY <1>0
    <3>3. c * (rs + sb) = c * rs + c * sb
      BY ONLY <3>1, <3>2
    <3>4. c * (pb + ob) = c * pb + c * ob
      BY ONLY <3>1, <3>2
    <3> QED BY <3>3, <3>4
  <2>2. c * h = x + y /\ c * g = w + z
    BY <2>1
  <2> HIDE DEF h, g
  <2>3. Eq(tb, h) /\ Eq(tb, g)
    BY <1>0 DEF h, g
  <2>4. Eq(h, g)
    BY <1>0, <1>2, <2>3, EqThrough
  <2> QED BY <2>2, <2>4
<1> HIDE DEF x, y, z, w, h, g
<1>4. Eq(x + y, w + z)
  <2>1. Eq(c, c)
    BY <1>0, EqModulus
  <2>2. Eq(c * h, c * g)
    BY <1>0, <1>2, <1>3, <2>1, EqProduct
  <2> QED BY <1>3, <2>2
<1>5. Eq(az, an + x) /\ Eq(e, w) /\ Eq(u, az - e) /\ Eq(p, y) /\ Eq(q, z)
  BY <1>0 DEF PlusAt, x, w, y, z
<1>6. Q \in Int
  BY Parameters
<1>7. PICK k1 \in Int : By(az, an + x, k1)
  <2>1. an + x \in Int
    BY <1>0, <1>2
  <2> QED BY <1>0, <1>5, <2>1, EqBy
<1>8. PICK k2 \in Int : By(e, w, k2)
  BY <1>0, <1>2, <1>5, EqBy
<1>9. PICK k3 \in Int : By(u, az - e, k3)
  <2>1. az - e \in Int
    BY <1>0
  <2> QED BY <1>0, <1>5, <2>1, EqBy
<1>10. PICK k4 \in Int : By(p, y, k4)
  BY <1>0, <1>2, <1>5, EqBy
<1>11. PICK k5 \in Int : By(q, z, k5)
  BY <1>0, <1>2, <1>5, EqBy
<1>12. PICK k6 \in Int : By(x + y, w + z, k6)
  <2>1. x + y \in Int /\ w + z \in Int
    BY <1>2
  <2> QED BY <1>4, <2>1, EqBy
<1> DEFINE m1 == k1 * Q
           m2 == k2 * Q
           m3 == k3 * Q
           m4 == k4 * Q
           m5 == k5 * Q
           m6 == k6 * Q
           k == k1 - k2 + k3 + k4 - k5 + k6
           d == v + q
<1>13. /\ m1 \in Int /\ m2 \in Int /\ m3 \in Int /\ m4 \in Int /\ m5 \in Int /\ m6 \in Int
       /\ k \in Int /\ d \in Int /\ k * Q = m1 - m2 + m3 + m4 - m5 + m6
  BY <1>0, <1>6
<1>14. /\ az = an + x + m1 /\ e = w + m2 /\ u = az - e + m3 /\ p = y + m4 /\ q = z + m5
       /\ x + y = w + z + m6 /\ v = an - p /\ d = v + q
  BY <1>0, <1>7, <1>8, <1>9, <1>10, <1>11, <1>12 DEF By
<1> HIDE DEF m1, m2, m3, m4, m5, m6, k, d
<1>15. u = d + k * Q
  <2>1. /\ an \in Int /\ az \in Int /\ e \in Int /\ u \in Int /\ p \in Int /\ q \in Int /\ v \in Int
    BY <1>0
  <2>2. u = d + (m1 - m2 + m3 + m4 - m5 + m6)
    BY <1>2, <1>13, <1>14, <2>1
  <2> QED BY <1>13, <2>2
<1>16. Eq(u, d)
  BY <1>0, <1>13, <1>15, EqIf
<1> QED BY <1>1, <1>16 DEF d

\* The polynomials of a row: what t is made of, in two ways.
RowTerms(c, az, an, rs, s2, t, p1, t0) ==
  /\ c \in Poly /\ az \in Poly /\ an \in Poly /\ rs \in Poly /\ s2 \in Poly /\ t \in Poly /\ p1 \in Poly /\ t0 \in Poly
  /\ Plus(az, an, c, rs) /\ Sums(t, NttInverse(rs), s2) /\ Sums(t, p1, t0)

\* What the verifier computes is what the signer has, less cs2 and plus ct0.
LEMMA RowEquation ==
  ASSUME NEW c, NEW az, NEW an, NEW rs, NEW s2, NEW t, NEW p1, NEW t0, RowTerms(c, az, an, rs, s2, t, p1, t0)
  PROVE  Sums(NttInverse(Sub(az, MulNtt(c, Ntt(p1)))),
              Sub(NttInverse(an), NttInverse(MulNtt(c, Ntt(s2)))), NttInverse(MulNtt(c, Ntt(t0))))
<1>0. /\ c \in Poly /\ az \in Poly /\ an \in Poly /\ rs \in Poly
      /\ s2 \in Poly /\ t \in Poly /\ p1 \in Poly /\ t0 \in Poly
      /\ Plus(az, an, c, rs) /\ Sums(t, NttInverse(rs), s2) /\ Sums(t, p1, t0)
  BY DEF RowTerms
<1> DEFINE sb == Ntt(s2)
           tb == Ntt(t)
           pb == Ntt(p1)
           ob == Ntt(t0)
           ib == Ntt(NttInverse(rs))
<1>1. sb \in Poly /\ tb \in Poly /\ pb \in Poly /\ ob \in Poly /\ ib \in Poly /\ NttInverse(rs) \in Poly
  BY <1>0, NttType
<1>2. Sums(tb, ib, sb) /\ Sums(tb, pb, ob)
  BY <1>0, <1>1, NttSums
<1>3. Alike(ib, rs)
  BY <1>0, NttOfInverse
<1> HIDE DEF sb, tb, pb, ob, ib
<1> DEFINE e == MulNtt(c, pb)
           u == Sub(az, e)
           p == MulNtt(c, sb)
           q == MulNtt(c, ob)
           v == [j \in Coeff |-> an[j] - p[j]]
<1>4. /\ e \in Poly /\ p \in Poly /\ q \in Poly
      /\ \A j \in Coeff : Eq(e[j], c[j] * pb[j]) /\ Eq(p[j], c[j] * sb[j]) /\ Eq(q[j], c[j] * ob[j])
  BY <1>0, <1>1, OperationTypes
<1> HIDE DEF e, p, q
<1>5. u \in Poly /\ \A j \in Coeff : Eq(u[j], az[j] - e[j])
  BY <1>0, <1>4, OperationTypes
<1>6. v \in Poly /\ \A j \in Coeff : v[j] = an[j] - p[j]
  <2>1. ASSUME NEW j \in Coeff PROVE an[j] - p[j] \in Int
    <3>1. an[j] \in Int /\ p[j] \in Int
      BY <1>0, <1>4 DEF Poly
    <3> QED BY <3>1
  <2> QED BY <2>1 DEF Poly
<1> HIDE DEF u, v
<1>7. ASSUME NEW j \in Coeff PROVE Eq(an[j], v[j] + p[j]) /\ Eq(u[j], v[j] + q[j])
  <2>1. Eq(tb[j], rs[j] + sb[j])
    <3> DEFINE x == ib[j]
               y == rs[j]
               z == sb[j]
               w == tb[j]
    <3>1. x \in Int /\ y \in Int /\ z \in Int /\ w \in Int /\ Eq(x, y) /\ Eq(w, x + z)
      BY <1>0, <1>1, <1>2, <1>3 DEF Poly, Alike, Sums
    <3> HIDE DEF x, y, z, w
    <3>2. Eq(x + z, y + z) /\ x + z \in Int /\ y + z \in Int
      <4>1. Eq(z, z)
        BY <3>1, EqModulus
      <4>2. Eq(x + z, y + z)
        BY <3>1, <4>1, EqSum
      <4> QED BY <3>1, <4>2
    <3>3. Eq(w, y + z)
      BY <3>1, <3>2, EqThrough
    <3> QED BY <3>3 DEF w, y, z
  <2>2. Eq(tb[j], pb[j] + ob[j])
    BY <1>2 DEF Sums
  <2>3. PlusAt(az[j], an[j], c[j], rs[j])
    BY <1>0 DEF Plus
  <2>4. /\ az[j] \in Int /\ an[j] \in Int /\ rs[j] \in Int /\ c[j] \in Int /\ sb[j] \in Int /\ tb[j] \in Int
        /\ pb[j] \in Int /\ ob[j] \in Int /\ e[j] \in Int /\ u[j] \in Int /\ p[j] \in Int /\ q[j] \in Int /\ v[j] \in Int
    BY <1>0, <1>1, <1>4, <1>5, <1>6 DEF Poly
  <2>5. PlaceTerms(az[j], an[j], rs[j], c[j], sb[j], tb[j], pb[j], ob[j], e[j], u[j], p[j], q[j], v[j])
    BY <1>4, <1>5, <1>6, <2>1, <2>2, <2>3, <2>4 DEF PlaceTerms
  <2> QED BY <2>5, PlaceEquation
<1>8. Sums(NttInverse(an), NttInverse(v), NttInverse(p)) /\ Sums(NttInverse(u), NttInverse(v), NttInverse(q))
  <2>1. Sums(an, v, p) /\ Sums(u, v, q)
    BY <1>7 DEF Sums
  <2> QED BY <1>0, <1>4, <1>5, <1>6, <2>1, NttSums
<1> DEFINE w == NttInverse(an)
           vi == NttInverse(v)
           pi == NttInverse(p)
           qi == NttInverse(q)
           ui == NttInverse(u)
           d == Sub(w, pi)
<1>9. w \in Poly /\ vi \in Poly /\ pi \in Poly /\ qi \in Poly /\ ui \in Poly
  BY <1>0, <1>4, <1>5, <1>6, NttType
<1>10. Sums(w, vi, pi) /\ Sums(ui, vi, qi)
  BY <1>8
<1> HIDE DEF w, vi, pi, qi, ui
<1>11. d \in Poly /\ \A j \in Coeff : Eq(d[j], w[j] - pi[j])
  BY <1>9, OperationTypes
<1> HIDE DEF d
<1>12. ASSUME NEW j \in Coeff PROVE Eq(ui[j], d[j] + qi[j])
  <2> DEFINE x == w[j]
             y == vi[j]
             z == pi[j]
             r == qi[j]
             g == ui[j]
             f == d[j]
  <2>1. /\ x \in Int /\ y \in Int /\ z \in Int /\ r \in Int /\ g \in Int /\ f \in Int
        /\ Eq(x, y + z) /\ Eq(g, y + r) /\ Eq(f, x - z)
    BY <1>9, <1>10, <1>11 DEF Poly, Sums
  <2> HIDE DEF x, y, z, r, g, f
  <2>2. PICK k1 \in Int : By(x, y + z, k1)
    <3>1. y + z \in Int
      BY <2>1
    <3> QED BY <2>1, <3>1, EqBy
  <2>3. PICK k2 \in Int : By(g, y + r, k2)
    <3>1. y + r \in Int
      BY <2>1
    <3> QED BY <2>1, <3>1, EqBy
  <2>4. PICK k3 \in Int : By(f, x - z, k3)
    <3>1. x - z \in Int
      BY <2>1
    <3> QED BY <2>1, <3>1, EqBy
  <2>5. Q \in Int
    BY Parameters
  <2>6. g = (f + r) + (k2 - k1 - k3) * Q
    <3>1. f = y + k1 * Q + k3 * Q
      BY <2>1, <2>2, <2>4, <2>5 DEF By
    <3>2. g = y + r + k2 * Q
      BY <2>3 DEF By
    <3>3. y + r + k2 * Q = ((y + k1 * Q + k3 * Q) + r) + (k2 - k1 - k3) * Q
      BY <2>1, <2>5
    <3> QED BY <3>1, <3>2, <3>3
  <2>7. f + r \in Int /\ k2 - k1 - k3 \in Int
    BY <2>1
  <2>8. Eq(g, f + r)
    BY <2>1, <2>6, <2>7, EqIf
  <2> QED BY <2>8 DEF g, f, r
<1>13. Sums(ui, d, qi)
  BY <1>12 DEF Sums
<1> QED BY <1>13 DEF ui, d, qi, w, pi, u, e, p, q, sb, pb, ob

-----------------------------------------------------------------------------
(* The keys of a seed.                                                      *)
Rho(xi) == <<"rho", xi>>
Matrix(xi) == ExpandA(Rho(xi))
Secret(xi) == ExpandS(<<"rhop", xi>>)
NttCols(v) == Each(Col, LAMBDA i : Ntt(v[i]))
NttRows(v) == Each(Row, LAMBDA i : Ntt(v[i]))
ProductRows(xi) == MatrixVectorNtt(Matrix(xi), NttCols(Secret(xi).s1))
Public(xi) == Each(Row, LAMBDA i : Add(NttInverse(ProductRows(xi)[i]), Secret(xi).s2[i]))
PublicHigh(xi) == Each(Row, LAMBDA i : [j \in Coeff |-> Power2Round1(Public(xi)[i][j])])
PublicLow(xi) == Each(Row, LAMBDA i : [j \in Coeff |-> Power2Round0(Public(xi)[i][j])])
PkOf(xi) == PkEncode(Rho(xi), PublicHigh(xi))
SkOf(xi) == SkEncode(Rho(xi), <<"tr", PkOf(xi)>>, Secret(xi).s1, Secret(xi).s2, PublicLow(xi))

\* keygen_internal makes these keys.
LEMMA KeygenIs ==
  ASSUME NEW xi
  PROVE  KeygenInternal(xi).pk = PkOf(xi) /\ KeygenInternal(xi).sk = SkOf(xi)
BY DEF KeygenInternal, PkOf, SkOf, PublicHigh, PublicLow, Public, ProductRows, NttCols, Secret, Matrix, Rho, Each

\* ntt of each polynomial of a vector.
LEMMA NttVectors ==
  ASSUME NEW v
  PROVE  /\ v \in [Col -> Poly] => NttCols(v) \in [Col -> Poly]
         /\ v \in [Row -> Poly] => NttRows(v) \in [Row -> Poly]
         /\ \A i \in Col : NttCols(v)[i] = Ntt(v[i])
         /\ \A i \in Row : NttRows(v)[i] = Ntt(v[i])
<1>1. /\ \A i \in Col : NttCols(v)[i] = Ntt(v[i])
      /\ \A i \in Row : NttRows(v)[i] = Ntt(v[i])
      /\ NttCols(v) = [i \in Col |-> Ntt(v[i])] /\ NttRows(v) = [i \in Row |-> Ntt(v[i])]
  BY DEF NttCols, NttRows, Each
<1>2. ASSUME v \in [Col -> Poly] PROVE NttCols(v) \in [Col -> Poly]
  <2>1. \A i \in Col : Ntt(v[i]) \in Poly
    BY <1>2, NttType
  <2> QED BY <1>1, <2>1
<1>3. ASSUME v \in [Row -> Poly] PROVE NttRows(v) \in [Row -> Poly]
  <2>1. \A i \in Row : Ntt(v[i]) \in Poly
    BY <1>3, NttType
  <2> QED BY <1>1, <2>1
<1> QED BY <1>1, <1>2, <1>3

\* What a matrix and secrets are made of.
LEMMA SecretTypes ==
  ASSUME NEW xi \in Seeds
  PROVE  /\ Matrix(xi) \in [Row -> [Col -> Poly]]
         /\ Secret(xi).s1 \in Vector(Ell, -Eta .. Eta) /\ Secret(xi).s2 \in Vector(K, -Eta .. Eta)
         /\ Secret(xi).s1 \in [Col -> Poly] /\ Secret(xi).s2 \in [Row -> Poly]
         /\ ProductRows(xi) \in [Row -> Poly]
<1>1. Matrix(xi) \in [Row -> [Col -> Poly]]
  <2>1. \A r \in Row, s \in Col : Matrix(xi)[r][s] \in [Coeff -> 0 .. Q - 1]
    BY ExpandAType DEF Matrix, Rho
  <2>2. Matrix(xi) \in [Row -> [Col -> [Coeff -> 0 .. Q - 1]]]
    BY ExpandAType DEF Matrix, Rho
  <2>3. \A r \in Row, s \in Col : Matrix(xi)[r][s] \in Poly
    BY <2>1, Parameters DEF Poly
  <2> HIDE DEF Matrix
  <2>4. \A r \in Row : Matrix(xi)[r] \in [Col -> Poly]
    <3> TAKE r \in Row
    <3>1. Matrix(xi)[r] \in [Col -> [Coeff -> 0 .. Q - 1]]
      BY <2>2
    <3> QED BY <2>3, <3>1
  <2> QED BY <2>2, <2>4
<1>2. Secret(xi).s1 \in Vector(Ell, -Eta .. Eta) /\ Secret(xi).s2 \in Vector(K, -Eta .. Eta)
  BY ExpandSType DEF Secret
<1>3. ASSUME NEW w, NEW S, w \in [S -> [Coeff -> -Eta .. Eta]] PROVE w \in [S -> Poly]
  <2>1. \A i \in S : w[i] \in Poly
    BY <1>3, Parameters DEF Poly
  <2> QED BY <1>3, <2>1
<1>4. Secret(xi).s1 \in [Col -> Poly] /\ Secret(xi).s2 \in [Row -> Poly]
  BY <1>2, <1>3 DEF Vector, Row, Col
<1>5. ProductRows(xi) \in [Row -> Poly]
  <2>1. NttCols(Secret(xi).s1) \in [Col -> Poly]
    BY <1>4, NttVectors
  <2> QED BY <1>1, <2>1, MatrixType DEF ProductRows
<1> QED BY <1>1, <1>2, <1>4, <1>5

\* t is cut in two (power2round).
Scaled2(a) == [j \in Coeff |-> a[j] * Pow2(D)]

\* t, and the two halves power2round cuts it in.
LEMMA PublicIs ==
  ASSUME NEW xi \in Seeds
  PROVE  /\ Public(xi) \in [Row -> Poly]
         /\ PublicHigh(xi) \in Vector(K, 0 .. T1Bound) /\ PublicLow(xi) \in Vector(K, -T0Low .. T0High)
         /\ \A i \in Row : /\ PublicLow(xi)[i] \in Poly /\ Scaled2(PublicHigh(xi)[i]) \in Poly
                           /\ Sums(Public(xi)[i], NttInverse(ProductRows(xi)[i]), Secret(xi).s2[i])
                           /\ Sums(Public(xi)[i], Scaled2(PublicHigh(xi)[i]), PublicLow(xi)[i])
<1>1. ASSUME NEW i \in Row
      PROVE  /\ Public(xi)[i] \in Poly /\ Public(xi)[i] = Add(NttInverse(ProductRows(xi)[i]), Secret(xi).s2[i])
             /\ Sums(Public(xi)[i], NttInverse(ProductRows(xi)[i]), Secret(xi).s2[i])
  <2> DEFINE a == NttInverse(ProductRows(xi)[i])
             b == Secret(xi).s2[i]
  <2>1. a \in Poly /\ b \in Poly
    BY SecretTypes, NttType
  <2>2. Public(xi)[i] = Add(a, b)
    BY DEF Public, Each
  <2> HIDE DEF a, b
  <2>3. Add(a, b) \in Poly /\ Sums(Add(a, b), a, b)
    BY <2>1, OperationTypes DEF Sums
  <2> QED BY <2>2, <2>3 DEF a, b
<1>2. Public(xi) \in [Row -> Poly]
  <2> DEFINE w == Public(xi)
  <2>1. w = [i \in Row |-> w[i]]
    BY DEF Public, Each
  <2>2. \A i \in Row : w[i] \in Poly
    BY <1>1
  <2> HIDE DEF w
  <2>3. w \in [Row -> Poly]
    BY <2>1, <2>2
  <2> QED BY <2>3 DEF w
<1>3. ASSUME NEW i \in Row, NEW j \in Coeff
      PROVE  /\ PublicHigh(xi)[i][j] = Power2Round1(Public(xi)[i][j])
             /\ PublicLow(xi)[i][j] = Power2Round0(Public(xi)[i][j])
             /\ Halves(Public(xi)[i][j], PublicHigh(xi)[i][j], PublicLow(xi)[i][j])
  <2>1. /\ PublicHigh(xi)[i][j] = Power2Round1(Public(xi)[i][j])
        /\ PublicLow(xi)[i][j] = Power2Round0(Public(xi)[i][j])
    BY DEF PublicHigh, PublicLow, Each
  <2>2. Public(xi)[i][j] \in Int
    BY <1>1 DEF Poly
  <2> QED BY <2>1, <2>2, Power2RoundHalves
<1>4. ASSUME NEW i \in Row
      PROVE  /\ PublicHigh(xi)[i] = [j \in Coeff |-> PublicHigh(xi)[i][j]]
             /\ PublicLow(xi)[i] = [j \in Coeff |-> PublicLow(xi)[i][j]]
  BY DEF PublicHigh, PublicLow, Each
<1>5. /\ PublicHigh(xi) = [i \in Row |-> PublicHigh(xi)[i]]
      /\ PublicLow(xi) = [i \in Row |-> PublicLow(xi)[i]]
  BY DEF PublicHigh, PublicLow, Each
<1>6. ASSUME NEW i \in Row
      PROVE  PublicHigh(xi)[i] \in [Coeff -> 0 .. T1Bound] /\ PublicLow(xi)[i] \in [Coeff -> -T0Low .. T0High]
  <2> DEFINE a == PublicHigh(xi)[i]
             e == PublicLow(xi)[i]
  <2>1. \A j \in Coeff : a[j] \in 0 .. T1Bound /\ e[j] \in -T0Low .. T0High
    BY <1>3 DEF Halves
  <2>2. a = [j \in Coeff |-> a[j]] /\ e = [j \in Coeff |-> e[j]]
    BY <1>4
  <2> HIDE DEF a, e
  <2>3. a \in [Coeff -> 0 .. T1Bound] /\ e \in [Coeff -> -T0Low .. T0High]
    BY <2>1, <2>2
  <2> QED BY <2>3 DEF a, e
<1>7. PublicHigh(xi) \in Vector(K, 0 .. T1Bound) /\ PublicLow(xi) \in Vector(K, -T0Low .. T0High)
  <2> DEFINE a == PublicHigh(xi)
             e == PublicLow(xi)
  <2>1. a = [i \in Row |-> a[i]] /\ e = [i \in Row |-> e[i]]
    BY <1>5
  <2>2. \A i \in Row : a[i] \in [Coeff -> 0 .. T1Bound] /\ e[i] \in [Coeff -> -T0Low .. T0High]
    BY <1>6
  <2> HIDE DEF a, e
  <2>3. a \in [Row -> [Coeff -> 0 .. T1Bound]] /\ e \in [Row -> [Coeff -> -T0Low .. T0High]]
    BY <2>1, <2>2
  <2> QED BY <2>3 DEF a, e, Vector, Row
<1>8. ASSUME NEW i \in Row
      PROVE  /\ PublicLow(xi)[i] \in Poly /\ Scaled2(PublicHigh(xi)[i]) \in Poly
             /\ Sums(Public(xi)[i], Scaled2(PublicHigh(xi)[i]), PublicLow(xi)[i])
  <2> DEFINE a == PublicHigh(xi)[i]
             e == PublicLow(xi)[i]
             r == Public(xi)[i]
             m == Pow2(D)
  <2>1. a \in [Coeff -> 0 .. T1Bound] /\ e \in [Coeff -> -T0Low .. T0High] /\ m \in Int
        /\ \A j \in Coeff : Eq(r[j], a[j] * m + e[j])
    BY <1>3, <1>6, Bounds DEF Halves
  <2> HIDE DEF a, e, r, m
  <2>2. e \in Poly
    BY <2>1, Bounds DEF Poly
  <2>3. \A j \in Coeff : a[j] * m \in Int
    <3> TAKE j \in Coeff
    <3>1. a[j] \in Int
      BY <2>1, Bounds
    <3> QED BY <2>1, <3>1
  <2>4. Scaled2(a) \in Poly /\ \A j \in Coeff : Scaled2(a)[j] = a[j] * m
    BY <2>3 DEF Scaled2, Poly, m
  <2>5. Sums(r, Scaled2(a), e)
    BY <2>1, <2>4 DEF Sums
  <2> QED BY <2>2, <2>4, <2>5 DEF a, e, r
<1> QED BY <1>1, <1>2, <1>7, <1>8

\* What is in the keys of a seed (pk_encode, pk_decode, sk_encode, sk_decode).
LEMMA KeysAre ==
  ASSUME NEW xi \in Seeds
  PROVE  /\ PkOf(xi).rho = Rho(xi) /\ PkOf(xi).t1 \in Bytes(K * PolySize(T1Bound))
         /\ PkDecode(PkOf(xi)) = PublicHigh(xi)
         /\ SkOf(xi).rho = Rho(xi) /\ SkOf(xi).tr = <<"tr", PkOf(xi)>>
         /\ SkOf(xi).polys \in Bytes((Ell + K) * PolySize(2 * Eta) + K * PolySize(Pow2(D) - 1))
         /\ SkDecode(SkOf(xi)) = [s1 |-> Secret(xi).s1, s2 |-> Secret(xi).s2, t0 |-> PublicLow(xi)]
<1>1. PublicHigh(xi) \in Vector(K, 0 .. T1Bound) /\ PublicLow(xi) \in Vector(K, -T0Low .. T0High)
  BY PublicIs
<1>2. Secret(xi).s1 \in Vector(Ell, -Eta .. Eta) /\ Secret(xi).s2 \in Vector(K, -Eta .. Eta)
  BY SecretTypes
<1>3. /\ PkOf(xi).rho = Rho(xi) /\ PkOf(xi).t1 \in Bytes(K * PolySize(T1Bound))
      /\ PkDecode(PkOf(xi)) = PublicHigh(xi)
  BY <1>1, PkEncoding DEF PkOf
<1>4. /\ SkOf(xi).rho = Rho(xi) /\ SkOf(xi).tr = <<"tr", PkOf(xi)>>
      /\ SkOf(xi).polys \in Bytes((Ell + K) * PolySize(2 * Eta) + K * PolySize(Pow2(D) - 1))
      /\ SkDecode(SkOf(xi)) = [s1 |-> Secret(xi).s1, s2 |-> Secret(xi).s2, t0 |-> PublicLow(xi)]
  BY <1>1, <1>2, SkEncoding DEF SkOf
<1> QED BY <1>3, <1>4

-----------------------------------------------------------------------------
(* What a turn of sign_internal computes.                                   *)
Masks == [Col -> MaskStrings]
Mask(masks) == Each(Col, LAMBDA i : BitUnpack(masks[i], Gam1 - 1, Gam1))
MaskRows(xi, masks) == MatrixVectorNtt(Matrix(xi), NttCols(Mask(masks)))
Commitment(xi, masks) == Each(Row, LAMBDA i : NttInverse(MaskRows(xi, masks)[i]))
Challenge(draw) == Ntt(SampleInBall(draw))
Times(draw, v) == NttInverse(MulNtt(Challenge(draw), v))
Response(xi, masks, draw) ==
  Each(Col, LAMBDA i : Add(Mask(masks)[i], Times(draw, NttCols(Secret(xi).s1)[i])))
Lessened(xi, masks, draw) ==
  Each(Row, LAMBDA i : Sub(Commitment(xi, masks)[i], Times(draw, NttRows(Secret(xi).s2)[i])))
Missing(xi, draw) == Each(Row, LAMBDA i : Times(draw, NttRows(PublicLow(xi))[i]))
Hints(xi, masks, draw) ==
  Each(Row, LAMBDA i : MakeHint(Neg(Missing(xi, draw)[i]),
                                Add(Lessened(xi, masks, draw)[i], Missing(xi, draw)[i])))
Done(xi, masks, draw) ==
  /\ InfNorm(Response(xi, masks, draw)) < Gam1 - Beta
  /\ InfNorm(Each(Row, LAMBDA i : LowBits(Lessened(xi, masks, draw)[i]))) < Gam2 - Beta
  /\ InfNorm(Missing(xi, draw)) < Gam2
  /\ Weight(Hints(xi, masks, draw)) <= Omega
Centre(z) == Each(Col, LAMBDA i : [j \in Coeff |-> ModPm(z[i][j], Q)])
Committed(xi, masks, r) ==
  <<Mu(<<"tr", PkOf(xi)>>, r), W1Encode(Each(Row, LAMBDA i : HighBits(Commitment(xi, masks)[i])))>>
Signature(xi, masks, draw, r) ==
  SigEncode(Committed(xi, masks, r), Centre(Response(xi, masks, draw)), Hints(xi, masks, draw))

\* The vectors of a turn.
LEMMA TurnTypes ==
  ASSUME NEW xi \in Seeds, NEW masks \in Masks, NEW draw \in ChallengeCoins
  PROVE  /\ Mask(masks) \in [Col -> Poly] /\ MaskRows(xi, masks) \in [Row -> Poly]
         /\ Commitment(xi, masks) \in [Row -> Poly] /\ Challenge(draw) \in Poly
         /\ Response(xi, masks, draw) \in [Col -> Poly] /\ Lessened(xi, masks, draw) \in [Row -> Poly]
         /\ Missing(xi, draw) \in [Row -> Poly]
<1>1. Mask(masks) \in [Col -> Poly]
  <2>1. Gam1 - 1 \in Nat /\ Gam1 \in Nat
    BY Parameters
  <2>2. (Gam1 - 1) + Gam1 = 2 * Gam1 - 1
    BY Parameters
  <2> DEFINE a == Gam1 - 1
             d == a + Gam1
  <2>3. \A i \in Col : masks[i] \in Bytes(PolySize(d))
    BY <2>2, CoinAssumption DEF Masks
  <2>4. a \in Nat
    BY <2>1
  <2> HIDE DEF a
  <2>5. \A i \in Col : BitUnpack(masks[i], a, Gam1) \in [Coeff -> Int]
    BY <2>1, <2>3, <2>4, UnpackingType
  <2> QED BY <2>5 DEF Mask, Each, Poly, a
<1>2. MaskRows(xi, masks) \in [Row -> Poly]
  BY <1>1, SecretTypes, NttVectors, MatrixType DEF MaskRows
<1>3. Commitment(xi, masks) \in [Row -> Poly]
  <2>1. \A i \in Row : NttInverse(MaskRows(xi, masks)[i]) \in Poly
    BY <1>2, NttType
  <2> QED BY <2>1 DEF Commitment, Each
<1>4. Challenge(draw) \in Poly
  BY SampleInBallIs, NttType DEF Challenge
<1>5. ASSUME NEW v \in Poly PROVE Times(draw, v) \in Poly
  BY <1>4, OperationTypes, NttType DEF Times
<1>6. Response(xi, masks, draw) \in [Col -> Poly]
  <2>1. \A i \in Col : NttCols(Secret(xi).s1)[i] \in Poly
    BY SecretTypes, NttVectors
  <2>2. \A i \in Col : Add(Mask(masks)[i], Times(draw, NttCols(Secret(xi).s1)[i])) \in Poly
    BY <1>1, <1>5, <2>1, OperationTypes
  <2> QED BY <2>2 DEF Response, Each
<1>7. Lessened(xi, masks, draw) \in [Row -> Poly]
  <2>1. \A i \in Row : NttRows(Secret(xi).s2)[i] \in Poly
    BY SecretTypes, NttVectors
  <2>2. \A i \in Row : Sub(Commitment(xi, masks)[i], Times(draw, NttRows(Secret(xi).s2)[i])) \in Poly
    BY <1>3, <1>5, <2>1, OperationTypes
  <2> QED BY <2>2 DEF Lessened, Each
<1>8. Missing(xi, draw) \in [Row -> Poly]
  <2>1. \A i \in Row : NttRows(PublicLow(xi))[i] \in Poly
    <3> TAKE i \in Row
    <3>1. PublicLow(xi)[i] \in Poly
      BY PublicIs
    <3> QED BY <3>1, NttType, NttVectors
  <2>2. \A i \in Row : Times(draw, NttRows(PublicLow(xi))[i]) \in Poly
    BY <1>5, <2>1
  <2> QED BY <2>2 DEF Missing, Each
<1> QED BY <1>1, <1>2, <1>3, <1>4, <1>6, <1>7, <1>8

\* A response that is given is short, and packed and unpacked as it is (sig_encode, sig_decode).
LEMMA ResponseIs ==
  ASSUME NEW xi \in Seeds, NEW masks \in Masks, NEW draw \in ChallengeCoins, NEW r, Done(xi, masks, draw)
  PROVE  LET s == Signature(xi, masks, draw, r)
             z == Centre(Response(xi, masks, draw))
         IN  /\ s.ct = Committed(xi, masks, r) /\ s.h = HintBitPack(Hints(xi, masks, draw))
             /\ s.z \in Bytes(Ell * PolySize(2 * Gam1 - 1)) /\ SigDecodeZ(s) = z
             /\ z \in [Col -> Poly] /\ InfNorm(z) < Gam1 - Beta
             /\ \A i \in Col : Alike(z[i], Response(xi, masks, draw)[i])
<1> DEFINE x == Response(xi, masks, draw)
           z == Centre(x)
           b == Gam1 - Beta
<1>1. x \in Vector(Ell, Int) /\ x \in [Col -> Poly]
  BY TurnTypes DEF Vector, Col, Poly
<1>2. Ell \in Nat /\ Ell > 0 /\ Gam1 \in Nat /\ Gam1 > 0 /\ Beta \in Nat /\ Col = 0 .. Ell - 1
  BY Parameters DEF Col
<1>3. b \in Int /\ b <= Gam1
  BY <1>2
<1>4. InfNorm(x) < b
  BY DEF Done
<1> HIDE DEF x, b
<1>5. \A i \in Col, j \in Coeff : AbsModPm(x[i][j]) < b
  <2>1. Below(x, Ell, b)
    BY <1>1, <1>2, <1>3, <1>4, NormBound
  <2> QED BY <1>2, <2>1 DEF Below
<1>6. ASSUME NEW i \in Col, NEW j \in Coeff
      PROVE  /\ z[i][j] \in -(Gam1 - 1) .. Gam1 /\ z[i][j] \in Int /\ Eq(z[i][j], x[i][j])
             /\ AbsModPm(z[i][j]) < b
  <2> DEFINE y == x[i][j]
             m == ModPm(y, Q)
  <2>1. y \in Int /\ z[i][j] = m /\ AbsModPm(y) < b
    BY <1>1, <1>5 DEF Poly, Centre, Each
  <2> HIDE DEF y
  <2>2. m \in Int /\ Eq(m, y) /\ Small(m, b)
    BY <1>3, <2>1, AbsIs
  <2> HIDE DEF m
  <2>3. AbsModPm(m) = AbsModPm(y)
    BY <2>1, <2>2, ModPmEq
  <2>4. m \in -(Gam1 - 1) .. Gam1
    BY <1>2, <1>3, <2>2 DEF Small
  <2> QED BY <2>1, <2>2, <2>3, <2>4 DEF y
<1>7. z = [i \in Col |-> z[i]] /\ \A i \in Col : z[i] = [j \in Coeff |-> z[i][j]]
  BY DEF Centre, Each
<1> HIDE DEF z
<1>8. z \in Vector(Ell, -(Gam1 - 1) .. Gam1) /\ z \in Vector(Ell, Int) /\ z \in [Col -> Poly]
  <2>1. \A i \in Col : z[i] \in [Coeff -> -(Gam1 - 1) .. Gam1] /\ z[i] \in [Coeff -> Int]
    <3> TAKE i \in Col
    <3> DEFINE y == z[i]
    <3>1. y = [j \in Coeff |-> y[j]] /\ \A j \in Coeff : y[j] \in -(Gam1 - 1) .. Gam1 /\ y[j] \in Int
      BY <1>6, <1>7
    <3> HIDE DEF y
    <3>2. y \in [Coeff -> -(Gam1 - 1) .. Gam1] /\ y \in [Coeff -> Int]
      BY <3>1
    <3> QED BY <3>2 DEF y
  <2>2. z \in [Col -> [Coeff -> -(Gam1 - 1) .. Gam1]] /\ z \in [Col -> [Coeff -> Int]]
    BY <1>7, <2>1
  <2> QED BY <1>2, <2>2 DEF Vector, Poly
<1>9. InfNorm(z) < b
  <2>1. Below(z, Ell, b)
    BY <1>2, <1>6 DEF Below
  <2> QED BY <1>2, <1>3, <1>8, <2>1, NormBound
<1>10. \A i \in Col : Alike(z[i], x[i])
  BY <1>6 DEF Alike
<1>11. LET s == Signature(xi, masks, draw, r)
       IN  /\ s.ct = Committed(xi, masks, r) /\ s.h = HintBitPack(Hints(xi, masks, draw))
           /\ s.z \in Bytes(Ell * PolySize(2 * Gam1 - 1)) /\ SigDecodeZ(s) = z
  BY <1>8, ZEncoding DEF Signature, z, x
<1> QED BY <1>8, <1>9, <1>10, <1>11 DEF z, x, b

\* The hints of a turn are bits.
LEMMA HintsAre ==
  ASSUME NEW xi \in Seeds, NEW masks \in Masks, NEW draw \in ChallengeCoins
  PROVE  /\ Hints(xi, masks, draw) \in [Row -> [Coeff -> {0, 1}]]
         /\ Done(xi, masks, draw) =>
              /\ HintBitPack(Hints(xi, masks, draw)) \in Bytes(Omega + K)
              /\ HintBitUnpack(HintBitPack(Hints(xi, masks, draw))) = Hints(xi, masks, draw)
<1>1. Hints(xi, masks, draw) \in [Row -> [Coeff -> {0, 1}]]
  <2>1. ASSUME NEW z, NEW r PROVE MakeHint(z, r) \in [Coeff -> {0, 1}]
    BY DEF MakeHint
  <2> QED BY <2>1 DEF Hints, Each
<1>2. ASSUME Done(xi, masks, draw)
      PROVE  /\ HintBitPack(Hints(xi, masks, draw)) \in Bytes(Omega + K)
             /\ HintBitUnpack(HintBitPack(Hints(xi, masks, draw))) = Hints(xi, masks, draw)
  <2>1. Weight(Hints(xi, masks, draw)) <= Omega
    BY <1>2 DEF Done
  <2> QED BY <1>1, <2>1, HintBytes, HintPacking
<1> QED BY <1>1, <1>2

-----------------------------------------------------------------------------
(* What verify_internal recomputes.                                         *)
Signed(xi, masks, draw) == Centre(Response(xi, masks, draw))
SignedRows(xi, masks, draw) == MatrixVectorNtt(Matrix(xi), NttCols(Signed(xi, masks, draw)))
Recomputed(xi, masks, draw) ==
  Each(Row, LAMBDA i : NttInverse(Sub(SignedRows(xi, masks, draw)[i],
                                      MulNtt(Challenge(draw), Ntt(Scaled2(PublicHigh(xi)[i]))))))

\* ntt of what a challenge is multiplied into.
LEMMA NttTimes ==
  ASSUME NEW draw \in ChallengeCoins, NEW v \in Poly, NEW y \in Poly, NEW x \in Poly, NEW z \in Poly,
         x = Add(y, Times(draw, Ntt(v))), Alike(z, x), Challenge(draw) \in Poly
  PROVE  Plus(Ntt(z), Ntt(y), Challenge(draw), Ntt(v))
<1> DEFINE c == Challenge(draw)
           vb == Ntt(v)
           m == MulNtt(c, vb)
           t == NttInverse(m)
           tb == Ntt(t)
           zb == Ntt(z)
           yb == Ntt(y)
<1>1. c \in Poly /\ vb \in Poly /\ zb \in Poly /\ yb \in Poly
  BY NttType
<1>2. m \in Poly /\ \A j \in Coeff : Eq(m[j], c[j] * vb[j])
  BY <1>1, OperationTypes
<1>3. x = Add(y, t)
  BY DEF Times
<1> HIDE DEF c, vb, m
<1>4. t \in Poly /\ tb \in Poly /\ Alike(tb, m)
  BY <1>2, NttType, NttOfInverse
<1> HIDE DEF t
<1>5. ASSUME NEW j \in Coeff PROVE Eq(z[j], y[j] + t[j])
  <2> DEFINE x0 == x[j]
             y0 == y[j]
             z0 == z[j]
             t0 == t[j]
  <2>1. /\ x0 \in Int /\ y0 \in Int /\ z0 \in Int /\ t0 \in Int /\ Eq(z0, x0) /\ Eq(x0, y0 + t0)
    BY <1>3, <1>4, OperationTypes DEF Poly, Alike
  <2> HIDE DEF x0, y0, z0, t0
  <2>2. y0 + t0 \in Int
    BY <2>1
  <2>3. Eq(z0, y0 + t0)
    BY <2>1, <2>2, EqThrough
  <2> QED BY <2>3 DEF z0, y0, t0
<1>6. Sums(zb, yb, tb)
  <2>1. Sums(z, y, t)
    BY <1>5 DEF Sums
  <2> QED BY <1>4, <2>1, NttSums
<1> HIDE DEF tb, zb, yb
<1>7. ASSUME NEW j \in Coeff PROVE PlusAt(zb[j], yb[j], c[j], vb[j])
  <2> DEFINE z0 == zb[j]
             y0 == yb[j]
             t0 == tb[j]
             m0 == m[j]
             d == c[j] * vb[j]
  <2>1. /\ z0 \in Int /\ y0 \in Int /\ t0 \in Int /\ m0 \in Int /\ c[j] \in Int /\ vb[j] \in Int
        /\ Eq(z0, y0 + t0) /\ Eq(t0, m0) /\ Eq(m0, d)
    BY <1>1, <1>2, <1>4, <1>6 DEF Poly, Alike, Sums
  <2>2. d \in Int
    <3>1. c[j] \in Int /\ vb[j] \in Int
      BY <2>1
    <3> QED BY <3>1
  <2> HIDE DEF z0, y0, t0, m0, d
  <2>3. Eq(t0, d) /\ Eq(y0, y0)
    BY <2>1, <2>2, EqThrough, EqModulus
  <2>4. Eq(y0 + t0, y0 + d) /\ y0 + t0 \in Int /\ y0 + d \in Int
    <3>1. Eq(y0 + t0, y0 + d)
      BY <2>1, <2>2, <2>3, EqSum
    <3> QED BY <2>1, <2>2, <3>1
  <2>5. Eq(z0, y0 + d)
    BY <2>1, <2>4, EqThrough
  <2> QED BY <2>5 DEF z0, y0, d, PlusAt
<1>8. Plus(zb, yb, c, vb)
  BY <1>7 DEF Plus
<1> QED BY <1>8 DEF zb, yb, c, vb

\* The verifier has what the signer has.
LEMMA RecomputedIs ==
  ASSUME NEW xi \in Seeds, NEW masks \in Masks, NEW draw \in ChallengeCoins, Done(xi, masks, draw), NEW i \in Row
  PROVE  /\ Recomputed(xi, masks, draw)[i] \in Poly
         /\ Sums(Recomputed(xi, masks, draw)[i], Lessened(xi, masks, draw)[i], Missing(xi, draw)[i])
<1> DEFINE z == Signed(xi, masks, draw)
           y == Mask(masks)
           s1 == Secret(xi).s1
           c == Challenge(draw)
           x == Response(xi, masks, draw)
           M == Matrix(xi)
<1>1. /\ z \in [Col -> Poly] /\ \A k \in Col : Alike(z[k], x[k])
  BY ResponseIs DEF Signed
<1>2. y \in [Col -> Poly] /\ c \in Poly /\ x \in [Col -> Poly] /\ s1 \in [Col -> Poly] /\ M \in [Row -> [Col -> Poly]]
  BY TurnTypes, SecretTypes
<1>3. \A k \in Col : x[k] = Add(y[k], Times(draw, Ntt(s1[k])))
  BY NttVectors DEF Response, Each
<1> HIDE DEF z, y, s1, x
<1>4. \A k \in Col : Plus(Ntt(z[k]), Ntt(y[k]), c, Ntt(s1[k]))
  <2> TAKE k \in Col
  <2>1. z[k] \in Poly /\ y[k] \in Poly /\ x[k] \in Poly /\ s1[k] \in Poly /\ Alike(z[k], x[k])
        /\ x[k] = Add(y[k], Times(draw, Ntt(s1[k])))
    BY <1>1, <1>2, <1>3
  <2> QED BY <1>2, <2>1, NttTimes
<1> HIDE DEF c, M
<1>5. Plus(MatrixVectorNtt(M, NttCols(z))[i], MatrixVectorNtt(M, NttCols(y))[i], c, MatrixVectorNtt(M, NttCols(s1))[i])
  <2> DEFINE zb == NttCols(z)
             yb == NttCols(y)
             sb == NttCols(s1)
  <2>1. zb \in [Col -> Poly] /\ yb \in [Col -> Poly] /\ sb \in [Col -> Poly]
    BY <1>1, <1>2, NttVectors
  <2>2. \A k \in Col : Plus(zb[k], yb[k], c, sb[k])
    BY <1>4, NttVectors
  <2> HIDE DEF zb, yb, sb
  <2>3. Plus(MatrixVectorNtt(M, zb)[i], MatrixVectorNtt(M, yb)[i], c, MatrixVectorNtt(M, sb)[i])
    BY <1>2, <2>1, <2>2, MatrixPlus
  <2> QED BY <2>3 DEF zb, yb, sb
<1> DEFINE az == SignedRows(xi, masks, draw)[i]
           an == MaskRows(xi, masks)[i]
           rs == ProductRows(xi)[i]
           s2 == Secret(xi).s2[i]
           t == Public(xi)[i]
           p1 == Scaled2(PublicHigh(xi)[i])
           t0 == PublicLow(xi)[i]
<1>6. Plus(az, an, c, rs)
  BY <1>5 DEF SignedRows, MaskRows, ProductRows, z, y, s1, M
<1>7. az \in Poly
  <2>1. NttCols(z) \in [Col -> Poly]
    BY <1>1, NttVectors
  <2> QED BY <1>2, <2>1, MatrixType DEF SignedRows, z, M
<1>8. /\ c \in Poly /\ an \in Poly /\ rs \in Poly /\ s2 \in Poly /\ t \in Poly /\ p1 \in Poly /\ t0 \in Poly
      /\ Sums(t, NttInverse(rs), s2) /\ Sums(t, p1, t0)
  BY <1>2, TurnTypes, SecretTypes, PublicIs
<1>9. /\ Lessened(xi, masks, draw)[i] = Sub(NttInverse(an), NttInverse(MulNtt(c, Ntt(s2))))
      /\ Missing(xi, draw)[i] = NttInverse(MulNtt(c, Ntt(t0)))
      /\ Recomputed(xi, masks, draw)[i] = NttInverse(Sub(az, MulNtt(c, Ntt(p1))))
  BY NttVectors DEF Lessened, Missing, Recomputed, Commitment, Times, Each, c
<1> HIDE DEF az, an, rs, s2, t, p1, t0
<1>10. RowTerms(c, az, an, rs, s2, t, p1, t0)
  BY <1>6, <1>7, <1>8 DEF RowTerms
<1>11. Sums(Recomputed(xi, masks, draw)[i], Lessened(xi, masks, draw)[i], Missing(xi, draw)[i])
  BY <1>9, <1>10, RowEquation
<1>12. Recomputed(xi, masks, draw)[i] \in Poly
  <2>1. Ntt(p1) \in Poly
    BY <1>8, NttType
  <2>2. MulNtt(c, Ntt(p1)) \in Poly
    BY <1>8, <2>1, OperationTypes
  <2>3. Sub(az, MulNtt(c, Ntt(p1))) \in Poly
    BY <1>7, <2>2, OperationTypes
  <2> QED BY <1>9, <2>3, NttType
<1> QED BY <1>11, <1>12

-----------------------------------------------------------------------------
(* What the hint gives.                                                     *)
\* The high bits of the commitment are those of what is left of it (the second check of the loop).
LEMMA HighLeft ==
  ASSUME NEW xi \in Seeds, NEW masks \in Masks, NEW draw \in ChallengeCoins, Done(xi, masks, draw),
         NEW i \in Row, NEW j \in Coeff
  PROVE  Decompose(Commitment(xi, masks)[i][j]).r1 = Decompose(Lessened(xi, masks, draw)[i][j]).r1
<1> DEFINE w == Commitment(xi, masks)[i]
           v == Lessened(xi, masks, draw)[i]
           p == Times(draw, NttRows(Secret(xi).s2)[i])
           b == Gam2 - Beta
           low == Each(Row, LAMBDA k : LowBits(Lessened(xi, masks, draw)[k]))
<1>1. w \in Poly /\ v \in Poly /\ v = Sub(w, p)
  BY TurnTypes DEF Lessened, Each
<1>2. PICK s \in Poly : Alike(p, s) /\ \A k \in Coeff : Within2(s[k], Beta)
  <2> DEFINE s2 == Secret(xi).s2[i]
  <2>1. s2 \in Poly /\ s2 \in [Coeff -> -Eta .. Eta]
    BY SecretTypes DEF Vector, Row
  <2>2. p = NttInverse(MulNtt(Ntt(SampleInBall(draw)), Ntt(s2)))
    BY NttVectors DEF Times, Challenge
  <2> HIDE DEF s2, p
  <2> QED BY <2>1, <2>2, TimesSmall
<1>3. p \in Poly
  <2>1. NttRows(Secret(xi).s2)[i] \in Poly /\ Challenge(draw) \in Poly
    BY SecretTypes, TurnTypes, NttVectors
  <2> QED BY <2>1, OperationTypes, NttType DEF Times
<1> HIDE DEF p, w
<1>4. Small(Decompose(v[j]).r0, b)
  <2> DEFINE r == Decompose(v[j]).r0
  <2>1. v[j] \in Int
    BY <1>1 DEF Poly
  <2>2. r \in Int /\ r <= Gam2 /\ r >= -Gam2
    BY <2>1, DecomposeType
  <2>3. low \in Vector(K, Int) /\ low[i][j] = r
    <3>1. ASSUME NEW k \in Row, NEW l \in Coeff PROVE Decompose(Lessened(xi, masks, draw)[k][l]).r0 \in Int
      <4>1. Lessened(xi, masks, draw)[k][l] \in Int
        BY TurnTypes DEF Poly
      <4> QED BY <4>1, DecomposeType
    <3>2. low = [k \in Row |-> [l \in Coeff |-> Decompose(Lessened(xi, masks, draw)[k][l]).r0]]
      BY DEF Each, LowBits
    <3> HIDE DEF low
    <3> QED BY <3>1, <3>2 DEF Vector, Row
  <2>4. InfNorm(low) < b
    BY DEF Done
  <2>5. K \in Nat /\ K > 0 /\ b \in Int /\ Gam2 \in Nat /\ Beta \in Nat /\ Row = 0 .. K - 1
    BY Parameters DEF Row
  <2> HIDE DEF low, r, v
  <2>6. AbsModPm(r) < b
    <3>1. Below(low, K, b)
      <4> HIDE DEF b
      <4> QED BY <2>3, <2>4, <2>5, NormBound
    <3>2. AbsModPm(low[i][j]) < b
      BY <2>5, <3>1 DEF Below
    <3> QED BY <2>3, <3>2
  <2>7. Small(ModPm(r, Q), b)
    <3> HIDE DEF b
    <3> QED BY <2>2, <2>5, <2>6, AbsIs
  <2>8. ModPm(r, Q) = r
    <3> DEFINE d == Gam2 + 1
    <3>1. Small(r, d) /\ d \in Nat
      BY <2>2, <2>5 DEF Small
    <3>2. 2 * d <= Q
      <4>1. Parts * Gamma >= 2 * Gamma
        <5>1. 2 * Gamma <= Parts * Gamma
          BY GammaIs, TimesMonotone
        <5>2. 2 * Gamma \in Nat /\ Parts * Gamma \in Nat
          BY GammaIs
        <5> QED BY <5>1, <5>2
      <4>2. Q - 1 >= 2 * (2 * Gam2)
        BY <4>1, GammaIs
      <4> QED BY <4>2, GammaIs
    <3> HIDE DEF d
    <3> QED BY <2>2, <3>1, <3>2, ModPmSelf
  <2> QED BY <2>7, <2>8 DEF r
<1> DEFINE x == w[j]
           y == v[j]
           u == s[j]
<1>5. x \in Int /\ y \in Int /\ u \in Int /\ u <= Beta /\ u >= -Beta /\ Beta \in Nat
  BY <1>1, <1>2, Parameters DEF Poly, Within2
<1>6. Eq(y, x - u)
  <2> DEFINE q == p[j]
  <2>1. q \in Int /\ Eq(y, x - q) /\ Eq(q, u)
    BY <1>1, <1>2, <1>3, OperationTypes DEF Poly, Alike
  <2> HIDE DEF x, y, u, q
  <2>2. Eq(x - q, x - u)
    <3>1. Eq(x, x)
      BY <1>5, EqModulus
    <3> QED BY <1>5, <2>1, <3>1, EqSum
  <2>3. x - q \in Int /\ x - u \in Int
    BY <1>5, <2>1
  <2> QED BY <1>5, <2>1, <2>2, <2>3, EqThrough
<1>7. Small(Decompose(y).r0, Gam2 - Beta)
  BY <1>4
<1> HIDE DEF x, y, u, v
<1>8. Decompose(x).r1 = Decompose(y).r1
  BY <1>5, <1>6, <1>7, HighKept
<1> QED BY <1>8 DEF x, y, w, v

\* What a verifier makes of a hint, row by row.
UsedHint(h, xi, masks, draw) == Each(Row, LAMBDA i : UseHint(h[i], Recomputed(xi, masks, draw)[i]))
HighCommitment(xi, masks) == Each(Row, LAMBDA i : HighBits(Commitment(xi, masks)[i]))

\* use_hint and high_bits place by place.
LEMMA UsedHintIs ==
  ASSUME NEW h, NEW xi, NEW masks, NEW draw
  PROVE  /\ UsedHint(h, xi, masks, draw)
              = [i \in Row |-> [j \in Coeff |-> Hinted(h[i][j], Decompose(Recomputed(xi, masks, draw)[i][j]))]]
         /\ HighCommitment(xi, masks) = [i \in Row |-> [j \in Coeff |-> Decompose(Commitment(xi, masks)[i][j]).r1]]
BY DEF UsedHint, HighCommitment, UseHint, HighBits, Each, Hinted, Parts

\* The hint of the signer gives the high bits the challenge was made from (make_hint, use_hint).
LEMMA HintsGive ==
  ASSUME NEW xi \in Seeds, NEW masks \in Masks, NEW draw \in ChallengeCoins, Done(xi, masks, draw)
  PROVE  UsedHint(Hints(xi, masks, draw), xi, masks, draw) = HighCommitment(xi, masks)
<1>1. ASSUME NEW i \in Row, NEW j \in Coeff
      PROVE  Hinted(Hints(xi, masks, draw)[i][j], Decompose(Recomputed(xi, masks, draw)[i][j]))
               = Decompose(Commitment(xi, masks)[i][j]).r1
  <2> DEFINE P == Recomputed(xi, masks, draw)[i]
             V == Lessened(xi, masks, draw)[i]
             M == Missing(xi, draw)[i]
             h == Hints(xi, masks, draw)[i][j]
             A == Add(V, M)
             F == Add(A, Neg(M))
  <2>1. P \in Poly /\ V \in Poly /\ M \in Poly /\ Sums(P, V, M)
    BY RecomputedIs, TurnTypes
  <2>2. h = IF Decompose(A[j]).r1 = Decompose(F[j]).r1 THEN 0 ELSE 1
    BY DEF Hints, Each, MakeHint, HighBits
  <2>3. AbsModPm(M[j]) < Gam2
    <3>1. Missing(xi, draw) \in Vector(K, Int)
      BY TurnTypes DEF Vector, Row, Poly
    <3>2. InfNorm(Missing(xi, draw)) < Gam2
      BY DEF Done
    <3>3. Below(Missing(xi, draw), K, Gam2)
      BY <3>1, <3>2, Parameters, NormBound
    <3> QED BY <3>3 DEF Below, Row
  <2>4. Decompose(Commitment(xi, masks)[i][j]).r1 = Decompose(V[j]).r1
    BY HighLeft
  <2> HIDE DEF P, V, M, h
  <2>5. A \in Poly /\ Eq(A[j], V[j] + M[j])
    BY <2>1, OperationTypes
  <2>6. Neg(M) \in Poly /\ Eq(Neg(M)[j], -M[j])
    BY <2>1, OperationTypes
  <2> DEFINE G == Neg(M)
  <2> HIDE DEF A, G
  <2>7. Add(A, G) \in Poly /\ Eq(Add(A, G)[j], A[j] + G[j])
    <3>1. G \in Poly
      BY <2>6 DEF G
    <3> QED BY <2>5, <3>1, OperationTypes
  <2>8. F = Add(A, G)
    BY DEF G
  <2> HIDE DEF F
  <2> DEFINE p == P[j]
             v == V[j]
             m == M[j]
             a == A[j]
             g == G[j]
             f == F[j]
             z == ModPm(m, Q)
  <2>9. /\ p \in Int /\ v \in Int /\ m \in Int /\ a \in Int /\ g \in Int /\ f \in Int
        /\ Eq(p, v + m) /\ Eq(a, v + m) /\ Eq(g, -m) /\ Eq(f, a + g) /\ AbsModPm(m) < Gam2
        /\ h = IF Decompose(a).r1 = Decompose(f).r1 THEN 0 ELSE 1
    BY <2>1, <2>2, <2>3, <2>5, <2>6, <2>7, <2>8 DEF Poly, Sums, G
  <2> HIDE DEF p, v, m, a, g, f
  <2>10. z \in Int /\ Eq(z, m) /\ Small(z, Gam2) /\ Gam2 \in Nat
    BY <2>9, AbsIs, Parameters
  <2> HIDE DEF z
  <2>11. v + m \in Int /\ a + g \in Int /\ -m \in Int
    BY <2>9
  <2>12. Decompose(a) = Decompose(p)
    <3>1. Eq(v + m, p)
      BY <2>9, <2>11, EqThrough
    <3>2. Eq(a, p)
      BY <2>9, <2>11, <3>1, EqThrough
    <3> QED BY <2>9, <3>2, DecomposeEq
  <2>13. Eq(f, v) /\ Eq(v, p - z)
    <3>1. PICK k1 \in Int : By(p, v + m, k1)
      BY <2>9, <2>11, EqBy
    <3>2. PICK k2 \in Int : By(a, v + m, k2)
      BY <2>9, <2>11, EqBy
    <3>3. PICK k3 \in Int : By(g, -m, k3)
      BY <2>9, <2>11, EqBy
    <3>4. PICK k4 \in Int : By(f, a + g, k4)
      BY <2>9, <2>11, EqBy
    <3>5. PICK k5 \in Int : By(z, m, k5)
      BY <2>9, <2>10, EqBy
    <3> DEFINE m1 == k1 * Q
               m2 == k2 * Q
               m3 == k3 * Q
               m4 == k4 * Q
               m5 == k5 * Q
               k == k2 + k3 + k4
               l == k5 - k1
               d == p - z
               n == -m
    <3>6. Q \in Int
      BY Parameters
    <3>7. /\ m1 \in Int /\ m2 \in Int /\ m3 \in Int /\ m4 \in Int /\ m5 \in Int /\ k \in Int /\ l \in Int
          /\ k * Q = m2 + m3 + m4 /\ l * Q = m5 - m1 /\ d \in Int /\ n \in Int /\ n + m = 0
      BY <2>9, <2>10, <3>6
    <3>8. /\ p = v + m + m1 /\ a = v + m + m2 /\ g = n + m3 /\ f = a + g + m4 /\ z = m + m5 /\ d = p - z
      BY <3>1, <3>2, <3>3, <3>4, <3>5 DEF By
    <3> HIDE DEF m1, m2, m3, m4, m5, k, l, d, n
    <3>9. f = v + k * Q
      <4>1. f = v + (m2 + m3 + m4)
        BY <2>9, <3>7, <3>8
      <4> QED BY <3>7, <4>1
    <3>10. v = d + l * Q
      <4>1. v = d + (m5 - m1)
        BY <2>9, <2>10, <3>7, <3>8
      <4> QED BY <3>7, <4>1
    <3>11. Eq(f, v)
      BY <2>9, <3>7, <3>9, EqIf
    <3>12. Eq(v, d)
      BY <2>9, <3>7, <3>10, EqIf
    <3> QED BY <3>11, <3>12 DEF d
  <2> DEFINE e == -z
  <2>14. e \in Int /\ e < Gam2 /\ e > -Gam2 /\ p + e = p - z
    BY <2>9, <2>10 DEF Small
  <2>15. Eq(v, p + e)
    BY <2>13, <2>14
  <2> HIDE DEF e
  <2>16. Hinted(IF Decompose(p).r1 = Decompose(v).r1 THEN 0 ELSE 1, Decompose(p)) = Decompose(v).r1
    BY <2>9, <2>14, <2>15, HintedIs
  <2>17. Decompose(f) = Decompose(v)
    BY <2>9, <2>13, DecomposeEq
  <2>18. Hinted(h, Decompose(p)) = Decompose(v).r1
    BY <2>9, <2>12, <2>16, <2>17
  <2> QED BY <2>4, <2>18 DEF h, p, v, P, V
<1> QED BY <1>1, UsedHintIs

\* Another hint gives other bits, and so another challenge (use_hint, w1_encode).
LEMMA HintsOnly ==
  ASSUME NEW xi \in Seeds, NEW masks \in Masks, NEW draw \in ChallengeCoins, Done(xi, masks, draw),
         NEW h \in [Row -> [Coeff -> {0, 1}]],
         W1Encode(UsedHint(h, xi, masks, draw)) = W1Encode(HighCommitment(xi, masks))
  PROVE  h = Hints(xi, masks, draw)
<1> DEFINE g == Hints(xi, masks, draw)
           R(i, j) == Decompose(Recomputed(xi, masks, draw)[i][j])
<1>1. g \in [Row -> [Coeff -> {0, 1}]] /\ UsedHint(g, xi, masks, draw) = HighCommitment(xi, masks)
  BY HintsAre, HintsGive
<1> HIDE DEF g
<1>2. ASSUME NEW i \in Row, NEW j \in Coeff
      PROVE  /\ Hinted(0, R(i, j)) # Hinted(1, R(i, j))
             /\ Hinted(0, R(i, j)) \in 0 .. W1Bound /\ Hinted(1, R(i, j)) \in 0 .. W1Bound
  <2>1. Recomputed(xi, masks, draw)[i][j] \in Int
    BY RecomputedIs DEF Poly
  <2> QED BY <2>1, HintedOther
<1>3. ASSUME NEW f \in [Row -> [Coeff -> {0, 1}]]
      PROVE  /\ UsedHint(f, xi, masks, draw) \in Vector(K, 0 .. W1Bound)
             /\ \A i \in Row, j \in Coeff : UsedHint(f, xi, masks, draw)[i][j] = Hinted(f[i][j], R(i, j))
  <2>1. UsedHint(f, xi, masks, draw) = [i \in Row |-> [j \in Coeff |-> Hinted(f[i][j], R(i, j))]]
    BY UsedHintIs
  <2> HIDE DEF R
  <2>2. \A i \in Row, j \in Coeff : Hinted(f[i][j], R(i, j)) \in 0 .. W1Bound
    <3> TAKE i \in Row, j \in Coeff
    <3>1. f[i][j] = 0 \/ f[i][j] = 1
      OBVIOUS
    <3> QED BY <1>2, <3>1
  <2> QED BY <2>1, <2>2 DEF Vector, Row
<1> HIDE DEF R
<1>4. UsedHint(h, xi, masks, draw) = UsedHint(g, xi, masks, draw)
  <2> DEFINE a == UsedHint(h, xi, masks, draw)
             b == UsedHint(g, xi, masks, draw)
  <2>1. a \in Vector(K, 0 .. W1Bound) /\ b \in Vector(K, 0 .. W1Bound) /\ W1Encode(a) = W1Encode(b)
    BY <1>1, <1>3
  <2> HIDE DEF a, b
  <2>2. W1Decode(W1Encode(a)) = a /\ W1Decode(W1Encode(b)) = b
    BY <2>1, W1Encoding
  <2>3. a = b
    BY <2>1, <2>2
  <2> QED BY <2>3 DEF a, b
<1>5. ASSUME NEW i \in Row, NEW j \in Coeff PROVE h[i][j] = g[i][j]
  <2>a. UsedHint(h, xi, masks, draw)[i][j] = Hinted(h[i][j], R(i, j))
    BY ONLY <1>3, h \in [Row -> [Coeff -> {0, 1}]], i \in Row, j \in Coeff
  <2>b. UsedHint(g, xi, masks, draw)[i][j] = Hinted(g[i][j], R(i, j))
    BY ONLY <1>1, <1>3, i \in Row, j \in Coeff
  <2>1. Hinted(h[i][j], R(i, j)) = Hinted(g[i][j], R(i, j))
    BY ONLY <1>4, <2>a, <2>b
  <2>2. (h[i][j] = 0 \/ h[i][j] = 1) /\ (g[i][j] = 0 \/ g[i][j] = 1)
    BY <1>1
  <2> QED BY <1>2, <2>1, <2>2
<1>6. h = g
  <2>1. h = [i \in Row |-> h[i]] /\ g = [i \in Row |-> g[i]]
    BY <1>1
  <2>2. \A i \in Row : h[i] = g[i]
    <3> TAKE i \in Row
    <3>1. h[i] \in [Coeff -> {0, 1}] /\ g[i] \in [Coeff -> {0, 1}]
      BY <1>1
    <3>2. h[i] = [j \in Coeff |-> h[i][j]] /\ g[i] = [j \in Coeff |-> g[i][j]]
      BY <3>1
    <3> QED BY <1>5, <3>2
  <2> QED BY <2>1, <2>2
<1> QED BY <1>6 DEF g

-----------------------------------------------------------------------------
(* What is asked.                                                           *)
\* Two sequences, one after the other.
Follows(s, a, b) ==
  /\ s \in Seq(Nat) /\ Len(s) = Len(a) + Len(b)
  /\ \A i \in 1 .. Len(a) : s[i] = a[i]
  /\ \A i \in 1 .. Len(b) : s[i + Len(a)] = b[i]

\* Joined sequences follow each other.
LEMMA ConcatFollows ==
  ASSUME NEW a \in Seq(Nat), NEW b \in Seq(Nat)
  PROVE  Follows(a \o b, a, b)
<1>1. a \o b \in Seq(Nat) /\ Len(a \o b) = Len(a) + Len(b) /\ Len(a) \in Nat /\ Len(b) \in Nat
  OBVIOUS
<1>2. \A i \in 1 .. Len(a) : (a \o b)[i] = a[i]
  OBVIOUS
<1>3. \A i \in 1 .. Len(b) : (a \o b)[i + Len(a)] = b[i]
  OBVIOUS
<1> QED BY <1>1, <1>2, <1>3 DEF Follows

\* Two joints.
TwoJoins(a, b, c) == (a \o b) \o c = a \o (b \o c)

\* Which of two joints is made first does not matter.
LEMMA Regrouped ==
  ASSUME NEW a \in Seq(Nat), NEW b \in Seq(Nat), NEW c \in Seq(Nat)
  PROVE  TwoJoins(a, b, c)
<1> DEFINE d == a \o b
           e == b \o c
           s == d \o c
           t == a \o e
<1>1. Follows(d, a, b) /\ Follows(e, b, c)
  BY ConcatFollows
<1> HIDE DEF d, e
<1>2. d \in Seq(Nat) /\ e \in Seq(Nat)
  BY <1>1 DEF Follows
<1>3. Follows(s, d, c) /\ Follows(t, a, e)
  BY <1>2, ConcatFollows
<1> HIDE DEF s, t
<1>4. PICK la \in Nat : la = Len(a)
  OBVIOUS
<1>5. PICK lb \in Nat : lb = Len(b)
  OBVIOUS
<1>6. PICK lc \in Nat : lc = Len(c)
  OBVIOUS
<1>7. Len(d) = la + lb /\ Len(e) = lb + lc
  BY <1>1, <1>4, <1>5, <1>6 DEF Follows
<1>8. Len(s) = la + lb + lc /\ Len(t) = la + (lb + lc) /\ s \in Seq(Nat) /\ t \in Seq(Nat)
  BY <1>3, <1>4, <1>6, <1>7 DEF Follows
<1>9. ASSUME NEW i \in 1 .. la PROVE s[i] = t[i]
  <2>1. i \in 1 .. Len(d) /\ i \in 1 .. Len(a)
    BY <1>4, <1>5, <1>7
  <2>2. s[i] = d[i] /\ d[i] = a[i] /\ t[i] = a[i]
    BY <1>1, <1>3, <2>1 DEF Follows
  <2> QED BY <2>2
<1>10. ASSUME NEW k \in 1 .. lb PROVE s[k + la] = t[k + la]
  <2> DEFINE i == k + la
  <2>1. i \in 1 .. Len(d) /\ k \in 1 .. Len(b) /\ k \in 1 .. Len(e)
    BY <1>4, <1>5, <1>6, <1>7
  <2>2. d[i] = b[k]
    BY <1>1, <1>4, <2>1 DEF Follows
  <2>3. t[i] = e[k]
    BY <1>3, <1>4, <2>1 DEF Follows
  <2> HIDE DEF i
  <2>4. s[i] = d[i] /\ e[k] = b[k]
    BY <1>1, <1>3, <2>1 DEF Follows
  <2>5. s[i] = t[i]
    BY <2>2, <2>3, <2>4
  <2> QED BY <2>5 DEF i
<1>11. ASSUME NEW k \in 1 .. lc PROVE s[k + (la + lb)] = t[k + (la + lb)]
  <2> DEFINE j == k + lb
             i == k + (la + lb)
  <2>1. k \in 1 .. Len(c) /\ j \in 1 .. Len(e) /\ i = j + la
    BY <1>4, <1>5, <1>6, <1>7
  <2>2. e[j] = c[k]
    BY <1>1, <1>5, <2>1 DEF Follows
  <2>3. s[i] = c[k]
    BY <1>3, <1>7, <2>1 DEF Follows
  <2> HIDE DEF i, j
  <2>4. t[j + la] = e[j]
    BY <1>3, <1>4, <2>1 DEF Follows
  <2>5. s[i] = t[i]
    BY <2>1, <2>2, <2>3, <2>4
  <2> QED BY <2>5 DEF i
<1>12. ASSUME NEW i \in 1 .. Len(s) PROVE s[i] = t[i]
  <2>1. i \in Int /\ 1 <= i /\ i <= la + lb + lc
    BY <1>8
  <2>2. CASE i <= la
    BY <1>9, <2>1, <2>2
  <2>3. CASE la < i /\ i <= la + lb
    <3> DEFINE k == i - la
    <3>1. k \in 1 .. lb /\ k + la = i
      BY <2>1, <2>3
    <3> HIDE DEF k
    <3>2. s[k + la] = t[k + la]
      BY <1>10, <3>1
    <3> QED BY <3>1, <3>2
  <2>4. CASE la + lb < i
    <3> DEFINE k == i - (la + lb)
    <3>1. k \in 1 .. lc /\ k + (la + lb) = i
      BY <2>1, <2>4
    <3> HIDE DEF k
    <3>2. s[k + (la + lb)] = t[k + (la + lb)]
      BY <1>11, <3>1
    <3> QED BY <3>1, <3>2
  <2> QED BY <2>1, <2>2, <2>3, <2>4
<1>13. s = t
  BY <1>8, <1>12, SeqEqual
<1> QED BY <1>13 DEF s, t, d, e, TwoJoins

\* Two bytes in front, the second the length of the context, then the context and the rest.
Made(b, c, m) == <<b, Len(c)>> \o c \o m

\* Its parts.
MadeOf(s, b, c, m) ==
  /\ Len(s) = 2 + Len(c) + Len(m) /\ s[1] = b /\ s[2] = Len(c)
  /\ \A i \in 1 .. Len(c) : s[i + 2] = c[i]
  /\ \A i \in 1 .. Len(m) : s[i + (2 + Len(c))] = m[i]

\* What is made of two bytes, a context and a rest has these parts.
LEMMA HasParts ==
  ASSUME NEW b \in Nat, NEW c \in Seq(Nat), NEW m \in Seq(Nat), NEW s, s = <<b, Len(c)>> \o c \o m
  PROVE  MadeOf(s, b, c, m)
<1> DEFINE p == <<b, Len(c)>>
           q == p \o c
           n == Len(c)
           l == Len(m)
<1>1. p \in Seq(Nat) /\ Len(p) = 2 /\ p[1] = b /\ p[2] = n /\ n \in Nat /\ l \in Nat
  OBVIOUS
<1>2. s = q \o m
  OBVIOUS
<1> HIDE DEF p
<1>3. Follows(q, p, c)
  BY <1>1, ConcatFollows
<1> HIDE DEF q
<1>4. q \in Seq(Nat) /\ Len(q) = 2 + n
  BY <1>1, <1>3 DEF Follows
<1>5. Follows(s, q, m)
  BY <1>2, <1>4, ConcatFollows
<1> HIDE DEF n, l
<1>6. Len(c) = n /\ Len(m) = l
  BY DEF n, l
<1>7. 1 \in 1 .. Len(p) /\ 2 \in 1 .. Len(p) /\ 1 \in 1 .. Len(q) /\ 2 \in 1 .. Len(q)
  BY <1>1, <1>4
<1>8. q[1] = b /\ q[2] = n
  BY <1>1, <1>3, <1>7 DEF Follows
<1>9. s[1] = b /\ s[2] = n
  BY <1>5, <1>7, <1>8 DEF Follows
<1>10. ASSUME NEW i \in 1 .. n PROVE s[i + 2] = c[i]
  <2>1. i + 2 \in 1 .. 2 + n
    BY <1>1
  <2> DEFINE k == i + 2
  <2>2. k \in 1 .. Len(q)
    BY <1>4, <2>1
  <2>3. q[k] = c[i]
    BY <1>1, <1>3, <1>6, <1>10 DEF Follows
  <2> HIDE DEF k
  <2>4. s[k] = q[k]
    BY <1>5, <2>2 DEF Follows
  <2>5. s[k] = c[i]
    BY <2>3, <2>4
  <2> QED BY <2>5 DEF k
<1>11. ASSUME NEW i \in 1 .. l PROVE s[i + (2 + n)] = m[i]
  BY <1>4, <1>5, <1>6, <1>11 DEF Follows
<1>12. Len(s) = 2 + n + l
  BY <1>4, <1>5, <1>6 DEF Follows
<1> QED BY <1>6, <1>9, <1>10, <1>11, <1>12 DEF MadeOf

\* These parts can be told apart.
LEMMA PartsTold ==
  ASSUME NEW b1 \in Nat, NEW b2 \in Nat, NEW c1 \in Seq(Nat), NEW c2 \in Seq(Nat), NEW m1 \in Seq(Nat), NEW m2 \in Seq(Nat),
         Made(b1, c1, m1) = Made(b2, c2, m2)
  PROVE  b1 = b2 /\ c1 = c2 /\ m1 = m2
<1> DEFINE s == Made(b1, c1, m1)
<1>1. s = <<b1, Len(c1)>> \o c1 \o m1 /\ s = <<b2, Len(c2)>> \o c2 \o m2
  BY DEF Made
<1> HIDE DEF s
<1>2. MadeOf(s, b1, c1, m1)
  BY <1>1, HasParts
<1>3. MadeOf(s, b2, c2, m2)
  BY <1>1, HasParts
<1>4. Len(c1) \in Nat /\ Len(m1) \in Nat /\ Len(c2) \in Nat /\ Len(m2) \in Nat
  OBVIOUS
<1>5. b1 = b2 /\ Len(c1) = Len(c2) /\ Len(m1) = Len(m2)
  BY <1>2, <1>3, <1>4 DEF MadeOf
<1>6. \A i \in 1 .. Len(c1) : c1[i] = c2[i]
  BY <1>2, <1>3, <1>5 DEF MadeOf
<1>7. \A i \in 1 .. Len(m1) : m1[i] = m2[i]
  BY <1>2, <1>3, <1>5 DEF MadeOf
<1>8. c1 = c2
  BY <1>5, <1>6, SeqEqual
<1>9. m1 = m2
  BY <1>5, <1>7, SeqEqual
<1> QED BY <1>5, <1>8, <1>9

\* A request that is signed or verified at all.
Valid(r) == r \in Request /\ Len(r.ctx) <= ContextLimit /\ r.mode # None

\* What stands for the message of HashML-DSA.
Hashed(mode, m) == Oids[mode] \o DigestOf(mode, m)

\* It tells hash and message.
LEMMA HashedTells ==
  ASSUME NEW h1 \in DOMAIN Oids, NEW h2 \in DOMAIN Oids, NEW m1 \in Messages, NEW m2 \in Messages,
         Hashed(h1, m1) = Hashed(h2, m2)
  PROVE  h1 = h2 /\ m1 = m2
<1>1. \A g1, g2 \in DOMAIN Oids : \A k1, k2 \in Messages : Hashed(g1, k1) = Hashed(g2, k2) => g1 = g2 /\ k1 = k2
  BY RequestAssumption DEF Hashed
<1> QED BY <1>1

\* What is signed tells what was asked (sign, hash_ml_dsa_sign, verify, hash_ml_dsa_verify).
LEMMA PreparedTells ==
  ASSUME NEW r, NEW s, Valid(r), Valid(s), Prepared(r) = Prepared(s)
  PROVE  r = s
<1>1. ASSUME NEW q, Valid(q)
      PROVE  /\ q = [mode |-> q.mode, ctx |-> q.ctx, m |-> q.m]
             /\ q.mode \in Modes /\ q.ctx \in Contexts /\ q.m \in Messages
             /\ q.ctx \in Seq(Nat) /\ q.m \in Seq(Nat)
  BY <1>1, RequestAssumption DEF Valid, Request
<1>2. ASSUME NEW q, Valid(q), q.mode = "pure" PROVE Prepared(q) = Made(0, q.ctx, q.m)
  BY <1>2 DEF Prepared, Made
<1>3. ASSUME NEW q, Valid(q), q.mode # "pure"
      PROVE  /\ q.mode \in DOMAIN Oids /\ Hashed(q.mode, q.m) \in Seq(Nat)
             /\ Prepared(q) = Made(1, q.ctx, Hashed(q.mode, q.m))
  <2>1. q.mode \in DOMAIN Oids
    BY <1>1, <1>3 DEF Modes
  <2> DEFINE a == Oids[q.mode]
             b == DigestOf(q.mode, q.m)
             c == <<1, Len(q.ctx)>>
             x == q.ctx
             y == c \o x
  <2>2. a \in Seq(Nat) /\ b \in Seq(Nat) /\ x \in Seq(Nat) /\ c \in Seq(Nat)
    BY <1>1, <1>3, <2>1, RequestAssumption
  <2>3. Prepared(q) = c \o x \o a \o b
    BY <1>3 DEF Prepared
  <2> HIDE DEF a, b, c, x
  <2>4. y \in Seq(Nat)
    BY <2>2
  <2> HIDE DEF y
  <2>5. TwoJoins(y, a, b)
    BY <2>2, <2>4, Regrouped
  <2>6. (y \o a) \o b = y \o (a \o b)
    BY <2>5 DEF TwoJoins
  <2>7. a \o b \in Seq(Nat)
    BY <2>2
  <2>8. Prepared(q) = y \o (a \o b)
    BY <2>3, <2>6 DEF y
  <2> QED BY <2>1, <2>7, <2>8 DEF a, b, c, x, y, Made, Hashed
<1>4. Made(0, r.ctx, r.m) = Made(0, s.ctx, s.m) /\ r.mode = "pure" /\ s.mode = "pure" => r = s
  <2> SUFFICES ASSUME Made(0, r.ctx, r.m) = Made(0, s.ctx, s.m), r.mode = "pure", s.mode = "pure" PROVE r = s
    OBVIOUS
  <2>1. r.ctx \in Seq(Nat) /\ r.m \in Seq(Nat) /\ s.ctx \in Seq(Nat) /\ s.m \in Seq(Nat) /\ 0 \in Nat
    BY <1>1
  <2>2. r.ctx = s.ctx /\ r.m = s.m
    BY <2>1, PartsTold, SMTT(30)
  <2> QED BY <1>1, <2>2
<1>5. ASSUME r.mode # "pure", s.mode # "pure" PROVE r = s
  <2>1. Made(1, r.ctx, Hashed(r.mode, r.m)) = Made(1, s.ctx, Hashed(s.mode, s.m))
    BY <1>3, <1>5
  <2>2. r.ctx = s.ctx /\ Hashed(r.mode, r.m) = Hashed(s.mode, s.m)
    <3>1. r.ctx \in Seq(Nat) /\ Hashed(r.mode, r.m) \in Seq(Nat) /\ 1 \in Nat
          /\ s.ctx \in Seq(Nat) /\ Hashed(s.mode, s.m) \in Seq(Nat)
      BY <1>1, <1>3, <1>5
    <3> QED BY <2>1, <3>1, PartsTold
  <2>3. r.mode = s.mode /\ r.m = s.m
    BY <1>1, <1>3, <1>5, <2>2, HashedTells
  <2> QED BY <1>1, <2>2, <2>3
<1>6. ASSUME NEW p, NEW q, Valid(p), Valid(q), p.mode = "pure", q.mode # "pure" PROVE Prepared(p) # Prepared(q)
  <2>1. Prepared(p) = Made(0, p.ctx, p.m) /\ Prepared(q) = Made(1, q.ctx, Hashed(q.mode, q.m))
    BY <1>2, <1>3, <1>6
  <2>2. p.ctx \in Seq(Nat) /\ p.m \in Seq(Nat) /\ q.ctx \in Seq(Nat) /\ Hashed(q.mode, q.m) \in Seq(Nat)
    BY <1>1, <1>3, <1>6
  <2>3. Prepared(p) = Prepared(q) => 0 = 1
    BY <2>1, <2>2, PartsTold
  <2> QED BY <2>3
<1> QED BY <1>2, <1>4, <1>5, <1>6

-----------------------------------------------------------------------------
(* A turn of the loop, in these terms.                                      *)
TurnEnd(ct, z, low, ct0, h, draw) ==
  LET done == /\ InfNorm(z) < Gam1 - Beta
              /\ InfNorm(low) < Gam2 - Beta
              /\ InfNorm(ct0) < Gam2
              /\ Weight(h) <= Omega
  IN  /\ kappa' = IF done THEN None ELSE NextKappa
      /\ sig' = IF done THEN SigEncode(ct, Centre(z), h) ELSE None
      /\ coins' = IF done THEN draw ELSE None

TurnFrom(s1h, s2h, t0h, y, w, draw, ch) ==
  LET Product(v, i) == NttInverse(MulNtt(ch, v[i]))
      wcs == Each(Row, LAMBDA i : Sub(w[i], Product(s2h, i)))
      ct0 == Each(Row, LAMBDA i : Product(t0h, i))
  IN  TurnEnd(<<Mu(sk.tr, request), W1Encode(Each(Row, LAMBDA i : HighBits(w[i])))>>,
              Each(Col, LAMBDA i : Add(y[i], Product(s1h, i))),
              Each(Row, LAMBDA i : LowBits(wcs[i])), ct0,
              Each(Row, LAMBDA i : MakeHint(Neg(ct0[i]), Add(wcs[i], ct0[i]))), draw)

\* What a turn leaves behind.
After(xi, masks, draw) ==
  /\ kappa' = IF Done(xi, masks, draw) THEN None ELSE NextKappa
  /\ sig' = IF Done(xi, masks, draw) THEN Signature(xi, masks, draw, request) ELSE None
  /\ coins' = IF Done(xi, masks, draw) THEN draw ELSE None

\* A turn draws masks and coins and ends as they say (sign_internal).
LEMMA TurnIs ==
  ASSUME NEW xi \in Seeds, sk = SkOf(xi), Turn
  PROVE  \E masks \in Masks, draw \in ChallengeCoins : After(xi, masks, draw)
<1>1. \E open \in {SkDecode(sk)} :
      \E ah \in {ExpandA(sk.rho)}, s1h \in {NttCols(open.s1)}, s2h \in {NttRows(open.s2)}, t0h \in {NttRows(open.t0)},
         masks \in Masks :
      \E y \in {Mask(masks)} :
      \E aNtt \in {MatrixVectorNtt(ah, NttCols(y))} :
      \E w \in {Each(Row, LAMBDA i : NttInverse(aNtt[i]))} :
      \E draw \in ChallengeCoins :
      \E ch \in {Challenge(draw)} : TurnFrom(s1h, s2h, t0h, y, w, draw, ch)
  BY DEF Turn, Masks, Mask, NttCols, NttRows, Challenge, TurnFrom, TurnEnd, Centre
<1>2. PICK open \in {SkDecode(sk)} :
      \E ah \in {ExpandA(sk.rho)}, s1h \in {NttCols(open.s1)}, s2h \in {NttRows(open.s2)}, t0h \in {NttRows(open.t0)},
         masks \in Masks :
      \E y \in {Mask(masks)} :
      \E aNtt \in {MatrixVectorNtt(ah, NttCols(y))} :
      \E w \in {Each(Row, LAMBDA i : NttInverse(aNtt[i]))} :
      \E draw \in ChallengeCoins :
      \E ch \in {Challenge(draw)} : TurnFrom(s1h, s2h, t0h, y, w, draw, ch)
  BY <1>1
<1>3. PICK ah \in {ExpandA(sk.rho)}, s1h \in {NttCols(open.s1)}, s2h \in {NttRows(open.s2)}, t0h \in {NttRows(open.t0)},
           masks \in Masks :
      \E y \in {Mask(masks)} :
      \E aNtt \in {MatrixVectorNtt(ah, NttCols(y))} :
      \E w \in {Each(Row, LAMBDA i : NttInverse(aNtt[i]))} :
      \E draw \in ChallengeCoins :
      \E ch \in {Challenge(draw)} : TurnFrom(s1h, s2h, t0h, y, w, draw, ch)
  BY <1>2
<1>4. PICK draw \in ChallengeCoins :
      \E y \in {Mask(masks)} :
      \E aNtt \in {MatrixVectorNtt(ah, NttCols(y))} :
      \E w \in {Each(Row, LAMBDA i : NttInverse(aNtt[i]))} :
      \E ch \in {Challenge(draw)} : TurnFrom(s1h, s2h, t0h, y, w, draw, ch)
  BY <1>3
<1>5. SkDecode(sk) = [s1 |-> Secret(xi).s1, s2 |-> Secret(xi).s2, t0 |-> PublicLow(xi)]
      /\ sk.rho = Rho(xi) /\ sk.tr = <<"tr", PkOf(xi)>>
  BY KeysAre
<1>6. /\ ah = Matrix(xi) /\ s1h = NttCols(Secret(xi).s1) /\ s2h = NttRows(Secret(xi).s2)
      /\ t0h = NttRows(PublicLow(xi))
  BY <1>2, <1>3, <1>5 DEF Matrix
<1>7. TurnFrom(s1h, s2h, t0h, Mask(masks), Commitment(xi, masks), draw, Challenge(draw))
  BY <1>4, <1>6 DEF MaskRows, Commitment
<1>8. TurnEnd(Committed(xi, masks, request), Response(xi, masks, draw),
              Each(Row, LAMBDA i : LowBits(Lessened(xi, masks, draw)[i])), Missing(xi, draw), Hints(xi, masks, draw), draw)
  BY <1>5, <1>6, <1>7 DEF TurnFrom, Committed, Response, Lessened, Missing, Hints, Times
<1>9. After(xi, masks, draw)
  BY <1>8 DEF TurnEnd, After, Done, Signature
<1> QED BY <1>9

-----------------------------------------------------------------------------
(* What verify answers.                                                     *)
\* A request that is signed at all is answered by verify_internal, any other with no TRUE.
LEMMA AnswerIs ==
  ASSUME NEW r \in Request, NEW hint
  PROVE  /\ Valid(r) => Answer(r, hint) = VerifyInternal(r, hint)
         /\ ~Valid(r) => Answer(r, hint) \in {FALSE, None, Raised}
<1>1. Len(r.ctx) \in Nat /\ ContextLimit \in Nat
  BY RequestAssumption, AnswerAssumption DEF Request
<1>2. ASSUME Valid(r) PROVE Answer(r, hint) = VerifyInternal(r, hint)
  <2>1. ~(Len(r.ctx) > ContextLimit) /\ r.mode # None
    BY <1>1, <1>2 DEF Valid
  <2> QED BY <2>1 DEF Answer
<1>3. ASSUME ~Valid(r) PROVE Answer(r, hint) \in {FALSE, None, Raised}
  <2>1. CASE Len(r.ctx) > ContextLimit
    <3>1. ~(Len(r.ctx) <= ContextLimit)
      BY <1>1, <2>1
    <3> QED BY <2>1, <3>1 DEF Answer
  <2>2. CASE ~(Len(r.ctx) > ContextLimit)
    <3>1. Len(r.ctx) <= ContextLimit /\ r.mode = None
      BY <1>1, <1>3, <2>2 DEF Valid
    <3> QED BY <2>2, <3>1 DEF Answer
  <2> QED BY <2>1, <2>2
<1> QED BY <1>2, <1>3

\* verify_internal answers TRUE or FALSE.
LEMMA VerifyAnswers ==
  ASSUME NEW r, NEW hint
  PROVE  VerifyInternal(r, hint) \in BOOLEAN
BY DEF VerifyInternal

\* What a verifier accepts: a hint that can be unpacked and that gives the challenge.
Accepts(r, hint, xi, masks) ==
  /\ HintBitUnpack(hint) # None
  /\ <<Mu(<<"tr", PkOf(xi)>>, request), W1Encode(HighCommitment(xi, masks))>>
       = <<Mu(<<"tr", PkOf(xi)>>, r), W1Encode(UsedHint(HintBitUnpack(hint), xi, masks, coins))>>

\* The signature in hand is what a turn with these masks made of the keys of xi.
SignedBy(xi, masks) ==
  /\ coins \in ChallengeCoins /\ Done(xi, masks, coins)
  /\ sig = Signature(xi, masks, coins, request)

\* verify_internal accepts what gives the same challenge.
LEMMA VerifyIs ==
  ASSUME NEW xi \in Seeds, NEW masks \in Masks, pk = PkOf(xi), SignedBy(xi, masks), NEW r, NEW hint
  PROVE  VerifyInternal(r, hint) <=> Accepts(r, hint, xi, masks)
<1>1. coins \in ChallengeCoins /\ Done(xi, masks, coins) /\ sig = Signature(xi, masks, coins, request)
  BY DEF SignedBy
<1> DEFINE z == SigDecodeZ(sig)
           t1 == PkDecode(pk)
           az == MatrixVectorNtt(ExpandA(pk.rho), NttCols(z))
           Wp == Each(Row, LAMBDA i : NttInverse(Sub(az[i], MulNtt(Challenge(coins), Ntt(Scaled2(t1[i]))))))
           h == HintBitUnpack(hint)
<1>2. /\ sig.ct = Committed(xi, masks, request) /\ z = Signed(xi, masks, coins) /\ InfNorm(z) < Gam1 - Beta
  <2> DEFINE x == Signature(xi, masks, coins, request)
  <2>1. /\ x.ct = Committed(xi, masks, request) /\ SigDecodeZ(x) = Signed(xi, masks, coins)
        /\ InfNorm(Signed(xi, masks, coins)) < Gam1 - Beta
    BY <1>1, ResponseIs DEF Signed
  <2> QED BY <1>1, <2>1
<1>3. t1 = PublicHigh(xi) /\ pk.rho = Rho(xi)
  BY KeysAre
<1>4. az = SignedRows(xi, masks, coins)
  BY <1>2, <1>3 DEF SignedRows, Matrix
<1>5. VerifyInternal(r, hint) <=>
        h # None /\ InfNorm(z) < Gam1 - Beta
        /\ sig.ct = <<Mu(<<"tr", pk>>, r), W1Encode(Each(Row, LAMBDA i : UseHint(h[i], 
             NttInverse(Sub(az[i], MulNtt(Challenge(coins), Ntt(Scaled2(t1[i]))))))))>>
  BY DEF VerifyInternal, NttCols, Challenge, Scaled2
<1> HIDE DEF z, t1, az
<1>6. Each(Row, LAMBDA i : UseHint(h[i], NttInverse(Sub(az[i], MulNtt(Challenge(coins), Ntt(Scaled2(t1[i])))))))
        = UsedHint(h, xi, masks, coins)
  <2>1. \A i \in Row : Recomputed(xi, masks, coins)[i]
          = NttInverse(Sub(az[i], MulNtt(Challenge(coins), Ntt(Scaled2(t1[i])))))
    BY <1>3, <1>4 DEF Recomputed, Each
  <2> HIDE DEF h
  <2> QED BY <2>1 DEF UsedHint, Each
<1>7. sig.ct = <<Mu(<<"tr", PkOf(xi)>>, request), W1Encode(HighCommitment(xi, masks))>>
  BY <1>2 DEF Committed, HighCommitment
<1> QED BY <1>2, <1>5, <1>6, <1>7 DEF Accepts

\* The signer's hint for the signer's request is accepted.
LEMMA OwnAccepted ==
  ASSUME NEW xi \in Seeds, NEW masks \in Masks, SignedBy(xi, masks)
  PROVE  /\ Accepts(request, sig.h, xi, masks)
         /\ sig.z \in Bytes(Ell * PolySize(2 * Gam1 - 1)) /\ sig.h \in Bytes(Omega + K)
<1>1. coins \in ChallengeCoins /\ Done(xi, masks, coins) /\ sig = Signature(xi, masks, coins, request)
  BY DEF SignedBy
<1> DEFINE x == Signature(xi, masks, coins, request)
<1>2. x.h = HintBitPack(Hints(xi, masks, coins)) /\ x.z \in Bytes(Ell * PolySize(2 * Gam1 - 1))
  BY <1>1, ResponseIs
<1>3. /\ HintBitPack(Hints(xi, masks, coins)) \in Bytes(Omega + K)
      /\ HintBitUnpack(HintBitPack(Hints(xi, masks, coins))) = Hints(xi, masks, coins)
      /\ Hints(xi, masks, coins) \in [Row -> [Coeff -> {0, 1}]]
  BY <1>1, HintsAre
<1>4. UsedHint(Hints(xi, masks, coins), xi, masks, coins) = HighCommitment(xi, masks)
  BY <1>1, HintsGive
<1>5. Hints(xi, masks, coins) # None
  BY <1>3, NoneAssumption
<1> QED BY <1>1, <1>2, <1>3, <1>4, <1>5 DEF Accepts

\* Nothing else is.
LEMMA OnlyAccepted ==
  ASSUME NEW xi \in Seeds, NEW masks \in Masks, SignedBy(xi, masks), Valid(request), NEW r, Valid(r),
         NEW hint, hint = sig.h \/ hint \in HintStrings, Accepts(r, hint, xi, masks)
  PROVE  r = request /\ hint = sig.h
<1>1. coins \in ChallengeCoins /\ Done(xi, masks, coins) /\ sig = Signature(xi, masks, coins, request)
  BY DEF SignedBy
<1> DEFINE h == HintBitUnpack(hint)
<1>2. /\ h # None /\ Mu(<<"tr", PkOf(xi)>>, request) = Mu(<<"tr", PkOf(xi)>>, r)
      /\ W1Encode(UsedHint(h, xi, masks, coins)) = W1Encode(HighCommitment(xi, masks))
  BY DEF Accepts
<1>3. r = request
  <2>1. Prepared(request) = Prepared(r)
    BY <1>2 DEF Mu
  <2> QED BY <2>1, PreparedTells
<1>4. h \in [Row -> [Coeff -> {0, 1}]]
  BY <1>2, HintDecoded
<1> HIDE DEF h
<1>5. h = Hints(xi, masks, coins)
  BY <1>1, <1>2, <1>4, HintsOnly
<1>6. HintBitUnpack(sig.h) = Hints(xi, masks, coins) /\ sig.h \in Bytes(Omega + K)
  <2> DEFINE x == Signature(xi, masks, coins, request)
  <2>1. x.h = HintBitPack(Hints(xi, masks, coins))
    BY <1>1, ResponseIs
  <2> QED BY <1>1, <2>1, HintsAre
<1>7. hint \in Bytes(Omega + K)
  BY <1>6 DEF HintStrings
<1>8. hint = sig.h
  BY <1>2, <1>5, <1>6, <1>7, HintUnique DEF h
<1> QED BY <1>3, <1>8

\* What the answer tells of a request and a hint.
Told(r, hint) ==
  /\ Answer(r, hint) \in {TRUE, FALSE, None, Raised}
  /\ r = request /\ hint = sig.h => Answer(r, hint) = TRUE
  /\ Answer(r, hint) = TRUE => r = request /\ hint = sig.h

\* It is TRUE for what was signed and for nothing else.
LEMMA AnswerTells ==
  ASSUME NEW xi \in Seeds, NEW masks \in Masks, pk = PkOf(xi), SignedBy(xi, masks), Valid(request),
         NEW r \in Request, NEW hint, hint = sig.h \/ (r = request /\ hint \in HintStrings)
  PROVE  Told(r, hint)
<1>1. VerifyInternal(r, hint) <=> Accepts(r, hint, xi, masks)
  BY VerifyIs
<1>2. VerifyInternal(r, hint) \in BOOLEAN
  BY VerifyAnswers
<1>3. Accepts(request, sig.h, xi, masks)
  BY OwnAccepted
<1>4. Valid(r) /\ Accepts(r, hint, xi, masks) => r = request /\ hint = sig.h
  BY OnlyAccepted
<1>5. CASE Valid(r)
  <2>1. Answer(r, hint) = VerifyInternal(r, hint)
    BY <1>5, AnswerIs
  <2>2. Answer(r, hint) \in BOOLEAN /\ (Answer(r, hint) = TRUE <=> Accepts(r, hint, xi, masks))
    BY <1>1, <1>2, <2>1
  <2> QED BY <1>3, <1>4, <1>5, <2>2 DEF Told
<1>6. CASE ~Valid(r)
  <2>1. Answer(r, hint) \in {FALSE, None, Raised}
    BY <1>6, AnswerIs
  <2>2. Answer(r, hint) # TRUE
    BY <2>1, AnswerAssumption
  <2>3. r # request
    BY <1>6
  <2> QED BY <2>1, <2>2, <2>3 DEF Told
<1> QED BY <1>5, <1>6

-----------------------------------------------------------------------------
(* What holds after every step.                                             *)
\* The keys are those of a seed, and a signature is what a turn with these keys made.
KeysOf(xi) ==
  /\ pk = PkOf(xi) /\ sk = SkOf(xi)
  /\ sig # None => \E masks \in Masks : SignedBy(xi, masks)

\* Only a request that can be signed is being signed or was.
Requested ==
  /\ request \in Request \cup {None} /\ coins \in ChallengeCoins \cup {None}
  /\ kappa # None => Valid(request)
  /\ sig # None => Valid(request) /\ kappa = None
  /\ request = None => nonces = <<>>

\* The nonces drawn so far are the numbers up to kappa.
Counted ==
  /\ nonces \in Seq(Nat) /\ \A i \in 1 .. Len(nonces) : nonces[i] = i - 1
  /\ \E m \in 0 .. TurnBound : Len(nonces) = m * Ell
  /\ kappa # None => kappa = Len(nonces)

\* An answer was given for the signature in hand: TRUE for its own request and hint only.
Answered ==
  verdict # None =>
    /\ sig # None /\ verdict.answer \in {TRUE, FALSE, None, Raised}
    /\ verdict.request = request /\ verdict.hint = sig.h => verdict.answer = TRUE
    /\ verdict.answer = TRUE => verdict.request = request /\ verdict.hint = sig.h

Inv == (\E xi \in Seeds : KeysOf(xi)) /\ Requested /\ Counted /\ Answered

\* It holds before the first step.
LEMMA InitInv == Init => Inv
<1> SUFFICES ASSUME Init PROVE Inv
  OBVIOUS
<1>1. \E xi \in Seeds : KeysOf(xi)
  <2>1. PICK xi \in Seeds : pk = KeygenInternal(xi).pk /\ sk = KeygenInternal(xi).sk
    BY DEF Init
  <2>2. pk = PkOf(xi) /\ sk = SkOf(xi)
    BY <2>1, KeygenIs
  <2> QED BY <2>2 DEF KeysOf, Init
<1>2. Requested
  BY DEF Init, Requested
<1>3. Counted
  <2>1. TurnBound \in Nat /\ Ell \in Nat
    BY ParamAssumption
  <2>2. 0 \in 0 .. TurnBound /\ 0 = 0 * Ell
    BY <2>1
  <2>3. nonces = <<>> /\ kappa = None /\ Len(nonces) = 0
    BY DEF Init
  <2> QED BY <2>2, <2>3 DEF Counted
<1>4. Answered
  BY DEF Init, Answered
<1> QED BY <1>1, <1>2, <1>3, <1>4 DEF Inv

\* The nonces of one more turn.
LEMMA MoreNonces ==
  ASSUME Counted, kappa # None, kappa < TurnBound * Ell,
         nonces' = nonces \o MaskNonces(kappa), kappa' \in {None, NextKappa}
  PROVE  Counted'
<1>1. /\ TurnBound \in Nat /\ Ell \in Nat /\ NonceRange \in Nat /\ TurnBound > 0 /\ Ell > 0 /\ NonceRange > 0
      /\ TurnBound * Ell <= NonceRange /\ None \notin Int
  <2>1. TurnBound \in Nat \ {0} /\ Ell \in Nat \ {0} /\ NonceRange \in Nat \ {0}
    BY ParamAssumption
  <2> QED BY <2>1, NonceAssumption, NoneAssumption
<1>2. PICK m \in 0 .. TurnBound : Len(nonces) = m * Ell
  BY DEF Counted
<1>3. kappa = Len(nonces) /\ nonces \in Seq(Nat) /\ kappa \in Nat
  BY DEF Counted
<1>4. m \in Nat /\ m * Ell < TurnBound * Ell
  BY <1>1, <1>2, <1>3
<1>5. m + 1 \in 0 .. TurnBound /\ (m + 1) * Ell = m * Ell + Ell /\ (m + 1) * Ell <= TurnBound * Ell
  <2>1. m < TurnBound
    <3>1. ASSUME m >= TurnBound PROVE m * Ell >= TurnBound * Ell
      BY <1>1, <1>4, <3>1
    <3> QED BY <1>1, <1>4, <3>1
  <2>2. m + 1 <= TurnBound /\ (m + 1) * Ell = m * Ell + Ell
    BY <1>1, <1>4, <2>1
  <2>3. (m + 1) * Ell <= TurnBound * Ell
    BY <1>1, <1>4, <2>2
  <2> QED BY <1>1, <1>4, <2>2, <2>3
<1> DEFINE more == MaskNonces(kappa)
           low == m * Ell
           top == TurnBound * Ell
<1>6. low \in Nat /\ top \in Nat /\ low + Ell <= top /\ kappa = low /\ Len(nonces) = low
      /\ (m + 1) * Ell = low + Ell /\ top <= NonceRange
  BY <1>1, <1>2, <1>3, <1>4, <1>5
<1> HIDE DEF low, top
<1>7. ASSUME NEW r \in 1 .. Ell PROVE (kappa + r - 1) % NonceRange = low + r - 1 /\ low + r - 1 \in Nat
  <2> DEFINE x == low + r - 1
  <2>1. x \in Nat /\ x < NonceRange /\ kappa + r - 1 = x
    BY <1>1, <1>6, <1>7
  <2> HIDE DEF x
  <2>2. x % NonceRange = x
    BY <1>1, <2>1
  <2>3. (kappa + r - 1) % NonceRange = x
    BY <2>1, <2>2
  <2> QED BY <2>1, <2>3 DEF x
<1>8. more \in Seq(Nat) /\ Len(more) = Ell /\ \A r \in 1 .. Ell : more[r] = low + r - 1
  <2>1. more = [r \in 1 .. Ell |-> (kappa + r - 1) % NonceRange]
    BY DEF MaskNonces
  <2>2. more \in [1 .. Ell -> Nat]
    BY <1>7, <2>1
  <2> HIDE DEF more
  <2>3. more \in Seq(Nat) /\ Len(more) = Ell
    BY <1>1, <2>2
  <2> QED BY <1>7, <2>1, <2>3
<1> HIDE DEF more
<1>9. Follows(nonces', nonces, more)
  BY <1>3, <1>8, ConcatFollows DEF more
<1>10. nonces' \in Seq(Nat) /\ Len(nonces') = (m + 1) * Ell /\ Len(nonces') = low + Ell
  BY <1>6, <1>8, <1>9 DEF Follows
<1>11. ASSUME NEW i \in 1 .. Len(nonces') PROVE nonces'[i] = i - 1
  <2>1. i \in Int /\ 1 <= i /\ i <= low + Ell
    BY <1>1, <1>6, <1>10
  <2>2. CASE i <= low
    <3>1. i \in 1 .. Len(nonces)
      BY <1>6, <2>1, <2>2
    <3> QED BY <1>9, <3>1 DEF Follows, Counted
  <2>3. CASE low < i
    <3> DEFINE r == i - low
    <3>1. r \in 1 .. Ell /\ r + low = i /\ low + r - 1 = i - 1
      BY <1>1, <1>6, <2>1, <2>3
    <3> HIDE DEF r
    <3>2. nonces'[r + low] = more[r] /\ more[r] = low + r - 1
      BY <1>6, <1>8, <1>9, <3>1 DEF Follows
    <3> QED BY <3>1, <3>2
  <2> QED BY <1>6, <2>1, <2>2, <2>3
<1>12. kappa' # None => kappa' = Len(nonces')
  BY <1>6, <1>10 DEF NextKappa
<1> QED BY <1>5, <1>10, <1>11, <1>12 DEF Counted

\* Every step keeps it.
LEMMA NextInv == Inv /\ [Next]_vars => Inv'
<1> SUFFICES ASSUME Inv, [Next]_vars PROVE Inv'
  OBVIOUS
<1>1. PICK xi \in Seeds : KeysOf(xi)
  BY DEF Inv
<1>2. Requested /\ Counted /\ Answered
  BY DEF Inv
<1>3. ASSUME NEW r \in Request, Sign(r) PROVE Inv'
  <2>1. request = None /\ kappa = None /\ sig = None /\ verdict = None /\ nonces = <<>>
    BY <1>2, <1>3, AnswerAssumption DEF Sign, Requested, Answered, Valid
  <2>2. /\ request' = r /\ kappa' = IF Len(r.ctx) > ContextLimit \/ r.mode = None THEN None ELSE 0
        /\ UNCHANGED <<pk, sk, nonces, sig, coins, verdict>>
    BY <1>3 DEF Sign
  <2>3. KeysOf(xi)'
    BY <1>1, <2>1, <2>2 DEF KeysOf
  <2>4. Requested'
    <3>1. Len(r.ctx) \in Nat /\ ContextLimit \in Nat
      BY RequestAssumption, AnswerAssumption DEF Request
    <3>2. kappa' # None => Valid(r)
      BY <2>2, <3>1 DEF Valid
    <3>3. r # None
      BY AnswerAssumption
    <3> QED BY <1>2, <2>1, <2>2, <3>2, <3>3 DEF Requested, Valid
  <2>5. Counted'
    <3>1. kappa' # None => kappa' = 0
      BY <2>2
    <3> QED BY <1>2, <2>1, <2>2, <3>1 DEF Counted
  <2>6. Answered'
    BY <2>1, <2>2 DEF Answered
  <2> QED BY <2>3, <2>4, <2>5, <2>6 DEF Inv
<1>4. ASSUME Turn PROVE Inv'
  <2>1. /\ kappa # None /\ kappa < TurnBound * Ell /\ nonces' = nonces \o MaskNonces(kappa)
        /\ UNCHANGED <<pk, sk, request, verdict>>
    BY <1>4 DEF Turn
  <2>2. PICK masks \in Masks, draw \in ChallengeCoins : After(xi, masks, draw)
    BY <1>1, <1>4, TurnIs DEF KeysOf
  <2>3. Valid(request) /\ sig = None /\ verdict = None
    BY <1>2, <2>1 DEF Requested, Answered
  <2>4. KeysOf(xi)'
    <3>1. ASSUME sig' # None PROVE SignedBy(xi, masks)'
      <4>1. Done(xi, masks, draw) /\ coins' = draw /\ request' = request
        BY <2>1, <2>2, <3>1 DEF After
      <4>2. sig' = Signature(xi, masks, coins', request')
        BY <2>2, <4>1 DEF After
      <4>3. Done(xi, masks, coins') /\ coins' \in ChallengeCoins
        BY <4>1
      <4> QED BY <4>2, <4>3 DEF SignedBy
    <3> QED BY <1>1, <2>1, <3>1 DEF KeysOf
  <2>5. Requested'
    BY <1>2, <2>1, <2>2, <2>3, AnswerAssumption DEF Requested, After, Valid
  <2>6. kappa' \in {None, NextKappa}
    BY <2>2 DEF After
  <2>7. Counted'
    BY <1>2, <2>1, <2>6, MoreNonces
  <2>8. Answered'
    BY <2>1, <2>3 DEF Answered
  <2> QED BY <2>4, <2>5, <2>7, <2>8 DEF Inv
<1>5. ASSUME NEW r \in Request, NEW hint, Verify(r, hint), sig # None,
             hint = sig.h \/ (r = request /\ hint \in HintStrings)
      PROVE  Inv'
  <2>1. /\ verdict' = [request |-> r, hint |-> hint, answer |-> Answer(r, hint)]
        /\ UNCHANGED <<pk, sk, request, kappa, nonces, sig, coins>>
    BY <1>5 DEF Verify
  <2>2. KeysOf(xi)'
    BY <1>1, <2>1 DEF KeysOf, SignedBy
  <2>3. Requested' /\ Counted'
    BY <1>2, <2>1 DEF Requested, Counted, Valid
  <2>4. PICK masks \in Masks : SignedBy(xi, masks)
    BY <1>1, <1>5 DEF KeysOf
  <2>5. Told(r, hint)
    BY <1>1, <1>2, <1>5, <2>4, AnswerTells DEF KeysOf, Requested
  <2>6. Answered'
    BY <1>5, <2>1, <2>5 DEF Answered, Told
  <2> QED BY <2>2, <2>3, <2>6 DEF Inv
<1>6. CASE UNCHANGED vars
  <2>1. UNCHANGED <<pk, sk, request, kappa, nonces, sig, coins, verdict>>
    BY <1>6 DEF vars
  <2>2. KeysOf(xi)'
    BY <1>1, <2>1 DEF KeysOf, SignedBy
  <2>3. Requested' /\ Counted'
    BY <1>2, <2>1 DEF Requested, Counted, Valid
  <2>5. Answered'
    BY <1>2, <2>1 DEF Answered
  <2> QED BY <2>2, <2>3, <2>5 DEF Inv
<1>7. CASE sig # None /\ \E hint \in HintStrings : Verify(request, hint)
  <2>1. request \in Request
    BY <1>2, <1>7 DEF Requested, Valid
  <2> QED BY <1>5, <1>7, <2>1
<1>8. CASE sig # None /\ \E r \in Request : Verify(r, sig.h)
  BY <1>5, <1>8
<1> QED BY <1>3, <1>4, <1>6, <1>7, <1>8 DEF Next

\* The invariant holds in every state.
LEMMA InvHolds == Spec => []Inv
BY InitInv, NextInv, PTL DEF Spec

-----------------------------------------------------------------------------
(* The theorems.                                                            *)
\* Keys, signature and nonces keep their lengths and ranges (pk_encode, sk_encode,
\* sig_encode, kappa in sign_internal).
THEOREM MlDsaTypes == Spec => []TypeOK
<1>1. ASSUME Inv PROVE TypeOK
  <2>1. PICK xi \in Seeds : KeysOf(xi)
    BY <1>1 DEF Inv
  <2>2. Requested /\ Counted /\ Answered
    BY <1>1 DEF Inv
  <2>3. pk.t1 \in Bytes(K * PolySize(T1Bound))
        /\ sk.polys \in Bytes((Ell + K) * PolySize(2 * Eta) + K * PolySize(Pow2(D) - 1))
    BY <2>1, KeysAre DEF KeysOf
  <2>4. PICK m \in 0 .. TurnBound : Len(nonces) = m * Ell
    BY <2>2 DEF Counted
  <2>5. TurnBound \in Nat /\ Ell \in Nat /\ m \in Nat /\ m <= TurnBound /\ NonceRange \in Nat /\ Ell > 0
    BY Parameters
  <2>6. m * Ell \in 0 .. TurnBound * Ell /\ TurnBound * Ell <= NonceRange
    <3>1. m * Ell \in Nat /\ TurnBound * Ell \in Nat /\ m * Ell <= TurnBound * Ell
      BY <2>5
    <3> QED BY <3>1, NonceAssumption
  <2>7. kappa = None \/ kappa \in 0 .. TurnBound * Ell
    BY <2>2, <2>4, <2>6 DEF Counted
  <2>8. ASSUME NEW i \in 1 .. Len(nonces) PROVE nonces[i] \in 0 .. NonceRange - 1
    <3> DEFINE low == m * Ell
               top == TurnBound * Ell
    <3>1. low \in Nat /\ low <= top /\ top <= NonceRange /\ top \in Nat
      BY <2>5, <2>6
    <3>2. i \in 1 .. low /\ nonces[i] = i - 1
      BY <2>2, <2>4 DEF Counted
    <3> HIDE DEF low, top
    <3>3. i - 1 \in 0 .. NonceRange - 1
      BY <2>5, <3>1, <3>2
    <3> QED BY <3>2, <3>3
  <2>9. sig # None => sig.z \in Bytes(Ell * PolySize(2 * Gam1 - 1)) /\ sig.h \in Bytes(Omega + K)
    BY <2>1, OwnAccepted DEF KeysOf
  <2> QED BY <2>2, <2>3, <2>7, <2>8, <2>9 DEF TypeOK, Requested, Answered
<1> QED BY <1>1, InvHolds, PTL

\* Whichever masks and coins are drawn, a finished signature is accepted for its request: the hint
\* gives back the high bits behind the challenge (sign_internal, verify_internal).
THEOREM MlDsaSignedVerifies == Spec => []SignedVerifies
<1>1. ASSUME Inv PROVE SignedVerifies
  BY <1>1 DEF Inv, Answered, SignedVerifies
<1> QED BY <1>1, InvHolds, PTL

\* It is accepted for no other message, context, mode or hash and with no other bytes in its hint
\* part (sign, hash_ml_dsa_sign, hint_bit_unpack).
THEOREM MlDsaAcceptedAsSigned == Spec => []AcceptedAsSigned
<1>1. ASSUME Inv PROVE AcceptedAsSigned
  BY <1>1 DEF Inv, Answered, AcceptedAsSigned
<1> QED BY <1>1, InvHolds, PTL

\* No mask is drawn from a nonce twice (kappa in sign_internal, expand_mask).
THEOREM MlDsaMasksFresh == Spec => []MasksFresh
<1>1. ASSUME Inv PROVE MasksFresh
  <2>1. Counted
    BY <1>1 DEF Inv
  <2>2. ASSUME NEW i \in 1 .. Len(nonces), NEW j \in 1 .. Len(nonces), nonces[i] = nonces[j] PROVE i = j
    <3>1. nonces[i] = i - 1 /\ nonces[j] = j - 1
      BY <2>1 DEF Counted
    <3>2. i \in Int /\ j \in Int
      BY <2>1 DEF Counted
    <3>3. i - 1 = j - 1
      BY <2>2, <3>1
    <3> QED BY <3>2, <3>3
  <2> QED BY <2>2 DEF MasksFresh
<1> QED BY <1>1, InvHolds, PTL

\* What is multiplied by way of ntt and ntt_inverse is the product in the ring (ntt, mul_ntt, ntt_inverse).
THEOREM MlDsaNttMultiplies == Spec => []NttMultiplies
<1>1. ASSUME Inv PROVE NttMultiplies
  <2> SUFFICES ASSUME sig # None, NEW i \in Col
               PROVE  LET c == SampleInBall(coins)
                          z == SigDecodeZ(sig)
                      IN  NttInverse(MulNtt(Ntt(c), Ntt(z[i]))) = RingProduct(c, z[i])
    BY DEF NttMultiplies
  <2>1. PICK xi \in Seeds, masks \in Masks : SignedBy(xi, masks)
    BY <1>1 DEF Inv, KeysOf
  <2>2. coins \in ChallengeCoins /\ Done(xi, masks, coins) /\ sig = Signature(xi, masks, coins, request)
    BY <2>1 DEF SignedBy
  <2>3. SampleInBall(coins) \in Poly
    BY <2>2, SampleInBallIs
  <2>4. SigDecodeZ(sig) \in [Col -> Poly]
    <3> DEFINE x == Signature(xi, masks, coins, request)
    <3>1. SigDecodeZ(x) \in [Col -> Poly]
      BY <2>2, ResponseIs
    <3> QED BY <2>2, <3>1
  <2>5. SigDecodeZ(sig)[i] \in Poly
    BY <2>4
  <2> QED BY <2>3, <2>5, ProductIs
<1> QED BY <1>1, InvHolds, PTL
=============================================================================
