--------------------------- MODULE SlhDsa_proofs ---------------------------
(***************************************************************************)
(* Theorems about SlhDsa for every parameter set: a signature verifies, for  *)
(* its message only, no WOTS key signs twice, no WOTS signature can be      *)
(* carried on to another string, no address is hashed with two inputs.      *)
(* From the arithmetic of shifts and digits up to the chains of WOTS+, the  *)
(* Merkle trees of XMSS and FORS, and the layers of the hypertree: each part *)
(* of a signature leads back to the root it was made under, from its own    *)
(* leaf and value only, and the layers hand their roots on.                 *)
(***************************************************************************)
EXTENDS SlhDsa, SequenceTheorems, FiniteSetTheorems, FunctionTheorems, WellFoundedInduction, TLAPS

\* Induction.  What is to be shown of every number is that it lies in a set.
LEMMA SetInduction ==
  ASSUME NEW S, 0 \in S, \A n \in Nat : n \in S => n + 1 \in S
  PROVE  Nat \subseteq S
<1> SUFFICES ASSUME Nat \ S # {} PROVE FALSE
  OBVIOUS
<1> DEFINE R == OpToRel(<, Nat)
<1>1. \A m, n \in Nat : m < n => <<m, n>> \in R
  BY DEF OpToRel
<1>2. IsWellFoundedOn(R, Nat)
  BY NatLessThanWellFounded
<1> HIDE DEF R
<1>3. PICK n \in Nat \ S : \A m \in Nat \ S : <<m, n>> \notin R
  BY <1>2, WFMin
<1>4. n # 0 /\ n - 1 \in Nat /\ n - 1 < n
  BY <1>3
<1>5. <<n - 1, n>> \in R
  BY <1>1, <1>4
<1>6. n - 1 \in S
  BY <1>3, <1>4, <1>5
<1>7. n - 1 + 1 = n
  BY <1>3
<1> QED BY <1>3, <1>4, <1>6, <1>7

-----------------------------------------------------------------------------
(* Products and quotients, which the solver does not find by itself.        *)
LEMMA TimesMonotone ==
  ASSUME NEW x \in Int, NEW y \in Int, NEW m \in Nat, x <= y
  PROVE  x * m <= y * m
<1>1. (y - x) * m >= 0
  OBVIOUS
<1>2. (y - x) * m = y * m - x * m
  OBVIOUS
<1>3. x * m \in Int /\ y * m \in Int
  OBVIOUS
<1> QED BY <1>1, <1>2, <1>3

\* Quotient and remainder are determined by what they are.
LEMMA DivisionUnique ==
  ASSUME NEW d \in Nat, d > 0, NEW q \in Int, NEW r \in Nat, r < d
  PROVE  (q * d + r) \div d = q /\ (q * d + r) % d = r
<1> DEFINE x == q * d + r
           a == x \div d
           b == x % d
<1>1. x \in Int /\ q * d \in Int /\ a \in Int /\ b \in 0 .. d - 1 /\ x = d * a + b
  OBVIOUS
<1>2. a * d \in Int /\ d * a = a * d
  BY <1>1
<1> HIDE DEF a, b
<1>3. ~(a < q)
  <2> SUFFICES ASSUME a + 1 <= q PROVE FALSE
    BY <1>1
  <2>1. (a + 1) * d <= q * d
    BY <1>1, TimesMonotone
  <2>2. (a + 1) * d = a * d + d
    BY <1>1
  <2> QED BY <1>1, <1>2, <2>1, <2>2
<1>4. ~(a > q)
  <2> SUFFICES ASSUME q + 1 <= a PROVE FALSE
    BY <1>1
  <2>1. (q + 1) * d <= a * d
    BY <1>1, TimesMonotone
  <2>2. (q + 1) * d = q * d + d
    BY <1>1
  <2> QED BY <1>1, <1>2, <2>1, <2>2
<1>5. a = q
  BY <1>1, <1>3, <1>4
<1>6. b = r
  BY <1>1, <1>2, <1>5
<1> QED BY <1>5, <1>6 DEF a, b

\* Quotient and remainder of a natural number.
LEMMA Division ==
  ASSUME NEW x \in Nat, NEW d \in Nat, d > 0
  PROVE  /\ x \div d \in Nat /\ x % d \in 0 .. d - 1
         /\ x = (x \div d) * d + (x % d)
<1>1. x \div d \in Int /\ x % d \in 0 .. d - 1 /\ x = d * (x \div d) + (x % d)
  OBVIOUS
<1>2. x \div d >= 0
  <2> SUFFICES ASSUME x \div d <= -1 PROVE FALSE
    BY <1>1
  <2>1. (x \div d) * d <= (-1) * d
    BY <1>1, TimesMonotone
  <2>2. (-1) * d = -d /\ (x \div d) * d = d * (x \div d) /\ (x \div d) * d \in Int
    BY <1>1
  <2> QED BY <1>1, <2>1, <2>2
<1>3. d * (x \div d) = (x \div d) * d
  BY <1>1
<1> QED BY <1>1, <1>2, <1>3

\* Dividing twice is dividing by the product.
LEMMA DivisionTwice ==
  ASSUME NEW x \in Nat, NEW d \in Nat, NEW e \in Nat, d > 0, e > 0
  PROVE  (x \div d) \div e = x \div (d * e)
<1> DEFINE q == x \div d
           r == x % d
           a == q \div e
           b == q % e
<1>1. q \in Nat /\ r \in 0 .. d - 1 /\ x = q * d + r
  BY Division
<1> HIDE DEF q, r
<1>2. a \in Nat /\ b \in 0 .. e - 1 /\ q = a * e + b
  BY <1>1, Division
<1> HIDE DEF a, b
<1>3. d * e \in Nat /\ d * e > 0
  OBVIOUS
<1>4. x = a * (d * e) + (b * d + r)
  <2>1. (a * e + b) * d = a * (d * e) + b * d
    BY <1>2
  <2>2. a * (d * e) \in Int /\ b * d \in Int
    BY <1>2
  <2> QED BY <1>1, <1>2, <2>1, <2>2
<1>5. b * d + r \in Nat /\ b * d + r < d * e
  <2>1. (b + 1) * d <= e * d
    BY <1>2, TimesMonotone
  <2>2. (b + 1) * d = b * d + d /\ e * d = d * e /\ b * d \in Nat
    BY <1>2
  <2> QED BY <1>1, <1>3, <2>1, <2>2
<1>6. (a * (d * e) + (b * d + r)) \div (d * e) = a
  <2> DEFINE de == d * e
             rest == b * d + r
  <2>1. de \in Nat /\ de > 0 /\ rest \in Nat /\ rest < de /\ a \in Int
    BY <1>2, <1>3, <1>5
  <2> HIDE DEF de, rest
  <2>2. (a * de + rest) \div de = a
    BY <2>1, DivisionUnique
  <2> QED BY <2>2 DEF de, rest
<1> QED BY <1>4, <1>6 DEF q, a

-----------------------------------------------------------------------------
(* Powers of two.                                                          *)
PowerLoop(n, f) == f = [k \in 0 .. n |-> IF k = 0 THEN 1 ELSE 2 * f[k - 1]]

\* The loop that doubles has a result.
LEMMA PowerLoopExists ==
  ASSUME NEW n \in Nat
  PROVE  \E f : PowerLoop(n, f)
<1> DEFINE S == {m \in Nat : \E f : PowerLoop(m, f)}
<1>1. 0 \in S
  <2>1. PowerLoop(0, [k \in 0 .. 0 |-> 1])
    BY DEF PowerLoop
  <2> QED BY <2>1
<1>2. ASSUME NEW m \in Nat, m \in S PROVE m + 1 \in S
  <2>1. PICK f : PowerLoop(m, f)
    BY <1>2
  <2> DEFINE g == [k \in 0 .. m + 1 |-> IF k = m + 1 THEN 2 * f[m] ELSE f[k]]
  <2>2. \A k \in 0 .. m + 1 : g[k] = IF k = 0 THEN 1 ELSE 2 * g[k - 1]
    BY <2>1 DEF PowerLoop
  <2>3. PowerLoop(m + 1, g)
    BY <2>2 DEF PowerLoop
  <2> QED BY <2>3
<1> HIDE DEF S
<1>3. n \in S
  BY <1>1, <1>2, SetInduction
<1> QED BY <1>3 DEF S

\* A power of two is the last value of the loop.
LEMMA PowerLoopValue ==
  ASSUME NEW n \in Nat
  PROVE  \E f : PowerLoop(n, f) /\ Pow2(n) = f[n]
<1> DEFINE f == CHOOSE f : PowerLoop(n, f)
<1>1. PowerLoop(n, f)
  BY PowerLoopExists
<1>2. Pow2(n) = f[n]
  BY DEF Pow2, PowerLoop
<1> QED BY <1>1, <1>2

\* Two runs of the loop agree as far as both go.
LEMMA PowerLoopAgrees ==
  ASSUME NEW m \in Nat, NEW n \in Nat, NEW f, NEW g, PowerLoop(m, f), PowerLoop(n, g),
         NEW k \in Nat, k <= m, k <= n
  PROVE  f[k] = g[k]
<1> DEFINE S == {i \in Nat : i <= m /\ i <= n => f[i] = g[i]}
<1>1. /\ \A i \in 0 .. m : f[i] = IF i = 0 THEN 1 ELSE 2 * f[i - 1]
      /\ \A i \in 0 .. n : g[i] = IF i = 0 THEN 1 ELSE 2 * g[i - 1]
  BY DEF PowerLoop
<1>2. 0 \in S
  BY <1>1
<1>3. ASSUME NEW i \in Nat, i \in S PROVE i + 1 \in S
  <2> SUFFICES ASSUME i + 1 <= m, i + 1 <= n PROVE f[i + 1] = g[i + 1]
    OBVIOUS
  <2>1. i + 1 \in 0 .. m /\ i + 1 \in 0 .. n /\ i + 1 # 0 /\ i + 1 - 1 = i /\ f[i] = g[i]
    BY <1>3
  <2> QED BY <1>1, <2>1
<1> HIDE DEF S
<1>4. k \in S
  BY <1>2, <1>3, SetInduction
<1> QED BY <1>4 DEF S

\* One bit further is twice as much.
LEMMA PowerOfTwo ==
  ASSUME NEW e \in Nat
  PROVE  Pow2(0) = 1 /\ Pow2(e + 1) = 2 * Pow2(e)
<1>1. PICK f : PowerLoop(e, f) /\ Pow2(e) = f[e]
  BY PowerLoopValue
<1>2. PICK g : PowerLoop(e + 1, g) /\ Pow2(e + 1) = g[e + 1]
  BY PowerLoopValue
<1>3. PICK h : PowerLoop(0, h) /\ Pow2(0) = h[0]
  BY PowerLoopValue
<1>4. f[e] = g[e]
  BY <1>1, <1>2, PowerLoopAgrees
<1>5. \A i \in 0 .. e + 1 : g[i] = IF i = 0 THEN 1 ELSE 2 * g[i - 1]
  BY <1>2 DEF PowerLoop
<1>6. e + 1 \in 0 .. e + 1 /\ e + 1 # 0 /\ e + 1 - 1 = e
  OBVIOUS
<1>7. g[e + 1] = 2 * g[e]
  BY <1>5, <1>6
<1>8. h[0] = 1
  BY <1>3 DEF PowerLoop
<1> QED BY <1>1, <1>2, <1>3, <1>4, <1>7, <1>8

\* A power of two is a positive number above its exponent.
LEMMA PowerType ==
  ASSUME NEW e \in Nat
  PROVE  Pow2(e) \in Nat /\ Pow2(e) > 0 /\ e < Pow2(e)
<1> DEFINE S == {k \in Nat : Pow2(k) \in Nat /\ Pow2(k) > k}
<1>1. 0 \in S
  BY PowerOfTwo
<1>2. ASSUME NEW k \in Nat, k \in S PROVE k + 1 \in S
  BY <1>2, PowerOfTwo
<1> HIDE DEF S
<1>3. e \in S
  BY <1>1, <1>2, SetInduction
<1> QED BY <1>3 DEF S

\* Shifting twice is shifting by the sum.
LEMMA PowerSum ==
  ASSUME NEW a \in Nat, NEW b \in Nat
  PROVE  Pow2(a + b) = Pow2(a) * Pow2(b)
<1> DEFINE S == {k \in Nat : Pow2(a + k) = Pow2(a) * Pow2(k)}
<1>1. 0 \in S
  BY PowerOfTwo, PowerType
<1>2. ASSUME NEW k \in Nat, k \in S PROVE k + 1 \in S
  <2>1. Pow2(a + k + 1) = 2 * Pow2(a + k) /\ Pow2(k + 1) = 2 * Pow2(k)
    BY PowerOfTwo
  <2>2. Pow2(a) \in Nat /\ Pow2(k) \in Nat
    BY PowerType
  <2>3. Pow2(a) * (2 * Pow2(k)) = 2 * (Pow2(a) * Pow2(k))
    BY <2>2
  <2>4. a + (k + 1) = a + k + 1
    OBVIOUS
  <2> QED BY <1>2, <2>1, <2>3, <2>4
<1> HIDE DEF S
<1>3. b \in S
  BY <1>1, <1>2, SetInduction
<1> QED BY <1>3 DEF S

\* More bits, a larger power.
LEMMA PowerMonotone ==
  ASSUME NEW a \in Nat, NEW b \in Nat, a <= b
  PROVE  Pow2(a) <= Pow2(b)
<1> DEFINE p == Pow2(a)
           q == Pow2(b - a)
<1>1. p \in Nat /\ q \in Nat /\ q > 0 /\ a + (b - a) = b
  BY PowerType
<1>2. Pow2(b) = p * q
  BY <1>1, PowerSum
<1> HIDE DEF p, q
<1>3. 1 * p <= q * p
  BY <1>1, TimesMonotone
<1>4. q * p = p * q /\ 1 * p = p
  BY <1>1
<1> QED BY <1>2, <1>3, <1>4 DEF p

\* A byte has eight bits.
LEMMA ByteIsEightBits == Pow2(8) = 256
<1>1. /\ Pow2(0) = 1 /\ Pow2(0 + 1) = 2 * Pow2(0) /\ Pow2(1 + 1) = 2 * Pow2(1)
      /\ Pow2(2 + 1) = 2 * Pow2(2) /\ Pow2(3 + 1) = 2 * Pow2(3) /\ Pow2(4 + 1) = 2 * Pow2(4)
      /\ Pow2(5 + 1) = 2 * Pow2(5) /\ Pow2(6 + 1) = 2 * Pow2(6) /\ Pow2(7 + 1) = 2 * Pow2(7)
  BY PowerOfTwo
<1>2. /\ 0 + 1 = 1 /\ 1 + 1 = 2 /\ 2 + 1 = 3 /\ 3 + 1 = 4 /\ 4 + 1 = 5 /\ 5 + 1 = 6 /\ 6 + 1 = 7
      /\ 7 + 1 = 8
  OBVIOUS
<1> QED BY <1>1, <1>2

\* The high bits of an (a + b)-bit number, after its a low bits are shifted out.
LEMMA ShiftRange ==
  ASSUME NEW a \in Nat, NEW b \in Nat, NEW x \in 0 .. Pow2(a + b) - 1
  PROVE  x \div Pow2(a) \in 0 .. Pow2(b) - 1
<1>1. Pow2(a) \in Nat /\ Pow2(a) > 0 /\ Pow2(b) \in Nat /\ Pow2(a + b) \in Nat
  BY PowerType
<1> DEFINE d == Pow2(a)
           m == Pow2(b)
           q == x \div d
<1>2. x \in Nat /\ x < m * d /\ d \in Nat /\ d > 0 /\ m \in Nat
  <2>1. Pow2(a + b) = m * d
    BY <1>1, PowerSum
  <2> QED BY <1>1, <2>1
<1> HIDE DEF d, m
<1>3. q \in Nat /\ x % d \in 0 .. d - 1 /\ x = q * d + (x % d)
  BY <1>2, Division
<1> HIDE DEF q
<1>4. ~(m <= q)
  <2> SUFFICES ASSUME m <= q PROVE FALSE
    OBVIOUS
  <2>1. m * d <= q * d
    BY <1>2, <1>3, TimesMonotone
  <2>2. m * d \in Nat /\ q * d \in Nat
    BY <1>2, <1>3
  <2> QED BY <1>2, <1>3, <2>1, <2>2
<1> QED BY <1>2, <1>3, <1>4 DEF q, d, m

\* Shifting one step further.
LEMMA ShiftStep ==
  ASSUME NEW x \in Nat, NEW k \in Nat
  PROVE  /\ x \div Pow2(0) = x
         /\ x \div Pow2(k) \in Nat
         /\ x \div Pow2(k + 1) = (x \div Pow2(k)) \div 2
<1>1. Pow2(k) \in Nat /\ Pow2(k) > 0 /\ Pow2(k + 1) = Pow2(k) * 2 /\ Pow2(0) = 1
  BY PowerType, PowerOfTwo
<1>2. (x \div Pow2(k)) \div 2 = x \div (Pow2(k) * 2)
  BY <1>1, DivisionTwice
<1>3. x \div Pow2(k) \in Nat
  BY <1>1, Division
<1>4. x \div 1 = x
  OBVIOUS
<1> QED BY <1>1, <1>2, <1>3, <1>4

\* What a number loses when it is shifted on by b bits.
LosesDigit(x, e, b) ==
  /\ x \div Pow2(e) \in Nat /\ x \div Pow2(e + b) \in Nat
  /\ (x \div Pow2(e)) % Pow2(b) \in 0 .. Pow2(b) - 1
  /\ x \div Pow2(e) = (x \div Pow2(e + b)) * Pow2(b) + ((x \div Pow2(e)) % Pow2(b))

\* A shift by b bits leaves out one digit.
LEMMA ShiftDigit ==
  ASSUME NEW x \in Nat, NEW e \in Nat, NEW b \in Nat
  PROVE  LosesDigit(x, e, b)
<1> DEFINE d == Pow2(e)
           f == Pow2(b)
           u == x \div d
<1>1. d \in Nat /\ d > 0 /\ f \in Nat /\ f > 0
  BY PowerType
<1>2. Pow2(e + b) = d * f
  BY PowerSum
<1> HIDE DEF d, f
<1>3. u \div f = x \div (d * f)
  BY <1>1, DivisionTwice
<1>4. u \in Nat
  BY <1>1, Division
<1> HIDE DEF u
<1>5. u \div f \in Nat /\ u % f \in 0 .. f - 1 /\ u = (u \div f) * f + (u % f)
  BY <1>1, <1>4, Division
<1>6. u \in Nat /\ x \div (d * f) \in Nat /\ u % f \in 0 .. f - 1 /\ u = (x \div (d * f)) * f + (u % f)
  BY <1>3, <1>4, <1>5
<1> QED BY <1>2, <1>6 DEF LosesDigit, u, d, f

\* A number has no bits beyond its length.
LEMMA NoBitsBeyond ==
  ASSUME NEW m \in Nat, NEW x \in 0 .. Pow2(m) - 1
  PROVE  x \div Pow2(m) = 0
<1>1. Pow2(m) \in Nat /\ Pow2(m) > 0
  BY PowerType
<1> DEFINE d == Pow2(m)
<1> HIDE DEF d
<1>2. (0 * d + x) \div d = 0
  BY <1>1, DivisionUnique DEF d
<1>3. 0 * d + x = x
  BY <1>1 DEF d
<1> QED BY <1>2, <1>3 DEF d

-----------------------------------------------------------------------------
(* Sizes of a parameter set.                                               *)
LEMMA Sizes ==
  /\ N \in Nat /\ N > 0 /\ H \in Nat /\ D \in Nat /\ D > 0 /\ HP \in Nat /\ HP > 0
  /\ A \in Nat /\ A > 0 /\ K \in Nat /\ K > 0 /\ LgW \in Nat /\ LgW > 0 /\ SignBound \in Nat
BY SizeAssumption

\* A chain has at least one value.
LEMMA WIsNat == W \in Nat /\ W > 0
BY Sizes, PowerType DEF W

\* BitLength(x) bits are enough for x.
LEMMA BitLengthBound ==
  ASSUME NEW x \in Nat
  PROVE  BitLength(x) \in Nat /\ x < Pow2(BitLength(x))
<1> DEFINE Exceeds(b) == Pow2(b) > x
<1>1. x < Pow2(x)
  BY PowerType
<1>2. \E b \in 0 .. x : Exceeds(b) /\ (b = 0 \/ Pow2(b - 1) <= x)
  <2> SUFFICES ASSUME \A b \in 0 .. x : Exceeds(b) => b # 0 /\ ~(Pow2(b - 1) <= x)
               PROVE  FALSE
    OBVIOUS
  <2> DEFINE T == {n \in Nat : n <= x => ~Exceeds(n)}
  <2>1. 0 \in T
    OBVIOUS
  <2>2. ASSUME NEW n \in Nat, n \in T PROVE n + 1 \in T
    <3> SUFFICES ASSUME n + 1 <= x, Exceeds(n + 1) PROVE FALSE
      OBVIOUS
    <3>1. n + 1 \in 0 .. x /\ n + 1 - 1 = n /\ n <= x
      OBVIOUS
    <3>2. ~(Pow2(n) <= x)
      BY <3>1
    <3>3. Pow2(n) \in Nat
      BY PowerType
    <3> QED BY <2>2, <3>1, <3>2, <3>3
  <2> HIDE DEF T
  <2>3. x \in T
    BY <2>1, <2>2, SetInduction
  <2> QED BY <1>1, <2>3 DEF T
<1>3. BitLength(x) \in 0 .. x /\ Exceeds(BitLength(x))
  BY <1>2 DEF BitLength
<1> QED BY <1>3

\* The digits of WOTS: whole strings, then at least one of the checksum.
LEMMA WotsSizes ==
  /\ Len1 \in Nat /\ Len1 > 0 /\ Len1 * LgW = 8 * N
  /\ Len2 \in Nat /\ Len2 > 0 /\ Len2 * LgW \in Nat
  /\ WotsLen \in Nat /\ WotsLen > 0 /\ WotsLen = Len1 + Len2
<1>1. LgW \in Nat /\ LgW > 0 /\ N \in Nat /\ N > 0
  BY Sizes
<1> DEFINE q == (8 * N) \div LgW
<1>2. q \in Nat /\ 8 * N = q * LgW
  <2>1. 8 * N \in Nat
    BY <1>1
  <2>2. q \in Nat /\ 8 * N = q * LgW + ((8 * N) % LgW)
    BY <1>1, <2>1, Division
  <2>3. q * LgW \in Nat
    BY <1>1, <2>2
  <2> HIDE DEF q
  <2> QED BY <2>2, <2>3, DigitAssumption
<1> HIDE DEF q
<1>3. Len1 = q
  <2>1. (q * LgW + (LgW - 1)) \div LgW = q
    BY <1>1, <1>2, DivisionUnique
  <2>2. q * LgW \in Nat
    BY <1>1, <1>2
  <2>3. 8 * N + LgW - 1 = q * LgW + (LgW - 1)
    BY <1>1, <1>2, <2>2
  <2> QED BY <2>1, <2>3 DEF Len1
<1>4. q > 0
  <2> SUFFICES ASSUME q = 0 PROVE FALSE
    BY <1>2
  <2> QED BY <1>1, <1>2
<1>5. Len2 \in Nat /\ Len2 > 0
  <2>1. Len1 * (W - 1) \in Nat
    BY <1>2, <1>3, WIsNat
  <2>2. BitLength(Len1 * (W - 1)) \div LgW \in Nat
    BY <1>1, <2>1, BitLengthBound, Division
  <2> QED BY <2>2 DEF Len2
<1>6. Len2 * LgW \in Nat
  BY <1>1, <1>5
<1> QED BY <1>2, <1>3, <1>4, <1>5, <1>6 DEF WotsLen

-----------------------------------------------------------------------------
(* Strings of bytes and their digits.                                      *)
\* The number a string of bytes stands for, place by place.
LEMMA ToIntSteps ==
  ASSUME NEW s \in Seq(Nat)
  PROVE  \E t : /\ ToInt(s) = t[Len(s)]
                /\ t[0] = 0
                /\ \A i \in 1 .. Len(s) : t[i] = 256 * t[i - 1] + s[i]
<1> DEFINE n == Len(s)
           Loop(m, f) == f = [i \in 0 .. m |-> IF i = 0 THEN 0 ELSE 256 * f[i - 1] + s[i]]
           S == {m \in Nat : \E f : Loop(m, f)}
<1>1. 0 \in S
  <2>1. Loop(0, [i \in 0 .. 0 |-> 0])
    OBVIOUS
  <2> QED BY <2>1
<1>2. ASSUME NEW m \in Nat, m \in S PROVE m + 1 \in S
  <2>1. PICK f : Loop(m, f)
    BY <1>2
  <2> DEFINE g == [i \in 0 .. m + 1 |-> IF i = m + 1 THEN 256 * f[m] + s[m + 1] ELSE f[i]]
  <2>2. \A i \in 0 .. m + 1 : g[i] = IF i = 0 THEN 0 ELSE 256 * g[i - 1] + s[i]
    BY <2>1
  <2>3. Loop(m + 1, g)
    BY <2>2
  <2>4. \E f_1 : Loop(m + 1, f_1)
    BY <2>3
  <2> QED BY <2>4
<1> HIDE DEF S
<1> DEFINE t == CHOOSE f : Loop(n, f)
<1>3. n \in Nat
  OBVIOUS
<1>4. Loop(n, t)
  <2>1. n \in S
    BY <1>1, <1>2, <1>3, SetInduction
  <2>2. \E f : Loop(n, f)
    BY <2>1 DEF S
  <2> QED BY <2>2
<1>5. ToInt(s) = t[n]
  BY DEF ToInt
<1> HIDE DEF t, n
<1>6. \A i \in 0 .. n : t[i] = IF i = 0 THEN 0 ELSE 256 * t[i - 1] + s[i]
  BY <1>4
<1>7. t[0] = 0 /\ \A i \in 1 .. n : t[i] = 256 * t[i - 1] + s[i]
  BY <1>3, <1>6
<1> QED BY <1>5, <1>7 DEF n

\* A string of bytes is a number.
LEMMA ToIntType ==
  ASSUME NEW s \in Seq(Nat)
  PROVE  ToInt(s) \in Nat
<1> DEFINE n == Len(s)
<1>1. n \in Nat /\ \A i \in 1 .. n : s[i] \in Nat
  OBVIOUS
<1>2. PICK t : ToInt(s) = t[n] /\ t[0] = 0 /\ \A i \in 1 .. n : t[i] = 256 * t[i - 1] + s[i]
  BY ToIntSteps
<1> HIDE DEF n
<1> DEFINE T == {m \in Nat : m <= n => t[m] \in Nat}
<1>3. 0 \in T
  BY <1>2
<1>4. ASSUME NEW m \in Nat, m \in T PROVE m + 1 \in T
  <2> SUFFICES ASSUME m + 1 <= n PROVE t[m + 1] \in Nat
    OBVIOUS
  <2>1. m + 1 \in 1 .. n /\ m + 1 - 1 = m /\ t[m] \in Nat
    BY <1>1, <1>4
  <2>2. t[m + 1] = 256 * t[m] + s[m + 1] /\ s[m + 1] \in Nat
    BY <1>1, <1>2, <2>1
  <2> QED BY <2>1, <2>2
<1> HIDE DEF T
<1>5. n \in T
  BY <1>1, <1>3, <1>4, SetInduction
<1> QED BY <1>1, <1>2, <1>5 DEF T

\* Every digit of base_2b lies below 2^b, if the string has enough bits.
LEMMA Base2bType ==
  ASSUME NEW s \in Seq(Nat), NEW b \in Nat, NEW out \in Nat, out * b <= 8 * Len(s)
  PROVE  Base2b(s, b, out) \in [1 .. out -> 0 .. Pow2(b) - 1]
<1> SUFFICES ASSUME NEW j \in 1 .. out
             PROVE  (ToInt(s) \div Pow2(8 * Len(s) - j * b)) % Pow2(b) \in 0 .. Pow2(b) - 1
  BY DEF Base2b
<1>1. 8 * Len(s) - j * b \in Nat
  <2>1. j * b <= out * b
    BY TimesMonotone
  <2>2. j * b \in Nat /\ out * b \in Nat /\ Len(s) \in Nat
    OBVIOUS
  <2> QED BY <2>1, <2>2
<1> DEFINE d == Pow2(8 * Len(s) - j * b)
<1>2. d \in Nat /\ d > 0 /\ Pow2(b) \in Nat /\ Pow2(b) > 0
  BY <1>1, PowerType
<1> HIDE DEF d
<1>3. ToInt(s) \in Nat
  BY ToIntType
<1>4. ToInt(s) \div d \in Nat
  BY <1>2, <1>3, Division
<1>5. (ToInt(s) \div d) % Pow2(b) \in 0 .. Pow2(b) - 1
  BY <1>2, <1>4, Division
<1> QED BY <1>5 DEF d

\* Sequences as the functions they are.
LEMMA FunctionSequence ==
  ASSUME NEW n \in Nat, NEW S, NEW s \in [1 .. n -> S]
  PROVE  s \in Seq(S) /\ Len(s) = n
OBVIOUS

\* What two sequences joined are, place by place.
LEMMA Concatenation ==
  ASSUME NEW S, NEW s \in Seq(S), NEW t \in Seq(S)
  PROVE  /\ s \o t \in Seq(S)
         /\ Len(s \o t) = Len(s) + Len(t)
         /\ \A i \in 1 .. Len(s) : (s \o t)[i] = s[i]
         /\ \A i \in 1 .. Len(t) : (s \o t)[Len(s) + i] = t[i]
OBVIOUS

\* The same of two functions.
LEMMA Joined ==
  ASSUME NEW S, NEW m \in Nat, NEW n \in Nat, NEW s \in [1 .. m -> S], NEW t \in [1 .. n -> S]
  PROVE  /\ s \o t \in Seq(S)
         /\ Len(s \o t) = m + n
         /\ \A i \in 1 .. m : (s \o t)[i] = s[i]
         /\ \A i \in 1 .. n : (s \o t)[m + i] = t[i]
BY SMTT(30)

\* to_byte and to_int undo one another.
LEMMA BytesOfNumber ==
  ASSUME NEW n \in Nat, NEW x \in 0 .. Pow2(8 * n) - 1
  PROVE  /\ ToByte(x, n) \in Seq(Nat) /\ Len(ToByte(x, n)) = n
         /\ ToInt(ToByte(x, n)) = x
<1> DEFINE s == ToByte(x, n)
           p(i) == x \div Pow2(8 * (n - i))
<1>1. x \in Nat
  <2>1. Pow2(8 * n) \in Nat
    BY PowerType
  <2> QED BY <2>1
<1>2. ASSUME NEW i \in 1 .. n
      PROVE  /\ s[i] = p(i) % 256 /\ s[i] \in Nat
             /\ p(i) = 256 * p(i - 1) + s[i]
  <2> DEFINE e == 8 * (n - i)
  <2>1. e \in Nat /\ e + 8 = 8 * (n - (i - 1))
    OBVIOUS
  <2>2. s[i] = p(i) % 256
    BY DEF ToByte
  <2> HIDE DEF s
  <2>3. /\ x \div Pow2(e + 8) \in Nat /\ (x \div Pow2(e)) % Pow2(8) \in 0 .. Pow2(8) - 1
        /\ x \div Pow2(e) = (x \div Pow2(e + 8)) * Pow2(8) + ((x \div Pow2(e)) % Pow2(8))
    <3>1. e \in Nat /\ 8 \in Nat
      BY <2>1
    <3> HIDE DEF e, p
    <3>2. LosesDigit(x, e, 8)
      BY <1>1, <3>1, ShiftDigit, Zenon
    <3> QED BY <3>2 DEF LosesDigit
  <2> DEFINE a == x \div Pow2(e)
             b == x \div Pow2(e + 8)
  <2>4. b \in Nat /\ a % 256 \in 0 .. 255 /\ a = b * 256 + (a % 256)
    BY <2>3, ByteIsEightBits
  <2>5. p(i) = a /\ p(i - 1) = b
    BY <2>1
  <2> HIDE DEF a, b, p
  <2>6. b * 256 = 256 * b
    BY <2>4
  <2> QED BY <2>2, <2>4, <2>5, <2>6
<1>3. s \in Seq(Nat) /\ Len(s) = n
  <2>1. s \in [1 .. n -> Nat]
    BY <1>2 DEF ToByte
  <2> HIDE DEF s
  <2> QED BY <2>1, FunctionSequence
<1> HIDE DEF s
<1>4. PICK t : /\ ToInt(s) = t[n]
               /\ t[0] = 0
               /\ \A i \in 1 .. n : t[i] = 256 * t[i - 1] + s[i]
  BY <1>3, ToIntSteps
<1> DEFINE S == {i \in Nat : i <= n => t[i] = p(i)}
<1>5. 0 \in S
  <2>1. 8 * n \in Nat /\ n - 0 = n
    OBVIOUS
  <2>2. p(0) = 0
    BY <2>1, NoBitsBeyond
  <2> QED BY <1>4, <2>2
<1>6. ASSUME NEW i \in Nat, i \in S PROVE i + 1 \in S
  <2> SUFFICES ASSUME i + 1 <= n PROVE t[i + 1] = p(i + 1)
    OBVIOUS
  <2>1. i + 1 \in 1 .. n /\ i + 1 - 1 = i /\ t[i] = p(i)
    BY <1>6
  <2> HIDE DEF p
  <2> QED BY <1>2, <1>4, <2>1
<1> HIDE DEF S
<1>7. n \in S
  BY <1>5, <1>6, SetInduction
<1>8. p(n) = x
  <2>1. 8 * (n - n) = 0
    OBVIOUS
  <2>2. x \div Pow2(0) = x
    BY <1>1, ShiftStep
  <2> QED BY <2>1, <2>2
<1>9. t[n] = p(n)
  BY <1>7 DEF S
<1> HIDE DEF p
<1> QED BY <1>3, <1>4, <1>8, <1>9 DEF s

\* Where no digit is smaller the number is not: the digits are read from the top.
LEMMA DigitsOrder ==
  ASSUME NEW m \in Nat, NEW b \in Nat, NEW out \in Nat, out * b <= m,
         NEW x \in 0 .. Pow2(m) - 1, NEW y \in 0 .. Pow2(m) - 1,
         \A j \in 1 .. out : (x \div Pow2(m - j * b)) % Pow2(b) <= (y \div Pow2(m - j * b)) % Pow2(b)
  PROVE  x \div Pow2(m - out * b) <= y \div Pow2(m - out * b)
<1> DEFINE p(j) == x \div Pow2(m - j * b)
           q(j) == y \div Pow2(m - j * b)
           S == {j \in Nat : j <= out => p(j) <= q(j)}
<1>1. x \in Nat /\ y \in Nat
  <2>1. Pow2(m) \in Nat
    BY PowerType
  <2> QED BY <2>1
<1>2. \A e \in Nat : LosesDigit(x, e, b)
  <2> HIDE DEF p, q, S
  <2> QED BY <1>1, ShiftDigit
<1>3. \A e \in Nat : LosesDigit(y, e, b)
  <2> HIDE DEF p, q, S
  <2> QED BY <1>1, ShiftDigit
<1>4. 0 \in S
  <2>1. m - 0 * b = m
    OBVIOUS
  <2>2. x \div Pow2(m) = 0 /\ y \div Pow2(m) = 0
    BY NoBitsBeyond
  <2> QED BY <2>1, <2>2
<1>5. ASSUME NEW j \in Nat, j \in S PROVE j + 1 \in S
  <2> SUFFICES ASSUME j + 1 <= out PROVE p(j + 1) <= q(j + 1)
    OBVIOUS
  <2> DEFINE e == m - (j + 1) * b
  <2>1. e \in Nat /\ e + b = m - j * b
    <3>1. (j + 1) * b <= out * b
      BY TimesMonotone
    <3>2. (j + 1) * b = j * b + b /\ j * b \in Nat /\ out * b \in Nat
      OBVIOUS
    <3> QED BY <3>1, <3>2
  <2> DEFINE u == x \div Pow2(e)
             v == y \div Pow2(e)
             u0 == x \div Pow2(e + b)
             v0 == y \div Pow2(e + b)
             f == Pow2(b)
  <2>4. u % f <= v % f
    <3>1. j + 1 \in 1 .. out
      OBVIOUS
    <3> QED BY <3>1, Zenon
  <2>5. u0 <= v0
    BY <1>5, <2>1
  <2>6. f \in Nat
    BY PowerType
  <2>7. p(j + 1) = u /\ q(j + 1) = v
    OBVIOUS
  <2>8. /\ u \in Nat /\ u0 \in Nat /\ u % f \in 0 .. f - 1 /\ u = u0 * f + (u % f)
        /\ v \in Nat /\ v0 \in Nat /\ v % f \in 0 .. f - 1 /\ v = v0 * f + (v % f)
    <3> HIDE DEF e
    <3>1. LosesDigit(x, e, b) /\ LosesDigit(y, e, b)
      BY <1>2, <1>3, <2>1, Zenon
    <3> QED BY <3>1, Zenon DEF LosesDigit
  <2> HIDE DEF u, v, u0, v0, f, p, q
  <2>9. u0 * f <= v0 * f /\ u0 * f \in Nat /\ v0 * f \in Nat
    BY <2>5, <2>6, <2>8, TimesMonotone
  <2> QED BY <2>4, <2>6, <2>7, <2>8, <2>9
<1> HIDE DEF S
<1>6. out \in S
  BY <1>4, <1>5, SetInduction
<1> QED BY <1>6 DEF S

\* What the checksum adds up to, digit by digit.
LEMMA ChecksumSteps ==
  ASSUME NEW msg
  PROVE  \E t : /\ Checksum(msg) = t[Len1]
                /\ t[0] = 0
                /\ \A i \in 1 .. Len1 : t[i] = t[i - 1] + W - 1 - msg[i]
<1> DEFINE Loop(m, f) == f = [i \in 0 .. m |-> IF i = 0 THEN 0 ELSE f[i - 1] + W - 1 - msg[i]]
           S == {m \in Nat : \E f : Loop(m, f)}
<1>1. 0 \in S
  <2>1. Loop(0, [i \in 0 .. 0 |-> 0])
    OBVIOUS
  <2> QED BY <2>1
<1>2. ASSUME NEW m \in Nat, m \in S PROVE m + 1 \in S
  <2>1. PICK f : Loop(m, f)
    BY <1>2
  <2> DEFINE g == [i \in 0 .. m + 1 |-> IF i = m + 1 THEN f[m] + W - 1 - msg[m + 1] ELSE f[i]]
  <2>2. \A i \in 0 .. m + 1 : g[i] = IF i = 0 THEN 0 ELSE g[i - 1] + W - 1 - msg[i]
    BY <2>1
  <2>3. Loop(m + 1, g)
    BY <2>2
  <2>4. \E f_1 : Loop(m + 1, f_1)
    BY <2>3
  <2> QED BY <2>4
<1> HIDE DEF S
<1> DEFINE t == CHOOSE f : Loop(Len1, f)
<1>3. Len1 \in Nat
  BY WotsSizes
<1>4. Loop(Len1, t)
  <2>1. Len1 \in S
    BY <1>1, <1>2, <1>3, SetInduction
  <2>2. \E f : Loop(Len1, f)
    BY <2>1 DEF S
  <2> QED BY <2>2
<1>5. Checksum(msg) = t[Len1]
  BY DEF Checksum
<1> HIDE DEF t
<1>6. \A i \in 0 .. Len1 : t[i] = IF i = 0 THEN 0 ELSE t[i - 1] + W - 1 - msg[i]
  BY <1>4
<1>7. t[0] = 0 /\ \A i \in 1 .. Len1 : t[i] = t[i - 1] + W - 1 - msg[i]
  BY <1>3, <1>6
<1> QED BY <1>5, <1>7

\* The checksum of len1 digits is at most len1 times the largest.
LEMMA ChecksumBound ==
  ASSUME NEW msg \in [1 .. Len1 -> 0 .. W - 1]
  PROVE  Checksum(msg) \in 0 .. Len1 * (W - 1)
<1>1. W \in Nat /\ W > 0 /\ Len1 \in Nat
  BY WIsNat, WotsSizes
<1>2. PICK t : /\ Checksum(msg) = t[Len1]
               /\ t[0] = 0
               /\ \A i \in 1 .. Len1 : t[i] = t[i - 1] + W - 1 - msg[i]
  BY ChecksumSteps
<1> DEFINE S == {i \in Nat : i <= Len1 => t[i] \in 0 .. i * (W - 1)}
<1>3. 0 \in S
  BY <1>1, <1>2
<1>4. ASSUME NEW i \in Nat, i \in S PROVE i + 1 \in S
  <2> SUFFICES ASSUME i + 1 <= Len1 PROVE t[i + 1] \in 0 .. (i + 1) * (W - 1)
    OBVIOUS
  <2>1. i + 1 \in 1 .. Len1 /\ i + 1 - 1 = i /\ t[i] \in 0 .. i * (W - 1)
    BY <1>1, <1>4
  <2>2. t[i + 1] = t[i] + W - 1 - msg[i + 1] /\ msg[i + 1] \in 0 .. W - 1
    BY <1>2, <2>1
  <2>3. (i + 1) * (W - 1) = i * (W - 1) + (W - 1) /\ i * (W - 1) \in Nat
    BY <1>1
  <2> QED BY <1>1, <2>1, <2>2, <2>3
<1> HIDE DEF S
<1>5. Len1 \in S
  BY <1>1, <1>3, <1>4, SetInduction
<1> QED BY <1>1, <1>2, <1>5 DEF S

\* The checksum is never negative.
LEMMA ChecksumType ==
  ASSUME NEW msg \in [1 .. Len1 -> 0 .. W - 1]
  PROVE  Checksum(msg) \in Nat
<1>1. Checksum(msg) \in 0 .. Len1 * (W - 1) /\ Len1 * (W - 1) \in Nat
  BY ChecksumBound, WIsNat, WotsSizes
<1> QED BY <1>1

Bytes == [1 .. N -> 0 .. 255]

\* Every digit that wots_sign counts a chain up to, those of the checksum included, is
\* a step of the chain.
LEMMA WotsDigitsType ==
  ASSUME NEW m \in Bytes
  PROVE  \A i \in 1 .. WotsLen : WotsDigits(m)[i] \in 0 .. W - 1
<1> DEFINE msg  == Base2b(m, LgW, Len1)
           size == (Len2 * LgW + 7) \div 8
           csum == ToByte(Checksum(msg) * Pow2(ChecksumShift), size)
           low  == Base2b(csum, LgW, Len2)
<1>1. msg \in [1 .. Len1 -> 0 .. W - 1]
  <2>1. m \in Seq(Nat) /\ Len(m) = N
    <3>1. m \in [1 .. N -> 0 .. 255]
      BY DEF Bytes
    <3>2. m \in Seq(0 .. 255) /\ Len(m) = N
      BY <3>1, Sizes, FunctionSequence
    <3>3. 0 .. 255 \subseteq Nat
      OBVIOUS
    <3> QED BY <3>2, <3>3, SeqMonotonic
  <2>2. Len1 * LgW <= 8 * Len(m)
    BY <2>1, Sizes, WotsSizes
  <2> QED BY <2>1, <2>2, Sizes, WotsSizes, Base2bType DEF W
<1>2. size \in Nat /\ Len2 * LgW <= 8 * size
  BY WotsSizes
<1>3. csum \in Seq(Nat) /\ Len(csum) = size
  <2> DEFINE x == Checksum(msg) * Pow2(ChecksumShift)
  <2>1. x \in Nat
    <3>1. ChecksumShift \in Nat
      BY WotsSizes DEF ChecksumShift
    <3>2. Pow2(ChecksumShift) \in Nat
      BY <3>1, PowerType
    <3> HIDE DEF msg
    <3> QED BY <1>1, <3>2, ChecksumType
  <2> HIDE DEF x
  <2>2. ASSUME NEW i \in 1 .. size PROVE (x \div Pow2(8 * (size - i))) % 256 \in Nat
    <3>1. 8 * (size - i) \in Nat
      BY <1>2
    <3>2. x \div Pow2(8 * (size - i)) \in Nat
      BY <2>1, <3>1, PowerType, Division
    <3> QED BY <3>2
  <2>3. ToByte(x, size) \in [1 .. size -> Nat]
    BY <2>2 DEF ToByte
  <2>4. ToByte(x, size) \in Seq(Nat) /\ Len(ToByte(x, size)) = size
    BY <1>2, <2>3, FunctionSequence
  <2> QED BY <2>4 DEF x
<1> HIDE DEF csum, size
<1>4. low \in [1 .. Len2 -> 0 .. W - 1]
  BY <1>2, <1>3, Sizes, WotsSizes, Base2bType DEF W
<1>5. WotsDigits(m) = msg \o low
  BY DEF WotsDigits, msg, low, csum, size
<1> HIDE DEF msg, low
<1>6. /\ msg \in Seq(0 .. W - 1) /\ Len(msg) = Len1
      /\ low \in Seq(0 .. W - 1) /\ Len(low) = Len2
  BY <1>1, <1>4, WotsSizes, FunctionSequence
<1>7. msg \o low \in Seq(0 .. W - 1) /\ Len(msg \o low) = WotsLen
  BY <1>6, WotsSizes, Concatenation
<1> DEFINE d == msg \o low
<1>8. \A i \in 1 .. Len(d) : d[i] \in 0 .. W - 1
  <2>1. d \in Seq(0 .. W - 1)
    BY <1>7
  <2> HIDE DEF d
  <2> QED BY <2>1, ElementOfSeq
<1> QED BY <1>5, <1>7, <1>8

-----------------------------------------------------------------------------
(* The checksum of WOTS.                                                   *)
\* The checksum falls when a digit rises.
LEMMA ChecksumFalls ==
  ASSUME NEW msg \in [1 .. Len1 -> 0 .. W - 1], NEW other \in [1 .. Len1 -> 0 .. W - 1],
         \A i \in 1 .. Len1 : msg[i] <= other[i]
  PROVE  /\ Checksum(other) <= Checksum(msg)
         /\ Checksum(other) = Checksum(msg) => other = msg
<1>1. W \in Nat /\ Len1 \in Nat
  BY WIsNat, WotsSizes
<1>2. PICK t : /\ Checksum(msg) = t[Len1]
               /\ t[0] = 0
               /\ \A i \in 1 .. Len1 : t[i] = t[i - 1] + W - 1 - msg[i]
  BY ChecksumSteps
<1>3. PICK u : /\ Checksum(other) = u[Len1]
               /\ u[0] = 0
               /\ \A i \in 1 .. Len1 : u[i] = u[i - 1] + W - 1 - other[i]
  BY ChecksumSteps
<1> DEFINE S == {i \in Nat : i <= Len1 =>
                    /\ t[i] \in Int /\ u[i] \in Int /\ u[i] <= t[i]
                    /\ u[i] = t[i] => \A j \in 1 .. i : other[j] = msg[j]}
<1>4. 0 \in S
  BY <1>1, <1>2, <1>3
<1>5. ASSUME NEW i \in Nat, i \in S PROVE i + 1 \in S
  <2> SUFFICES ASSUME i + 1 <= Len1
               PROVE  /\ t[i + 1] \in Int /\ u[i + 1] \in Int /\ u[i + 1] <= t[i + 1]
                      /\ u[i + 1] = t[i + 1] => \A j \in 1 .. i + 1 : other[j] = msg[j]
    OBVIOUS
  <2>1. /\ i + 1 \in 1 .. Len1 /\ i + 1 - 1 = i
        /\ t[i] \in Int /\ u[i] \in Int /\ u[i] <= t[i]
        /\ u[i] = t[i] => \A j \in 1 .. i : other[j] = msg[j]
    BY <1>1, <1>5
  <2>2. /\ t[i + 1] = t[i] + W - 1 - msg[i + 1] /\ msg[i + 1] \in Int
        /\ u[i + 1] = u[i] + W - 1 - other[i + 1] /\ other[i + 1] \in Int
        /\ msg[i + 1] <= other[i + 1]
    BY <1>1, <1>2, <1>3, <2>1
  <2> DEFINE a == t[i]
             b == u[i]
             a1 == t[i + 1]
             b1 == u[i + 1]
             x == msg[i + 1]
             y == other[i + 1]
  <2>3. /\ a \in Int /\ b \in Int /\ b <= a /\ x \in Int /\ y \in Int /\ x <= y
        /\ a1 = a + W - 1 - x /\ b1 = b + W - 1 - y
    BY <2>1, <2>2
  <2>4. b = a => \A j \in 1 .. i : other[j] = msg[j]
    BY <2>1
  <2>5. y = x => other[i + 1] = msg[i + 1]
    OBVIOUS
  <2> HIDE DEF a, b, a1, b1, x, y
  <2>6. a1 \in Int /\ b1 \in Int /\ b1 <= a1 /\ (b1 = a1 => b = a /\ y = x)
    BY <1>1, <2>3
  <2>7. \A j \in 1 .. i + 1 : j \in 1 .. i \/ j = i + 1
    OBVIOUS
  <2>8. b1 = a1 => \A j \in 1 .. i + 1 : other[j] = msg[j]
    BY <2>4, <2>5, <2>6, <2>7
  <2> QED BY <2>6, <2>8 DEF a1, b1
<1> HIDE DEF S
<1>6. Len1 \in S
  BY <1>1, <1>4, <1>5, SetInduction
<1>7. /\ u[Len1] <= t[Len1]
      /\ u[Len1] = t[Len1] => \A j \in 1 .. Len1 : other[j] = msg[j]
  BY <1>1, <1>6 DEF S
<1>8. (\A j \in 1 .. Len1 : other[j] = msg[j]) => other = msg
  <2>1. other = [j \in 1 .. Len1 |-> other[j]] /\ msg = [j \in 1 .. Len1 |-> msg[j]]
    OBVIOUS
  <2> QED BY <2>1, Zenon
<1> QED BY <1>2, <1>3, <1>7, <1>8

\* What the digits of the checksum are read from: ChecksumShift zeros after it fill the bytes.
Padded(msg) == Checksum(msg) * Pow2(ChecksumShift)
ChecksumBytes == (Len2 * LgW + 7) \div 8
ChecksumDigit(msg, j) == (Padded(msg) \div Pow2(8 * ChecksumBytes - j * LgW)) % W

\* len2 digits hold every checksum: no bit of it is lost on the way into its bytes.
LEMMA ChecksumFits ==
  ASSUME NEW msg \in [1 .. Len1 -> 0 .. W - 1]
  PROVE  /\ ChecksumBytes \in Nat /\ ChecksumShift \in Nat
         /\ 8 * ChecksumBytes - Len2 * LgW = ChecksumShift
         /\ Padded(msg) \in 0 .. Pow2(8 * ChecksumBytes) - 1
         /\ Padded(msg) \div Pow2(ChecksumShift) = Checksum(msg)
<1> DEFINE x == Len2 * LgW
           c == Checksum(msg)
           d == Pow2(ChecksumShift)
           most == Len1 * (W - 1)
           bits == BitLength(most)
<1>1. /\ x \in Nat /\ LgW \in Nat /\ LgW > 0 /\ W \in Nat /\ W > 0 /\ Len1 \in Nat /\ Len2 \in Nat
  BY Sizes, WIsNat, WotsSizes
<1>2. most \in Nat /\ c \in 0 .. most
  BY <1>1, ChecksumBound
<1> HIDE DEF most
<1>3. bits \in Nat /\ most < Pow2(bits)
  BY <1>2, BitLengthBound
<1>4. Len2 = bits \div LgW + 1
  BY DEF Len2, bits, most
<1> HIDE DEF bits
<1>5. bits <= x
  <2> DEFINE q == bits \div LgW
             r == bits % LgW
  <2>1. q \in Nat /\ r \in 0 .. LgW - 1 /\ bits = q * LgW + r
    BY <1>1, <1>3, Division
  <2> HIDE DEF q, r
  <2>2. (q + 1) * LgW = q * LgW + LgW /\ q * LgW \in Nat
    BY <1>1, <2>1
  <2>3. x = (q + 1) * LgW
    BY <1>4 DEF q
  <2> HIDE DEF x
  <2> QED BY <1>1, <2>1, <2>2, <2>3
<1>6. c \in Nat /\ c < Pow2(x) /\ Pow2(x) \in Nat
  <2>1. Pow2(bits) <= Pow2(x) /\ Pow2(bits) \in Nat /\ Pow2(x) \in Nat
    BY <1>1, <1>3, <1>5, PowerMonotone, PowerType
  <2> HIDE DEF x, c
  <2> QED BY <1>2, <1>3, <2>1
<1>7. ChecksumBytes \in Nat /\ ChecksumShift \in Nat /\ 8 * ChecksumBytes = x + ChecksumShift
  <2>1. ChecksumBytes = (x + 7) \div 8 /\ ChecksumShift = (8 - (x % 8)) % 8
    BY DEF ChecksumBytes, ChecksumShift
  <2> HIDE DEF x
  <2> QED BY <1>1, <2>1
<1>8. d \in Nat /\ d > 0 /\ Pow2(x + ChecksumShift) = Pow2(x) * d
  BY <1>1, <1>7, PowerType, PowerSum
<1>9. Padded(msg) = c * d
  BY DEF Padded
<1> HIDE DEF x, c, d
<1>10. c * d \in Nat /\ c * d < Pow2(x) * d
  <2>1. (c + 1) * d <= Pow2(x) * d
    BY <1>6, <1>8, TimesMonotone
  <2>2. (c + 1) * d = c * d + d /\ c * d \in Nat /\ Pow2(x) * d \in Nat
    BY <1>6, <1>8
  <2> QED BY <1>8, <2>1, <2>2
<1>11. (c * d) \div d = c
  <2>1. (c * d + 0) \div d = c
    BY <1>6, <1>8, DivisionUnique
  <2>2. c * d + 0 = c * d
    BY <1>10
  <2> QED BY <2>1, <2>2
<1>12. 8 * ChecksumBytes - x = ChecksumShift
  BY <1>1, <1>7
<1>13. Padded(msg) \in 0 .. Pow2(8 * ChecksumBytes) - 1
  <2>1. Pow2(8 * ChecksumBytes) = Pow2(x) * d
    BY <1>7, <1>8
  <2>2. Pow2(x) * d \in Nat
    BY <1>6, <1>8
  <2> QED BY <1>9, <1>10, <2>1, <2>2
<1> QED BY <1>7, <1>9, <1>11, <1>12, <1>13 DEF x, c, d

\* The digits of the string whose message digits are msg.
DigitsOf(msg) == msg \o Base2b(ToByte(Padded(msg), ChecksumBytes), LgW, Len2)

\* A string of bytes is cut into digits of its own and those of its checksum.
LEMMA DigitsOfString ==
  ASSUME NEW m \in Bytes
  PROVE  \E msg \in [1 .. Len1 -> 0 .. W - 1] :
           /\ msg = Base2b(m, LgW, Len1)
           /\ WotsDigits(m) = DigitsOf(msg)
           /\ \A i \in 1 .. Len1 : WotsDigits(m)[i] = msg[i]
           /\ \A j \in 1 .. Len2 : WotsDigits(m)[Len1 + j] = ChecksumDigit(msg, j)
<1> DEFINE msg == Base2b(m, LgW, Len1)
           csum == ToByte(Padded(msg), ChecksumBytes)
           low == Base2b(csum, LgW, Len2)
<1>1. msg \in [1 .. Len1 -> 0 .. W - 1]
  <2>1. m \in Seq(Nat) /\ Len(m) = N
    <3>1. m \in [1 .. N -> 0 .. 255]
      BY DEF Bytes
    <3>2. m \in Seq(0 .. 255) /\ Len(m) = N
      BY <3>1, Sizes, FunctionSequence
    <3>3. 0 .. 255 \subseteq Nat
      OBVIOUS
    <3> QED BY <3>2, <3>3, SeqMonotonic
  <2>2. Len1 * LgW <= 8 * Len(m)
    BY <2>1, Sizes, WotsSizes
  <2> QED BY <2>1, <2>2, Sizes, WotsSizes, Base2bType DEF W
<1>2. msg = Base2b(m, LgW, Len1) /\ WotsDigits(m) = DigitsOf(msg) /\ DigitsOf(msg) = msg \o low
  BY DEF WotsDigits, DigitsOf, Padded, ChecksumBytes
<1> HIDE DEF msg
<1>3. /\ ChecksumBytes \in Nat /\ 8 * ChecksumBytes - Len2 * LgW \in Nat
      /\ Padded(msg) \in 0 .. Pow2(8 * ChecksumBytes) - 1
  BY <1>1, ChecksumFits
<1>4. csum \in Seq(Nat) /\ Len(csum) = ChecksumBytes /\ ToInt(csum) = Padded(msg)
  BY <1>3, BytesOfNumber
<1> HIDE DEF csum
<1>5. low \in [1 .. Len2 -> 0 .. W - 1]
  <2>1. Len2 * LgW <= 8 * Len(csum)
    BY <1>3, <1>4, WotsSizes
  <2> QED BY <1>4, <2>1, Sizes, WotsSizes, Base2bType DEF W
<1>6. ASSUME NEW j \in 1 .. Len2 PROVE low[j] = ChecksumDigit(msg, j)
  BY <1>4 DEF Base2b, ChecksumDigit, W
<1> HIDE DEF low
<1>7. /\ \A i \in 1 .. Len1 : (msg \o low)[i] = msg[i]
      /\ \A j \in 1 .. Len2 : (msg \o low)[Len1 + j] = low[j]
  BY <1>1, <1>5, WotsSizes, Joined
<1> QED BY <1>1, <1>2, <1>6, <1>7

\* Where no digit of a string lies before that of another the two have the same digits:
\* message digits that rise make the checksum fall, and then one of its digits falls.
LEMMA NoDigitRises ==
  ASSUME NEW m \in Bytes, NEW other \in Bytes,
         \A i \in 1 .. WotsLen : WotsDigits(m)[i] <= WotsDigits(other)[i]
  PROVE  WotsDigits(other) = WotsDigits(m)
<1>1. PICK msg \in [1 .. Len1 -> 0 .. W - 1] :
        /\ WotsDigits(m) = DigitsOf(msg)
        /\ \A i \in 1 .. Len1 : WotsDigits(m)[i] = msg[i]
        /\ \A j \in 1 .. Len2 : WotsDigits(m)[Len1 + j] = ChecksumDigit(msg, j)
  BY DigitsOfString
<1>2. PICK omsg \in [1 .. Len1 -> 0 .. W - 1] :
        /\ WotsDigits(other) = DigitsOf(omsg)
        /\ \A i \in 1 .. Len1 : WotsDigits(other)[i] = omsg[i]
        /\ \A j \in 1 .. Len2 : WotsDigits(other)[Len1 + j] = ChecksumDigit(omsg, j)
  BY DigitsOfString
<1>3. \A i \in 1 .. Len1 : msg[i] <= omsg[i]
  <2> TAKE i \in 1 .. Len1
  <2>1. i \in 1 .. WotsLen
    BY WotsSizes
  <2> QED BY <1>1, <1>2, <2>1
<1>4. \A j \in 1 .. Len2 : ChecksumDigit(msg, j) <= ChecksumDigit(omsg, j)
  <2> TAKE j \in 1 .. Len2
  <2>1. Len1 + j \in 1 .. WotsLen
    BY WotsSizes
  <2>2. WotsDigits(m)[Len1 + j] <= WotsDigits(other)[Len1 + j]
    BY <2>1
  <2> QED BY <1>1, <1>2, <2>2
<1>5. Checksum(omsg) <= Checksum(msg) /\ (Checksum(omsg) = Checksum(msg) => omsg = msg)
  BY <1>3, ChecksumFalls
<1>6. Checksum(msg) <= Checksum(omsg)
  <2> DEFINE bits == 8 * ChecksumBytes
             x == Padded(msg)
             y == Padded(omsg)
  <2>1. /\ ChecksumBytes \in Nat /\ ChecksumShift \in Nat
        /\ bits - Len2 * LgW = ChecksumShift
        /\ x \in 0 .. Pow2(bits) - 1 /\ x \div Pow2(ChecksumShift) = Checksum(msg)
        /\ y \in 0 .. Pow2(bits) - 1 /\ y \div Pow2(ChecksumShift) = Checksum(omsg)
    BY ChecksumFits
  <2>2. /\ bits \in Nat /\ LgW \in Nat /\ Len2 \in Nat /\ Len2 * LgW <= bits
    BY <2>1, Sizes, WotsSizes
  <2>3. \A j \in 1 .. Len2 :
          (x \div Pow2(bits - j * LgW)) % Pow2(LgW) <= (y \div Pow2(bits - j * LgW)) % Pow2(LgW)
    BY <1>4 DEF ChecksumDigit, W
  <2> HIDE DEF bits, x, y
  <2>4. x \div Pow2(bits - Len2 * LgW) <= y \div Pow2(bits - Len2 * LgW)
    BY <2>1, <2>2, <2>3, DigitsOrder
  <2> QED BY <2>1, <2>4
<1>7. Checksum(msg) \in Nat /\ Checksum(omsg) \in Nat
  BY ChecksumType
<1>8. Checksum(omsg) = Checksum(msg)
  BY <1>5, <1>6, <1>7
<1> QED BY <1>1, <1>2, <1>5, <1>8

\* Every other string of digits has one before that of the string signed.
LEMMA OtherStringsFallBehind ==
  ASSUME NEW m \in Bytes, NEW other \in DigitStrings \ {WotsDigits(m)}
  PROVE  \E i \in 1 .. WotsLen : other[i] < WotsDigits(m)[i]
<1>1. PICK o \in Bytes : other = WotsDigits(o)
  BY DEF DigitStrings, Bytes
<1>2. \A i \in 1 .. WotsLen : WotsDigits(m)[i] \in Int /\ WotsDigits(o)[i] \in Int
  BY WIsNat, WotsDigitsType
<1> SUFFICES ASSUME \A i \in 1 .. WotsLen : ~(WotsDigits(o)[i] < WotsDigits(m)[i])
             PROVE  FALSE
  BY <1>1
<1>3. \A i \in 1 .. WotsLen : WotsDigits(m)[i] <= WotsDigits(o)[i]
  BY <1>2
<1>4. WotsDigits(o) = WotsDigits(m)
  BY <1>3, NoDigitRises
<1> QED BY <1>1, <1>4

\* A string of bytes has eight bits for each of them.
LEMMA NumberBound ==
  ASSUME NEW s \in Seq(0 .. 255)
  PROVE  ToInt(s) \in 0 .. Pow2(8 * Len(s)) - 1
<1> DEFINE n == Len(s)
<1>1. n \in Nat /\ \A i \in 1 .. n : s[i] \in 0 .. 255
  <2>1. n \in Nat /\ s \in [1 .. n -> 0 .. 255]
    BY LenProperties, Zenon
  <2> HIDE DEF n
  <2> QED BY <2>1
<1>2. s \in Seq(Nat)
  <2>1. 0 .. 255 \subseteq Nat
    OBVIOUS
  <2> QED BY <2>1, SeqMonotonic
<1>3. PICK t : ToInt(s) = t[n] /\ t[0] = 0 /\ \A i \in 1 .. n : t[i] = 256 * t[i - 1] + s[i]
  BY <1>2, ToIntSteps
<1> HIDE DEF n
<1> DEFINE S == {m \in Nat : m <= n => t[m] \in 0 .. Pow2(8 * m) - 1}
<1>4. 0 \in S
  <2>1. 8 * 0 = 0 /\ Pow2(0) = 1
    BY PowerOfTwo
  <2> QED BY <1>3, <2>1
<1>5. ASSUME NEW m \in Nat, m \in S PROVE m + 1 \in S
  <2> SUFFICES ASSUME m + 1 <= n PROVE t[m + 1] \in 0 .. Pow2(8 * (m + 1)) - 1
    OBVIOUS
  <2> DEFINE p == Pow2(8 * m)
  <2>1. 8 * m \in Nat /\ 8 * (m + 1) = 8 * m + 8
    OBVIOUS
  <2>2. p \in Nat /\ Pow2(8 * (m + 1)) = p * 256
    <3> DEFINE e == 8 * m
    <3>1. e \in Nat /\ 8 \in Nat
      OBVIOUS
    <3> HIDE DEF e
    <3>2. Pow2(e) \in Nat /\ Pow2(e + 8) = Pow2(e) * Pow2(8)
      BY <3>1, PowerType, PowerSum
    <3> QED BY <2>1, <3>2, ByteIsEightBits DEF e
  <2>3. t[m] \in 0 .. p - 1 /\ m + 1 \in 1 .. n /\ m + 1 - 1 = m
    BY <1>1, <1>5
  <2>4. t[m + 1] = 256 * t[m] + s[m + 1] /\ s[m + 1] \in 0 .. 255
    BY <1>1, <1>3, <2>3
  <2> DEFINE a == t[m]
             c == s[m + 1]
  <2>5. p \in Nat /\ a \in 0 .. p - 1 /\ c \in 0 .. 255 /\ t[m + 1] = 256 * a + c
    BY <2>2, <2>3, <2>4
  <2> HIDE DEF p, a, c, S
  <2>6. 256 * a + c \in 0 .. p * 256 - 1
    BY <2>5
  <2> QED BY <2>2, <2>5, <2>6
<1> HIDE DEF S
<1>6. n \in S
  BY <1>1, <1>4, <1>5, SetInduction
<1> QED BY <1>1, <1>3, <1>6 DEF S, n

\* Two strings of the same length that stand for the same number are the same.
LEMMA NumberOfBytes ==
  ASSUME NEW s \in Bytes, NEW o \in Bytes, ToInt(s) = ToInt(o)
  PROVE  s = o
<1>1. N \in Nat
  BY Sizes
<1>2. /\ s \in Seq(0 .. 255) /\ Len(s) = N /\ s \in Seq(Nat)
      /\ o \in Seq(0 .. 255) /\ Len(o) = N /\ o \in Seq(Nat)
  <2>1. s \in Seq(0 .. 255) /\ Len(s) = N /\ o \in Seq(0 .. 255) /\ Len(o) = N
    BY <1>1, FunctionSequence DEF Bytes
  <2>2. 0 .. 255 \subseteq Nat
    OBVIOUS
  <2> QED BY <2>1, <2>2, SeqMonotonic
<1>3. PICK t : ToInt(s) = t[N] /\ t[0] = 0 /\ \A i \in 1 .. N : t[i] = 256 * t[i - 1] + s[i]
  <2>1. s \in Seq(Nat) /\ Len(s) = N
    BY <1>2
  <2> QED BY <2>1, ToIntSteps
<1>4. PICK u : ToInt(o) = u[N] /\ u[0] = 0 /\ \A i \in 1 .. N : u[i] = 256 * u[i - 1] + o[i]
  <2>1. o \in Seq(Nat) /\ Len(o) = N
    BY <1>2
  <2> QED BY <2>1, ToIntSteps
<1>5. \A i \in 1 .. N : s[i] \in 0 .. 255 /\ o[i] \in 0 .. 255
  BY DEF Bytes
<1>6. ASSUME NEW i \in 0 .. N PROVE t[i] \in Nat /\ u[i] \in Nat
  <2> DEFINE S == {m \in Nat : m <= N => t[m] \in Nat /\ u[m] \in Nat}
  <2>1. 0 \in S
    BY <1>3, <1>4
  <2>2. ASSUME NEW m \in Nat, m \in S PROVE m + 1 \in S
    <3> SUFFICES ASSUME m + 1 <= N PROVE t[m + 1] \in Nat /\ u[m + 1] \in Nat
      OBVIOUS
    <3>1. m + 1 \in 1 .. N /\ m + 1 - 1 = m /\ t[m] \in Nat /\ u[m] \in Nat
      BY <1>1, <2>2
    <3>2. t[m + 1] = 256 * t[m] + s[m + 1] /\ u[m + 1] = 256 * u[m] + o[m + 1]
      BY <1>3, <1>4, <3>1
    <3>3. s[m + 1] \in Nat /\ o[m + 1] \in Nat
      <4> HIDE DEF S
      <4>1. s[m + 1] \in 0 .. 255 /\ o[m + 1] \in 0 .. 255
        BY <1>5, <3>1
      <4> QED BY <4>1
    <3> DEFINE a == t[m]
               b == u[m]
               c == s[m + 1]
               d == o[m + 1]
    <3>4. a \in Nat /\ b \in Nat /\ c \in Nat /\ d \in Nat
      BY <3>1, <3>3
    <3>5. t[m + 1] = 256 * a + c /\ u[m + 1] = 256 * b + d
      BY <3>2
    <3> HIDE DEF a, b, c, d, S
    <3> QED BY <3>4, <3>5
  <2> HIDE DEF S
  <2>3. i \in S
    BY <1>1, <2>1, <2>2, SetInduction
  <2> QED BY <1>1, <2>3 DEF S
<1>7. ASSUME NEW i \in 1 .. N, t[i] = u[i] PROVE s[i] = o[i] /\ t[i - 1] = u[i - 1]
  <2>1. /\ t[i - 1] \in Nat /\ u[i - 1] \in Nat /\ s[i] \in 0 .. 255 /\ o[i] \in 0 .. 255
        /\ t[i] = 256 * t[i - 1] + s[i] /\ u[i] = 256 * u[i - 1] + o[i]
    BY <1>1, <1>3, <1>4, <1>5, <1>6
  <2> DEFINE a == t[i - 1]
             b == u[i - 1]
             c == s[i]
             d == o[i]
  <2>2. a \in Nat /\ b \in Nat /\ c \in 0 .. 255 /\ d \in 0 .. 255 /\ 256 * a + c = 256 * b + d
    BY <1>7, <2>1
  <2> HIDE DEF a, b, c, d
  <2>3. a = b /\ c = d
    BY <2>2
  <2> QED BY <2>3 DEF a, b, c, d
<1> DEFINE T == {k \in Nat : k <= N => t[N - k] = u[N - k]}
<1>8. 0 \in T
  <2>1. N - 0 = N
    BY <1>1
  <2> QED BY <1>3, <1>4, <2>1
<1>9. ASSUME NEW k \in Nat, k \in T PROVE k + 1 \in T
  <2> SUFFICES ASSUME k + 1 <= N PROVE t[N - (k + 1)] = u[N - (k + 1)]
    OBVIOUS
  <2>1. N - k \in 1 .. N /\ N - k - 1 = N - (k + 1) /\ t[N - k] = u[N - k]
    BY <1>1, <1>9
  <2> QED BY <1>7, <2>1
<1> HIDE DEF T
<1>10. ASSUME NEW i \in 1 .. N PROVE s[i] = o[i]
  <2>1. N - i \in T
    BY <1>1, <1>8, <1>9, SetInduction
  <2>2. N - i <= N /\ N - (N - i) = i
    BY <1>1
  <2>3. t[i] = u[i]
    BY <2>1, <2>2 DEF T
  <2> QED BY <1>7, <2>3
<1>11. s = [i \in 1 .. N |-> s[i]] /\ o = [i \in 1 .. N |-> o[i]]
  BY DEF Bytes
<1> QED BY <1>10, <1>11

\* A string of n bytes is known by its digits: they are all of its bits.
LEMMA DigitsTell ==
  ASSUME NEW m \in Bytes, NEW other \in Bytes,
         \A i \in 1 .. WotsLen : WotsDigits(m)[i] = WotsDigits(other)[i]
  PROVE  m = other
<1> DEFINE bits == 8 * N
           x == ToInt(m)
           y == ToInt(other)
<1>1. N \in Nat /\ LgW \in Nat /\ Len1 \in Nat /\ Len1 * LgW = bits /\ bits \in Nat
  BY Sizes, WotsSizes
<1>2. x \in 0 .. Pow2(bits) - 1 /\ y \in 0 .. Pow2(bits) - 1 /\ Len(m) = N /\ Len(other) = N
  <2>1. m \in Seq(0 .. 255) /\ Len(m) = N /\ other \in Seq(0 .. 255) /\ Len(other) = N
    BY <1>1, FunctionSequence DEF Bytes
  <2> QED BY <2>1, NumberBound
<1>3. ASSUME NEW j \in 1 .. Len1
      PROVE  (x \div Pow2(bits - j * LgW)) % Pow2(LgW) = (y \div Pow2(bits - j * LgW)) % Pow2(LgW)
  <2> DEFINE a == Base2b(m, LgW, Len1)
             b == Base2b(other, LgW, Len1)
  <2>1. a[j] = (x \div Pow2(bits - j * LgW)) % Pow2(LgW) /\ b[j] = (y \div Pow2(bits - j * LgW)) % Pow2(LgW)
    BY <1>2 DEF Base2b
  <2> HIDE DEF x, y, bits
  <2>2. ASSUME NEW s \in Bytes PROVE WotsDigits(s)[j] = Base2b(s, LgW, Len1)[j]
    BY DigitsOfString
  <2>3. j \in 1 .. WotsLen
    BY WotsSizes
  <2> QED BY <2>1, <2>2, <2>3
<1>4. x \div Pow2(bits - Len1 * LgW) <= y \div Pow2(bits - Len1 * LgW)
      /\ y \div Pow2(bits - Len1 * LgW) <= x \div Pow2(bits - Len1 * LgW)
  <2>1. \A j \in 1 .. Len1 :
          /\ (x \div Pow2(bits - j * LgW)) % Pow2(LgW) <= (y \div Pow2(bits - j * LgW)) % Pow2(LgW)
          /\ (y \div Pow2(bits - j * LgW)) % Pow2(LgW) <= (x \div Pow2(bits - j * LgW)) % Pow2(LgW)
    <3> TAKE j \in 1 .. Len1
    <3> DEFINE a == (x \div Pow2(bits - j * LgW)) % Pow2(LgW)
               b == (y \div Pow2(bits - j * LgW)) % Pow2(LgW)
    <3>1. a = b
      BY <1>3
    <3>2. a \in Nat
      <4> DEFINE d == Base2b(m, LgW, Len1)
      <4>1. d[j] = a
        BY <1>2 DEF Base2b
      <4>2. d \in [1 .. Len1 -> 0 .. W - 1]
        BY DigitsOfString
      <4> HIDE DEF d, a
      <4> QED BY <4>1, <4>2, WIsNat
    <3> HIDE DEF a, b
    <3>3. a <= b /\ b <= a
      BY <3>1, <3>2
    <3> QED BY <3>3 DEF a, b
  <2>2. Len1 * LgW <= bits
    BY <1>1
  <2> HIDE DEF bits, x, y
  <2> QED BY <1>1, <1>2, <2>1, <2>2, DigitsOrder
<1>5. x = y
  <2>1. bits - Len1 * LgW = 0
    BY <1>1
  <2>2. x \in Nat /\ y \in Nat
    <3>1. Pow2(bits) \in Nat
      BY <1>1, PowerType
    <3> HIDE DEF x, y, bits
    <3> QED BY <1>2, <3>1
  <2>3. x \div Pow2(0) = x /\ y \div Pow2(0) = y
    <3> HIDE DEF x, y
    <3> QED BY <2>2, ShiftStep
  <2> HIDE DEF x, y, bits
  <2> QED BY <1>4, <2>1, <2>2, <2>3
<1> QED BY <1>5, NumberOfBytes

-----------------------------------------------------------------------------
(* Addresses.                                                              *)
\* The words of an address.
IsAddress(adrs) == DOMAIN adrs = {"layer", "tree", "type", "pair", "height", "index"}

\* What set_type_and_clear, the key pair and the last words leave of an address.
LEMMA AddressWords ==
  ASSUME NEW adrs, IsAddress(adrs), NEW type, NEW pair, NEW height, NEW index
  PROVE  /\ IsAddress(SetType(adrs, type, pair)) /\ IsAddress(SetNode(adrs, height, index))
         /\ SetType(adrs, type, pair).type = type /\ SetType(adrs, type, pair).pair = pair
         /\ SetNode(adrs, height, index).height = height /\ SetNode(adrs, height, index).index = index
         /\ IsAddress([adrs EXCEPT !.height = height]) /\ IsAddress([adrs EXCEPT !.index = index])
         /\ [adrs EXCEPT !.height = height].type = adrs.type
         /\ [adrs EXCEPT !.index = index].type = adrs.type
         /\ [adrs EXCEPT !.index = index].index = index
BY DEF IsAddress, SetType, SetNode

\* An address of a layer has all words.
LEMMA LayerAddress ==
  ASSUME NEW layer, NEW tree
  PROVE  IsAddress(ADRS(layer, tree))
BY DEF IsAddress, ADRS

\* Hashing is free: a value tells its address and its input.
LEMMA HashFree ==
  ASSUME NEW a, NEW b, NEW x, NEW y, Hash(a, x) = Hash(b, y)
  PROVE  a = b /\ x = y
<1>1. Hash(a, x).adrs = a /\ Hash(a, x).input = x /\ Hash(b, y).adrs = b /\ Hash(b, y).input = y
  BY DEF Hash
<1> QED BY <1>1

-----------------------------------------------------------------------------
(* Chains.                                                                 *)
Step(adrs, j, value) == Hash([adrs EXCEPT !.index = j], <<value>>)

\* A chain starts with its value and steps once for every index.
LEMMA ChainSteps ==
  ASSUME NEW x, NEW i \in Nat, NEW s \in Nat, NEW adrs
  PROVE  \E f : /\ Chain(x, i, s, adrs) = f[i + s]
                /\ f[i] = x
                /\ \A j \in Nat : i <= j /\ j < i + s => f[j + 1] = Step(adrs, j, f[j])
<1> DEFINE Loop(n, f) ==
             f = [j \in i .. i + n |-> IF j = i THEN x ELSE Hash([adrs EXCEPT !.index = j - 1], <<f[j - 1]>>)]
           S == {n \in Nat : \E f : Loop(n, f)}
<1>1. 0 \in S
  <2>1. Loop(0, [j \in i .. i + 0 |-> x])
    OBVIOUS
  <2> QED BY <2>1
<1>2. ASSUME NEW n \in Nat, n \in S PROVE n + 1 \in S
  <2>1. PICK f : Loop(n, f)
    BY <1>2
  <2> DEFINE g == [j \in i .. i + (n + 1) |-> IF j = i + (n + 1) THEN Step(adrs, i + n, f[i + n]) ELSE f[j]]
  <2>2. ASSUME NEW j \in i .. i + (n + 1)
        PROVE  g[j] = IF j = i THEN x ELSE Hash([adrs EXCEPT !.index = j - 1], <<g[j - 1]>>)
    <3>1. CASE j = i + (n + 1)
      <4>1. j - 1 = i + n /\ j # i /\ i + n \in i .. i + (n + 1) /\ i + n # i + (n + 1)
        BY <3>1
      <4>2. g[j] = Step(adrs, i + n, f[i + n]) /\ g[j - 1] = f[i + n]
        BY <3>1, <4>1
      <4> QED BY <4>1, <4>2 DEF Step
    <3>2. CASE j # i + (n + 1) /\ j # i
      <4>1. j \in i .. i + n /\ j - 1 \in i .. i + (n + 1) /\ j - 1 # i + (n + 1)
        BY <3>2
      <4>2. g[j] = f[j] /\ g[j - 1] = f[j - 1]
        BY <3>2, <4>1
      <4>3. f[j] = Hash([adrs EXCEPT !.index = j - 1], <<f[j - 1]>>)
        BY <2>1, <3>2, <4>1
      <4> QED BY <3>2, <4>2, <4>3
    <3>3. CASE j = i
      BY <2>1, <3>3
    <3> QED BY <3>1, <3>2, <3>3
  <2>3. Loop(n + 1, g)
    BY <2>2
  <2>4. \E f_1 : Loop(n + 1, f_1)
    BY <2>3
  <2> HIDE DEF Loop
  <2> QED BY <2>4
<1> HIDE DEF S
<1> DEFINE t == CHOOSE f : Loop(s, f)
<1>3. Loop(s, t)
  <2>1. s \in S
    BY <1>1, <1>2, SetInduction
  <2>2. \E f : Loop(s, f)
    BY <2>1 DEF S
  <2> QED BY <2>2
<1>4. Chain(x, i, s, adrs) = t[i + s]
  BY DEF Chain
<1> HIDE DEF t
<1>5. \A j \in i .. i + s : t[j] = IF j = i THEN x ELSE Hash([adrs EXCEPT !.index = j - 1], <<t[j - 1]>>)
  BY <1>3
<1>6. ASSUME NEW j \in Nat, i <= j, j < i + s PROVE t[j + 1] = Step(adrs, j, t[j])
  <2>1. j + 1 \in i .. i + s /\ j + 1 # i /\ j + 1 - 1 = j
    BY <1>6
  <2>2. t[j + 1] = Hash([adrs EXCEPT !.index = j + 1 - 1], <<t[j + 1 - 1]>>)
    BY <1>5, <2>1
  <2> QED BY <2>1, <2>2 DEF Step
<1>7. t[i] = x
  <2>1. i \in i .. i + s
    OBVIOUS
  <2> QED BY <1>5, <2>1
<1> QED BY <1>4, <1>6, <1>7

\* A chain that is stopped and carried on from there ends where the whole chain ends:
\* what wots_pk_from_sig relies on.
LEMMA ChainCarriesOn ==
  ASSUME NEW x, NEW n \in Nat, NEW d \in 0 .. n, NEW adrs
  PROVE  Chain(Chain(x, 0, d, adrs), d, n - d, adrs) = Chain(x, 0, n, adrs)
<1>1. PICK whole : /\ Chain(x, 0, n, adrs) = whole[n]
                   /\ whole[0] = x
                   /\ \A j \in Nat : 0 <= j /\ j < n => whole[j + 1] = Step(adrs, j, whole[j])
  <2>1. 0 + n = n
    OBVIOUS
  <2> QED BY <2>1, ChainSteps
<1>2. PICK first : /\ Chain(x, 0, d, adrs) = first[d]
                   /\ first[0] = x
                   /\ \A j \in Nat : 0 <= j /\ j < d => first[j + 1] = Step(adrs, j, first[j])
  <2>1. 0 + d = d /\ d \in Nat
    OBVIOUS
  <2> QED BY <2>1, ChainSteps
<1>3. PICK second : /\ Chain(first[d], d, n - d, adrs) = second[n]
                    /\ second[d] = first[d]
                    /\ \A j \in Nat : d <= j /\ j < n => second[j + 1] = Step(adrs, j, second[j])
  <2>1. d + (n - d) = n /\ d \in Nat /\ n - d \in Nat
    OBVIOUS
  <2> QED BY <2>1, ChainSteps
<1> DEFINE S == {k \in Nat : k <= d => first[k] = whole[k]}
           T == {k \in Nat : d <= k /\ k <= n => second[k] = whole[k]}
<1>4. 0 \in S
  BY <1>1, <1>2
<1>5. ASSUME NEW k \in Nat, k \in S PROVE k + 1 \in S
  BY <1>1, <1>2, <1>5
<1> HIDE DEF S
<1>6. first[d] = whole[d]
  <2>1. Nat \subseteq S
    BY <1>4, <1>5, SetInduction
  <2> QED BY <2>1 DEF S
<1>7. 0 \in T
  BY <1>3, <1>6
<1>8. ASSUME NEW k \in Nat, k \in T PROVE k + 1 \in T
  <2> SUFFICES ASSUME d <= k + 1, k + 1 <= n PROVE second[k + 1] = whole[k + 1]
    OBVIOUS
  <2>1. CASE k + 1 = d
    BY <1>3, <1>6, <2>1
  <2>2. CASE d <= k
    BY <1>1, <1>3, <1>8, <2>2
  <2> QED BY <2>1, <2>2
<1> HIDE DEF T
<1>9. second[n] = whole[n]
  <2>1. Nat \subseteq T
    BY <1>7, <1>8, SetInduction
  <2> QED BY <2>1 DEF T
<1> QED BY <1>1, <1>2, <1>3, <1>9

\* A WOTS signature leads back to the public key it was made with.
LEMMA WotsRoundTrip ==
  ASSUME NEW m \in Bytes, NEW adrs, NEW s,
         \A i \in 1 .. WotsLen : s[i] = WotsSign(m, adrs)[i]
  PROVE  WotsPkFromSig(s, m, adrs) = WotsPkgen(adrs)
<1> DEFINE digit(i) == WotsDigits(m)[i]
<1>1. ASSUME NEW i \in 1 .. WotsLen
      PROVE  Chain(s[i], digit(i), W - 1 - digit(i), ChainAdrs(adrs, i))
               = Chain(WotsSk(adrs, i), 0, W - 1, ChainAdrs(adrs, i))
  <2>1. s[i] = Chain(WotsSk(adrs, i), 0, digit(i), ChainAdrs(adrs, i))
    BY DEF WotsSign
  <2>2. digit(i) \in 0 .. W - 1 /\ W - 1 \in Nat
    BY WotsDigitsType, WIsNat
  <2> QED BY <2>1, <2>2, ChainCarriesOn
<1>2. [i \in 1 .. WotsLen |-> Chain(s[i], digit(i), W - 1 - digit(i), ChainAdrs(adrs, i))]
        = [i \in 1 .. WotsLen |-> Chain(WotsSk(adrs, i), 0, W - 1, ChainAdrs(adrs, i))]
  BY <1>1
<1> QED BY <1>2 DEF WotsPkFromSig, WotsPkgen

\* Two chains that share their end, one the continuation of the other's beginning, were
\* stopped at the same step.
LEMMA ChainMeets ==
  ASSUME NEW x, NEW n \in Nat, NEW d \in 0 .. n, NEW e \in 0 .. n, NEW adrs, IsAddress(adrs),
         \A j, v : x # Step(adrs, j, v),
         Chain(Chain(x, 0, d, adrs), e, n - e, adrs) = Chain(x, 0, n, adrs)
  PROVE  e = d
<1>1. PICK whole : /\ Chain(x, 0, n, adrs) = whole[n]
                   /\ whole[0] = x
                   /\ \A j \in Nat : 0 <= j /\ j < n => whole[j + 1] = Step(adrs, j, whole[j])
  <2>1. 0 + n = n
    OBVIOUS
  <2> QED BY <2>1, ChainSteps
<1>2. PICK first : /\ Chain(x, 0, d, adrs) = first[d]
                   /\ first[0] = x
                   /\ \A j \in Nat : 0 <= j /\ j < d => first[j + 1] = Step(adrs, j, first[j])
  <2>1. 0 + d = d /\ d \in Nat
    OBVIOUS
  <2> QED BY <2>1, ChainSteps
<1>3. PICK second : /\ Chain(first[d], e, n - e, adrs) = second[n]
                    /\ second[e] = first[d]
                    /\ \A j \in Nat : e <= j /\ j < n => second[j + 1] = Step(adrs, j, second[j])
  <2>1. e + (n - e) = n /\ e \in Nat /\ n - e \in Nat
    OBVIOUS
  <2> QED BY <2>1, ChainSteps
<1>4. \A j, k, u, v : Step(adrs, j, u) = Step(adrs, k, v) => j = k /\ u = v
  <2> TAKE j, k, u, v
  <2> HAVE Step(adrs, j, u) = Step(adrs, k, v)
  <2>1. [adrs EXCEPT !.index = j] = [adrs EXCEPT !.index = k] /\ <<u>> = <<v>>
    BY HashFree DEF Step
  <2>2. [adrs EXCEPT !.index = j].index = j /\ [adrs EXCEPT !.index = k].index = k
    BY DEF IsAddress
  <2>3. <<u>>[1] = u /\ <<v>>[1] = v
    OBVIOUS
  <2> QED BY <2>1, <2>2, <2>3
<1> DEFINE S == {k \in Nat : k <= d => first[k] = whole[k]}
           T == {k \in Nat : k <= n - e => second[n - k] = whole[n - k]}
<1>5. first[d] = whole[d]
  <2>1. 0 \in S
    BY <1>1, <1>2
  <2>2. ASSUME NEW k \in Nat, k \in S PROVE k + 1 \in S
    BY <1>1, <1>2, <2>2
  <2> HIDE DEF S
  <2>3. d \in S
    BY <2>1, <2>2, SetInduction
  <2> QED BY <2>3 DEF S
<1>6. second[n] = whole[n]
  BY <1>1, <1>2, <1>3
<1>7. second[e] = whole[e]
  <2>1. 0 \in T
    BY <1>6
  <2>2. ASSUME NEW k \in Nat, k \in T PROVE k + 1 \in T
    <3> SUFFICES ASSUME k + 1 <= n - e PROVE second[n - (k + 1)] = whole[n - (k + 1)]
      OBVIOUS
    <3> DEFINE j == n - (k + 1)
    <3>1. j \in Nat /\ e <= j /\ 0 <= j /\ j < n /\ j + 1 = n - k /\ second[n - k] = whole[n - k]
      BY <2>2
    <3> HIDE DEF j
    <3>2. second[j + 1] = Step(adrs, j, second[j]) /\ whole[j + 1] = Step(adrs, j, whole[j])
      BY <1>1, <1>3, <3>1
    <3>3. second[j] = whole[j]
      BY <1>4, <3>1, <3>2
    <3> QED BY <3>3 DEF j
  <2> HIDE DEF T
  <2>3. n - e \in T
    BY <2>1, <2>2, SetInduction
  <2>4. n - (n - e) = e /\ n - e <= n - e
    OBVIOUS
  <2> QED BY <2>3, <2>4 DEF T
<1>8. whole[e] = whole[d]
  BY <1>3, <1>5, <1>7
<1>9. ASSUME NEW i \in 1 .. n
      PROVE  i - 1 \in Nat /\ whole[i] = Step(adrs, i - 1, whole[i - 1])
  <2>1. i - 1 \in Nat /\ 0 <= i - 1 /\ i - 1 < n /\ i - 1 + 1 = i
    OBVIOUS
  <2> QED BY <1>1, <2>1
<1>10. CASE e = 0 \/ d = 0
  <2> SUFFICES ASSUME e # d PROVE FALSE
    OBVIOUS
  <2>1. PICK i \in 1 .. n : whole[i] = x
    BY <1>1, <1>8, <1>10
  <2> QED BY <1>9, <2>1
<1>11. CASE e # 0 /\ d # 0
  <2>1. e \in 1 .. n /\ d \in 1 .. n
    BY <1>11
  <2>2. Step(adrs, e - 1, whole[e - 1]) = Step(adrs, d - 1, whole[d - 1])
    BY <1>8, <1>9, <2>1
  <2>3. e - 1 = d - 1
    BY <1>4, <2>2
  <2> QED BY <2>3
<1> QED BY <1>10, <1>11

\* A WOTS signature leads to the public key of its leaf for the value signed only.
LEMMA WotsTells ==
  ASSUME NEW m \in Bytes, NEW other \in Bytes, NEW adrs, IsAddress(adrs), adrs.type = "WOTS_HASH",
         NEW s, \A i \in 1 .. WotsLen : s[i] = WotsSign(m, adrs)[i],
         WotsPkFromSig(s, other, adrs) = WotsPkgen(adrs)
  PROVE  other = m
<1> DEFINE End(i) == Chain(s[i], WotsDigits(other)[i], W - 1 - WotsDigits(other)[i], ChainAdrs(adrs, i))
           Whole(i) == Chain(WotsSk(adrs, i), 0, W - 1, ChainAdrs(adrs, i))
<1>1. [i \in 1 .. WotsLen |-> End(i)] = [i \in 1 .. WotsLen |-> Whole(i)]
  BY HashFree DEF WotsPkFromSig, WotsPkgen
<1>2. ASSUME NEW i \in 1 .. WotsLen PROVE End(i) = Whole(i)
  <2> HIDE DEF End, Whole
  <2>1. [j \in 1 .. WotsLen |-> End(j)][i] = End(i) /\ [j \in 1 .. WotsLen |-> Whole(j)][i] = Whole(i)
    OBVIOUS
  <2> QED BY <1>1, <2>1
<1>3. ASSUME NEW i \in 1 .. WotsLen PROVE WotsDigits(m)[i] = WotsDigits(other)[i]
  <2> DEFINE d == WotsDigits(m)[i]
             e == WotsDigits(other)[i]
             c == ChainAdrs(adrs, i)
             x == WotsSk(adrs, i)
  <2>1. d \in 0 .. W - 1 /\ e \in 0 .. W - 1 /\ W - 1 \in Nat
    BY WotsDigitsType, WIsNat
  <2>2. s[i] = Chain(x, 0, d, c)
    BY DEF WotsSign
  <2>3. Chain(s[i], e, W - 1 - e, c) = Chain(x, 0, W - 1, c)
    BY <1>2
  <2>4. IsAddress(c) /\ c.type = "WOTS_HASH"
    BY AddressWords DEF ChainAdrs
  <2>5. \A j, v : x # Step(c, j, v)
    <3> SUFFICES ASSUME NEW j, NEW v, x = Step(c, j, v) PROVE FALSE
      OBVIOUS
    <3> DEFINE a == SetType(adrs, "WOTS_PRF", adrs.pair)
    <3>1. [a EXCEPT !.height = i - 1] = [c EXCEPT !.index = j]
      BY HashFree DEF WotsSk, Prf, Step
    <3>2. IsAddress(a) /\ a.type = "WOTS_PRF"
      BY DEF IsAddress, SetType
    <3> HIDE DEF a, c
    <3>3. [a EXCEPT !.height = i - 1].type = "WOTS_PRF" /\ [c EXCEPT !.index = j].type = "WOTS_HASH"
      BY <2>4, <3>2, AddressWords
    <3> QED BY <3>1, <3>3
  <2> HIDE DEF d, e, c, x
  <2>6. e = d
    BY <2>1, <2>2, <2>3, <2>4, <2>5, ChainMeets
  <2> QED BY <2>6 DEF d, e
<1> QED BY <1>3, DigitsTell

-----------------------------------------------------------------------------
(* Merkle trees.                                                           *)
Level(below, z, height, count, adrs) ==
  [i \in 0 .. count * Pow2(height - z) - 1 |->
     Hash(SetNode(adrs, z, i), <<below[2 * i], below[2 * i + 1]>>)]

\* The trees are built level by level from their leaves.
LEMMA MerkleLevels ==
  ASSUME NEW leaves, NEW height \in Nat, NEW count, NEW adrs
  PROVE  LET M == Merkle(leaves, height, count, adrs)
         IN  /\ M[0] = leaves
             /\ \A z \in Nat : z < height => M[z + 1] = Level(M[z], z + 1, height, count, adrs)
<1> DEFINE Loop(n, f) == f = [z \in 0 .. n |-> IF z = 0 THEN leaves ELSE Level(f[z - 1], z, height, count, adrs)]
           S == {n \in Nat : \E f : Loop(n, f)}
<1>1. 0 \in S
  <2>1. Loop(0, [z \in 0 .. 0 |-> leaves])
    OBVIOUS
  <2> QED BY <2>1
<1>2. ASSUME NEW n \in Nat, n \in S PROVE n + 1 \in S
  <2>1. PICK f : Loop(n, f)
    BY <1>2
  <2> DEFINE g == [z \in 0 .. n + 1 |-> IF z = n + 1 THEN Level(f[n], n + 1, height, count, adrs) ELSE f[z]]
  <2>2. \A z \in 0 .. n + 1 : g[z] = IF z = 0 THEN leaves ELSE Level(g[z - 1], z, height, count, adrs)
    BY <2>1
  <2>3. Loop(n + 1, g)
    BY <2>2
  <2>4. \E f_1 : Loop(n + 1, f_1)
    BY <2>3
  <2> HIDE DEF Loop
  <2> QED BY <2>4
<1> HIDE DEF S
<1> DEFINE t == CHOOSE f : Loop(height, f)
<1>3. Loop(height, t)
  <2>1. height \in S
    BY <1>1, <1>2, SetInduction
  <2>2. \E f : Loop(height, f)
    BY <2>1 DEF S
  <2> QED BY <2>2
<1>4. Merkle(leaves, height, count, adrs) = t
  BY DEF Merkle, Level
<1> HIDE DEF t
<1>5. \A z \in 0 .. height : t[z] = IF z = 0 THEN leaves ELSE Level(t[z - 1], z, height, count, adrs)
  BY <1>3
<1>6. ASSUME NEW z \in Nat, z < height PROVE t[z + 1] = Level(t[z], z + 1, height, count, adrs)
  <2>1. z + 1 \in 0 .. height /\ z + 1 # 0 /\ z + 1 - 1 = z
    BY <1>6
  <2> QED BY <1>5, <2>1
<1>7. t[0] = leaves
  BY <1>5
<1> QED BY <1>4, <1>6, <1>7

\* A node of a level is the hash of the two below it.
NodeHash(M, z, i, adrs) ==
  M[z + 1][i] = Hash(SetNode(adrs, z + 1, i), <<M[z][2 * i], M[z][2 * i + 1]>>)

\* So it is on every level above the leaves.
LEMMA MerkleNode ==
  ASSUME NEW leaves, NEW height \in Nat, NEW count, NEW adrs,
         NEW M, M = Merkle(leaves, height, count, adrs), NEW z \in Nat, z < height,
         NEW i \in 0 .. count * Pow2(height - (z + 1)) - 1
  PROVE  NodeHash(M, z, i, adrs)
<1>1. M[z + 1] = Level(M[z], z + 1, height, count, adrs)
  BY MerkleLevels
<1> QED BY <1>1 DEF Level, NodeHash

Arm(idx, k, value, sibling) == IF Bit(idx, k) = 0 THEN <<value, sibling>> ELSE <<sibling, value>>
Half(idx, k, i) == IF Bit(idx, k) = 0 THEN i \div 2 ELSE (i - 1) \div 2

\* A climb: where it starts, and each step up.
Climbs(index, up, idx, start, leaf, auth, adrs) ==
  /\ Climb(idx, start, leaf, auth, adrs) = up[Len(auth)]
  /\ index[0] = start /\ up[0] = leaf
  /\ \A k \in Nat : k < Len(auth) =>
       /\ index[k + 1] = Half(idx, k, index[k])
       /\ up[k + 1] = Hash(SetNode(adrs, k + 1, index[k + 1]), Arm(idx, k, up[k], auth[k + 1]))

\* What Climb computes is a climb.
LEMMA ClimbSteps ==
  ASSUME NEW idx, NEW start, NEW leaf, NEW auth, Len(auth) \in Nat, NEW adrs
  PROVE  \E index, up : Climbs(index, up, idx, start, leaf, auth, adrs)
<1> DEFINE n == Len(auth)
           ILoop(m, f) == f = [k \in 0 .. m |-> IF k = 0 THEN start ELSE Half(idx, k - 1, f[k - 1])]
           IS == {m \in Nat : \E f : ILoop(m, f)}
<1>1. 0 \in IS
  <2>1. ILoop(0, [k \in 0 .. 0 |-> start])
    OBVIOUS
  <2> QED BY <2>1
<1>2. ASSUME NEW m \in Nat, m \in IS PROVE m + 1 \in IS
  <2>1. PICK f : ILoop(m, f)
    BY <1>2
  <2> DEFINE g == [k \in 0 .. m + 1 |-> IF k = m + 1 THEN Half(idx, m, f[m]) ELSE f[k]]
  <2>2. \A k \in 0 .. m + 1 : g[k] = IF k = 0 THEN start ELSE Half(idx, k - 1, g[k - 1])
    BY <2>1
  <2>3. ILoop(m + 1, g)
    BY <2>2
  <2>4. \E f_1 : ILoop(m + 1, f_1)
    BY <2>3
  <2> HIDE DEF ILoop
  <2> QED BY <2>4
<1> HIDE DEF IS
<1> DEFINE index == CHOOSE f : ILoop(n, f)
<1>3. ILoop(n, index)
  <2>1. n \in IS
    BY <1>1, <1>2, SetInduction
  <2>2. \E f : ILoop(n, f)
    BY <2>1 DEF IS
  <2> QED BY <2>2
<1> HIDE DEF index
<1>4. \A k \in 0 .. n : index[k] = IF k = 0 THEN start ELSE Half(idx, k - 1, index[k - 1])
  BY <1>3
<1> DEFINE ULoop(m, f) == f = [k \in 0 .. m |-> IF k = 0 THEN leaf
                               ELSE Hash(SetNode(adrs, k, index[k]), Arm(idx, k - 1, f[k - 1], auth[k]))]
           US == {m \in Nat : \E f : ULoop(m, f)}
<1>5. 0 \in US
  <2>1. ULoop(0, [k \in 0 .. 0 |-> leaf])
    OBVIOUS
  <2> QED BY <2>1
<1>6. ASSUME NEW m \in Nat, m \in US PROVE m + 1 \in US
  <2>1. PICK f : ULoop(m, f)
    BY <1>6
  <2> DEFINE g == [k \in 0 .. m + 1 |-> IF k = m + 1
                     THEN Hash(SetNode(adrs, m + 1, index[m + 1]), Arm(idx, m, f[m], auth[m + 1]))
                     ELSE f[k]]
  <2>2. \A k \in 0 .. m + 1 : g[k] = IF k = 0 THEN leaf
                               ELSE Hash(SetNode(adrs, k, index[k]), Arm(idx, k - 1, g[k - 1], auth[k]))
    BY <2>1
  <2>3. ULoop(m + 1, g)
    BY <2>2
  <2>4. \E f_1 : ULoop(m + 1, f_1)
    BY <2>3
  <2> HIDE DEF ULoop
  <2> QED BY <2>4
<1> HIDE DEF US
<1> DEFINE up == CHOOSE f : ULoop(n, f)
<1>7. ULoop(n, up)
  <2>1. n \in US
    BY <1>5, <1>6, SetInduction
  <2>2. \E f : ULoop(n, f)
    BY <2>1 DEF US
  <2> QED BY <2>2
<1>8. Climb(idx, start, leaf, auth, adrs) = up[n]
  BY DEF Climb, index, Half, Arm
<1> HIDE DEF up
<1>9. \A k \in 0 .. n : up[k] = IF k = 0 THEN leaf
                               ELSE Hash(SetNode(adrs, k, index[k]), Arm(idx, k - 1, up[k - 1], auth[k]))
  BY <1>7
<1>10. ASSUME NEW k \in Nat, k < n
       PROVE  /\ index[k + 1] = Half(idx, k, index[k])
              /\ up[k + 1] = Hash(SetNode(adrs, k + 1, index[k + 1]), Arm(idx, k, up[k], auth[k + 1]))
  <2>1. k + 1 \in 0 .. n /\ k + 1 # 0 /\ k + 1 - 1 = k
    BY <1>10
  <2> QED BY <1>4, <1>9, <2>1
<1>11. index[0] = start /\ up[0] = leaf
  BY <1>4, <1>9
<1> QED BY <1>8, <1>10, <1>11 DEF Climbs

\* The position a climb reaches on level k, from leaf x of tree b: one step up halves it.
LEMMA ClimbPosition ==
  ASSUME NEW h \in Nat, NEW x \in 0 .. Pow2(h) - 1, NEW b \in Nat, NEW k \in Nat, k < h
  PROVE  LET q == x \div Pow2(k)
             i == b * Pow2(h - (k + 1)) + x \div Pow2(k + 1)
             y == b * Pow2(h - k) + q
         IN  /\ Half(x, k, y) = i
             /\ Bit(x, k) = 0 => y = 2 * i /\ b * Pow2(h - k) + Sibling(x, k) = 2 * i + 1
             /\ Bit(x, k) # 0 => y = 2 * i + 1 /\ b * Pow2(h - k) + Sibling(x, k) = 2 * i
             /\ i \in Nat
             /\ \A count \in Nat : b < count => i \in 0 .. count * Pow2(h - (k + 1)) - 1
<1> DEFINE q == x \div Pow2(k)
           r == x \div Pow2(k + 1)
           P == Pow2(h - (k + 1))
           bp == b * P
<1>1. x \in Nat /\ h - (k + 1) \in Nat /\ k + 1 \in Nat /\ P \in Nat /\ P > 0
  <2>1. Pow2(h) \in Nat
    BY PowerType
  <2>2. h - (k + 1) \in Nat
    OBVIOUS
  <2> QED BY <2>1, <2>2, PowerType
<1>2. q \in Nat /\ r = q \div 2
  BY <1>1, ShiftStep
<1>3. r \in 0 .. P - 1
  <2>1. k + 1 + (h - (k + 1)) = h
    OBVIOUS
  <2> QED BY <1>1, <2>1, ShiftRange
<1>4. Pow2(h - k) = 2 * P
  <2>1. h - k = h - (k + 1) + 1
    OBVIOUS
  <2> QED BY <1>1, <2>1, PowerOfTwo
<1>5. Bit(x, k) = q % 2 /\ Sibling(x, k) = IF q % 2 = 0 THEN q + 1 ELSE q - 1
  BY DEF Bit, Sibling
<1>6. bp \in Nat /\ b * Pow2(h - k) = 2 * bp
  <2> HIDE DEF P
  <2>1. b * (2 * P) = 2 * (b * P)
    BY <1>1
  <2>2. b * P \in Nat
    BY <1>1
  <2> QED BY <1>4, <2>1, <2>2 DEF bp
<1>7. ASSUME NEW count \in Nat, b < count PROVE bp + r \in 0 .. count * P - 1
  <2> HIDE DEF P, r
  <2>1. (b + 1) * P <= count * P
    BY <1>1, <1>7, TimesMonotone
  <2>2. (b + 1) * P = b * P + P
    BY <1>1
  <2>3. count * P \in Nat /\ bp = b * P
    BY <1>1
  <2> HIDE DEF bp
  <2> QED BY <1>1, <1>3, <1>6, <2>1, <2>2, <2>3
<1> HIDE DEF q, r, P, bp
<1>8. Half(x, k, 2 * bp + q) = bp + r
  BY <1>2, <1>5, <1>6 DEF Half
<1>9. /\ Bit(x, k) = 0 => 2 * bp + q = 2 * (bp + r) /\ 2 * bp + Sibling(x, k) = 2 * (bp + r) + 1
      /\ Bit(x, k) # 0 => 2 * bp + q = 2 * (bp + r) + 1 /\ 2 * bp + Sibling(x, k) = 2 * (bp + r)
  BY <1>2, <1>5, <1>6
<1>10. bp + r \in Nat
  BY <1>1, <1>3, <1>6
<1> QED BY <1>6, <1>7, <1>8, <1>9, <1>10 DEF q, r, P, bp

\* auth holds the nodes of M beside the path of leaf x of tree b.
Beside(auth, M, h, b, x) ==
  /\ Len(auth) = h
  /\ \A j \in 1 .. h : auth[j] = M[j - 1][b * Pow2(h - (j - 1)) + Sibling(x, j - 1)]

\* The nodes beside the path of leaf x of tree b lead from the leaf to the root of the
\* tree, both in XMSS and in FORS, whose trees stand side by side.
LEMMA ClimbReachesRoot ==
  ASSUME NEW leaves, NEW h \in Nat, NEW count \in Nat, NEW b \in 0 .. count - 1, NEW adrs,
         NEW x \in 0 .. Pow2(h) - 1, NEW M, M = Merkle(leaves, h, count, adrs),
         NEW auth, Beside(auth, M, h, b, x),
         NEW start, start = b * Pow2(h) + x
  PROVE  Climb(x, start, leaves[start], auth, adrs) = M[h][b]
<1>1. PICK index, up :
           /\ Climb(x, start, leaves[start], auth, adrs) = up[h]
           /\ index[0] = start /\ up[0] = leaves[start]
           /\ \A k \in Nat : k < h =>
                /\ index[k + 1] = Half(x, k, index[k])
                /\ up[k + 1] = Hash(SetNode(adrs, k + 1, index[k + 1]), Arm(x, k, up[k], auth[k + 1]))
  <2>1. Len(auth) = h /\ Len(auth) \in Nat
    BY DEF Beside
  <2>2. PICK index, up : Climbs(index, up, x, start, leaves[start], auth, adrs)
    BY <2>1, ClimbSteps
  <2> QED BY <2>1, <2>2 DEF Climbs
<1> DEFINE pos(k) == b * Pow2(h - k) + x \div Pow2(k)
           S == {k \in Nat : k <= h => index[k] = pos(k) /\ up[k] = M[k][pos(k)]}
<1>2. M[0] = leaves
  BY MerkleLevels
<1>3. x \in Nat /\ b \in Nat /\ b < count
  <2>1. Pow2(h) \in Nat
    BY PowerType
  <2> QED BY <2>1
<1>4. 0 \in S
  <2>1. pos(0) = start
    <3>1. h - 0 = h
      OBVIOUS
    <3> QED BY <1>3, <3>1, ShiftStep
  <2> QED BY <1>1, <1>2, <2>1
<1>5. ASSUME NEW k \in Nat, k \in S PROVE k + 1 \in S
  <2> SUFFICES ASSUME k + 1 <= h PROVE index[k + 1] = pos(k + 1) /\ up[k + 1] = M[k + 1][pos(k + 1)]
    OBVIOUS
  <2>1. k < h /\ index[k] = pos(k) /\ up[k] = M[k][pos(k)]
    BY <1>5
  <2> DEFINE beside == b * Pow2(h - k) + Sibling(x, k)
  <2>2. /\ Half(x, k, pos(k)) = pos(k + 1)
        /\ Bit(x, k) = 0 => pos(k) = 2 * pos(k + 1) /\ beside = 2 * pos(k + 1) + 1
        /\ Bit(x, k) # 0 => pos(k) = 2 * pos(k + 1) + 1 /\ beside = 2 * pos(k + 1)
        /\ pos(k + 1) \in 0 .. count * Pow2(h - (k + 1)) - 1
    BY <1>3, <2>1, ClimbPosition
  <2>3. auth[k + 1] = M[k][beside]
    <3>1. k + 1 \in 1 .. h /\ k + 1 - 1 = k
      BY <2>1
    <3> QED BY <3>1 DEF Beside
  <2> HIDE DEF pos, beside
  <2>4. M[k + 1][pos(k + 1)]
          = Hash(SetNode(adrs, k + 1, pos(k + 1)), <<M[k][2 * pos(k + 1)], M[k][2 * pos(k + 1) + 1]>>)
    <3> DEFINE i == pos(k + 1)
    <3>1. i \in 0 .. count * Pow2(h - (k + 1)) - 1
      BY <2>2
    <3> HIDE DEF i
    <3>2. NodeHash(M, k, i, adrs)
      BY <2>1, <3>1, MerkleNode
    <3> QED BY <3>2 DEF i, NodeHash
  <2>5. index[k + 1] = pos(k + 1)
    BY <1>1, <2>1, <2>2
  <2>6. up[k + 1] = Hash(SetNode(adrs, k + 1, pos(k + 1)), Arm(x, k, M[k][pos(k)], M[k][beside]))
    BY <1>1, <2>1, <2>3, <2>5
  <2>7. Arm(x, k, M[k][pos(k)], M[k][beside]) = <<M[k][2 * pos(k + 1)], M[k][2 * pos(k + 1) + 1]>>
    BY <2>2 DEF Arm
  <2> QED BY <2>4, <2>5, <2>6, <2>7
<1> HIDE DEF S
<1>6. h \in S
  BY <1>4, <1>5, SetInduction
<1>7. up[h] = M[h][pos(h)]
  BY <1>6 DEF S
<1>8. pos(h) = b
  <2>1. x \div Pow2(h) = 0
    <3>1. Pow2(0) = 1 /\ h + 0 = h
      BY PowerOfTwo
    <3>2. x \div Pow2(h) \in 0 .. 0
      BY <3>1, ShiftRange
    <3> QED BY <3>2
  <2>2. h - h = 0 /\ Pow2(0) = 1
    BY PowerOfTwo
  <2> QED BY <1>3, <2>1, <2>2
<1> QED BY <1>1, <1>7, <1>8

\* The first n leaves all differ.
Distinct(leaves, n) == \A i, j \in 0 .. n - 1 : i # j => leaves[i] # leaves[j]

\* Two nodes next to one another on a level of a tree are different values.
Apart(M, j, i) == M[j][2 * i] # M[j][2 * i + 1]

\* Nodes above the leaves have addresses of their own, and leaves are given as different.
LEMMA NodesApart ==
  ASSUME NEW leaves, NEW h \in Nat, NEW count \in Nat, NEW adrs, IsAddress(adrs),
         NEW M, M = Merkle(leaves, h, count, adrs),
         Distinct(leaves, count * Pow2(h)),
         NEW j \in Nat, j < h, NEW i \in 0 .. count * Pow2(h - (j + 1)) - 1
  PROVE  Apart(M, j, i)
<1> DEFINE P == Pow2(h - (j + 1))
<1>1. P \in Nat /\ Pow2(h - j) = 2 * P
  <2>1. h - (j + 1) \in Nat /\ h - j = h - (j + 1) + 1
    OBVIOUS
  <2> QED BY <2>1, PowerType, PowerOfTwo
<1>2. i \in Nat /\ 2 * i \in 0 .. count * Pow2(h - j) - 1 /\ 2 * i + 1 \in 0 .. count * Pow2(h - j) - 1
      /\ 2 * i # 2 * i + 1
  <2> HIDE DEF P
  <2>1. count * (2 * P) = 2 * (count * P) /\ count * P \in Nat
    BY <1>1
  <2> DEFINE c == count * P
  <2>2. i \in 0 .. c - 1 /\ c \in Nat /\ count * Pow2(h - j) = 2 * c
    BY <1>1, <2>1 DEF P
  <2> HIDE DEF c
  <2> QED BY <2>2
<1>3. CASE j = 0
  <2>1. M[0] = leaves
    BY MerkleLevels
  <2>2. h - 0 = h
    OBVIOUS
  <2>3. 2 * i \in 0 .. count * Pow2(h) - 1 /\ 2 * i + 1 \in 0 .. count * Pow2(h) - 1
    BY <1>2, <1>3, <2>2
  <2>4. leaves[2 * i] # leaves[2 * i + 1]
    BY <1>2, <2>3 DEF Distinct
  <2> QED BY <1>3, <2>1, <2>4 DEF Apart
<1>4. CASE j # 0
  <2> DEFINE z == j - 1
  <2>1. z \in Nat /\ z < h /\ z + 1 = j
    BY <1>4
  <2>2. ASSUME NEW k \in 0 .. count * Pow2(h - j) - 1 PROVE \E v : M[j][k] = Hash(SetNode(adrs, j, k), v)
    <3> HIDE DEF z
    <3>1. k \in 0 .. count * Pow2(h - (z + 1)) - 1
      BY <2>1
    <3>2. z \in Nat /\ z < h
      BY <2>1
    <3> HIDE DEF P
    <3>3. NodeHash(M, z, k, adrs)
      BY <3>1, <3>2, MerkleNode
    <3> QED BY <2>1, <3>3 DEF NodeHash
  <2>3. SUFFICES ASSUME M[j][2 * i] = M[j][2 * i + 1] PROVE FALSE
    BY DEF Apart
  <2> DEFINE a == 2 * i
             b == 2 * i + 1
  <2>4. PICK v : M[j][a] = Hash(SetNode(adrs, j, a), v)
    BY <1>2, <2>2
  <2>5. PICK w : M[j][b] = Hash(SetNode(adrs, j, b), w)
    BY <1>2, <2>2
  <2>6. a # b /\ M[j][a] = M[j][b]
    BY <1>2, <2>3
  <2> HIDE DEF a, b
  <2>7. SetNode(adrs, j, a) = SetNode(adrs, j, b)
    <3> DEFINE c == SetNode(adrs, j, a)
               d == SetNode(adrs, j, b)
    <3>1. Hash(c, v) = Hash(d, w)
      BY <2>4, <2>5, <2>6
    <3> HIDE DEF c, d
    <3>2. c = d
      BY <3>1, HashFree
    <3> QED BY <3>2 DEF c, d
  <2>8. SetNode(adrs, j, a).index = a /\ SetNode(adrs, j, b).index = b
    BY DEF IsAddress, SetNode
  <2> QED BY <2>6, <2>7, <2>8
<1> QED BY <1>3, <1>4

\* A bit is what a number loses when it is shifted on by one.
LEMMA BitsTell ==
  ASSUME NEW x \in Nat, NEW y \in Nat, NEW j \in Nat,
         x \div Pow2(j + 1) = y \div Pow2(j + 1), Bit(x, j) = 0 <=> Bit(y, j) = 0
  PROVE  x \div Pow2(j) = y \div Pow2(j)
<1> DEFINE p == x \div Pow2(j)
           q == y \div Pow2(j)
<1>1. p \in Nat /\ q \in Nat /\ p \div 2 = q \div 2
  BY ShiftStep
<1>2. p % 2 = 0 <=> q % 2 = 0
  BY DEF Bit
<1> HIDE DEF p, q
<1>3. p = q
  BY <1>1, <1>2
<1> QED BY <1>3 DEF p, q

\* A climb from leaf y along the nodes beside the path of leaf x, both of tree b, ends at
\* the root of that tree.
EndsAtRoot(leaves, h, count, b, adrs, M, auth, x, y, leaf, start) ==
  /\ h \in Nat /\ count \in Nat /\ b \in 0 .. count - 1
  /\ x \in 0 .. Pow2(h) - 1 /\ y \in 0 .. Pow2(h) - 1
  /\ M = Merkle(leaves, h, count, adrs) /\ Distinct(leaves, count * Pow2(h))
  /\ Beside(auth, M, h, b, x)
  /\ start = b * Pow2(h) + y /\ Climb(y, start, leaf, auth, adrs) = M[h][b]

\* The nodes beside the path of one leaf lead from no other leaf to the root, and from no
\* other value.
LEMMA ClimbTells ==
  ASSUME NEW leaves, NEW h, NEW count, NEW b, NEW adrs, NEW M, NEW auth, NEW x, NEW y, NEW leaf,
         NEW start, IsAddress(adrs),
         EndsAtRoot(leaves, h, count, b, adrs, M, auth, x, y, leaf, start)
  PROVE  y = x /\ leaf = leaves[start]
<1> SUFFICES ASSUME h \in Nat, count \in Nat, b \in 0 .. count - 1,
                    x \in 0 .. Pow2(h) - 1, y \in 0 .. Pow2(h) - 1,
                    M = Merkle(leaves, h, count, adrs), Distinct(leaves, count * Pow2(h)),
                    Beside(auth, M, h, b, x),
                    start = b * Pow2(h) + y, Climb(y, start, leaf, auth, adrs) = M[h][b]
             PROVE  y = x /\ leaf = leaves[start]
  BY DEF EndsAtRoot
<1>1. PICK index, up :
           /\ Climb(y, start, leaf, auth, adrs) = up[h]
           /\ index[0] = start /\ up[0] = leaf
           /\ \A k \in Nat : k < h =>
                /\ index[k + 1] = Half(y, k, index[k])
                /\ up[k + 1] = Hash(SetNode(adrs, k + 1, index[k + 1]), Arm(y, k, up[k], auth[k + 1]))
  <2>1. Len(auth) = h /\ Len(auth) \in Nat
    BY DEF Beside
  <2>2. PICK index, up : Climbs(index, up, y, start, leaf, auth, adrs)
    BY <2>1, ClimbSteps
  <2> QED BY <2>1, <2>2 DEF Climbs
<1> DEFINE pos(k) == b * Pow2(h - k) + x \div Pow2(k)
           T == {k \in Nat : k <= h => /\ x \div Pow2(h - k) = y \div Pow2(h - k)
                                       /\ up[h - k] = M[h - k][pos(h - k)]}
<1>2. M[0] = leaves
  BY MerkleLevels
<1>3. x \in Nat /\ y \in Nat /\ b \in Nat /\ b < count
  <2>1. Pow2(h) \in Nat
    BY PowerType
  <2> QED BY <2>1
<1>4. 0 \in T
  <2>1. x \div Pow2(h) = 0 /\ y \div Pow2(h) = 0
    BY NoBitsBeyond
  <2>2. h - 0 = h /\ h - h = 0 /\ Pow2(0) = 1
    BY PowerOfTwo
  <2>3. pos(h) = b
    BY <1>3, <2>1, <2>2
  <2> QED BY <1>1, <2>1, <2>2, <2>3
<1>5. ASSUME NEW k \in Nat, k \in T PROVE k + 1 \in T
  <2> DEFINE j == h - (k + 1)
  <2> SUFFICES ASSUME k + 1 <= h
               PROVE  x \div Pow2(j) = y \div Pow2(j) /\ up[j] = M[j][pos(j)]
    OBVIOUS
  <2>1. /\ j \in Nat /\ j < h /\ h - k = j + 1
        /\ x \div Pow2(j + 1) = y \div Pow2(j + 1) /\ up[j + 1] = M[j + 1][pos(j + 1)]
    <3>1. h - k = j + 1 /\ j \in Nat /\ j < h /\ k <= h
      OBVIOUS
    <3>2. x \div Pow2(h - k) = y \div Pow2(h - k) /\ up[h - k] = M[h - k][pos(h - k)]
      BY <1>5, <3>1
    <3> HIDE DEF j, pos
    <3> QED BY <3>1, <3>2
  <2> HIDE DEF j, T
  <2> DEFINE beside == b * Pow2(h - j) + Sibling(x, j)
             i == pos(j + 1)
  <2>2. /\ Bit(x, j) = 0 => pos(j) = 2 * i /\ beside = 2 * i + 1
        /\ Bit(x, j) # 0 => pos(j) = 2 * i + 1 /\ beside = 2 * i
        /\ i \in 0 .. count * Pow2(h - (j + 1)) - 1
    BY <1>3, <2>1, ClimbPosition
  <2>3. auth[j + 1] = M[j][beside]
    <3>1. j + 1 \in 1 .. h /\ j + 1 - 1 = j
      BY <2>1
    <3> DEFINE n == j + 1
    <3>2. n \in 1 .. h /\ n - 1 = j
      BY <2>1, <3>1
    <3> HIDE DEF n, pos, beside
    <3>3. auth[n] = M[n - 1][b * Pow2(h - (n - 1)) + Sibling(x, n - 1)]
      BY <3>2 DEF Beside
    <3> QED BY <3>2, <3>3 DEF n, beside
  <2> HIDE DEF pos, beside
  <2> DEFINE l == M[j][2 * i]
             r == M[j][2 * i + 1]
  <2>4. M[j + 1][i] = Hash(SetNode(adrs, j + 1, i), <<l, r>>)
    <3> HIDE DEF i
    <3>1. NodeHash(M, j, i, adrs)
      BY <2>1, <2>2, MerkleNode
    <3> QED BY <3>1 DEF NodeHash
  <2>5. l # r
    <3> HIDE DEF i
    <3>1. Apart(M, j, i)
      BY <2>1, <2>2, NodesApart
    <3> QED BY <3>1 DEF Apart
  <2>6. Arm(y, j, up[j], auth[j + 1]) = <<l, r>>
    <3>1. up[j + 1] = Hash(SetNode(adrs, j + 1, index[j + 1]), Arm(y, j, up[j], auth[j + 1]))
      BY <1>1, <2>1
    <3> HIDE DEF i, l, r
    <3>2. up[j + 1] = M[j + 1][i]
      BY <2>1 DEF i
    <3> QED BY <2>4, <3>1, <3>2, HashFree
  <2>7. IF Bit(y, j) = 0 THEN up[j] = l /\ auth[j + 1] = r ELSE auth[j + 1] = l /\ up[j] = r
    <3> HIDE DEF i, l, r
    <3>1. \A u, v : <<u, v>>[1] = u /\ <<u, v>>[2] = v
      OBVIOUS
    <3> QED BY <2>6, <3>1 DEF Arm
  <2>8. Bit(x, j) = 0 => auth[j + 1] = r /\ M[j][pos(j)] = l
    BY <2>2, <2>3
  <2>9. Bit(x, j) # 0 => auth[j + 1] = l /\ M[j][pos(j)] = r
    BY <2>2, <2>3
  <2> HIDE DEF l, r, i
  <2>10. (Bit(x, j) = 0 <=> Bit(y, j) = 0) /\ up[j] = M[j][pos(j)]
    BY <2>5, <2>7, <2>8, <2>9
  <2>11. x \div Pow2(j) = y \div Pow2(j)
    BY <1>3, <2>1, <2>10, BitsTell
  <2> QED BY <2>10, <2>11
<1> HIDE DEF T
<1>6. h \in T
  BY <1>4, <1>5, SetInduction
<1>7. x \div Pow2(0) = y \div Pow2(0) /\ up[0] = M[0][pos(0)]
  <2>1. h - h = 0 /\ h <= h
    OBVIOUS
  <2> HIDE DEF pos
  <2> QED BY <1>6, <2>1 DEF T
<1>8. x \div Pow2(0) = x /\ y \div Pow2(0) = y
  BY <1>3, ShiftStep
<1>9. y = x
  BY <1>7, <1>8
<1>10. pos(0) = start
  <2>1. h - 0 = h
    OBVIOUS
  <2> QED BY <1>8, <1>9, <2>1
<1> QED BY <1>1, <1>2, <1>7, <1>9, <1>10

-----------------------------------------------------------------------------
(* XMSS signatures.                                                        *)
LEMMA Slice ==
  ASSUME NEW S, NEW s \in Seq(S), NEW a \in Nat, NEW n \in Nat, a + n <= Len(s)
  PROVE  /\ SubSeq(s, a + 1, a + n) \in Seq(S)
         /\ Len(SubSeq(s, a + 1, a + n)) = n
         /\ \A i \in 1 .. n : SubSeq(s, a + 1, a + n)[i] = s[a + i]
<1>1. a + 1 \in 1 .. Len(s) + 1 /\ a + n \in a .. Len(s)
  OBVIOUS
<1>2. /\ SubSeq(s, a + 1, a + n) \in Seq(S)
      /\ Len(SubSeq(s, a + 1, a + n)) = IF a + 1 <= a + n THEN a + n - (a + 1) + 1 ELSE 0
      /\ \A i \in 1 .. a + n - (a + 1) + 1 : SubSeq(s, a + 1, a + n)[i] = s[a + 1 + i - 1]
  BY <1>1, SubSeqProperties, SMTT(30)
<1>3. a + n - (a + 1) + 1 = n /\ \A i \in 1 .. n : a + 1 + i - 1 = a + i
  OBVIOUS
<1>4. ASSUME NEW i \in 1 .. n PROVE SubSeq(s, a + 1, a + n)[i] = s[a + i]
  <2>1. SubSeq(s, a + 1, a + n)[i] = s[a + 1 + i - 1]
    BY <1>2, <1>3
  <2> QED BY <1>3, <2>1
<1> QED BY <1>2, <1>3, <1>4

XmssTree(adrs) ==
  Merkle([leaf \in 0 .. Pow2(HP) - 1 |-> WotsPkgen(SetType(adrs, "WOTS_HASH", leaf))],
         HP, 1, SetType(adrs, "TREE", 0))

\* s is, value by value, what xmss_sign makes.
XmssSigned(s, m, idx, adrs) ==
  /\ \A i \in 1 .. WotsLen : s[i] = WotsSign(m, SetType(adrs, "WOTS_HASH", idx))[i]
  /\ \A j \in 1 .. HP : s[WotsLen + j] = XmssNode(Sibling(idx, j - 1), j - 1, adrs)

\* The signature of xmss_sign: the chains of the leaf, then the path.
LEMMA XmssSignParts ==
  ASSUME NEW m, NEW idx, NEW adrs
  PROVE  /\ XmssSigned(XmssSign(m, idx, adrs), m, idx, adrs)
         /\ Len(XmssSign(m, idx, adrs)) = WotsLen + HP
         /\ \E S : XmssSign(m, idx, adrs) \in Seq(S)
<1> DEFINE wots_sig == WotsSign(m, SetType(adrs, "WOTS_HASH", idx))
           auth     == [j \in 1 .. HP |-> XmssNode(Sibling(idx, j - 1), j - 1, adrs)]
           S        == {wots_sig[i] : i \in 1 .. WotsLen} \cup {auth[j] : j \in 1 .. HP}
<1>1. wots_sig \in [1 .. WotsLen -> S]
  BY DEF WotsSign
<1>2. auth \in [1 .. HP -> S]
  OBVIOUS
<1>3. XmssSign(m, idx, adrs) = wots_sig \o auth
  BY DEF XmssSign
<1>4. \A j \in 1 .. HP : auth[j] = XmssNode(Sibling(idx, j - 1), j - 1, adrs)
  OBVIOUS
<1> HIDE DEF auth, S
<1>5. WotsLen \in Nat /\ HP \in Nat
  BY WotsSizes, Sizes
<1> HIDE DEF wots_sig
<1>6. \A m_1, n \in Nat : \A s \in [1 .. m_1 -> S], t \in [1 .. n -> S] :
        /\ s \o t \in Seq(S) /\ Len(s \o t) = m_1 + n
        /\ \A i \in 1 .. m_1 : (s \o t)[i] = s[i]
        /\ \A i \in 1 .. n : (s \o t)[m_1 + i] = t[i]
  BY Joined
<1>7. /\ wots_sig \o auth \in Seq(S) /\ Len(wots_sig \o auth) = WotsLen + HP
      /\ \A i \in 1 .. WotsLen : (wots_sig \o auth)[i] = wots_sig[i]
      /\ \A i \in 1 .. HP : (wots_sig \o auth)[WotsLen + i] = auth[i]
  BY <1>1, <1>2, <1>5, <1>6, Zenon
<1> QED BY <1>3, <1>4, <1>7 DEF XmssSigned, wots_sig

\* The way up from the signature of xmss_sign, cut apart again.
LEMMA XmssParts ==
  ASSUME NEW m, NEW idx \in 0 .. Pow2(HP) - 1, NEW adrs,
         NEW S, NEW part \in Seq(S), Len(part) = WotsLen + HP, XmssSigned(part, m, idx, adrs)
  PROVE  LET wots_sig == SubSeq(part, 1, WotsLen)
             auth     == SubSeq(part, WotsLen + 1, Len(part))
         IN  /\ \A i \in 1 .. WotsLen : wots_sig[i] = WotsSign(m, SetType(adrs, "WOTS_HASH", idx))[i]
             /\ Beside(auth, XmssTree(adrs), HP, 0, idx)
<1> DEFINE wots_sig == SubSeq(part, 1, WotsLen)
           auth     == SubSeq(part, WotsLen + 1, Len(part))
           M        == XmssTree(adrs)
<1>1. WotsLen \in Nat /\ HP \in Nat
  BY WotsSizes, Sizes
<1>2. \A i \in 1 .. WotsLen : wots_sig[i] = part[i]
  <2>1. 0 + WotsLen <= Len(part) /\ 0 + WotsLen = WotsLen /\ 0 + 1 = 1
    BY <1>1
  <2>2. \A i \in 1 .. WotsLen : SubSeq(part, 0 + 1, 0 + WotsLen)[i] = part[0 + i]
    BY <1>1, <2>1, Slice
  <2>3. \A i \in 1 .. WotsLen : 0 + i = i
    OBVIOUS
  <2> QED BY <2>1, <2>2, <2>3
<1>3. Len(auth) = HP /\ \A j \in 1 .. HP : auth[j] = part[WotsLen + j]
  BY <1>1, Slice
<1>4. \A i \in 1 .. WotsLen : wots_sig[i] = WotsSign(m, SetType(adrs, "WOTS_HASH", idx))[i]
  BY <1>2 DEF XmssSigned
<1> HIDE DEF auth, wots_sig
<1>5. ASSUME NEW j \in 1 .. HP PROVE auth[j] = M[j - 1][0 * Pow2(HP - (j - 1)) + Sibling(idx, j - 1)]
  <2>1. auth[j] = M[j - 1][Sibling(idx, j - 1)]
    BY <1>3 DEF XmssSigned, XmssNode, XmssTree
  <2>2. 0 * Pow2(HP - (j - 1)) + Sibling(idx, j - 1) = Sibling(idx, j - 1)
    <3>1. HP - (j - 1) \in Nat /\ j - 1 \in Nat /\ idx \in Nat
      BY <1>1
    <3>2. Pow2(HP - (j - 1)) \in Nat /\ idx \div Pow2(j - 1) \in Nat
      BY <3>1, PowerType, ShiftStep
    <3> QED BY <3>2 DEF Sibling
  <2> QED BY <2>1, <2>2
<1>6. Beside(auth, M, HP, 0, idx)
  BY <1>3, <1>5 DEF Beside
<1> QED BY <1>4, <1>6 DEF wots_sig, auth

\* What xmss_sign makes leads xmss_pk_from_sig to the root of the tree, for every leaf
\* and every value signed.
LEMMA XmssRoundTrip ==
  ASSUME NEW m \in Bytes, NEW idx \in 0 .. Pow2(HP) - 1, NEW adrs,
         NEW S, NEW part \in Seq(S), Len(part) = WotsLen + HP, XmssSigned(part, m, idx, adrs)
  PROVE  XmssPkFromSig(idx, part, m, adrs) = XmssNode(0, HP, adrs)
<1> DEFINE wots_sig == SubSeq(part, 1, WotsLen)
           auth     == SubSeq(part, WotsLen + 1, Len(part))
           leaves   == [leaf \in 0 .. Pow2(HP) - 1 |-> WotsPkgen(SetType(adrs, "WOTS_HASH", leaf))]
           M        == XmssTree(adrs)
<1>1. HP \in Nat
  BY Sizes
<1>2. /\ \A i \in 1 .. WotsLen : wots_sig[i] = WotsSign(m, SetType(adrs, "WOTS_HASH", idx))[i]
      /\ Beside(auth, M, HP, 0, idx)
  BY XmssParts
<1> HIDE DEF auth, wots_sig
<1>3. WotsPkFromSig(wots_sig, m, SetType(adrs, "WOTS_HASH", idx)) = leaves[idx]
  <2>1. WotsPkFromSig(wots_sig, m, SetType(adrs, "WOTS_HASH", idx))
          = WotsPkgen(SetType(adrs, "WOTS_HASH", idx))
    BY <1>2, WotsRoundTrip
  <2> QED BY <2>1
<1>4. idx = 0 * Pow2(HP) + idx
  BY <1>1, PowerType
<1>5. M = Merkle(leaves, HP, 1, SetType(adrs, "TREE", 0))
  BY DEF XmssTree
<1> HIDE DEF M, leaves
<1>6. Climb(idx, idx, leaves[idx], auth, SetType(adrs, "TREE", 0)) = M[HP][0]
  <2>1. 0 \in 0 .. 1 - 1 /\ 1 \in Nat
    OBVIOUS
  <2> QED BY <1>1, <1>2, <1>4, <1>5, <2>1, ClimbReachesRoot
<1> QED BY <1>3, <1>6 DEF XmssPkFromSig, XmssNode, M, XmssTree, auth, wots_sig

\* An XMSS signature leads to the root of its tree from its own leaf and with the value
\* signed only.
LEMMA XmssTells ==
  ASSUME NEW m \in Bytes, NEW other \in Bytes, NEW adrs, IsAddress(adrs),
         NEW idx \in 0 .. Pow2(HP) - 1, NEW oidx \in 0 .. Pow2(HP) - 1,
         NEW S, NEW part \in Seq(S), Len(part) = WotsLen + HP, XmssSigned(part, m, idx, adrs),
         XmssPkFromSig(oidx, part, other, adrs) = XmssNode(0, HP, adrs)
  PROVE  oidx = idx /\ other = m
<1> DEFINE wots_sig == SubSeq(part, 1, WotsLen)
           auth     == SubSeq(part, WotsLen + 1, Len(part))
           leaves   == [leaf \in 0 .. Pow2(HP) - 1 |-> WotsPkgen(SetType(adrs, "WOTS_HASH", leaf))]
           M        == XmssTree(adrs)
           at       == SetType(adrs, "TREE", 0)
           leaf     == WotsPkFromSig(wots_sig, other, SetType(adrs, "WOTS_HASH", oidx))
<1>1. HP \in Nat /\ Pow2(HP) \in Nat
  BY Sizes, PowerType
<1>2. /\ \A i \in 1 .. WotsLen : wots_sig[i] = WotsSign(m, SetType(adrs, "WOTS_HASH", idx))[i]
      /\ Beside(auth, M, HP, 0, idx)
  BY XmssParts
<1>3. M = Merkle(leaves, HP, 1, at) /\ IsAddress(at)
  BY AddressWords DEF XmssTree
<1>4. ASSUME NEW i \in 0 .. 1 * Pow2(HP) - 1, NEW j \in 0 .. 1 * Pow2(HP) - 1, i # j
      PROVE  leaves[i] # leaves[j]
  <2>1. i \in 0 .. Pow2(HP) - 1 /\ j \in 0 .. Pow2(HP) - 1
    BY <1>1
  <2> SUFFICES ASSUME leaves[i] = leaves[j] PROVE FALSE
    OBVIOUS
  <2> DEFINE a == SetType(adrs, "WOTS_HASH", i)
             b == SetType(adrs, "WOTS_HASH", j)
  <2>2. WotsPkgen(a) = WotsPkgen(b)
    BY <2>1
  <2>3. IsAddress(a) /\ a.pair = i /\ IsAddress(b) /\ b.pair = j
    BY DEF IsAddress, SetType
  <2> HIDE DEF a, b, leaves
  <2>4. SetType(a, "WOTS_PK", a.pair) = SetType(b, "WOTS_PK", b.pair)
    BY <2>2, HashFree DEF WotsPkgen
  <2>5. SetType(a, "WOTS_PK", a.pair).pair = i /\ SetType(b, "WOTS_PK", b.pair).pair = j
    BY <2>3 DEF IsAddress, SetType
  <2> QED BY <1>4, <2>4, <2>5
<1>5. Climb(oidx, oidx, leaf, auth, at) = M[HP][0]
  BY DEF XmssPkFromSig, XmssNode, XmssTree
<1>6. oidx = 0 * Pow2(HP) + oidx /\ 0 \in 0 .. 1 - 1 /\ 1 \in Nat
  BY <1>1
<1>7. leaves[oidx] = WotsPkgen(SetType(adrs, "WOTS_HASH", oidx))
  OBVIOUS
<1> HIDE DEF wots_sig, auth, leaves, M, at, leaf
<1>8. oidx = idx /\ leaf = leaves[oidx]
  <2>1. Distinct(leaves, 1 * Pow2(HP))
    BY <1>4 DEF Distinct
  <2>2. EndsAtRoot(leaves, HP, 1, 0, at, M, auth, idx, oidx, leaf, oidx)
    BY <1>1, <1>2, <1>3, <1>5, <1>6, <2>1 DEF EndsAtRoot
  <2> QED BY <1>3, <2>2, ClimbTells
<1>9. other = m
  <2> DEFINE a == SetType(adrs, "WOTS_HASH", oidx)
  <2>1. IsAddress(a) /\ a.type = "WOTS_HASH"
    BY DEF IsAddress, SetType
  <2>2. WotsPkFromSig(wots_sig, other, a) = WotsPkgen(a)
    BY <1>7, <1>8 DEF leaf
  <2>3. \A i \in 1 .. WotsLen : wots_sig[i] = WotsSign(m, a)[i]
    BY <1>2, <1>8
  <2> HIDE DEF a
  <2> QED BY <2>1, <2>2, <2>3, WotsTells
<1> QED BY <1>8, <1>9

-----------------------------------------------------------------------------
(* FORS signatures.                                                        *)
ForsTree(adrs) ==
  Merkle([leaf \in 0 .. K * Pow2(A) - 1 |-> Hash(SetNode(adrs, 0, leaf), <<ForsSkGen(adrs, leaf)>>)],
         A, K, adrs)

\* The FORS public key that an address stands for.
ForsPk(adrs) ==
  Hash(SetType(adrs, "FORS_ROOTS", adrs.pair), [i \in 1 .. K |-> ForsNode(i - 1, A, adrs)])

\* s is, value by value, what fors_sign makes.
ForsSigned(s, md, adrs) == \A p \in 1 .. K * (A + 1) : s[p] = ForsSign(md, adrs)[p]

\* The FORS values that md selects lie in their trees.
LEMMA ForsIndices ==
  ASSUME NEW md \in Seq(Nat), K * A <= 8 * Len(md), NEW i \in 1 .. K
  PROVE  Base2b(md, A, K)[i] \in 0 .. Pow2(A) - 1
<1>1. Base2b(md, A, K) \in [1 .. K -> 0 .. Pow2(A) - 1]
  BY Sizes, Base2bType
<1> QED BY <1>1

\* Where tree i begins in the signature, and what fors_sign puts there.
LEMMA ForsPart ==
  ASSUME NEW md, NEW adrs, NEW s, ForsSigned(s, md, adrs), NEW i \in 1 .. K
  PROVE  LET first == (i - 1) * (A + 1)
             index == Base2b(md, A, K)[i]
         IN  /\ first \in Nat /\ first + 1 + A = i * (A + 1) /\ first + 1 + A <= K * (A + 1)
             /\ s[first + 1] = ForsSkGen(adrs, (i - 1) * Pow2(A) + index)
             /\ \A j \in 1 .. A :
                  s[first + 1 + j] = ForsNode((i - 1) * Pow2(A - (j - 1)) + Sibling(index, j - 1), j - 1, adrs)
<1> DEFINE first == (i - 1) * (A + 1)
           indices == Base2b(md, A, K)
           Entry(t, j) == IF j = 0 THEN ForsSkGen(adrs, t * Pow2(A) + indices[t + 1])
                          ELSE ForsNode(t * Pow2(A - (j - 1)) + Sibling(indices[t + 1], j - 1), j - 1, adrs)
<1>1. A \in Nat /\ A > 0 /\ K \in Nat /\ i - 1 \in Nat
  BY Sizes
<1>2. first \in Nat /\ first + 1 + A = i * (A + 1) /\ first + 1 + A <= K * (A + 1)
  <2>1. (i - 1) * (A + 1) = i * (A + 1) - (A + 1)
    BY <1>1
  <2>2. i * (A + 1) <= K * (A + 1)
    BY <1>1, TimesMonotone
  <2>3. (i - 1) * (A + 1) \in Nat /\ i * (A + 1) \in Nat /\ K * (A + 1) \in Nat
    BY <1>1
  <2> QED BY <1>1, <2>1, <2>2, <2>3
<1>3. \A p \in 1 .. K * (A + 1) : s[p] = Entry((p - 1) \div (A + 1), (p - 1) % (A + 1))
  <2> HIDE DEF indices
  <2> QED BY DEF ForsSigned, ForsSign, indices
<1>4. ASSUME NEW j \in 0 .. A
      PROVE  (first + j) \div (A + 1) = i - 1 /\ (first + j) % (A + 1) = j
  BY <1>1, DivisionUnique
<1> HIDE DEF first, indices
<1>5. ASSUME NEW j \in 0 .. A
      PROVE  s[first + 1 + j] = IF j = 0 THEN ForsSkGen(adrs, (i - 1) * Pow2(A) + indices[i])
               ELSE ForsNode((i - 1) * Pow2(A - (j - 1)) + Sibling(indices[i], j - 1), j - 1, adrs)
  <2> DEFINE p == first + 1 + j
  <2>1. p \in 1 .. K * (A + 1) /\ p - 1 = first + j
    BY <1>1, <1>2
  <2> HIDE DEF p, Entry
  <2>2. s[p] = Entry(i - 1, j)
    BY <1>3, <1>4, <2>1
  <2>3. i - 1 + 1 = i
    OBVIOUS
  <2> QED BY <2>2, <2>3 DEF Entry, p
<1>6. s[first + 1] = ForsSkGen(adrs, (i - 1) * Pow2(A) + indices[i])
  <2>1. 0 \in 0 .. A /\ first + 1 + 0 = first + 1
    BY <1>1, <1>2
  <2> QED BY <1>5, <2>1
<1>7. ASSUME NEW j \in 1 .. A
      PROVE  s[first + 1 + j] = ForsNode((i - 1) * Pow2(A - (j - 1)) + Sibling(indices[i], j - 1), j - 1, adrs)
  <2>1. j \in 0 .. A /\ j # 0
    BY <1>1
  <2> QED BY <1>5, <2>1
<1> QED BY <1>2, <1>6, <1>7 DEF first, indices

\* Where the leaves of FORS tree i begin.
LEMMA ForsLeaf ==
  ASSUME NEW i \in 1 .. K, NEW index \in 0 .. Pow2(A) - 1
  PROVE  (i - 1) * Pow2(A) + index \in 0 .. K * Pow2(A) - 1
<1> DEFINE P == Pow2(A)
<1>1. A \in Nat /\ K \in Nat /\ i - 1 \in Nat
  BY Sizes
<1>2. P \in Nat /\ index \in 0 .. P - 1
  BY <1>1, PowerType
<1> HIDE DEF P
<1>3. (i - 1) * P \in Nat /\ (i - 1 + 1) * P = (i - 1) * P + P /\ i - 1 + 1 = i
  BY <1>1, <1>2
<1>4. i * P <= K * P /\ i * P \in Nat /\ K * P \in Nat
  BY <1>1, <1>2, TimesMonotone
<1> QED BY <1>2, <1>3, <1>4, SMTT(30) DEF P

\* The way up from the secret value of each FORS tree, cut apart again.
LEMMA ForsParts ==
  ASSUME NEW md, NEW adrs, NEW S, NEW fors \in Seq(S), Len(fors) = K * (A + 1),
         ForsSigned(fors, md, adrs), NEW i \in 1 .. K
  PROVE  LET first == (i - 1) * (A + 1)
             index == Base2b(md, A, K)[i]
         IN  /\ fors[first + 1] = ForsSkGen(adrs, (i - 1) * Pow2(A) + index)
             /\ Beside(SubSeq(fors, first + 2, i * (A + 1)), ForsTree(adrs), A, i - 1, index)
<1> DEFINE first == (i - 1) * (A + 1)
           index == Base2b(md, A, K)[i]
           auth == SubSeq(fors, first + 2, i * (A + 1))
<1>1. A \in Nat /\ A > 0 /\ K \in Nat
  BY Sizes
<1>2. /\ first \in Nat /\ first + 1 + A = i * (A + 1) /\ first + 1 + A <= K * (A + 1)
      /\ fors[first + 1] = ForsSkGen(adrs, (i - 1) * Pow2(A) + index)
      /\ \A j \in 1 .. A :
           fors[first + 1 + j] = ForsNode((i - 1) * Pow2(A - (j - 1)) + Sibling(index, j - 1), j - 1, adrs)
  BY ForsPart
<1> HIDE DEF first, index
<1>3. Len(auth) = A /\ \A j \in 1 .. A : auth[j] = fors[first + 1 + j]
  <2>1. first + 1 + 1 = first + 2 /\ first + 1 \in Nat
    BY <1>2
  <2>2. /\ Len(SubSeq(fors, first + 1 + 1, first + 1 + A)) = A
        /\ \A j \in 1 .. A : SubSeq(fors, first + 1 + 1, first + 1 + A)[j] = fors[first + 1 + j]
    BY <1>1, <1>2, <2>1, Slice
  <2> QED BY <1>2, <2>1, <2>2
<1> HIDE DEF auth
<1>4. Beside(auth, ForsTree(adrs), A, i - 1, index)
  BY <1>2, <1>3 DEF Beside, ForsNode, ForsTree
<1> QED BY <1>2, <1>4 DEF first, index, auth

\* What fors_sign makes leads fors_pk_from_sig to the FORS key, for every digest that
\* selects the same values.
LEMMA ForsRoundTrip ==
  ASSUME NEW md \in Seq(Nat), K * A <= 8 * Len(md), NEW other, Base2b(other, A, K) = Base2b(md, A, K),
         NEW adrs, NEW S, NEW fors \in Seq(S), Len(fors) = K * (A + 1), ForsSigned(fors, md, adrs)
  PROVE  ForsPkFromSig(fors, other, adrs) = ForsPk(adrs)
<1> DEFINE indices == Base2b(md, A, K)
           Start(i) == (i - 1) * Pow2(A) + indices[i]
           Root(i) == Climb(indices[i], Start(i), Hash(SetNode(adrs, 0, Start(i)), <<fors[(i - 1) * (A + 1) + 1]>>),
                            SubSeq(fors, (i - 1) * (A + 1) + 2, i * (A + 1)), adrs)
           leaves == [leaf \in 0 .. K * Pow2(A) - 1 |-> Hash(SetNode(adrs, 0, leaf), <<ForsSkGen(adrs, leaf)>>)]
           M == ForsTree(adrs)
<1>1. A \in Nat /\ A > 0 /\ K \in Nat
  BY Sizes
<1>2. M = Merkle(leaves, A, K, adrs)
  BY DEF ForsTree
<1>3. ASSUME NEW i \in 1 .. K PROVE Root(i) = M[A][i - 1]
  <2> DEFINE first == (i - 1) * (A + 1)
             index == indices[i]
             auth == SubSeq(fors, first + 2, i * (A + 1))
             start == (i - 1) * Pow2(A) + index
  <2>1. fors[first + 1] = ForsSkGen(adrs, start) /\ Beside(auth, M, A, i - 1, index)
    BY ForsParts
  <2>2. index \in 0 .. Pow2(A) - 1 /\ i - 1 \in 0 .. K - 1
    BY <1>1, ForsIndices
  <2>3. start \in 0 .. K * Pow2(A) - 1
    BY <2>2, ForsLeaf
  <2> HIDE DEF first, index, auth
  <2>4. leaves[start] = Hash(SetNode(adrs, 0, start), <<fors[first + 1]>>)
    BY <2>1, <2>3
  <2> HIDE DEF leaves, M
  <2>5. Climb(index, start, leaves[start], auth, adrs) = M[A][i - 1]
    BY <1>1, <1>2, <2>1, <2>2, ClimbReachesRoot
  <2> QED BY <2>4, <2>5 DEF auth, first, index
<1>4. ForsPkFromSig(fors, other, adrs) = Hash(SetType(adrs, "FORS_ROOTS", adrs.pair), [i \in 1 .. K |-> Root(i)])
  BY DEF ForsPkFromSig
<1> HIDE DEF Root
<1>5. [i \in 1 .. K |-> Root(i)] = [i \in 1 .. K |-> ForsNode(i - 1, A, adrs)]
  BY <1>3 DEF ForsNode, M, ForsTree
<1> QED BY <1>4, <1>5 DEF ForsPk

\* A FORS signature leads to the FORS key for the values it opens only.
LEMMA ForsTells ==
  ASSUME NEW md \in Seq(Nat), K * A <= 8 * Len(md), NEW other \in Seq(Nat), K * A <= 8 * Len(other),
         NEW adrs, IsAddress(adrs),
         NEW S, NEW fors \in Seq(S), Len(fors) = K * (A + 1), ForsSigned(fors, md, adrs),
         ForsPkFromSig(fors, other, adrs) = ForsPk(adrs)
  PROVE  Base2b(other, A, K) = Base2b(md, A, K)
<1> DEFINE indices == Base2b(other, A, K)
           honest == Base2b(md, A, K)
           Start(i) == (i - 1) * Pow2(A) + indices[i]
           Leaf(i) == Hash(SetNode(adrs, 0, Start(i)), <<fors[(i - 1) * (A + 1) + 1]>>)
           Root(i) == Climb(indices[i], Start(i), Leaf(i), SubSeq(fors, (i - 1) * (A + 1) + 2, i * (A + 1)), adrs)
           leaves == [leaf \in 0 .. K * Pow2(A) - 1 |-> Hash(SetNode(adrs, 0, leaf), <<ForsSkGen(adrs, leaf)>>)]
           M == ForsTree(adrs)
<1>1. A \in Nat /\ A > 0 /\ K \in Nat
  BY Sizes
<1>2. M = Merkle(leaves, A, K, adrs)
  BY DEF ForsTree
<1>3. Distinct(leaves, K * Pow2(A))
  <2> SUFFICES ASSUME NEW i \in 0 .. K * Pow2(A) - 1, NEW j \in 0 .. K * Pow2(A) - 1, i # j,
                      leaves[i] = leaves[j]
               PROVE  FALSE
    BY DEF Distinct
  <2> DEFINE a == SetNode(adrs, 0, i)
             b == SetNode(adrs, 0, j)
  <2>1. Hash(a, <<ForsSkGen(adrs, i)>>) = Hash(b, <<ForsSkGen(adrs, j)>>)
    OBVIOUS
  <2>2. a.index = i /\ b.index = j
    BY DEF IsAddress, SetNode
  <2> HIDE DEF a, b
  <2>3. a = b
    BY <2>1, HashFree
  <2> QED BY <2>2, <2>3
<1>4. \A i \in 1 .. K : Root(i) = M[A][i - 1]
  <2>1. ForsPkFromSig(fors, other, adrs) = Hash(SetType(adrs, "FORS_ROOTS", adrs.pair), [i \in 1 .. K |-> Root(i)])
    BY DEF ForsPkFromSig
  <2>2. ForsPk(adrs) = Hash(SetType(adrs, "FORS_ROOTS", adrs.pair), [i \in 1 .. K |-> M[A][i - 1]])
    BY DEF ForsPk, ForsNode, ForsTree
  <2> HIDE DEF Root, M
  <2>3. [i \in 1 .. K |-> Root(i)] = [i \in 1 .. K |-> M[A][i - 1]]
    <3> DEFINE f == [i \in 1 .. K |-> Root(i)]
               g == [i \in 1 .. K |-> M[A][i - 1]]
               c == SetType(adrs, "FORS_ROOTS", adrs.pair)
    <3>1. Hash(c, f) = Hash(c, g)
      BY <2>1, <2>2
    <3> HIDE DEF f, g, c
    <3>2. f = g
      BY <3>1, HashFree
    <3> QED BY <3>2 DEF f, g
  <2> TAKE i \in 1 .. K
  <2>4. [j \in 1 .. K |-> Root(j)][i] = Root(i) /\ [j \in 1 .. K |-> M[A][j - 1]][i] = M[A][i - 1]
    OBVIOUS
  <2> QED BY <2>3, <2>4
<1>5. ASSUME NEW i \in 1 .. K PROVE indices[i] = honest[i]
  <2> DEFINE auth == SubSeq(fors, (i - 1) * (A + 1) + 2, i * (A + 1))
             x == honest[i]
             y == indices[i]
             start == Start(i)
             leaf == Leaf(i)
             b == i - 1
  <2>1. x \in 0 .. Pow2(A) - 1 /\ y \in 0 .. Pow2(A) - 1
    BY ForsIndices
  <2>2. Beside(auth, M, A, b, x)
    BY ForsParts
  <2>3. b \in 0 .. K - 1
    BY <1>1
  <2>4. Climb(y, start, leaf, auth, adrs) = M[A][b] /\ start = b * Pow2(A) + y
    BY <1>4
  <2> HIDE DEF auth, x, y, start, leaf, b, leaves, M, indices, honest, Start, Leaf, Root
  <2>5. A \in Nat /\ K \in Nat
    BY <1>1
  <2>6. EndsAtRoot(leaves, A, K, b, adrs, M, auth, x, y, leaf, start)
    BY <1>2, <1>3, <2>1, <2>2, <2>3, <2>4, <2>5 DEF EndsAtRoot
  <2>7. y = x
    BY <2>6, ClimbTells
  <2> QED BY <2>7 DEF x, y
<1>6. indices = [i \in 1 .. K |-> indices[i]] /\ honest = [i \in 1 .. K |-> honest[i]]
  BY DEF Base2b
<1> HIDE DEF indices, honest
<1>7. [i \in 1 .. K |-> indices[i]] = [i \in 1 .. K |-> honest[i]]
  BY <1>5
<1> QED BY <1>6, <1>7 DEF indices, honest

-----------------------------------------------------------------------------
(* Every value computed on a layer carries an address on that layer.       *)
Placed(adrs) == "layer" \in DOMAIN adrs /\ adrs.layer \in 0 .. D - 1

\* A hash at an address on a layer is a value of that layer.
LEMMA PlacedHash ==
  ASSUME NEW adrs, Placed(adrs), NEW input
  PROVE  HashValue(Hash(adrs, input))
BY DEF Placed, HashValue, Hash

\* Setting the type, the key pair or the last words of an address keeps its layer.
LEMMA PlacedAddresses ==
  ASSUME NEW adrs, Placed(adrs), NEW type, NEW pair, NEW height, NEW index
  PROVE  /\ Placed(SetType(adrs, type, pair)) /\ Placed(SetNode(adrs, height, index))
         /\ Placed([adrs EXCEPT !.index = index]) /\ Placed([adrs EXCEPT !.height = height])
BY DEF Placed, SetType, SetNode

\* A new address is on the layer it is made for.
LEMMA PlacedLayer ==
  ASSUME NEW layer \in 0 .. D - 1, NEW tree
  PROVE  Placed(ADRS(layer, tree))
BY DEF Placed, ADRS

\* The value at the end of a path that is not empty.
LEMMA PlacedClimb ==
  ASSUME NEW adrs, Placed(adrs), NEW idx, NEW start, NEW leaf, NEW auth, Len(auth) \in Nat, Len(auth) > 0
  PROVE  HashValue(Climb(idx, start, leaf, auth, adrs))
<1>1. PICK index, up : Climbs(index, up, idx, start, leaf, auth, adrs)
  BY ClimbSteps
<1> DEFINE k == Len(auth) - 1
<1>2. k \in Nat /\ k < Len(auth) /\ k + 1 = Len(auth)
  OBVIOUS
<1>3. up[k + 1] = Hash(SetNode(adrs, k + 1, index[k + 1]), Arm(idx, k, up[k], auth[k + 1]))
  BY <1>1, <1>2 DEF Climbs
<1>4. Placed(SetNode(adrs, k + 1, index[k + 1]))
  BY PlacedAddresses
<1> QED BY <1>1, <1>2, <1>3, <1>4, PlacedHash DEF Climbs

\* The sibling of a node is a node of the same level.
LEMMA SiblingInTree ==
  ASSUME NEW h \in Nat, NEW x \in 0 .. Pow2(h) - 1, NEW b \in Nat, NEW count \in Nat, b < count,
         NEW j \in 1 .. h
  PROVE  b * Pow2(h - (j - 1)) + Sibling(x, j - 1) \in 0 .. count * Pow2(h - (j - 1)) - 1
<1> DEFINE k == j - 1
           i == b * Pow2(h - (k + 1)) + x \div Pow2(k + 1)
           P == Pow2(h - (k + 1))
           beside == b * Pow2(h - k) + Sibling(x, k)
<1>1. k \in Nat /\ k < h /\ h - (k + 1) \in Nat /\ h - k = h - (k + 1) + 1
  OBVIOUS
<1> HIDE DEF k
<1>2. /\ Bit(x, k) = 0 => beside = 2 * i + 1
      /\ Bit(x, k) # 0 => beside = 2 * i
      /\ i \in 0 .. count * P - 1
  BY <1>1, ClimbPosition, SMTT(30)
<1>3. P \in Nat /\ Pow2(h - k) = 2 * P
  BY <1>1, PowerType, PowerOfTwo
<1> HIDE DEF i, P, beside
<1>4. count * P \in Nat /\ count * (2 * P) = 2 * (count * P)
  BY <1>3
<1>5. beside \in 0 .. 2 * (count * P) - 1
  BY <1>2, <1>4
<1> QED BY <1>3, <1>4, <1>5 DEF beside, k

-----------------------------------------------------------------------------
(* The values that signing computes, and the addresses they are computed at.  *)
WotsAdrs(layer, tree, leaf) == SetType(ADRS(layer, tree), "WOTS_HASH", leaf)
FewTimeAdrs(tree, leaf) == SetType(ADRS(0, tree), "FORS_TREE", leaf)

\* The value d steps up chain i of a WOTS key.
ChainValue(adrs, i, d) == Chain(WotsSk(adrs, i), 0, d, ChainAdrs(adrs, i))

\* The secret values of WOTS and those further up their chains; the nodes of the XMSS
\* trees, whose leaves are the WOTS keys; the values, nodes and keys of FORS.
OfChain(v) ==
  \E layer \in 0 .. D - 1, i \in 1 .. WotsLen, d \in Nat :
    \E tree, leaf : v = ChainValue(WotsAdrs(layer, tree, leaf), i, d)
OfTree(v) ==
  \E layer \in 0 .. D - 1, z \in 0 .. HP :
    \E i \in 0 .. Pow2(HP - z) - 1 : \E tree : v = XmssNode(i, z, ADRS(layer, tree))
OfFors(v) ==
  \E tree, leaf :
    LET adrs == FewTimeAdrs(tree, leaf)
    IN  \/ v = ForsPk(adrs)
        \/ \E i : v = ForsSkGen(adrs, i)
        \/ \E z \in 0 .. A : \E i \in 0 .. K * Pow2(A - z) - 1 : v = ForsNode(i, z, adrs)
Genuine(v) == v = Randomizer \/ OfChain(v) \/ OfTree(v) \/ OfFors(v)

\* The one value that is computed at an address.
ValueAt(adrs) ==
  LET wots_adrs == WotsAdrs(adrs.layer, adrs.tree, adrs.pair)
      fors_adrs == FewTimeAdrs(adrs.tree, adrs.pair)
  IN  CASE adrs.type = "PRF_MSG"    -> Randomizer
        [] adrs.type = "WOTS_PRF"   -> WotsSk(wots_adrs, adrs.height + 1)
        [] adrs.type = "WOTS_HASH"  -> ChainValue(wots_adrs, adrs.height + 1, adrs.index + 1)
        [] adrs.type = "WOTS_PK"    -> WotsPkgen(wots_adrs)
        [] adrs.type = "TREE"       -> XmssNode(adrs.index, adrs.height, ADRS(adrs.layer, adrs.tree))
        [] adrs.type = "FORS_PRF"   -> ForsSkGen(fors_adrs, adrs.index)
        [] adrs.type = "FORS_TREE"  -> ForsNode(adrs.index, adrs.height, fors_adrs)
        [] adrs.type = "FORS_ROOTS" -> ForsPk(fors_adrs)

\* A value has a place in the hypertree: it is the one that its address stands for, and its
\* inputs are values of that sort again.
InputsGenuine(v) == \E n \in Nat : DOMAIN v.input = 1 .. n /\ \A k \in 1 .. n : Genuine(v.input[k])
Settled(v) == HashValue(v) /\ v = ValueAt(v.adrs) /\ InputsGenuine(v)

Address(layer, tree, type, pair, height, index) ==
  [layer |-> layer, tree |-> tree, type |-> type, pair |-> pair, height |-> height, index |-> index]

\* All addresses in use.
LEMMA Words ==
  ASSUME NEW layer, NEW tree, NEW type, NEW pair, NEW height, NEW index
  PROVE  /\ ADRS(layer, tree) = Address(layer, tree, "WOTS_HASH", 0, 0, 0)
         /\ \A t, p : SetType(Address(layer, tree, type, pair, height, index), t, p) = Address(layer, tree, t, p, 0, 0)
         /\ \A h, i : SetNode(Address(layer, tree, type, pair, height, index), h, i) = Address(layer, tree, type, pair, h, i)
<1> DEFINE adrs == Address(layer, tree, type, pair, height, index)
<1>1. ADRS(layer, tree) = Address(layer, tree, "WOTS_HASH", 0, 0, 0)
  BY DEF ADRS, Address
<1>2. ASSUME NEW t, NEW p PROVE SetType(adrs, t, p) = Address(layer, tree, t, p, 0, 0)
  <2>1. SetType(adrs, t, p) = [[[[adrs EXCEPT !.type = t] EXCEPT !.pair = p] EXCEPT !.height = 0] EXCEPT !.index = 0]
    BY Zenon DEF SetType
  <2>2. [adrs EXCEPT !.type = t] = Address(layer, tree, t, pair, height, index)
    BY DEF Address
  <2>3. [Address(layer, tree, t, pair, height, index) EXCEPT !.pair = p] = Address(layer, tree, t, p, height, index)
    BY DEF Address
  <2>4. [Address(layer, tree, t, p, height, index) EXCEPT !.height = 0] = Address(layer, tree, t, p, 0, index)
    BY DEF Address
  <2>5. [Address(layer, tree, t, p, 0, index) EXCEPT !.index = 0] = Address(layer, tree, t, p, 0, 0)
    BY DEF Address
  <2> HIDE DEF adrs
  <2> QED BY <2>1, <2>2, <2>3, <2>4, <2>5
<1>3. ASSUME NEW h, NEW i PROVE SetNode(adrs, h, i) = Address(layer, tree, type, pair, h, i)
  <2>1. SetNode(adrs, h, i) = [[adrs EXCEPT !.height = h] EXCEPT !.index = i]
    BY Zenon DEF SetNode
  <2>2. [adrs EXCEPT !.height = h] = Address(layer, tree, type, pair, h, index)
    BY DEF Address
  <2>3. [Address(layer, tree, type, pair, h, index) EXCEPT !.index = i] = Address(layer, tree, type, pair, h, i)
    BY DEF Address
  <2> HIDE DEF adrs
  <2> QED BY <2>1, <2>2, <2>3
<1> QED BY <1>1, <1>2, <1>3

\* A chain is its start, or the last step from the chain that is one shorter.
LEMMA ChainLast ==
  ASSUME NEW x, NEW adrs
  PROVE  /\ Chain(x, 0, 0, adrs) = x
         /\ \A d \in Nat : Chain(x, 0, d + 1, adrs) = Step(adrs, d, Chain(x, 0, d, adrs))
<1>1. Chain(x, 0, 0, adrs) = x
  <2>1. 0 + 0 = 0
    OBVIOUS
  <2> QED BY <2>1, ChainSteps
<1>2. ASSUME NEW d \in Nat PROVE Chain(x, 0, d + 1, adrs) = Step(adrs, d, Chain(x, 0, d, adrs))
  <2> DEFINE y == Chain(x, 0, d, adrs)
  <2>1. Chain(y, d, 1, adrs) = Chain(x, 0, d + 1, adrs)
    <3>1. d + 1 \in Nat /\ d \in 0 .. d + 1 /\ d + 1 - d = 1
      OBVIOUS
    <3>2. Chain(Chain(x, 0, d, adrs), d, d + 1 - d, adrs) = Chain(x, 0, d + 1, adrs)
      BY <3>1, ChainCarriesOn
    <3> QED BY <3>1, <3>2
  <2> HIDE DEF y
  <2>2. Chain(y, d, 1, adrs) = Step(adrs, d, y)
    BY ChainSteps
  <2> QED BY <2>1, <2>2 DEF y
<1> QED BY <1>1, <1>2

\* The values that the addresses of each type stand for.
LEMMA Meanings ==
  ASSUME NEW layer, NEW tree, NEW pair, NEW height, NEW index
  PROVE  LET At(type) == ValueAt(Address(layer, tree, type, pair, height, index))
             wots_adrs == WotsAdrs(layer, tree, pair)
             fors_adrs == FewTimeAdrs(tree, pair)
         IN  /\ At("WOTS_PRF") = WotsSk(wots_adrs, height + 1)
             /\ At("WOTS_HASH") = ChainValue(wots_adrs, height + 1, index + 1)
             /\ At("WOTS_PK") = WotsPkgen(wots_adrs)
             /\ At("TREE") = XmssNode(index, height, ADRS(layer, tree))
             /\ At("FORS_PRF") = ForsSkGen(fors_adrs, index)
             /\ At("FORS_TREE") = ForsNode(index, height, fors_adrs)
             /\ At("FORS_ROOTS") = ForsPk(fors_adrs)
<1>1. \A type : LET adrs == Address(layer, tree, type, pair, height, index)
                IN  /\ adrs.layer = layer /\ adrs.tree = tree /\ adrs.type = type
                    /\ adrs.pair = pair /\ adrs.height = height /\ adrs.index = index
  BY DEF Address
<1> QED BY <1>1 DEF ValueAt

\* A value at an address on a layer.
LEMMA SettledHash ==
  ASSUME NEW layer \in 0 .. D - 1, NEW tree, NEW type, NEW pair, NEW height, NEW index, NEW n \in Nat, NEW input,
         DOMAIN input = 1 .. n, \A k \in 1 .. n : Genuine(input[k]),
         LET adrs == Address(layer, tree, type, pair, height, index) IN Hash(adrs, input) = ValueAt(adrs)
  PROVE  Settled(Hash(Address(layer, tree, type, pair, height, index), input))
<1> DEFINE adrs == Address(layer, tree, type, pair, height, index)
           v == Hash(adrs, input)
<1>1. adrs.layer = layer
  BY DEF Address
<1>2. v.adrs = adrs /\ v.input = input /\ DOMAIN v = {"adrs", "input"} /\ v = ValueAt(adrs)
  BY DEF Hash
<1> HIDE DEF v, adrs
<1>3. HashValue(v)
  BY <1>1, <1>2 DEF HashValue
<1>4. InputsGenuine(v)
  BY <1>2 DEF InputsGenuine
<1>5. Settled(v)
  BY <1>2, <1>3, <1>4 DEF Settled
<1> QED BY <1>5 DEF v, adrs

\* The values of the chains.
LEMMA ChainSettled ==
  ASSUME NEW layer \in 0 .. D - 1, NEW tree, NEW leaf, NEW i \in 1 .. WotsLen, NEW d \in Nat
  PROVE  Settled(ChainValue(WotsAdrs(layer, tree, leaf), i, d))
<1> DEFINE adrs == WotsAdrs(layer, tree, leaf)
           secret == Address(layer, tree, "WOTS_PRF", leaf, i - 1, 0)
           start == Address(layer, tree, "WOTS_HASH", leaf, i - 1, 0)
<1>1. i \in Nat /\ i - 1 + 1 = i
  BY WotsSizes
<1>2. adrs = Address(layer, tree, "WOTS_HASH", leaf, 0, 0) /\ adrs.pair = leaf
  <2>1. adrs = Address(layer, tree, "WOTS_HASH", leaf, 0, 0)
    BY Words DEF WotsAdrs
  <2> QED BY <2>1 DEF Address
<1>3. WotsSk(adrs, i) = Hash(secret, <<>>)
  <2>1. SetType(adrs, "WOTS_PRF", adrs.pair) = Address(layer, tree, "WOTS_PRF", leaf, 0, 0)
    BY <1>2, Words
  <2>2. [Address(layer, tree, "WOTS_PRF", leaf, 0, 0) EXCEPT !.height = i - 1] = secret
    BY DEF Address
  <2> HIDE DEF secret, adrs
  <2> QED BY <2>1, <2>2 DEF WotsSk, Prf
<1>4. ChainAdrs(adrs, i) = start
  <2>1. [Address(layer, tree, "WOTS_HASH", leaf, 0, 0) EXCEPT !.height = i - 1] = start
    BY DEF Address
  <2> HIDE DEF start, adrs
  <2> QED BY <1>2, <2>1 DEF ChainAdrs
<1>5. CASE d = 0
  <2>1. ChainValue(adrs, i, d) = Hash(secret, <<>>)
    BY <1>3, <1>5, ChainLast DEF ChainValue
  <2>2. ValueAt(secret) = WotsSk(adrs, i)
    BY <1>1, Meanings
  <2>3. DOMAIN <<>> = 1 .. 0 /\ 0 \in Nat
    OBVIOUS
  <2>4. Settled(Hash(secret, <<>>))
    BY <1>3, <2>2, <2>3, SettledHash
  <2> QED BY <2>1, <2>4
<1>6. CASE d # 0
  <2> DEFINE b == d - 1
             at == Address(layer, tree, "WOTS_HASH", leaf, i - 1, b)
             below == ChainValue(adrs, i, b)
  <2>1. b \in Nat /\ b + 1 = d
    BY <1>6
  <2> HIDE DEF b
  <2>2. [start EXCEPT !.index = b] = at
    BY DEF Address
  <2>3. ChainValue(adrs, i, d) = Hash(at, <<below>>)
    <3>1. ChainValue(adrs, i, d) = Step(ChainAdrs(adrs, i), b, below)
      <4> DEFINE x == WotsSk(adrs, i)
                 c == ChainAdrs(adrs, i)
      <4> HIDE DEF x, c
      <4>1. Chain(x, 0, b + 1, c) = Step(c, b, Chain(x, 0, b, c))
        BY <2>1, ChainLast
      <4> QED BY <2>1, <4>1 DEF ChainValue, x, c
    <3> HIDE DEF below, adrs, start, at
    <3> QED BY <1>4, <2>2, <3>1 DEF Step
  <2>4. ValueAt(at) = ChainValue(adrs, i, d)
    BY <1>1, <2>1, Meanings
  <2>5. Genuine(below)
    BY <2>1 DEF Genuine, OfChain
  <2> HIDE DEF below
  <2>6. DOMAIN <<below>> = 1 .. 1 /\ 1 \in Nat /\ \A k \in 1 .. 1 : <<below>>[k] = below
    OBVIOUS
  <2>7. Settled(Hash(at, <<below>>))
    BY <2>3, <2>4, <2>5, <2>6, SettledHash
  <2> QED BY <2>3, <2>7
<1> QED BY <1>5, <1>6

\* The nodes below a node.
LEMMA NodesBelow ==
  ASSUME NEW h \in Nat, NEW k \in Nat, k < h, NEW count \in Nat, NEW i \in 0 .. count * Pow2(h - (k + 1)) - 1
  PROVE  {2 * i, 2 * i + 1} \subseteq 0 .. count * Pow2(h - k) - 1
<1> DEFINE P == Pow2(h - (k + 1))
<1>1. P \in Nat /\ Pow2(h - k) = 2 * P
  <2>1. h - (k + 1) \in Nat /\ h - k = h - (k + 1) + 1
    OBVIOUS
  <2> QED BY <2>1, PowerType, PowerOfTwo
<1> HIDE DEF P
<1>2. count * P \in Nat /\ count * (2 * P) = 2 * (count * P)
  BY <1>1
<1>3. i \in 0 .. count * P - 1
  BY DEF P
<1> QED BY <1>1, <1>2, <1>3

\* The nodes of the XMSS trees.
LEMMA TreeSettled ==
  ASSUME NEW layer \in 0 .. D - 1, NEW tree, NEW z \in 0 .. HP, NEW i \in 0 .. Pow2(HP - z) - 1
  PROVE  Settled(XmssNode(i, z, ADRS(layer, tree)))
<1> DEFINE adrs == ADRS(layer, tree)
           M == XmssTree(adrs)
           node == XmssNode(i, z, adrs)
<1>1. HP \in Nat /\ i \in Nat /\ W - 1 \in Nat
  BY Sizes, WIsNat
<1>2. adrs = Address(layer, tree, "WOTS_HASH", 0, 0, 0)
  BY Words
<1>3. CASE z = 0
  <2> DEFINE wots_adrs == WotsAdrs(layer, tree, i)
             at == Address(layer, tree, "WOTS_PK", i, 0, 0)
             input == [c \in 1 .. WotsLen |-> ChainValue(wots_adrs, c, W - 1)]
  <2>1. node = WotsPkgen(wots_adrs)
    <3>1. HP - 0 = HP
      BY <1>1
    <3> DEFINE leaves == [leaf \in 0 .. Pow2(HP) - 1 |-> WotsPkgen(SetType(adrs, "WOTS_HASH", leaf))]
               nodeAdrs == SetType(adrs, "TREE", 0)
    <3>2. leaves[i] = WotsPkgen(wots_adrs)
      BY <1>3, <3>1 DEF WotsAdrs
    <3> HIDE DEF leaves, nodeAdrs
    <3>3. Merkle(leaves, HP, 1, nodeAdrs)[0] = leaves
      BY <1>1, MerkleLevels
    <3>4. node = Merkle(leaves, HP, 1, nodeAdrs)[0][i]
      BY <1>3 DEF XmssNode, leaves, nodeAdrs
    <3> QED BY <3>2, <3>3, <3>4
  <2>2. WotsPkgen(wots_adrs) = Hash(at, input)
    <3>1. wots_adrs = Address(layer, tree, "WOTS_HASH", i, 0, 0)
      BY Words DEF WotsAdrs
    <3>2. wots_adrs.pair = i
      BY <3>1 DEF Address
    <3>3. SetType(wots_adrs, "WOTS_PK", wots_adrs.pair) = at
      BY <3>1, <3>2, Words
    <3> HIDE DEF wots_adrs, at
    <3> QED BY <3>3 DEF WotsPkgen, ChainValue
  <2>3. ValueAt(at) = WotsPkgen(wots_adrs)
    BY Meanings
  <2>4. ASSUME NEW c \in 1 .. WotsLen PROVE Genuine(input[c])
    BY <1>1 DEF Genuine, OfChain
  <2>5. DOMAIN input = 1 .. WotsLen /\ WotsLen \in Nat
    BY WotsSizes
  <2> HIDE DEF input
  <2>6. Settled(Hash(at, input))
    BY <2>2, <2>3, <2>4, <2>5, SettledHash
  <2> QED BY <2>1, <2>2, <2>6
<1>4. CASE z # 0
  <2> DEFINE k == z - 1
             at == Address(layer, tree, "TREE", 0, z, i)
             input == <<XmssNode(2 * i, k, adrs), XmssNode(2 * i + 1, k, adrs)>>
  <2>1. k \in Nat /\ k < HP /\ k + 1 = z /\ k \in 0 .. HP
    BY <1>1, <1>4
  <2> HIDE DEF k
  <2>2. {2 * i, 2 * i + 1} \subseteq 0 .. Pow2(HP - k) - 1
    <3>1. i \in 0 .. 1 * Pow2(HP - (k + 1)) - 1
      BY <1>1, <2>1, PowerType
    <3>2. {2 * i, 2 * i + 1} \subseteq 0 .. 1 * Pow2(HP - k) - 1
      BY <1>1, <2>1, <3>1, NodesBelow
    <3> QED BY <1>1, <2>1, <3>2, PowerType
  <2>3. node = Hash(at, input)
    <3>1. i \in 0 .. 1 * Pow2(HP - (k + 1)) - 1
      BY <1>1, <2>1, PowerType
    <3> DEFINE leaves == [leaf \in 0 .. Pow2(HP) - 1 |-> WotsPkgen(SetType(adrs, "WOTS_HASH", leaf))]
               nodeAdrs == SetType(adrs, "TREE", 0)
    <3>2. M = Merkle(leaves, HP, 1, nodeAdrs)
      BY DEF XmssTree
    <3> HIDE DEF leaves, M, nodeAdrs
    <3>3. NodeHash(M, k, i, nodeAdrs)
      BY <1>1, <2>1, <3>1, <3>2, MerkleNode
    <3>4. SetNode(nodeAdrs, z, i) = at
      BY <1>2, Words DEF nodeAdrs
    <3> HIDE DEF at
    <3>5. M[z][i] = Hash(at, <<M[k][2 * i], M[k][2 * i + 1]>>)
      BY <2>1, <3>3, <3>4 DEF NodeHash
    <3> QED BY <3>5 DEF XmssNode, M, XmssTree
  <2>4. ValueAt(at) = node
    BY Meanings
  <2>5. Genuine(XmssNode(2 * i, k, adrs)) /\ Genuine(XmssNode(2 * i + 1, k, adrs))
    BY <2>1, <2>2 DEF Genuine, OfTree
  <2>6. DOMAIN input = 1 .. 2 /\ 2 \in Nat /\ \A c \in 1 .. 2 : Genuine(input[c])
    <3> DEFINE x == XmssNode(2 * i, k, adrs)
               y == XmssNode(2 * i + 1, k, adrs)
    <3> HIDE DEF x, y
    <3>1. input = <<x, y>>
      BY DEF x, y
    <3>2. Genuine(x) /\ Genuine(y)
      BY <2>5 DEF x, y
    <3> HIDE DEF input
    <3> QED BY <3>1, <3>2
  <2> HIDE DEF input, node
  <2>7. Settled(Hash(at, input))
    BY <2>3, <2>4, <2>6, SettledHash
  <2> QED BY <2>3, <2>7 DEF node
<1> QED BY <1>3, <1>4

\* The addresses of the FORS trees.
LEMMA FewTimeWords ==
  ASSUME NEW tree, NEW leaf
  PROVE  LET adrs == FewTimeAdrs(tree, leaf)
         IN  /\ adrs = Address(0, tree, "FORS_TREE", leaf, 0, 0) /\ adrs.pair = leaf
             /\ \A type : SetType(adrs, type, leaf) = Address(0, tree, type, leaf, 0, 0)
             /\ \A height, index : SetNode(adrs, height, index) = Address(0, tree, "FORS_TREE", leaf, height, index)
<1> DEFINE adrs == FewTimeAdrs(tree, leaf)
<1>1. adrs = Address(0, tree, "FORS_TREE", leaf, 0, 0)
  BY Words DEF FewTimeAdrs
<1>2. Address(0, tree, "FORS_TREE", leaf, 0, 0).pair = leaf
  BY DEF Address
<1> QED BY <1>1, <1>2, Words

\* The secret values of the FORS trees.
LEMMA ForsSkSettled ==
  ASSUME NEW tree, NEW leaf, NEW i
  PROVE  Settled(ForsSkGen(FewTimeAdrs(tree, leaf), i))
<1> DEFINE adrs == FewTimeAdrs(tree, leaf)
           at == Address(0, tree, "FORS_PRF", leaf, 0, i)
<1>1. ForsSkGen(adrs, i) = Hash(at, <<>>)
  <2>1. SetNode(SetType(adrs, "FORS_PRF", adrs.pair), 0, i) = at
    BY FewTimeWords, Words
  <2> HIDE DEF at, adrs
  <2> QED BY <2>1 DEF ForsSkGen, Prf
<1>2. ValueAt(at) = ForsSkGen(adrs, i)
  BY Meanings
<1>3. DOMAIN <<>> = 1 .. 0 /\ 0 \in Nat /\ 0 \in 0 .. D - 1
  BY Sizes
<1>4. Settled(Hash(at, <<>>))
  BY <1>1, <1>2, <1>3, SettledHash
<1> QED BY <1>1, <1>4

\* The nodes of the FORS trees.
LEMMA ForsNodeSettled ==
  ASSUME NEW tree, NEW leaf, NEW z \in 0 .. A, NEW i \in 0 .. K * Pow2(A - z) - 1
  PROVE  Settled(ForsNode(i, z, FewTimeAdrs(tree, leaf)))
<1> DEFINE adrs == FewTimeAdrs(tree, leaf)
           M == ForsTree(adrs)
           node == ForsNode(i, z, adrs)
           at == Address(0, tree, "FORS_TREE", leaf, z, i)
           leaves == [l \in 0 .. K * Pow2(A) - 1 |-> Hash(SetNode(adrs, 0, l), <<ForsSkGen(adrs, l)>>)]
<1>1. A \in Nat /\ K \in Nat /\ 0 \in 0 .. D - 1
  BY Sizes
<1>2. SetNode(adrs, z, i) = at
  BY FewTimeWords
<1>3. ValueAt(at) = node
  BY Meanings
<1>4. M = Merkle(leaves, A, K, adrs) /\ node = M[z][i]
  BY DEF ForsTree, ForsNode
<1>5. CASE z = 0
  <2> DEFINE sk == ForsSkGen(adrs, i)
  <2>1. A - 0 = A
    BY <1>1
  <2>2. leaves[i] = Hash(SetNode(adrs, 0, i), <<sk>>)
    BY <1>5, <2>1
  <2>3. Genuine(sk)
    BY DEF Genuine, OfFors
  <2> HIDE DEF leaves, sk, adrs, M, node, at
  <2>4. M[0] = leaves
    <3>1. Merkle(leaves, A, K, adrs)[0] = leaves
      BY <1>1, MerkleLevels
    <3> QED BY <1>4, <3>1
  <2>5. node = Hash(at, <<sk>>)
    BY <1>2, <1>4, <1>5, <2>2, <2>4
  <2>6. DOMAIN <<sk>> = 1 .. 1 /\ 1 \in Nat /\ \A k \in 1 .. 1 : Genuine(<<sk>>[k])
    BY <2>3
  <2>7. Settled(Hash(Address(0, tree, "FORS_TREE", leaf, z, i), <<sk>>))
    BY <1>1, <1>3, <2>5, <2>6, SettledHash DEF at
  <2> QED BY <2>5, <2>7 DEF at, node, adrs
<1>6. CASE z # 0
  <2> DEFINE k == z - 1
             x == ForsNode(2 * i, k, adrs)
             y == ForsNode(2 * i + 1, k, adrs)
  <2>1. k \in Nat /\ k < A /\ k + 1 = z /\ k \in 0 .. A
    BY <1>1, <1>6
  <2> HIDE DEF k
  <2>2. {2 * i, 2 * i + 1} \subseteq 0 .. K * Pow2(A - k) - 1
    BY <1>1, <2>1, NodesBelow
  <2>3. Genuine(x) /\ Genuine(y)
    BY <2>1, <2>2 DEF Genuine, OfFors
  <2>4. x = M[k][2 * i] /\ y = M[k][2 * i + 1]
    BY DEF ForsNode, ForsTree
  <2> HIDE DEF x, y, M, leaves, adrs, node, at
  <2>5. NodeHash(M, k, i, adrs)
    BY <1>1, <1>4, <2>1, MerkleNode
  <2>6. node = Hash(at, <<x, y>>)
    BY <1>2, <1>4, <2>1, <2>4, <2>5 DEF NodeHash
  <2>7. DOMAIN <<x, y>> = 1 .. 2 /\ 2 \in Nat /\ \A c \in 1 .. 2 : Genuine(<<x, y>>[c])
    BY <2>3
  <2>8. Settled(Hash(Address(0, tree, "FORS_TREE", leaf, z, i), <<x, y>>))
    BY <1>1, <1>3, <2>6, <2>7, SettledHash DEF at
  <2> QED BY <2>6, <2>8 DEF at, node, adrs
<1> QED BY <1>5, <1>6

\* The FORS keys.
LEMMA ForsPkSettled ==
  ASSUME NEW tree, NEW leaf
  PROVE  Settled(ForsPk(FewTimeAdrs(tree, leaf)))
<1> DEFINE adrs == FewTimeAdrs(tree, leaf)
           at == Address(0, tree, "FORS_ROOTS", leaf, 0, 0)
           input == [i \in 1 .. K |-> ForsNode(i - 1, A, adrs)]
<1>1. K \in Nat /\ A \in Nat /\ 0 \in 0 .. D - 1 /\ DOMAIN input = 1 .. K
  BY Sizes
<1>2. ForsPk(adrs) = Hash(at, input)
  <2>1. SetType(adrs, "FORS_ROOTS", adrs.pair) = at
    BY FewTimeWords
  <2> HIDE DEF at, adrs
  <2> QED BY <2>1 DEF ForsPk
<1>3. ValueAt(at) = ForsPk(adrs)
  BY Meanings
<1>4. ASSUME NEW i \in 1 .. K PROVE Genuine(input[i])
  <2>1. Pow2(A - A) = 1
    <3>1. A - A = 0
      BY <1>1
    <3> QED BY <3>1, PowerOfTwo
  <2>2. i - 1 \in 0 .. K * Pow2(A - A) - 1 /\ A \in 0 .. A
    BY <1>1, <2>1
  <2> QED BY <2>2 DEF Genuine, OfFors
<1> HIDE DEF input
<1>5. Settled(Hash(at, input))
  BY <1>1, <1>2, <1>3, <1>4, SettledHash
<1> QED BY <1>2, <1>5

\* Every value that signing computes is the one its address stands for, on a layer of the
\* hypertree, and computed from such values.
LEMMA GenuineSettled ==
  ASSUME NEW v, Genuine(v)
  PROVE  Settled(v)
<1>1. CASE v = Randomizer
  <2> DEFINE at == [ADRS(0, 0) EXCEPT !.type = "PRF_MSG"]
  <2>1. at.type = "PRF_MSG" /\ at.layer = 0
    BY DEF ADRS
  <2>2. 0 \in 0 .. D - 1 /\ 0 \in Nat /\ DOMAIN <<>> = 1 .. 0
    BY Sizes
  <2>3. v.adrs = at /\ v.input = <<>> /\ DOMAIN v = {"adrs", "input"}
    BY <1>1 DEF Randomizer, Hash
  <2> HIDE DEF at
  <2>4. HashValue(v)
    BY <2>1, <2>2, <2>3 DEF HashValue
  <2>5. ValueAt(at) = Randomizer
    BY <2>1 DEF ValueAt
  <2>6. InputsGenuine(v)
    BY <2>2, <2>3 DEF InputsGenuine
  <2> QED BY <1>1, <2>3, <2>4, <2>5, <2>6 DEF Settled
<1>2. CASE OfChain(v)
  BY <1>2, ChainSettled DEF OfChain
<1>3. CASE OfTree(v)
  BY <1>3, TreeSettled DEF OfTree
<1>4. CASE OfFors(v)
  BY <1>4, ForsSkSettled, ForsNodeSettled, ForsPkSettled DEF OfFors
<1> QED BY <1>1, <1>2, <1>3, <1>4 DEF Genuine

\* Every value of an XMSS signature.
LEMMA XmssGenuine ==
  ASSUME NEW m \in Bytes, NEW idx \in 0 .. Pow2(HP) - 1, NEW layer \in 0 .. D - 1, NEW tree,
         NEW s, XmssSigned(s, m, idx, ADRS(layer, tree)), NEW i \in 1 .. WotsLen + HP
  PROVE  Genuine(s[i])
<1> DEFINE adrs == ADRS(layer, tree)
<1>1. WotsLen \in Nat /\ HP \in Nat /\ W - 1 \in Nat
  BY WotsSizes, Sizes, WIsNat
<1>2. CASE i \in 1 .. WotsLen
  <2> DEFINE d == WotsDigits(m)[i]
  <2>1. d \in Nat
    BY <1>1, <1>2, WotsDigitsType
  <2>2. s[i] = ChainValue(WotsAdrs(layer, tree, idx), i, d)
    BY <1>2 DEF XmssSigned, WotsSign, ChainValue, WotsAdrs
  <2> HIDE DEF d
  <2> QED BY <1>2, <2>1, <2>2 DEF Genuine, OfChain
<1>3. CASE i \notin 1 .. WotsLen
  <2> DEFINE j == i - WotsLen
             x == Sibling(idx, j - 1)
  <2>1. j \in 1 .. HP /\ i = WotsLen + j /\ j - 1 \in 0 .. HP
    BY <1>1, <1>3
  <2> HIDE DEF j
  <2>2. s[i] = XmssNode(x, j - 1, adrs)
    BY <2>1 DEF XmssSigned
  <2>3. x \in 0 .. Pow2(HP - (j - 1)) - 1
    <3>1. 0 * Pow2(HP - (j - 1)) + Sibling(idx, j - 1) \in 0 .. 1 * Pow2(HP - (j - 1)) - 1
      <4>1. 0 \in Nat /\ 1 \in Nat /\ 0 < 1
        OBVIOUS
      <4> QED BY <1>1, <2>1, <4>1, SiblingInTree, Zenon
    <3>2. HP - (j - 1) \in Nat /\ j - 1 \in Nat /\ idx \in Nat
      BY <1>1, <2>1
    <3>3. Pow2(HP - (j - 1)) \in Nat /\ idx \div Pow2(j - 1) \in Nat
      BY <3>2, PowerType, ShiftStep
    <3>4. 0 * Pow2(HP - (j - 1)) + Sibling(idx, j - 1) = Sibling(idx, j - 1)
      BY <3>3 DEF Sibling
    <3> QED BY <3>1, <3>3, <3>4
  <2> HIDE DEF x
  <2> QED BY <2>1, <2>2, <2>3 DEF Genuine, OfTree
<1> QED BY <1>2, <1>3

\* Every value of a FORS signature.
LEMMA ForsGenuine ==
  ASSUME NEW md \in Seq(Nat), K * A <= 8 * Len(md), NEW tree, NEW leaf,
         NEW s, ForsSigned(s, md, FewTimeAdrs(tree, leaf)), NEW p \in 1 .. K * (A + 1)
  PROVE  Genuine(s[p])
<1> DEFINE adrs == FewTimeAdrs(tree, leaf)
           i == (p - 1) \div (A + 1)
           j == (p - 1) % (A + 1)
<1>1. A \in Nat /\ A > 0 /\ K \in Nat
  BY Sizes
<1>2. i \in Nat /\ j \in 0 .. A /\ p - 1 = i * (A + 1) + j
  <2> DEFINE d == A + 1
  <2>1. p - 1 \in Nat /\ d \in Nat /\ d > 0
    BY <1>1
  <2> HIDE DEF d
  <2>2. /\ (p - 1) \div d \in Nat /\ (p - 1) % d \in 0 .. d - 1
        /\ p - 1 = ((p - 1) \div d) * d + ((p - 1) % d)
    BY <2>1, Division
  <2>3. d - 1 = A
    BY <1>1 DEF d
  <2> QED BY <2>2, <2>3 DEF d
<1> HIDE DEF i, j
<1> DEFINE t == i + 1
<1>3. t \in 1 .. K /\ t - 1 = i
  <2>1. ~(K <= i)
    <3> SUFFICES ASSUME K <= i PROVE FALSE
      OBVIOUS
    <3>1. K * (A + 1) <= i * (A + 1)
      BY <1>1, <1>2, TimesMonotone
    <3>2. K * (A + 1) \in Nat /\ i * (A + 1) \in Nat
      BY <1>1, <1>2
    <3> QED BY <1>2, <3>1, <3>2
  <2> QED BY <1>1, <1>2, <2>1
<1> HIDE DEF t
<1> DEFINE first == (t - 1) * (A + 1)
           index == Base2b(md, A, K)[t]
<1>4. /\ s[first + 1] = ForsSkGen(adrs, (t - 1) * Pow2(A) + index)
      /\ \A k \in 1 .. A :
           s[first + 1 + k] = ForsNode((t - 1) * Pow2(A - (k - 1)) + Sibling(index, k - 1), k - 1, adrs)
  BY <1>3, ForsPart
<1>5. first \in Nat /\ p = first + 1 + j
  BY <1>1, <1>2, <1>3
<1>6. index \in 0 .. Pow2(A) - 1
  BY <1>3, ForsIndices
<1> HIDE DEF first, index
<1>7. CASE j = 0
  <2>1. p = first + 1
    BY <1>5, <1>7
  <2> QED BY <1>4, <2>1 DEF Genuine, OfFors
<1>8. CASE j # 0
  <2>1. j \in 1 .. A /\ j - 1 \in 0 .. A
    BY <1>1, <1>2, <1>8
  <2> DEFINE x == (t - 1) * Pow2(A - (j - 1)) + Sibling(index, j - 1)
  <2>2. x \in 0 .. K * Pow2(A - (j - 1)) - 1
    <3>1. t - 1 \in Nat /\ t - 1 < K
      BY <1>1, <1>2, <1>3
    <3> QED BY <1>1, <1>6, <2>1, <3>1, SiblingInTree
  <2>3. s[p] = ForsNode(x, j - 1, adrs)
    BY <1>4, <1>5, <2>1
  <2> HIDE DEF x
  <2> QED BY <2>1, <2>2, <2>3 DEF Genuine, OfFors
<1> QED BY <1>7, <1>8

-----------------------------------------------------------------------------
(* What a set of values was computed from.                                 *)
\* The range of a sequence-like function is finite.
LEMMA FiniteRange ==
  ASSUME NEW f, IsFiniteSet(DOMAIN f)
  PROVE  IsFiniteSet(Range(f))
<1> DEFINE g == [x \in DOMAIN f |-> f[x]]
<1>1. g \in Surjection(DOMAIN f, Range(f))
  BY DEF Surjection, Range
<1> QED BY <1>1, FS_Surjection

\* All values at most k hashes below genuine ones are genuine, and finite in number.
LEMMA ComputedGenuine ==
  ASSUME NEW values, IsFiniteSet(values), \A v \in values : Genuine(v)
  PROVE  IsFiniteSet(Computed(values)) /\ \A v \in Computed(values) : Genuine(v)
<1> DEFINE Below(set) == set \cup UNION {Range(v.input) : v \in set}
           Loop(n, f) == f = [k \in 0 .. n |-> IF k = 0 THEN values ELSE Below(f[k - 1])]
           Fine(set) == IsFiniteSet(set) /\ \A v \in set : Genuine(v)
           S == {n \in Nat : \E f : Loop(n, f) /\ Fine(f[n])}
<1>1. 0 \in S
  <2> DEFINE f == [k \in 0 .. 0 |-> values]
  <2>1. Loop(0, f) /\ f[0] = values
    OBVIOUS
  <2> HIDE DEF f, Loop
  <2> QED BY <2>1
<1>2. ASSUME NEW set, Fine(set) PROVE Fine(Below(set))
  <2> DEFINE ranges == {Range(v.input) : v \in set}
  <2>1. ASSUME NEW v \in set
        PROVE  IsFiniteSet(Range(v.input)) /\ \A u \in Range(v.input) : Genuine(u)
    <3>1. InputsGenuine(v)
      BY <1>2, GenuineSettled DEF Settled
    <3>2. PICK n \in Nat : DOMAIN v.input = 1 .. n /\ \A k \in 1 .. n : Genuine(v.input[k])
      BY <3>1 DEF InputsGenuine
    <3>3. IsFiniteSet(DOMAIN v.input)
      <4>1. 1 \in Int /\ n \in Int
        OBVIOUS
      <4> QED BY <3>2, <4>1, FS_Interval
    <3> QED BY <3>2, <3>3, FiniteRange DEF Range
  <2>2. IsFiniteSet(ranges)
    <3> DEFINE g == [v \in set |-> Range(v.input)]
    <3>1. g \in Surjection(set, ranges)
      BY DEF Surjection
    <3> HIDE DEF ranges, g
    <3> QED BY <1>2, <3>1, FS_Surjection
  <2>3. \A T \in ranges : IsFiniteSet(T) /\ \A u \in T : Genuine(u)
    BY <2>1
  <2> HIDE DEF ranges
  <2>4. IsFiniteSet(UNION ranges)
    BY <2>2, <2>3, FS_UNION
  <2>5. IsFiniteSet(set \cup UNION ranges)
    BY <1>2, <2>4, FS_Union
  <2>6. \A v \in set \cup UNION ranges : Genuine(v)
    BY <1>2, <2>3
  <2> QED BY <2>5, <2>6 DEF ranges
<1>3. ASSUME NEW n \in Nat, n \in S PROVE n + 1 \in S
  <2>1. PICK f : Loop(n, f) /\ Fine(f[n])
    BY <1>3
  <2> DEFINE g == [k \in 0 .. n + 1 |-> IF k = n + 1 THEN Below(f[n]) ELSE f[k]]
  <2>2. \A k \in 0 .. n + 1 : g[k] = IF k = 0 THEN values ELSE Below(g[k - 1])
    <3> HIDE DEF Below
    <3>1. \A k \in 0 .. n : f[k] = IF k = 0 THEN values ELSE Below(f[k - 1])
      BY <2>1
    <3> QED BY <3>1
  <2>3. Loop(n + 1, g) /\ g[n + 1] = Below(f[n])
    <3> HIDE DEF Below
    <3> QED BY <2>2
  <2> HIDE DEF g, Loop, Below, Fine
  <2>4. Fine(g[n + 1])
    BY <1>2, <2>1, <2>3
  <2> QED BY <2>3, <2>4
<1> HIDE DEF S, Fine
<1> DEFINE t == CHOOSE f : Loop(HashDepth, f)
<1>4. HashDepth \in Nat
  BY Sizes, WIsNat DEF HashDepth
<1>5. \E f : Loop(HashDepth, f) /\ Fine(f[HashDepth])
  <2>1. HashDepth \in S
    BY <1>1, <1>3, <1>4, SetInduction
  <2> HIDE DEF Loop
  <2> QED BY <2>1 DEF S
<1>6. Fine(t[HashDepth])
  <2>1. PICK f : Loop(HashDepth, f) /\ Fine(f[HashDepth])
    BY <1>5
  <2>2. Loop(HashDepth, t)
    BY <2>1
  <2> DEFINE same == {n \in Nat : n <= HashDepth => f[n] = t[n]}
  <2> HIDE DEF t, Below
  <2>3. /\ \A k \in 0 .. HashDepth : f[k] = IF k = 0 THEN values ELSE Below(f[k - 1])
        /\ \A k \in 0 .. HashDepth : t[k] = IF k = 0 THEN values ELSE Below(t[k - 1])
    BY <2>1, <2>2
  <2>4. 0 \in same
    BY <1>4, <2>3
  <2>5. ASSUME NEW n \in Nat, n \in same PROVE n + 1 \in same
    <3> SUFFICES ASSUME n + 1 <= HashDepth PROVE f[n + 1] = t[n + 1]
      OBVIOUS
    <3>1. n + 1 \in 0 .. HashDepth /\ n + 1 # 0 /\ n + 1 - 1 = n /\ f[n] = t[n]
      BY <1>4, <2>5
    <3> QED BY <2>3, <3>1
  <2> HIDE DEF same
  <2>6. HashDepth \in same
    BY <1>4, <2>4, <2>5, SetInduction
  <2> QED BY <1>4, <2>1, <2>6 DEF same
<1>7. Computed(values) = t[HashDepth]
  BY DEF Computed
<1> QED BY <1>6, <1>7 DEF Fine

\* The roots of the XMSS trees.
LEMMA RootGenuine ==
  ASSUME NEW layer \in 0 .. D - 1, NEW tree
  PROVE  Genuine(XmssNode(0, HP, ADRS(layer, tree)))
<1>1. HP \in 0 .. HP /\ 0 \in 0 .. Pow2(HP - HP) - 1
  <2>1. HP \in Nat /\ HP - HP = 0
    BY Sizes
  <2> QED BY <2>1, PowerOfTwo
<1> QED BY <1>1 DEF Genuine, OfTree

\* Of genuine values there is one for an address.
LEMMA OneValuePerAddress ==
  ASSUME NEW values, IsFiniteSet(values), \A v \in values : Genuine(v)
  PROVE  Cardinality({v.adrs : v \in values}) = Cardinality(values)
<1> DEFINE addresses == {v.adrs : v \in values}
           g == [v \in values |-> v.adrs]
<1>1. \A v \in values : v = ValueAt(v.adrs)
  BY GenuineSettled DEF Settled
<1>2. g \in Bijection(values, addresses)
  BY <1>1 DEF Bijection, Injection, Surjection, IsInjective
<1> HIDE DEF g, addresses
<1>3. ExistsBijection(values, addresses)
  BY <1>2, Fun_ExistsBij
<1>4. Cardinality(addresses) = Cardinality(values)
  BY <1>3, FS_Bijection
<1> QED BY <1>4 DEF addresses

-----------------------------------------------------------------------------
(* Digests, and the way up the layers of the hypertree.                    *)
LEMMA LayerSizes ==
  /\ H \div D = HP /\ H - HP \in Nat /\ H = D * HP /\ D - 1 \in Nat
  /\ H - HP = (D - 1) * HP
<1>1. D \in Nat /\ D > 0 /\ HP \in Nat /\ HP > 0 /\ H \in Nat
  BY Sizes
<1>2. (HP * D + 0) \div D = HP
  BY <1>1, DivisionUnique
<1>3. HP * D + 0 = D * HP /\ D * HP - HP = (D - 1) * HP /\ (D - 1) * HP \in Nat
  BY <1>1
<1> QED BY <1>1, <1>2, <1>3, HeightAssumption

\* A digest of the right length is cut into its three fields without remainder, and each
\* field lies in its range, whatever surplus bits its bytes have.
LEMMA SplitType ==
  ASSUME NEW digest \in Digests
  PROVE  /\ SplitDigest(digest).md \in Seq(Nat)
         /\ K * A <= 8 * Len(SplitDigest(digest).md)
         /\ SplitDigest(digest).i_tree \in 0 .. Pow2(H - HP) - 1
         /\ SplitDigest(digest).i_leaf \in 0 .. Pow2(HP) - 1
<1> DEFINE ka1 == (K * A + 7) \div 8
           tree == (H - HP + 7) \div 8
           leaf == (HP + 7) \div 8
<1>1. K * A \in Nat /\ H - HP \in Nat /\ HP \in Nat
  BY Sizes, LayerSizes
<1>2. ka1 \in Nat /\ K * A <= 8 * ka1 /\ tree \in Nat /\ leaf \in Nat
  BY <1>1
<1>3. digest \in Seq(Nat) /\ Len(digest) = ka1 + tree + leaf
  <2>1. digest \in Seq(0 .. 255) /\ 0 .. 255 \subseteq Nat
    BY DigestAssumption
  <2>2. digest \in Seq(Nat)
    BY <2>1, SeqMonotonic
  <2> QED BY <2>2, DigestAssumption
<1>4. SplitDigest(digest) =
        [md     |-> SubSeq(digest, 1, ka1),
         i_tree |-> ToInt(SubSeq(digest, ka1 + 1, ka1 + tree)) % Pow2(H - HP),
         i_leaf |-> ToInt(SubSeq(digest, ka1 + tree + 1, ka1 + tree + leaf)) % Pow2(HP)]
  BY LayerSizes DEF SplitDigest
<1> HIDE DEF ka1, tree, leaf
<1>5. SubSeq(digest, 1, ka1) \in Seq(Nat) /\ Len(SubSeq(digest, 1, ka1)) = ka1
  <2>1. 0 + 1 = 1 /\ 0 + ka1 = ka1 /\ 0 + ka1 <= Len(digest) /\ 0 \in Nat
    BY <1>2, <1>3
  <2> QED BY <1>2, <1>3, <2>1, Slice
<1>6. SubSeq(digest, ka1 + 1, ka1 + tree) \in Seq(Nat)
  BY <1>2, <1>3, Slice
<1>7. SubSeq(digest, ka1 + tree + 1, ka1 + tree + leaf) \in Seq(Nat)
  <2> DEFINE a == ka1 + tree
  <2>1. a \in Nat /\ a + leaf <= Len(digest)
    BY <1>2, <1>3
  <2> HIDE DEF a
  <2>2. SubSeq(digest, a + 1, a + leaf) \in Seq(Nat)
    BY <1>2, <1>3, <2>1, Slice
  <2> QED BY <2>2 DEF a
<1>8. /\ Pow2(H - HP) \in Nat /\ Pow2(H - HP) > 0 /\ Pow2(HP) \in Nat /\ Pow2(HP) > 0
  BY <1>1, PowerType
<1>9. ASSUME NEW s \in Seq(Nat), NEW d \in Nat, d > 0 PROVE ToInt(s) % d \in 0 .. d - 1
  <2>1. ToInt(s) \in Nat
    BY ToIntType
  <2>2. \A x \in Nat : x % d \in 0 .. d - 1
    BY <1>9, Division
  <2> QED BY <2>1, <2>2
<1>10. /\ ToInt(SubSeq(digest, ka1 + 1, ka1 + tree)) % Pow2(H - HP) \in 0 .. Pow2(H - HP) - 1
       /\ ToInt(SubSeq(digest, ka1 + tree + 1, ka1 + tree + leaf)) % Pow2(HP) \in 0 .. Pow2(HP) - 1
  BY <1>6, <1>7, <1>8, <1>9
<1> QED BY <1>2, <1>4, <1>5, <1>10

TreeAt(digest, layer) == SplitDigest(digest).i_tree \div Pow2(layer * HP)
LeafAt(digest, layer) ==
  IF layer = 0 THEN SplitDigest(digest).i_leaf ELSE TreeAt(digest, layer - 1) % Pow2(HP)

\* One layer up: the tree loses its low bits, which are the leaf there; the last layer
\* is one tree.
LEMMA LayersUp ==
  ASSUME NEW digest \in Digests, NEW layer \in 0 .. D - 1
  PROVE  /\ TreeAt(digest, layer) \in 0 .. Pow2(H - HP) - 1
         /\ LeafAt(digest, layer) \in 0 .. Pow2(HP) - 1
         /\ TreeAt(digest, 0) = SplitDigest(digest).i_tree
         /\ LeafAt(digest, 0) = SplitDigest(digest).i_leaf
         /\ TreeAt(digest, layer + 1) = TreeAt(digest, layer) \div Pow2(HP)
         /\ LeafAt(digest, layer + 1) = TreeAt(digest, layer) % Pow2(HP)
         /\ TreeAt(digest, layer) = TreeAt(digest, layer + 1) * Pow2(HP) + LeafAt(digest, layer + 1)
         /\ layer = D - 1 => TreeAt(digest, layer) = 0
<1> DEFINE t == SplitDigest(digest).i_tree
<1>1. HP \in Nat /\ layer \in Nat /\ H - HP \in Nat /\ H - HP = (D - 1) * HP /\ D \in Nat
  BY Sizes, LayerSizes
<1>2. t \in 0 .. Pow2(H - HP) - 1 /\ t \in Nat
  <2>1. Pow2(H - HP) \in Nat
    BY <1>1, PowerType
  <2> QED BY <2>1, SplitType
<1> HIDE DEF t
<1>3. ASSUME NEW j \in 0 .. D - 1 PROVE TreeAt(digest, j) \in 0 .. Pow2(H - HP - j * HP) - 1
  <2>1. j * HP <= (D - 1) * HP /\ j * HP \in Nat
    BY <1>1, TimesMonotone
  <2>2. H - HP - j * HP \in Nat /\ j * HP + (H - HP - j * HP) = H - HP
    BY <1>1, <2>1
  <2>3. t \div Pow2(j * HP) \in 0 .. Pow2(H - HP - j * HP) - 1
    BY <1>2, <2>1, <2>2, ShiftRange
  <2> QED BY <2>3 DEF TreeAt, t
<1>4. ASSUME NEW j \in Nat PROVE TreeAt(digest, j) \in Nat /\ TreeAt(digest, j) <= t
  <2>1. j * HP \in Nat
    BY <1>1
  <2> DEFINE d == Pow2(j * HP)
  <2>2. d \in Nat /\ d > 0
    BY <2>1, PowerType
  <2> HIDE DEF d
  <2> DEFINE q == t \div d
  <2>3. q \in Nat /\ t % d \in 0 .. d - 1 /\ t = q * d + (t % d)
    BY <1>2, <2>2, Division
  <2> HIDE DEF q
  <2>4. 1 * q <= d * q /\ d * q = q * d /\ d * q \in Nat /\ 1 * q = q
    BY <2>2, <2>3, TimesMonotone
  <2>5. q <= t
    BY <1>2, <2>2, <2>3, <2>4
  <2> QED BY <2>3, <2>5 DEF TreeAt, t, q, d
<1>5. Pow2(HP) \in Nat /\ Pow2(HP) > 0
  BY <1>1, PowerType
<1>6. TreeAt(digest, layer) \in 0 .. Pow2(H - HP) - 1
  <2>1. Pow2(H - HP) \in Nat
    BY <1>1, PowerType
  <2> QED BY <1>1, <1>2, <1>4, <2>1
<1>7. LeafAt(digest, layer) \in 0 .. Pow2(HP) - 1
  <2>1. CASE layer = 0
    BY <2>1, SplitType DEF LeafAt
  <2>2. CASE layer # 0
    <3>1. layer - 1 \in Nat
      BY <1>1, <2>2
    <3>2. TreeAt(digest, layer - 1) \in Nat
      BY <1>4, <3>1
    <3> QED BY <1>5, <2>2, <3>2, Division DEF LeafAt
  <2> QED BY <2>1, <2>2
<1>8. TreeAt(digest, 0) = t /\ LeafAt(digest, 0) = SplitDigest(digest).i_leaf
  <2>1. 0 * HP = 0 /\ t \div Pow2(0) = t
    BY <1>1, <1>2, ShiftStep
  <2> QED BY <2>1 DEF TreeAt, LeafAt, t
<1>9. TreeAt(digest, layer + 1) = TreeAt(digest, layer) \div Pow2(HP)
  <2>1. layer * HP \in Nat /\ (layer + 1) * HP = layer * HP + HP
    BY <1>1
  <2>2. Pow2((layer + 1) * HP) = Pow2(layer * HP) * Pow2(HP)
    BY <1>1, <2>1, PowerSum
  <2>3. Pow2(layer * HP) \in Nat /\ Pow2(layer * HP) > 0
    BY <2>1, PowerType
  <2>4. (t \div Pow2(layer * HP)) \div Pow2(HP) = t \div (Pow2(layer * HP) * Pow2(HP))
    BY <1>2, <1>5, <2>3, DivisionTwice
  <2> QED BY <2>2, <2>4 DEF TreeAt, t
<1>10. LeafAt(digest, layer + 1) = TreeAt(digest, layer) % Pow2(HP)
  <2>1. layer + 1 # 0 /\ layer + 1 - 1 = layer
    BY <1>1
  <2> QED BY <2>1 DEF LeafAt
<1>11. TreeAt(digest, layer) = TreeAt(digest, layer + 1) * Pow2(HP) + LeafAt(digest, layer + 1)
  <2>1. TreeAt(digest, layer) \in Nat
    BY <1>1, <1>4
  <2> QED BY <1>5, <1>9, <1>10, <2>1, Division
<1>12. ASSUME layer = D - 1 PROVE TreeAt(digest, layer) = 0
  <2>1. H - HP - layer * HP = 0 /\ Pow2(0) = 1
    BY <1>1, <1>12, PowerOfTwo
  <2> QED BY <1>3, <2>1
<1> QED BY <1>6, <1>7, <1>8, <1>9, <1>10, <1>11, <1>12 DEF t

-----------------------------------------------------------------------------
(* The inductive invariant.                                                *)
\* The value that a WOTS key signs: on layer 0 the FORS key of its tree and leaf, above
\* the root of the tree below, of which there is one for every leaf.
NodeOf(layer, tree, leaf) ==
  IF layer = 0 THEN ForsPk(SetType(ADRS(0, tree), "FORS_TREE", leaf))
  ELSE XmssNode(0, HP, ADRS(layer - 1, tree * Pow2(HP) + leaf))
NodeAt(digest, layer) == NodeOf(layer, TreeAt(digest, layer), LeafAt(digest, layer))

\* What precedes the signature of a layer in the signature as a whole.
Slot(layer) == 1 + K * (1 + A) + layer * (HP + WotsLen)
After(s, n) == [i \in 1 .. Len(s) - n |-> s[n + i]]

\* s is the signature for digest, made up to and not including this layer, and read
\* holds the bytes it was made from.
MadeBelow(s, digest, read, layer) ==
  LET split == SplitDigest(digest)
  IN  /\ s \in Seq(Range(s)) /\ Len(s) = Slot(layer)
      /\ \A i \in 1 .. Len(s) : Genuine(s[i])
      /\ ForsSigned(After(s, 1), split.md, ForsAdrs(split))
      /\ \A j \in 0 .. layer - 1 :
           /\ NodeAt(digest, j) \in DOMAIN read
           /\ XmssSigned(After(s, Slot(j)), read[NodeAt(digest, j)], LeafAt(digest, j), ADRS(j, TreeAt(digest, j)))

\* The job on its way up the layers.
Stage(op, digest, layer, node) ==
  [op |-> op, digest |-> digest, layer |-> layer, tree |-> TreeAt(digest, layer),
   leaf |-> LeafAt(digest, layer), node |-> node]

\* The way up of a digest has come to the place and the value of that of the signature.
Meets(digest, layer, node, signed_for) ==
  /\ TreeAt(digest, layer) = TreeAt(signed_for, layer)
  /\ LeafAt(digest, layer) = LeafAt(signed_for, layer)
  /\ node = NodeAt(signed_for, layer)

JobInv ==
  job # Idle =>
    /\ job = Stage(job.op, job.digest, job.layer, job.node)
    /\ job.op \in {"sign", "verify"} /\ job.digest \in Digests /\ job.layer \in 0 .. D - 1
    /\ HashValue(job.node) /\ signed # None
    /\ job.op = "sign" => job.digest = signed /\ verdict = None
    /\ Selects(job.digest) = Selects(signed) <=> Meets(job.digest, job.layer, job.node, signed)

SigInv ==
  /\ signed \in Digests \cup {None}
  /\ signed = None => sig = <<>> /\ verdict = None
  /\ signed # None => MadeBelow(sig, signed, bytes, IF job.op = "sign" THEN job.layer ELSE D)

BytesInv ==
  /\ oracle \in Seq(Bytes) /\ IsInjective(oracle)
  /\ \A v \in DOMAIN bytes : HashValue(v) /\ bytes[v] \in Bytes /\ bytes[v] \notin Range(oracle)
  /\ IsInjective(bytes)

VerdictInv ==
  verdict # None =>
    /\ verdict \in [digest : Digests, accepted : BOOLEAN]
    /\ Selects(verdict.digest) = Selects(signed) <=> verdict.accepted

WotsInv ==
  /\ IsFiniteSet(wots)
  /\ \A w \in wots :
       /\ w.layer \in 0 .. D - 1 /\ w.value = NodeOf(w.layer, w.tree, w.leaf)
       /\ w.value \in DOMAIN bytes

IInv == JobInv /\ SigInv /\ BytesInv /\ VerdictInv /\ WotsInv /\ made \in 0 .. SignBound

\* Where the layers lie in the signature.
LEMMA Slots ==
  ASSUME NEW layer \in Nat
  PROVE  /\ Slot(layer) \in Nat /\ Slot(layer + 1) = Slot(layer) + HP + WotsLen
         /\ Slot(0) = 1 + K * (1 + A) /\ Slot(0) = 1 + K * (A + 1) /\ K * (A + 1) \in Nat
         /\ Slot(D) = SigSize
         /\ \A j \in 0 .. layer : Slot(j) \in Nat /\ Slot(j) <= Slot(layer)
<1> DEFINE n == HP + WotsLen
           c == K * (1 + A)
<1>1. n \in Nat /\ HP \in Nat /\ WotsLen \in Nat /\ D \in Nat /\ K \in Nat /\ A \in Nat
  BY Sizes, WotsSizes
<1>2. c \in Nat /\ c = K * (A + 1)
  BY <1>1
<1>3. D * n = H + D * WotsLen
  <2>1. D * (HP + WotsLen) = D * HP + D * WotsLen
    BY <1>1
  <2> QED BY <2>1, HeightAssumption
<1>4. \A j : Slot(j) = 1 + c + j * n
  BY DEF Slot
<1>5. SigSize = 1 + c + D * n
  <2>1. H \in Nat /\ D * WotsLen \in Nat /\ SigSize = 1 + c + H + D * WotsLen
    BY <1>1, Sizes DEF SigSize
  <2> HIDE DEF c
  <2> QED BY <1>2, <1>3, <2>1
<1> HIDE DEF n, c
<1>6. layer * n \in Nat /\ (layer + 1) * n = layer * n + n /\ 0 * n = 0
  BY <1>1
<1>7. Slot(layer) \in Nat /\ Slot(layer + 1) = Slot(layer) + HP + WotsLen
  <2>1. n = HP + WotsLen
    BY DEF n
  <2> QED BY <1>1, <1>2, <1>4, <1>6, <2>1
<1>8. Slot(0) = 1 + c /\ Slot(D) = SigSize
  BY <1>2, <1>4, <1>5, <1>6
<1>9. ASSUME NEW j \in 0 .. layer PROVE Slot(j) \in Nat /\ Slot(j) <= Slot(layer)
  <2>1. j * n <= layer * n /\ j * n \in Nat
    BY <1>1, TimesMonotone
  <2> QED BY <1>2, <1>4, <1>6, <2>1
<1> QED BY <1>2, <1>7, <1>8, <1>9 DEF c

\* A sequence is one over the values it holds.
LEMMA SequenceOverRange ==
  ASSUME NEW S, NEW s \in Seq(S)
  PROVE  s \in Seq(Range(s)) /\ Range(s) = {s[i] : i \in 1 .. Len(s)}
<1>1. s \in [1 .. Len(s) -> {s[i] : i \in 1 .. Len(s)}] /\ Len(s) \in Nat
  OBVIOUS
<1>2. Range(s) = {s[i] : i \in 1 .. Len(s)}
  BY DEF Range
<1>3. s \in Seq({s[i] : i \in 1 .. Len(s)})
  BY <1>1, FunctionSequence
<1> QED BY <1>2, <1>3

\* What follows the first n values.
LEMMA AfterValue ==
  ASSUME NEW S, NEW s \in Seq(S), NEW n \in Nat, NEW i \in Nat \ {0}, n + i <= Len(s)
  PROVE  After(s, n)[i] = s[n + i]
<1>1. i \in 1 .. Len(s) - n
  OBVIOUS
<1> QED BY <1>1 DEF After

\* Only the values count, not how the sequence that holds them came about.
LEMMA SameXmssSigned ==
  ASSUME NEW s, NEW t, \A i \in 1 .. WotsLen + HP : t[i] = s[i],
         NEW m, NEW idx, NEW adrs, XmssSigned(s, m, idx, adrs)
  PROVE  XmssSigned(t, m, idx, adrs)
<1>1. WotsLen \in Nat /\ HP \in Nat
  BY WotsSizes, Sizes
<1>2. ASSUME NEW i \in 1 .. WotsLen PROVE t[i] = s[i]
  BY <1>1
<1>3. ASSUME NEW j \in 1 .. HP PROVE t[WotsLen + j] = s[WotsLen + j]
  BY <1>1
<1> QED BY <1>2, <1>3 DEF XmssSigned

\* Reading more values leaves what was signed as it was.
LEMMA MadeKeepsBytes ==
  ASSUME NEW s, NEW digest, NEW read, NEW more, NEW layer, MadeBelow(s, digest, read, layer),
         \A v \in DOMAIN read : v \in DOMAIN more /\ more[v] = read[v]
  PROVE  MadeBelow(s, digest, more, layer)
BY DEF MadeBelow

\* The FORS part is the first thing made.
LEMMA MadeFirst ==
  ASSUME NEW digest \in Digests, NEW read
  PROVE  LET split == SplitDigest(digest)
         IN  MadeBelow(<<Randomizer>> \o ForsSign(split.md, ForsAdrs(split)), digest, read, 0)
<1> DEFINE split == SplitDigest(digest)
           adrs == ForsAdrs(split)
           fors == ForsSign(split.md, adrs)
           n == K * (A + 1)
           S == {Randomizer} \cup {fors[p] : p \in 1 .. n}
           s == <<Randomizer>> \o fors
<1>1. n \in Nat /\ Slot(0) = 1 + n /\ 0 \in 0 .. D - 1
  BY Sizes, Slots
<1>2. fors \in [1 .. n -> S]
  BY DEF ForsSign
<1>3. <<Randomizer>> \in [1 .. 1 -> S] /\ <<Randomizer>>[1] = Randomizer
  OBVIOUS
<1>4. ForsSigned(fors, split.md, adrs)
  BY DEF ForsSigned
<1>5. adrs = FewTimeAdrs(split.i_tree, split.i_leaf)
  BY DEF ForsAdrs, FewTimeAdrs
<1>6. Genuine(Randomizer)
  BY DEF Genuine
<1>7. \A p \in 1 .. n : Genuine(fors[p])
  BY <1>4, <1>5, SplitType, ForsGenuine
<1> HIDE DEF n, S, fors, adrs
<1>8. /\ s \in Seq(S) /\ Len(s) = 1 + n
      /\ \A i \in 1 .. 1 : s[i] = <<Randomizer>>[i]
      /\ \A p \in 1 .. n : s[1 + p] = fors[p]
  BY <1>1, <1>2, <1>3, Joined
<1> HIDE DEF s
<1>9. \A i \in 1 .. Len(s) : Genuine(s[i])
  <2> TAKE i \in 1 .. Len(s)
  <2>1. CASE i = 1
    BY <1>3, <1>6, <1>8, <2>1
  <2>2. CASE i # 1
    <3>1. i - 1 \in 1 .. n /\ 1 + (i - 1) = i
      BY <1>1, <1>8, <2>2
    <3> QED BY <1>7, <1>8, <3>1
  <2> QED BY <2>1, <2>2
<1>10. ForsSigned(After(s, 1), split.md, adrs)
  <2>1. ASSUME NEW p \in 1 .. n PROVE After(s, 1)[p] = fors[p]
    <3>1. 1 + p <= Len(s) /\ p \in Nat \ {0}
      BY <1>1, <1>8
    <3>2. After(s, 1)[p] = s[1 + p]
      BY <1>8, <3>1, AfterValue
    <3> QED BY <1>8, <3>2
  <2> QED BY <1>4, <2>1 DEF ForsSigned, n
<1>11. s \in Seq(Range(s))
  BY <1>8, SequenceOverRange
<1>12. \A j \in 0 .. 0 - 1 : FALSE
  OBVIOUS
<1> QED BY <1>1, <1>8, <1>9, <1>10, <1>11, <1>12 DEF MadeBelow, s, adrs, fors

\* Every layer adds the XMSS signature of the value below.
LEMMA MadeNext ==
  ASSUME NEW digest \in Digests, NEW read, NEW layer \in 0 .. D - 1, NEW s,
         MadeBelow(s, digest, read, layer),
         NodeAt(digest, layer) \in DOMAIN read, read[NodeAt(digest, layer)] \in Bytes
  PROVE  MadeBelow(s \o XmssSign(read[NodeAt(digest, layer)], LeafAt(digest, layer), ADRS(layer, TreeAt(digest, layer))),
                   digest, read, layer + 1)
<1> DEFINE split == SplitDigest(digest)
           m(j) == read[NodeAt(digest, j)]
           idx(j) == LeafAt(digest, j)
           adrs(j) == ADRS(j, TreeAt(digest, j))
           part == XmssSign(m(layer), idx(layer), adrs(layer))
           n == Slot(layer)
           k == WotsLen + HP
           all == s \o part
<1>1. n \in Nat /\ Slot(layer + 1) = n + k /\ k \in Nat /\ layer \in Nat
      /\ Slot(0) = 1 + K * (A + 1) /\ Slot(0) <= n /\ K * (A + 1) \in Nat
  <2>1. layer \in Nat /\ 0 \in 0 .. layer
    OBVIOUS
  <2> QED BY <2>1, Slots, WotsSizes, Sizes
<1>2. s \in Seq(Range(s)) /\ Len(s) = n /\ \A i \in 1 .. n : Genuine(s[i])
  BY DEF MadeBelow
<1>3. XmssSigned(part, m(layer), idx(layer), adrs(layer)) /\ Len(part) = k
  BY XmssSignParts
<1>4. PICK T : part \in Seq(T)
  BY XmssSignParts
<1>5. \A i \in 1 .. k : Genuine(part[i])
  <2>1. idx(layer) \in 0 .. Pow2(HP) - 1
    BY LayersUp
  <2> HIDE DEF m, idx, part
  <2>2. m(layer) \in Bytes
    BY DEF m
  <2> QED BY <1>3, <2>1, <2>2, XmssGenuine
<1> HIDE DEF part, n, k
<1>6. /\ all \in Seq(Range(s) \cup T) /\ Len(all) = n + k
      /\ \A i \in 1 .. n : all[i] = s[i]
      /\ \A i \in 1 .. k : all[n + i] = part[i]
  <2> DEFINE S == Range(s) \cup T
  <2>1. s \in Seq(S) /\ part \in Seq(S)
    <3>1. Range(s) \subseteq S /\ T \subseteq S
      OBVIOUS
    <3> QED BY <1>2, <1>4, <3>1, SeqMonotonic
  <2> HIDE DEF S
  <2>2. s \in [1 .. n -> S] /\ part \in [1 .. k -> S]
    BY <1>2, <1>3, <2>1
  <2> QED BY <1>1, <2>2, Joined, SMTT(30) DEF S
<1> HIDE DEF all
<1>7. all \in Seq(Range(all))
  BY <1>6, SequenceOverRange
<1>8. \A i \in 1 .. Len(all) : Genuine(all[i])
  <2> TAKE i \in 1 .. Len(all)
  <2>1. CASE i <= n
    <3>1. i \in 1 .. n
      BY <1>1, <1>6, <2>1
    <3> QED BY <1>2, <1>6, <3>1
  <2>2. CASE i > n
    <3>1. i - n \in 1 .. k /\ n + (i - n) = i
      BY <1>1, <1>6, <2>2
    <3> QED BY <1>5, <1>6, <3>1
  <2> QED BY <1>1, <1>6, <2>1, <2>2
<1>9. ASSUME NEW a \in Nat, NEW i \in Nat \ {0}, a + i <= n
      PROVE  After(all, a)[i] = After(s, a)[i]
  <2>1. a + i <= Len(s) /\ a + i <= Len(all) /\ a + i \in 1 .. n
    BY <1>1, <1>2, <1>6, <1>9
  <2>2. After(s, a)[i] = s[a + i] /\ After(all, a)[i] = all[a + i]
    BY <1>2, <1>6, <2>1, AfterValue
  <2> QED BY <1>6, <2>1, <2>2
<1>10. ForsSigned(After(all, 1), split.md, ForsAdrs(split))
  <2>1. ForsSigned(After(s, 1), split.md, ForsAdrs(split))
    BY DEF MadeBelow
  <2>2. ASSUME NEW p \in 1 .. K * (A + 1) PROVE After(all, 1)[p] = After(s, 1)[p]
    <3>1. 1 + p <= n /\ p \in Nat \ {0}
      BY <1>1
    <3> QED BY <1>9, <3>1
  <2> QED BY <2>1, <2>2 DEF ForsSigned
<1>11. ASSUME NEW j \in 0 .. layer + 1 - 1
       PROVE  /\ NodeAt(digest, j) \in DOMAIN read
              /\ XmssSigned(After(all, Slot(j)), m(j), idx(j), adrs(j))
  <2>1. j \in Nat /\ j <= layer
    BY <1>1
  <2>2. CASE j = layer
    <3>1. ASSUME NEW i \in 1 .. WotsLen + HP PROVE After(all, Slot(j))[i] = part[i]
      <4>1. n + i <= Len(all) /\ i \in Nat \ {0} /\ i \in 1 .. k
        BY <1>1, <1>6 DEF k
      <4>2. After(all, n)[i] = all[n + i]
        BY <1>1, <1>6, <4>1, AfterValue, SMTT(30)
      <4> QED BY <1>6, <2>2, <4>1, <4>2 DEF n
    <3> HIDE DEF m, idx, adrs
    <3>2. XmssSigned(After(all, Slot(j)), m(j), idx(j), adrs(j))
      BY <1>3, <2>2, <3>1, SameXmssSigned
    <3> QED BY <2>2, <3>2
  <2>3. CASE j # layer
    <3>1. j \in 0 .. layer - 1 /\ j + 1 \in 0 .. layer
      BY <1>1, <2>1, <2>3
    <3>2. /\ NodeAt(digest, j) \in DOMAIN read
          /\ XmssSigned(After(s, Slot(j)), m(j), idx(j), adrs(j))
      BY <3>1 DEF MadeBelow
    <3>3. Slot(j) \in Nat /\ Slot(j) + k <= n
      <4>1. Slot(j) \in Nat /\ Slot(j + 1) = Slot(j) + HP + WotsLen
        BY <2>1, Slots
      <4>2. Slot(j + 1) <= n
        BY <1>1, <3>1, Slots DEF n
      <4>3. HP \in Nat /\ WotsLen \in Nat
        BY Sizes, WotsSizes
      <4> QED BY <4>1, <4>2, <4>3 DEF k
    <3>4. ASSUME NEW i \in 1 .. WotsLen + HP PROVE After(all, Slot(j))[i] = After(s, Slot(j))[i]
      <4>1. Slot(j) + i <= n /\ i \in Nat \ {0}
        BY <1>1, <3>3 DEF k
      <4> QED BY <1>9, <3>3, <4>1
    <3> HIDE DEF m, idx, adrs
    <3>5. XmssSigned(After(all, Slot(j)), m(j), idx(j), adrs(j))
      BY <3>2, <3>4, SameXmssSigned
    <3> QED BY <3>2, <3>5
  <2> QED BY <2>2, <2>3
<1>12. MadeBelow(all, digest, read, layer + 1)
  BY <1>1, <1>6, <1>7, <1>8, <1>10, <1>11 DEF MadeBelow
<1> QED BY <1>12 DEF all, part

\* Digests that select the same take the same way up.
LEMMA SelectsAgree ==
  ASSUME NEW a, NEW b, Selects(a) = Selects(b)
  PROVE  /\ SplitDigest(a).i_tree = SplitDigest(b).i_tree
         /\ SplitDigest(a).i_leaf = SplitDigest(b).i_leaf
         /\ ForsAdrs(SplitDigest(a)) = ForsAdrs(SplitDigest(b))
         /\ Base2b(SplitDigest(a).md, A, K) = Base2b(SplitDigest(b).md, A, K)
         /\ \A layer : TreeAt(a, layer) = TreeAt(b, layer) /\ LeafAt(a, layer) = LeafAt(b, layer)
<1>1. \A d : \E md, t, l : SplitDigest(d) = [md |-> md, i_tree |-> t, i_leaf |-> l]
  BY DEF SplitDigest
<1>2. PICK md1, t1, l1 : SplitDigest(a) = [md |-> md1, i_tree |-> t1, i_leaf |-> l1]
  BY <1>1
<1>3. PICK md2, t2, l2 : SplitDigest(b) = [md |-> md2, i_tree |-> t2, i_leaf |-> l2]
  BY <1>1
<1>4. Selects(a) = [md |-> Base2b(md1, A, K), i_tree |-> t1, i_leaf |-> l1]
  BY <1>2 DEF Selects
<1>5. Selects(b) = [md |-> Base2b(md2, A, K), i_tree |-> t2, i_leaf |-> l2]
  BY <1>3 DEF Selects
<1>6. Base2b(md1, A, K) = Base2b(md2, A, K) /\ t1 = t2 /\ l1 = l2
  <2>1. Selects(a).md = Base2b(md1, A, K) /\ Selects(a).i_tree = t1 /\ Selects(a).i_leaf = l1
    BY <1>4
  <2>2. Selects(b).md = Base2b(md2, A, K) /\ Selects(b).i_tree = t2 /\ Selects(b).i_leaf = l2
    BY <1>5
  <2> QED BY <2>1, <2>2
<1> QED BY <1>2, <1>3, <1>6 DEF ForsAdrs, TreeAt, LeafAt

\* The FORS part of a signature, where slh_verify_internal finds it.
LEMMA ForsStored ==
  ASSUME NEW digest, NEW s, NEW read, NEW layer \in Nat, MadeBelow(s, digest, read, layer)
  PROVE  LET fors == SubSeq(s, 2, 1 + K * (1 + A))
         IN  /\ fors \in Seq(Range(s)) /\ Len(fors) = K * (A + 1)
             /\ ForsSigned(fors, SplitDigest(digest).md, ForsAdrs(SplitDigest(digest)))
<1> DEFINE split == SplitDigest(digest)
           n == K * (A + 1)
           fors == SubSeq(s, 1 + 1, 1 + n)
<1>1. n \in Nat /\ K * (1 + A) = n /\ 1 + n <= Len(s)
  <2>1. 0 \in 0 .. layer
    OBVIOUS
  <2>2. Len(s) = Slot(layer) /\ Slot(0) <= Slot(layer) /\ Slot(0) = 1 + n /\ Slot(0) = 1 + K * (1 + A)
    BY <2>1, Slots DEF MadeBelow
  <2>3. K * (1 + A) \in Nat /\ n \in Nat
    BY Sizes
  <2> QED BY <2>2, <2>3
<1>2. s \in Seq(Range(s)) /\ ForsSigned(After(s, 1), split.md, ForsAdrs(split))
  BY DEF MadeBelow
<1> HIDE DEF n
<1>3. fors \in Seq(Range(s)) /\ Len(fors) = n /\ \A p \in 1 .. n : fors[p] = s[1 + p]
  BY <1>1, <1>2, Slice
<1>4. ForsSigned(fors, split.md, ForsAdrs(split))
  <2>1. ASSUME NEW p \in 1 .. n PROVE fors[p] = After(s, 1)[p]
    <3>1. 1 + p <= Len(s) /\ p \in Nat \ {0}
      BY <1>1
    <3>2. After(s, 1)[p] = s[1 + p]
      BY <1>2, <3>1, AfterValue
    <3> QED BY <1>3, <3>2
  <2> HIDE DEF fors
  <2> QED BY <1>2, <2>1 DEF ForsSigned, n
<1> HIDE DEF fors
<1>5. fors = SubSeq(s, 2, 1 + K * (1 + A))
  BY <1>1 DEF fors
<1> QED BY <1>3, <1>4, <1>5 DEF n

\* The FORS key that the first WOTS key signs is the one of its place.
LEMMA ForsKey ==
  ASSUME NEW digest \in Digests
  PROVE  NodeAt(digest, 0) = ForsPk(ForsAdrs(SplitDigest(digest)))
<1>1. 0 \in 0 .. D - 1
  BY Sizes
<1> QED BY <1>1, LayersUp DEF NodeAt, NodeOf, ForsAdrs

\* The FORS part leads back to the FORS key, which the first WOTS key signs.
LEMMA ForsRecovered ==
  ASSUME NEW signed_for \in Digests, NEW digest \in Digests, Selects(digest) = Selects(signed_for),
         NEW s, NEW read, NEW layer \in Nat, MadeBelow(s, signed_for, read, layer)
  PROVE  ForsPkFromSig(SubSeq(s, 2, 1 + K * (1 + A)), SplitDigest(digest).md, ForsAdrs(SplitDigest(digest)))
           = NodeAt(signed_for, 0)
<1> DEFINE fors == SubSeq(s, 2, 1 + K * (1 + A))
           md == SplitDigest(signed_for).md
           md2 == SplitDigest(digest).md
           adrs == ForsAdrs(SplitDigest(signed_for))
           S == Range(s)
<1>1. fors \in Seq(S) /\ Len(fors) = K * (A + 1) /\ ForsSigned(fors, md, adrs)
  BY ForsStored
<1>2. Base2b(md2, A, K) = Base2b(md, A, K) /\ ForsAdrs(SplitDigest(digest)) = adrs
  BY SelectsAgree
<1>3. md \in Seq(Nat) /\ K * A <= 8 * Len(md)
  BY SplitType
<1>4. NodeAt(signed_for, 0) = ForsPk(adrs)
  BY ForsKey
<1> HIDE DEF fors, md, md2, adrs, S
<1>5. ForsPkFromSig(fors, md2, adrs) = ForsPk(adrs)
  BY <1>1, <1>2, <1>3, ForsRoundTrip
<1> QED BY <1>2, <1>4, <1>5 DEF fors, md2

\* It leads there for digests only that open the same FORS values.
LEMMA ForsRejoins ==
  ASSUME NEW signed_for \in Digests, NEW digest \in Digests,
         NEW s, NEW read, NEW layer \in Nat, MadeBelow(s, signed_for, read, layer),
         TreeAt(digest, 0) = TreeAt(signed_for, 0), LeafAt(digest, 0) = LeafAt(signed_for, 0),
         ForsPkFromSig(SubSeq(s, 2, 1 + K * (1 + A)), SplitDigest(digest).md, ForsAdrs(SplitDigest(digest)))
           = NodeAt(signed_for, 0)
  PROVE  Selects(digest) = Selects(signed_for)
<1> DEFINE fors == SubSeq(s, 2, 1 + K * (1 + A))
           md == SplitDigest(signed_for).md
           md2 == SplitDigest(digest).md
           adrs == ForsAdrs(SplitDigest(signed_for))
           S == Range(s)
<1>1. fors \in Seq(S) /\ Len(fors) = K * (A + 1) /\ ForsSigned(fors, md, adrs)
  BY ForsStored
<1>2. /\ SplitDigest(digest).i_tree = SplitDigest(signed_for).i_tree
      /\ SplitDigest(digest).i_leaf = SplitDigest(signed_for).i_leaf
  <2>1. 0 \in 0 .. D - 1
    BY Sizes
  <2> QED BY <2>1, LayersUp
<1>3. ForsAdrs(SplitDigest(digest)) = adrs
  BY <1>2 DEF ForsAdrs
<1>4. /\ md \in Seq(Nat) /\ K * A <= 8 * Len(md)
      /\ md2 \in Seq(Nat) /\ K * A <= 8 * Len(md2)
  BY SplitType
<1>5. NodeAt(signed_for, 0) = ForsPk(adrs)
  BY ForsKey
<1>6. IsAddress(adrs)
  BY LayerAddress, AddressWords DEF ForsAdrs
<1>7. Base2b(md2, A, K) = Base2b(md, A, K)
  <2>1. ForsPkFromSig(fors, md2, adrs) = ForsPk(adrs)
    BY <1>3, <1>5
  <2> HIDE DEF fors, md, md2, adrs, S
  <2> QED BY <1>1, <1>4, <1>6, <2>1, ForsTells
<1>8. \A d : \E bits, t, l : SplitDigest(d) = [md |-> bits, i_tree |-> t, i_leaf |-> l]
  BY DEF SplitDigest
<1>9. PICK md1, t1, l1 : SplitDigest(signed_for) = [md |-> md1, i_tree |-> t1, i_leaf |-> l1]
  BY <1>8
<1>10. PICK mdo, t2, l2 : SplitDigest(digest) = [md |-> mdo, i_tree |-> t2, i_leaf |-> l2]
  BY <1>8
<1>11. Selects(signed_for) = [md |-> Base2b(md1, A, K), i_tree |-> t1, i_leaf |-> l1]
  BY <1>9 DEF Selects
<1>12. Selects(digest) = [md |-> Base2b(mdo, A, K), i_tree |-> t2, i_leaf |-> l2]
  BY <1>10 DEF Selects
<1>13. md = md1 /\ md2 = mdo /\ t1 = t2 /\ l1 = l2
  BY <1>2, <1>9, <1>10
<1> HIDE DEF md, md2
<1> QED BY <1>7, <1>11, <1>12, <1>13

\* The same of what fors_sign has just made.
LEMMA ForsFresh ==
  ASSUME NEW digest \in Digests
  PROVE  LET split == SplitDigest(digest)
         IN  ForsPkFromSig(ForsSign(split.md, ForsAdrs(split)), split.md, ForsAdrs(split)) = NodeAt(digest, 0)
<1> DEFINE split == SplitDigest(digest)
           adrs == ForsAdrs(split)
           fors == ForsSign(split.md, adrs)
           n == K * (A + 1)
           S == {fors[p] : p \in 1 .. n}
<1>1. n \in Nat
  BY Sizes
<1>2. fors \in [1 .. n -> S]
  BY DEF ForsSign
<1>3. ForsSigned(fors, split.md, adrs)
  BY DEF ForsSigned
<1> HIDE DEF fors, n, S
<1>4. fors \in Seq(S) /\ Len(fors) = n
  BY <1>1, <1>2, FunctionSequence
<1>5. ForsPkFromSig(fors, split.md, adrs) = ForsPk(adrs)
  BY <1>3, <1>4, SplitType, ForsRoundTrip DEF n
<1>6. NodeAt(digest, 0) = ForsPk(adrs)
  BY ForsKey
<1> QED BY <1>5, <1>6 DEF fors

\* The XMSS signature of a layer leads to the root that the layer above signs; on the
\* last layer that is the public root.
LEMMA LayerRoot ==
  ASSUME NEW digest \in Digests, NEW layer \in 0 .. D - 1, NEW m \in Bytes,
         NEW S, NEW part \in Seq(S), Len(part) = WotsLen + HP,
         XmssSigned(part, m, LeafAt(digest, layer), ADRS(layer, TreeAt(digest, layer)))
  PROVE  LET root == XmssPkFromSig(LeafAt(digest, layer), part, m, ADRS(layer, TreeAt(digest, layer)))
         IN  /\ root = NodeAt(digest, layer + 1)
             /\ layer = D - 1 => root = PkRoot
             /\ HashValue(root)
<1> DEFINE adrs == ADRS(layer, TreeAt(digest, layer))
           idx == LeafAt(digest, layer)
<1>1. /\ idx \in 0 .. Pow2(HP) - 1
      /\ TreeAt(digest, layer) = TreeAt(digest, layer + 1) * Pow2(HP) + LeafAt(digest, layer + 1)
      /\ layer = D - 1 => TreeAt(digest, layer) = 0
  BY LayersUp
<1>2. XmssPkFromSig(idx, part, m, adrs) = XmssNode(0, HP, adrs)
  <2> HIDE DEF idx, adrs
  <2>1. XmssSigned(part, m, idx, adrs)
    BY DEF idx, adrs
  <2> QED BY <1>1, <2>1, XmssRoundTrip
<1>3. NodeAt(digest, layer + 1) = XmssNode(0, HP, adrs)
  <2>1. layer + 1 # 0 /\ layer + 1 - 1 = layer
    OBVIOUS
  <2> QED BY <1>1, <2>1 DEF NodeAt, NodeOf
<1>4. layer = D - 1 => PkRoot = XmssNode(0, HP, adrs)
  BY <1>1 DEF PkRoot
<1>5. HashValue(XmssPkFromSig(idx, part, m, adrs))
  <2>1. Placed(SetType(adrs, "TREE", 0))
    BY PlacedLayer, PlacedAddresses
  <2> DEFINE auth == SubSeq(part, WotsLen + 1, Len(part))
  <2>2. WotsLen \in Nat /\ HP \in Nat /\ HP > 0
    BY Sizes, WotsSizes
  <2>3. Len(auth) = HP
    BY <2>2, Slice
  <2> HIDE DEF auth, adrs
  <2>4. \A leaf : HashValue(Climb(idx, idx, leaf, auth, SetType(adrs, "TREE", 0)))
    BY <2>1, <2>2, <2>3, PlacedClimb
  <2> QED BY <2>4 DEF XmssPkFromSig, auth
<1> QED BY <1>2, <1>3, <1>4, <1>5

\* Two ways up that meet above a layer have met on it; on the last layer they meet when
\* they end at the public root.
LEMMA MetBelow ==
  ASSUME NEW signed_for \in Digests, NEW digest \in Digests, NEW layer \in 0 .. D - 1,
         NEW m \in Bytes, NEW other \in Bytes,
         NEW S, NEW part \in Seq(S), Len(part) = WotsLen + HP,
         XmssSigned(part, m, LeafAt(signed_for, layer), ADRS(layer, TreeAt(signed_for, layer))),
         NEW root, root = XmssPkFromSig(LeafAt(digest, layer), part, other, ADRS(layer, TreeAt(digest, layer))),
         \/ Meets(digest, layer + 1, root, signed_for)
         \/ layer = D - 1 /\ root = PkRoot
  PROVE  /\ TreeAt(digest, layer) = TreeAt(signed_for, layer)
         /\ LeafAt(digest, layer) = LeafAt(signed_for, layer)
         /\ other = m
<1>1. TreeAt(digest, layer) = TreeAt(signed_for, layer)
      /\ root = XmssNode(0, HP, ADRS(layer, TreeAt(signed_for, layer)))
  <2>1. CASE Meets(digest, layer + 1, root, signed_for)
    <3>1. layer + 1 # 0 /\ layer + 1 - 1 = layer
      OBVIOUS
    <3>2. NodeAt(signed_for, layer + 1)
            = XmssNode(0, HP, ADRS(layer, TreeAt(signed_for, layer + 1) * Pow2(HP) + LeafAt(signed_for, layer + 1)))
      BY <3>1 DEF NodeAt, NodeOf
    <3>3. /\ TreeAt(signed_for, layer) = TreeAt(signed_for, layer + 1) * Pow2(HP) + LeafAt(signed_for, layer + 1)
          /\ TreeAt(digest, layer) = TreeAt(digest, layer + 1) * Pow2(HP) + LeafAt(digest, layer + 1)
      BY LayersUp
    <3> QED BY <2>1, <3>2, <3>3 DEF Meets
  <2>2. CASE layer = D - 1 /\ root = PkRoot
    <3>1. TreeAt(signed_for, layer) = 0 /\ TreeAt(digest, layer) = 0
      BY <2>2, LayersUp
    <3> QED BY <2>2, <3>1 DEF PkRoot
  <2> QED BY <2>1, <2>2
<1> DEFINE adrs == ADRS(layer, TreeAt(signed_for, layer))
           idx == LeafAt(signed_for, layer)
           oidx == LeafAt(digest, layer)
<1>2. idx \in 0 .. Pow2(HP) - 1 /\ oidx \in 0 .. Pow2(HP) - 1
  BY LayersUp
<1>3. IsAddress(adrs)
  BY LayerAddress
<1>4. XmssSigned(part, m, idx, adrs) /\ XmssPkFromSig(oidx, part, other, adrs) = XmssNode(0, HP, adrs)
  BY <1>1
<1> HIDE DEF adrs, idx, oidx
<1>5. oidx = idx /\ other = m
  BY <1>2, <1>3, <1>4, XmssTells
<1> QED BY <1>1, <1>5 DEF idx, oidx

\* ht_verify finds the signature of a layer where ht_sign has put it.
LEMMA VerifiedPart ==
  ASSUME NEW digest, NEW read, NEW s, MadeBelow(s, digest, read, D), NEW layer \in 0 .. D - 1
  PROVE  LET ht   == SubSeq(s, 2 + K * (1 + A), Len(s))
             part == SubSeq(ht, layer * (HP + WotsLen) + 1, (layer + 1) * (HP + WotsLen))
         IN  /\ part \in Seq(Range(s)) /\ Len(part) = WotsLen + HP
             /\ XmssSigned(part, read[NodeAt(digest, layer)], LeafAt(digest, layer), ADRS(layer, TreeAt(digest, layer)))
<1> DEFINE k == HP + WotsLen
           f == 1 + K * (1 + A)
           rest == D * k
           a == layer * k
           ht == SubSeq(s, f + 1, f + rest)
           part == SubSeq(ht, a + 1, a + k)
<1>1. k \in Nat /\ f \in Nat /\ layer \in Nat /\ k = WotsLen + HP /\ D \in Nat /\ layer + 1 <= D
  BY Sizes, WotsSizes
<1>2. rest \in Nat /\ a \in Nat /\ (layer + 1) * k = a + k /\ a + k <= rest
  <2> HIDE DEF k
  <2>1. (layer + 1) * k <= D * k
    BY <1>1, TimesMonotone
  <2>2. (layer + 1) * k = layer * k + k /\ D * k \in Nat /\ layer * k \in Nat
    BY <1>1
  <2> QED BY <2>1, <2>2
<1>3. s \in Seq(Range(s)) /\ Len(s) = f + rest /\ Slot(layer) = f + a
  BY DEF MadeBelow, Slot
<1>4. 2 + K * (1 + A) = f + 1
  BY Sizes
<1> HIDE DEF k, f, rest, a
<1>5. ht \in Seq(Range(s)) /\ Len(ht) = rest /\ \A i \in 1 .. rest : ht[i] = s[f + i]
  BY <1>1, <1>2, <1>3, Slice
<1> HIDE DEF ht
<1>6. part \in Seq(Range(s)) /\ Len(part) = k /\ \A i \in 1 .. k : part[i] = ht[a + i]
  <2> DEFINE S == Range(s)
  <2>1. ht \in Seq(S) /\ a + k <= Len(ht) /\ a \in Nat /\ k \in Nat
    BY <1>1, <1>2, <1>5
  <2> HIDE DEF S
  <2>2. part \in Seq(S) /\ Len(part) = k /\ \A i \in 1 .. k : part[i] = ht[a + i]
    BY <2>1, Slice, ZenonT(60)
  <2> QED BY <2>2 DEF S
<1> HIDE DEF part
<1>7. ASSUME NEW i \in 1 .. WotsLen + HP PROVE part[i] = After(s, Slot(layer))[i]
  <2>1. i \in 1 .. k /\ i \in Nat \ {0} /\ a + i \in 1 .. rest /\ f + (a + i) = f + a + i
    BY <1>1, <1>2
  <2>2. part[i] = s[f + (a + i)]
    BY <1>5, <1>6, <2>1
  <2>3. f + a \in Nat /\ f + a + i <= Len(s)
    BY <1>1, <1>2, <1>3, <2>1
  <2>4. After(s, f + a)[i] = s[f + a + i]
    BY <1>3, <2>1, <2>3, AfterValue
  <2> QED BY <1>3, <2>1, <2>2, <2>4
<1>8. XmssSigned(After(s, Slot(layer)), read[NodeAt(digest, layer)], LeafAt(digest, layer), ADRS(layer, TreeAt(digest, layer)))
  BY DEF MadeBelow
<1>9. XmssSigned(part, read[NodeAt(digest, layer)], LeafAt(digest, layer), ADRS(layer, TreeAt(digest, layer)))
  BY <1>7, <1>8, SameXmssSigned
<1>10. part = SubSeq(SubSeq(s, 2 + K * (1 + A), Len(s)), layer * (HP + WotsLen) + 1, (layer + 1) * (HP + WotsLen))
  BY <1>2, <1>3, <1>4 DEF part, ht, a, k
<1> QED BY <1>1, <1>6, <1>9, <1>10

-----------------------------------------------------------------------------
(* The steps.                                                              *)
\* The first of several distinct strings is not among the others.
LEMMA DistinctTail ==
  ASSUME NEW S, NEW s \in Seq(S), s # <<>>, IsInjective(s)
  PROVE  /\ Tail(s) \in Seq(S) /\ IsInjective(Tail(s))
         /\ Head(s) \in S /\ Head(s) \in Range(s) /\ Head(s) \notin Range(Tail(s))
         /\ Range(Tail(s)) \subseteq Range(s)
<1>1. /\ Len(s) \in Nat /\ Len(s) > 0 /\ DOMAIN s = 1 .. Len(s) /\ Head(s) = s[1] /\ Head(s) \in S
      /\ Tail(s) \in Seq(S) /\ DOMAIN Tail(s) = 1 .. Len(s) - 1
      /\ \A i \in 1 .. Len(s) - 1 : Tail(s)[i] = s[i + 1]
  BY HeadTailProperties, LenProperties, EmptySeq
<1>2. \A i \in 1 .. Len(s) - 1 : i + 1 \in DOMAIN s /\ i + 1 # 1
  BY <1>1
<1>3. 1 \in DOMAIN s
  BY <1>1
<1>4. IsInjective(Tail(s))
  BY <1>1, <1>2 DEF IsInjective
<1> QED BY <1>1, <1>2, <1>3, <1>4 DEF IsInjective, Range

\* Reading a value gives it bytes and leaves those of the others.
LEMMA ReadKeeps ==
  ASSUME BytesInv, NEW node, HashValue(node), Read(node)
  PROVE  /\ BytesInv'
         /\ node \in DOMAIN bytes' /\ bytes'[node] \in Bytes
         /\ \A v \in DOMAIN bytes : v \in DOMAIN bytes' /\ bytes'[v] = bytes[v]
<1>1. CASE node \in DOMAIN bytes
  BY <1>1 DEF Read, BytesInv
<1>2. CASE node \notin DOMAIN bytes
  <2>1. oracle # <<>> /\ oracle' = Tail(oracle)
        /\ bytes' = [v \in DOMAIN bytes \cup {node} |-> IF v = node THEN Head(oracle) ELSE bytes[v]]
    BY <1>2 DEF Read
  <2>2. /\ Tail(oracle) \in Seq(Bytes) /\ IsInjective(Tail(oracle))
        /\ Head(oracle) \in Bytes /\ Head(oracle) \in Range(oracle) /\ Head(oracle) \notin Range(Tail(oracle))
        /\ Range(Tail(oracle)) \subseteq Range(oracle)
    BY <2>1, DistinctTail DEF BytesInv
  <2>3. \A v \in DOMAIN bytes : HashValue(v) /\ bytes[v] \in Bytes /\ bytes[v] \notin Range(oracle)
    BY DEF BytesInv
  <2>4. DOMAIN bytes' = DOMAIN bytes \cup {node} /\ bytes'[node] = Head(oracle)
        /\ \A v \in DOMAIN bytes : bytes'[v] = bytes[v]
    BY <1>2, <2>1
  <2>5. IsInjective(bytes')
    BY <2>2, <2>3, <2>4 DEF BytesInv, IsInjective
  <2> QED BY <2>1, <2>2, <2>3, <2>4, <2>5 DEF BytesInv
<1> QED BY <1>1, <1>2

\* No job has this operation.
LEMMA IdleOp == Idle.op = "idle"
BY DEF Idle

\* The fields of a job on its way up.
LEMMA StageOp ==
  ASSUME NEW op, op # "idle", NEW digest, NEW layer, NEW node
  PROVE  LET stage == Stage(op, digest, layer, node)
         IN  /\ stage # Idle /\ stage.op = op /\ stage.digest = digest /\ stage.layer = layer
             /\ stage.tree = TreeAt(digest, layer) /\ stage.leaf = LeafAt(digest, layer) /\ stage.node = node
<1>1. Stage(op, digest, layer, node).op = op
  BY DEF Stage
<1> QED BY <1>1, IdleOp DEF Stage

\* A job begins on layer 0, with the tree and the leaf of the digest.
LEMMA BeginStage ==
  ASSUME NEW op, NEW digest \in Digests, NEW node
  PROVE  Begin(op, digest, node) = Stage(op, digest, 0, node)
<1>1. 0 \in 0 .. D - 1
  BY Sizes
<1> QED BY <1>1, LayersUp DEF Begin, Stage

\* The head of the loops of ht_sign and ht_verify takes a job one layer up.
LEMMA AboveStage ==
  ASSUME NEW op, NEW digest \in Digests, NEW layer \in 0 .. D - 1, NEW node, NEW root,
         job = Stage(op, digest, layer, node)
  PROVE  Above(root) = Stage(op, digest, layer + 1, root)
<1>1. /\ TreeAt(digest, layer + 1) = TreeAt(digest, layer) \div Pow2(HP)
      /\ LeafAt(digest, layer + 1) = TreeAt(digest, layer) % Pow2(HP)
  BY LayersUp
<1> DEFINE stage == Stage(op, digest, layer, node)
           tree == TreeAt(digest, layer + 1)
           leaf == LeafAt(digest, layer + 1)
<1>2. stage.layer = layer /\ stage.tree = TreeAt(digest, layer)
  BY DEF Stage
<1> HIDE DEF tree, leaf
<1>3. Above(root) = [stage EXCEPT !.layer = layer + 1, !.leaf = leaf, !.tree = tree, !.node = root]
  BY <1>1, <1>2 DEF Above, tree, leaf
<1>4. [stage EXCEPT !.layer = layer + 1, !.leaf = leaf, !.tree = tree, !.node = root]
        = [op |-> op, digest |-> digest, layer |-> layer + 1, tree |-> tree, leaf |-> leaf, node |-> root]
  <2> DEFINE up == [stage EXCEPT !.layer = layer + 1, !.leaf = leaf, !.tree = tree, !.node = root]
             to == [op |-> op, digest |-> digest, layer |-> layer + 1, tree |-> tree, leaf |-> leaf, node |-> root]
             fields == {"op", "digest", "layer", "tree", "leaf", "node"}
  <2>1. stage.op = op /\ stage.digest = digest /\ DOMAIN stage = fields
    BY DEF Stage
  <2> HIDE DEF stage
  <2>2. /\ up.op = op /\ up.digest = digest /\ up.layer = layer + 1
        /\ up.tree = tree /\ up.leaf = leaf /\ up.node = root
    BY <2>1
  <2>3. up = [field \in fields |-> up[field]]
    BY <2>1
  <2> HIDE DEF up
  <2>4. up = [field \in fields |-> to[field]]
    BY <2>2, <2>3
  <2> QED BY <2>4 DEF up
<1> QED BY <1>3, <1>4 DEF Stage, tree, leaf

\* Nothing is signed at first.
LEMMA InitInvariant == Init => IInv
<1> SUFFICES ASSUME Init PROVE IInv
  OBVIOUS
<1>1. oracle \in Seq(Bytes) /\ IsInjective(oracle) /\ DOMAIN bytes = {}
  BY OracleAssumption DEF Init, Bytes
<1>2. made \in 0 .. SignBound
  BY Sizes DEF Init
<1> QED BY <1>1, <1>2, FS_EmptySet DEF Init, IInv, JobInv, SigInv, BytesInv, VerdictInv, WotsInv, IsInjective

\* slh_sign_internal begins a signature with its FORS part.
LEMMA SlhSignStep ==
  ASSUME IInv, NEW digest \in Digests, SlhSign(digest)
  PROVE  IInv'
<1> DEFINE split == SplitDigest(digest)
           adrs == ForsAdrs(split)
           fors == ForsSign(split.md, adrs)
           node == ForsPkFromSig(fors, split.md, adrs)
<1>1. /\ made < SignBound /\ sig' = <<Randomizer>> \o fors /\ job' = Begin("sign", digest, node)
      /\ signed' = digest /\ verdict' = None /\ made' = made + 1
      /\ bytes' = bytes /\ oracle' = oracle /\ wots' = wots
  BY DEF SlhSign
<1>2. node = NodeAt(digest, 0)
  BY ForsFresh
<1>3. HashValue(node)
  <2>1. 0 \in 0 .. D - 1
    BY Sizes
  <2>2. Placed(adrs)
    BY <2>1, PlacedLayer, PlacedAddresses DEF ForsAdrs
  <2>3. Placed(SetType(adrs, "FORS_ROOTS", adrs.pair))
    BY <2>2, PlacedAddresses
  <2> QED BY <2>3, PlacedHash DEF ForsPkFromSig
<1>4. MadeBelow(sig', digest, bytes', 0)
  BY <1>1, MadeFirst
<1> HIDE DEF node, fors
<1>5. job' = Stage("sign", digest, 0, node)
  BY <1>1, BeginStage
<1>6. /\ job' # Idle /\ job'.op = "sign" /\ job'.digest = digest /\ job'.layer = 0 /\ job'.node = node
  BY <1>5, StageOp
<1>7. signed' # None /\ 0 \in 0 .. D - 1
  BY <1>1, DigestAssumption, Sizes
<1>8. JobInv'
  BY <1>1, <1>2, <1>3, <1>5, <1>6, <1>7 DEF JobInv, Meets
<1>9. SigInv'
  BY <1>1, <1>4, <1>6, <1>7 DEF SigInv
<1>10. BytesInv' /\ WotsInv' /\ VerdictInv'
  BY <1>1 DEF IInv, BytesInv, WotsInv, VerdictInv
<1>11. made' \in 0 .. SignBound
  BY <1>1, Sizes DEF IInv
<1> QED BY <1>8, <1>9, <1>10, <1>11 DEF IInv

\* One layer of ht_sign.
LEMMA HtSignStep ==
  ASSUME IInv, HtSign
  PROVE  IInv'
<1> DEFINE digest == job.digest
           layer == job.layer
           node == job.node
           m == bytes'[node]
           adrs == ADRS(layer, TreeAt(digest, layer))
           part == XmssSign(m, LeafAt(digest, layer), adrs)
           root == XmssPkFromSig(LeafAt(digest, layer), part, m, adrs)
<1>1. /\ job.op = "sign" /\ job # Idle /\ digest \in Digests /\ layer \in 0 .. D - 1
      /\ job = Stage(job.op, digest, layer, node) /\ HashValue(node) /\ digest = signed /\ verdict = None
      /\ signed # None /\ node = NodeAt(signed, layer)
  BY IdleOp DEF IInv, JobInv, HtSign, Meets
<1>2. job.tree = TreeAt(digest, layer) /\ job.leaf = LeafAt(digest, layer)
  <2>1. Stage(job.op, digest, layer, node).tree = TreeAt(digest, layer)
        /\ Stage(job.op, digest, layer, node).leaf = LeafAt(digest, layer)
    BY DEF Stage
  <2> QED BY <1>1, <2>1
<1>3. /\ Read(node) /\ sig' = sig \o part
      /\ wots' = wots \cup {[layer |-> layer, tree |-> TreeAt(digest, layer), leaf |-> LeafAt(digest, layer), value |-> node]}
      /\ job' = IF layer = D - 1 THEN Idle ELSE Above(root)
      /\ signed' = signed /\ verdict' = verdict /\ made' = made
  BY <1>2 DEF HtSign
<1>4. /\ BytesInv' /\ node \in DOMAIN bytes' /\ m \in Bytes
      /\ \A v \in DOMAIN bytes : v \in DOMAIN bytes' /\ bytes'[v] = bytes[v]
  BY <1>1, <1>3, ReadKeeps DEF IInv
<1>5. MadeBelow(sig, digest, bytes, layer)
  BY <1>1 DEF IInv, SigInv
<1>6. MadeBelow(sig', digest, bytes', layer + 1)
  <2>1. MadeBelow(sig, digest, bytes', layer)
    BY <1>4, <1>5, MadeKeepsBytes
  <2>2. NodeAt(digest, layer) = node
    BY <1>1
  <2> HIDE DEF digest, layer, node
  <2>3. MadeBelow(sig \o XmssSign(bytes'[NodeAt(digest, layer)], LeafAt(digest, layer), ADRS(layer, TreeAt(digest, layer))),
                  digest, bytes', layer + 1)
    BY <1>1, <1>4, <2>1, <2>2, MadeNext
  <2> QED BY <1>3, <2>2, <2>3
<1>7. root = NodeAt(digest, layer + 1) /\ HashValue(root)
  <2>1. XmssSigned(part, m, LeafAt(digest, layer), adrs) /\ Len(part) = WotsLen + HP
    BY XmssSignParts
  <2>2. PICK S : part \in Seq(S)
    BY XmssSignParts
  <2> HIDE DEF part, m, digest, layer
  <2> QED BY <1>1, <1>4, <2>1, <2>2, LayerRoot
<1> HIDE DEF part, root, m
<1>8. WotsInv'
  <2>1. node = NodeOf(layer, TreeAt(digest, layer), LeafAt(digest, layer))
    BY <1>1 DEF NodeAt
  <2>2. /\ IsFiniteSet(wots)
        /\ \A w \in wots : /\ w.layer \in 0 .. D - 1 /\ w.value = NodeOf(w.layer, w.tree, w.leaf)
                           /\ w.value \in DOMAIN bytes'
    BY <1>4 DEF IInv, WotsInv
  <2>3. IsFiniteSet(wots')
    BY <1>3, <2>2, FS_AddElement
  <2> QED BY <1>1, <1>3, <1>4, <2>1, <2>2, <2>3 DEF WotsInv
<1>9. VerdictInv' /\ made' \in 0 .. SignBound
  BY <1>3 DEF IInv, VerdictInv
<1>10. CASE layer = D - 1
  <2>1. layer + 1 = D /\ job' = Idle
    BY <1>1, <1>3, <1>10, Sizes
  <2>2. SigInv'
    BY <1>1, <1>3, <1>6, <2>1, IdleOp DEF IInv, SigInv
  <2>3. JobInv'
    BY <2>1 DEF JobInv
  <2> QED BY <1>4, <1>8, <1>9, <2>2, <2>3 DEF IInv
<1>11. CASE layer # D - 1
  <2>1. job' = Stage("sign", digest, layer + 1, root)
    BY <1>1, <1>3, <1>11, AboveStage
  <2>2. job' # Idle /\ job'.op = "sign" /\ job'.digest = digest /\ job'.layer = layer + 1 /\ job'.node = root
    BY <2>1, StageOp
  <2>3. layer + 1 \in 0 .. D - 1
    BY <1>1, <1>11, Sizes
  <2>4. JobInv'
    BY <1>1, <1>3, <1>7, <2>1, <2>2, <2>3 DEF JobInv, Meets
  <2>5. SigInv'
    BY <1>1, <1>3, <1>6, <2>2 DEF IInv, SigInv
  <2> QED BY <1>4, <1>8, <1>9, <2>4, <2>5 DEF IInv
<1> QED BY <1>10, <1>11

\* slh_verify_internal begins with the FORS part.
LEMMA SlhVerifyStep ==
  ASSUME IInv, NEW digest \in Digests, SlhVerify(digest)
  PROVE  IInv'
<1> DEFINE split == SplitDigest(digest)
           fors == SubSeq(sig, 2, 1 + K * (1 + A))
           node == ForsPkFromSig(fors, split.md, ForsAdrs(split))
<1>1. /\ job = Idle /\ signed \in Digests /\ signed # None /\ verdict = None
      /\ sig' = sig /\ signed' = signed /\ bytes' = bytes /\ oracle' = oracle /\ wots' = wots /\ made' = made
  BY DEF SlhVerify, IInv, SigInv
<1>2. MadeBelow(sig, signed, bytes, D)
  BY <1>1, IdleOp DEF IInv, SigInv
<1>3. Len(sig) = SigSize
  <2>1. 0 \in Nat
    OBVIOUS
  <2> QED BY <1>2, <2>1, Slots DEF MadeBelow
<1>4. job' = Begin("verify", digest, node) /\ verdict' = None
  BY <1>1, <1>3 DEF SlhVerify
<1>5. Selects(digest) = Selects(signed) <=> Meets(digest, 0, node, signed)
  <2>1. D \in Nat
    BY Sizes
  <2>2. ASSUME Selects(digest) = Selects(signed) PROVE Meets(digest, 0, node, signed)
    BY <1>1, <1>2, <2>1, <2>2, ForsRecovered, SelectsAgree DEF Meets
  <2>3. ASSUME Meets(digest, 0, node, signed) PROVE Selects(digest) = Selects(signed)
    <3>1. /\ TreeAt(digest, 0) = TreeAt(signed, 0) /\ LeafAt(digest, 0) = LeafAt(signed, 0)
          /\ node = NodeAt(signed, 0)
      BY <2>3 DEF Meets
    <3> QED BY <1>1, <1>2, <2>1, <3>1, ForsRejoins
  <2> QED BY <2>2, <2>3
<1>6. HashValue(node)
  <2>1. 0 \in 0 .. D - 1
    BY Sizes
  <2>2. Placed(ForsAdrs(split))
    BY <2>1, PlacedLayer, PlacedAddresses DEF ForsAdrs
  <2>3. Placed(SetType(ForsAdrs(split), "FORS_ROOTS", ForsAdrs(split).pair))
    BY <2>2, PlacedAddresses
  <2> QED BY <2>3, PlacedHash DEF ForsPkFromSig
<1> HIDE DEF node
<1>7. job' = Stage("verify", digest, 0, node)
  BY <1>4, BeginStage
<1>8. job' # Idle /\ job'.op = "verify" /\ job'.digest = digest /\ job'.layer = 0 /\ job'.node = node
  BY <1>7, StageOp
<1>9. JobInv'
  <2>1. 0 \in 0 .. D - 1
    BY Sizes
  <2> QED BY <1>1, <1>4, <1>5, <1>6, <1>7, <1>8, <2>1 DEF JobInv
<1>10. SigInv'
  BY <1>1, <1>2, <1>4, <1>8 DEF SigInv
<1>11. BytesInv' /\ WotsInv' /\ VerdictInv' /\ made' \in 0 .. SignBound
  BY <1>1, <1>4 DEF IInv, BytesInv, WotsInv, VerdictInv
<1> QED BY <1>9, <1>10, <1>11 DEF IInv

\* One layer of ht_verify: below the last one the root goes up, after it the verdict is
\* right for what was signed.
LEMMA HtVerifyStep ==
  ASSUME IInv, HtVerify
  PROVE  IInv'
<1> DEFINE digest == job.digest
           layer == job.layer
           node == job.node
           ht == SubSeq(sig, 2 + K * (1 + A), Len(sig))
           part == SubSeq(ht, layer * (HP + WotsLen) + 1, (layer + 1) * (HP + WotsLen))
           adrs == ADRS(layer, TreeAt(digest, layer))
           root == XmssPkFromSig(LeafAt(digest, layer), part, bytes'[node], adrs)
<1>1. /\ job.op = "verify" /\ job # Idle /\ digest \in Digests /\ layer \in 0 .. D - 1
      /\ job = Stage("verify", digest, layer, node) /\ HashValue(node)
      /\ signed # None /\ signed \in Digests
      /\ Selects(digest) = Selects(signed) <=> Meets(digest, layer, node, signed)
  BY IdleOp DEF IInv, JobInv, SigInv, HtVerify
<1>2. job.tree = TreeAt(digest, layer) /\ job.leaf = LeafAt(digest, layer)
  <2>1. Stage("verify", digest, layer, node).tree = TreeAt(digest, layer)
        /\ Stage("verify", digest, layer, node).leaf = LeafAt(digest, layer)
    BY DEF Stage
  <2> QED BY <1>1, <2>1
<1>3. /\ Read(node)
      /\ IF layer < D - 1 THEN job' = Above(root) /\ verdict' = verdict
         ELSE verdict' = [digest |-> digest, accepted |-> root = PkRoot] /\ job' = Idle
      /\ sig' = sig /\ signed' = signed /\ wots' = wots /\ made' = made
  BY <1>2 DEF HtVerify
<1>4. /\ BytesInv' /\ node \in DOMAIN bytes' /\ bytes'[node] \in Bytes
      /\ \A v \in DOMAIN bytes : v \in DOMAIN bytes' /\ bytes'[v] = bytes[v]
  BY <1>1, <1>3, ReadKeeps DEF IInv
<1>5. MadeBelow(sig, signed, bytes', D)
  <2>1. MadeBelow(sig, signed, bytes, D)
    BY <1>1 DEF IInv, SigInv
  <2> QED BY <1>4, <2>1, MadeKeepsBytes
<1>6. /\ part \in Seq(Range(sig)) /\ Len(part) = WotsLen + HP
      /\ XmssSigned(part, bytes'[NodeAt(signed, layer)], LeafAt(signed, layer), ADRS(layer, TreeAt(signed, layer)))
  BY <1>1, <1>5, VerifiedPart
<1> HIDE DEF part
<1>7. HashValue(root)
  <2>1. Placed(SetType(adrs, "TREE", 0))
    BY <1>1, PlacedLayer, PlacedAddresses
  <2> DEFINE auth == SubSeq(part, WotsLen + 1, Len(part))
  <2>2. WotsLen \in Nat /\ HP \in Nat /\ HP > 0
    BY Sizes, WotsSizes
  <2>3. Len(auth) = HP
    <3> DEFINE S == Range(sig)
    <3>1. part \in Seq(S) /\ WotsLen + HP <= Len(part)
      BY <1>6, <2>2
    <3> HIDE DEF S
    <3> QED BY <1>6, <2>2, <3>1, Slice
  <2> HIDE DEF auth, adrs
  <2>4. \A i, leaf : HashValue(Climb(i, i, leaf, auth, SetType(adrs, "TREE", 0)))
    BY <2>1, <2>2, <2>3, PlacedClimb
  <2> QED BY <2>4 DEF XmssPkFromSig, auth
<1>8. ASSUME Selects(digest) = Selects(signed)
      PROVE  root = NodeAt(signed, layer + 1) /\ (layer = D - 1 => root = PkRoot)
  <2>1. TreeAt(digest, layer) = TreeAt(signed, layer) /\ LeafAt(digest, layer) = LeafAt(signed, layer)
    BY <1>8, SelectsAgree
  <2> DEFINE m == bytes'[node]
             S == Range(sig)
  <2>2. /\ m \in Bytes /\ part \in Seq(S) /\ Len(part) = WotsLen + HP
        /\ XmssSigned(part, m, LeafAt(signed, layer), ADRS(layer, TreeAt(signed, layer)))
    BY <1>1, <1>4, <1>6, <1>8 DEF Meets
  <2> HIDE DEF m, S, layer
  <2>3. /\ XmssPkFromSig(LeafAt(signed, layer), part, m, ADRS(layer, TreeAt(signed, layer))) = NodeAt(signed, layer + 1)
        /\ layer = D - 1 =>
             XmssPkFromSig(LeafAt(signed, layer), part, m, ADRS(layer, TreeAt(signed, layer))) = PkRoot
    BY <1>1, <2>2, LayerRoot
  <2> QED BY <2>1, <2>3 DEF m
<1>9. ASSUME Meets(digest, layer + 1, root, signed) \/ (layer = D - 1 /\ root = PkRoot)
      PROVE  Selects(digest) = Selects(signed)
  <2> DEFINE to == NodeAt(signed, layer)
             m == bytes'[to]
             other == bytes'[node]
             S == Range(sig)
  <2>1. D \in Nat /\ to \in DOMAIN bytes' /\ m \in Bytes
    <3>1. D \in Nat /\ layer \in 0 .. D - 1
      BY <1>1, Sizes
    <3>2. to \in DOMAIN bytes'
      BY <1>5, <3>1 DEF MadeBelow
    <3> QED BY <1>4, <3>1, <3>2 DEF BytesInv
  <2>2. /\ m \in Bytes /\ other \in Bytes /\ part \in Seq(S) /\ Len(part) = WotsLen + HP
        /\ XmssSigned(part, m, LeafAt(signed, layer), ADRS(layer, TreeAt(signed, layer)))
        /\ root = XmssPkFromSig(LeafAt(digest, layer), part, other, ADRS(layer, TreeAt(digest, layer)))
    BY <1>4, <1>6, <2>1
  <2> HIDE DEF m, other, S, root, layer, digest
  <2>3. /\ TreeAt(digest, layer) = TreeAt(signed, layer) /\ LeafAt(digest, layer) = LeafAt(signed, layer)
        /\ other = m
    BY <1>1, <1>9, <2>2, MetBelow
  <2>4. node = to
    BY <1>4, <2>1, <2>3 DEF BytesInv, IsInjective, m, other
  <2> QED BY <1>1, <2>3, <2>4 DEF Meets
<1>10. Selects(digest) = Selects(signed) <=> Meets(digest, layer + 1, root, signed)
  <2>1. ASSUME Selects(digest) = Selects(signed) PROVE Meets(digest, layer + 1, root, signed)
    BY <1>8, <2>1, SelectsAgree DEF Meets
  <2> QED BY <1>9, <2>1
<1>11. layer = D - 1 => (Selects(digest) = Selects(signed) <=> root = PkRoot)
  BY <1>8, <1>9
<1> HIDE DEF root
<1>12. WotsInv' /\ made' \in 0 .. SignBound
  BY <1>3, <1>4 DEF IInv, WotsInv
<1>13. CASE layer < D - 1
  <2>1. job' = Stage("verify", digest, layer + 1, root) /\ verdict' = verdict
    BY <1>1, <1>3, <1>13, AboveStage
  <2>2. job' # Idle /\ job'.op = "verify" /\ job'.digest = digest /\ job'.layer = layer + 1 /\ job'.node = root
    BY <2>1, StageOp
  <2>3. layer + 1 \in 0 .. D - 1
    BY <1>1, <1>13, Sizes
  <2>4. JobInv'
    BY <1>1, <1>3, <1>7, <1>10, <2>1, <2>2, <2>3 DEF JobInv
  <2>5. SigInv'
    BY <1>1, <1>3, <1>5, <2>1, <2>2 DEF IInv, SigInv
  <2>6. VerdictInv'
    BY <1>3, <2>1 DEF IInv, VerdictInv
  <2> QED BY <1>4, <1>12, <2>4, <2>5, <2>6 DEF IInv
<1>14. CASE ~(layer < D - 1)
  <2>1. layer = D - 1 /\ job' = Idle /\ verdict' = [digest |-> digest, accepted |-> root = PkRoot]
    BY <1>1, <1>3, <1>14, Sizes
  <2>2. verdict'.digest = digest /\ verdict'.accepted = (root = PkRoot)
        /\ verdict' \in [digest : Digests, accepted : BOOLEAN]
    BY <1>1, <2>1
  <2>3. VerdictInv'
    BY <1>3, <1>11, <2>1, <2>2 DEF VerdictInv
  <2>4. JobInv'
    BY <2>1 DEF JobInv
  <2>5. SigInv'
    BY <1>1, <1>3, <1>5, <2>1, IdleOp DEF SigInv
  <2> QED BY <1>4, <1>12, <2>3, <2>4, <2>5 DEF IInv
<1> QED BY <1>13, <1>14

\* Every step keeps the invariant.
LEMMA NextInvariant == IInv /\ [Next]_vars => IInv'
<1> SUFFICES ASSUME IInv, [Next]_vars PROVE IInv'
  OBVIOUS
<1>1. CASE \E digest \in Digests : SlhSign(digest)
  BY <1>1, SlhSignStep
<1>2. CASE \E digest \in Digests : SlhVerify(digest)
  BY <1>2, SlhVerifyStep
<1>3. CASE HtSign
  BY <1>3, HtSignStep
<1>4. CASE HtVerify
  BY <1>4, HtVerifyStep
<1>5. CASE UNCHANGED vars
  BY <1>5 DEF vars, IInv, JobInv, SigInv, BytesInv, VerdictInv, WotsInv
<1> QED BY <1>1, <1>2, <1>3, <1>4, <1>5 DEF Next

-----------------------------------------------------------------------------
\* On every layer of a signature and of its verification the job is where the digest puts
\* it, and it holds the value of that place exactly when it verifies what was signed; what
\* is signed so far is, value by value, what the tree of each layer yields for the value
\* below it, at the offset at which slh_verify_internal will look for it.
THEOREM Invariance == Spec => []IInv
<1>1. Init => IInv
  BY InitInvariant
<1>2. IInv /\ [Next]_vars => IInv'
  BY NextInvariant
<1> QED BY <1>1, <1>2, PTL DEF Spec

\* The signature has its size, the job stays inside the hypertree on every layer, and
\* every value carries an address inside it (slh_sign_internal, slh_verify_internal).
THEOREM TypeCorrect == Spec => []TypeOK
<1>1. IInv => TypeOK
  <2> SUFFICES ASSUME IInv PROVE TypeOK
    OBVIOUS
  <2>1. Len(sig) <= SigSize /\ \A i \in 1 .. Len(sig) : HashValue(sig[i])
    <3>1. CASE signed = None
      <4>1. Len(sig) = 0 /\ SigSize \in Nat
        <5>1. D \in Nat
          BY Sizes
        <5> QED BY <3>1, <5>1, Slots DEF IInv, SigInv
      <4> QED BY <4>1
    <3>2. CASE signed # None
      <4> DEFINE n == IF job.op = "sign" THEN job.layer ELSE D
      <4>1. n \in 0 .. D /\ D \in Nat
        BY IdleOp, Sizes DEF IInv, JobInv
      <4>2. MadeBelow(sig, signed, bytes, n)
        BY <3>2 DEF IInv, SigInv
      <4>3. Slot(n) <= SigSize
        BY <4>1, Slots
      <4>4. \A i \in 1 .. Len(sig) : Genuine(sig[i])
        BY <4>2 DEF MadeBelow
      <4> QED BY <4>2, <4>3, <4>4, GenuineSettled DEF MadeBelow, Settled
    <3> QED BY <3>1, <3>2
  <2>2. job = Idle
        \/ /\ job.op \in {"sign", "verify"} /\ job.digest \in Digests
           /\ job.layer \in 0 .. D - 1 /\ job.tree \in 0 .. Pow2(H - HP) - 1
           /\ job.leaf \in 0 .. Pow2(HP) - 1 /\ HashValue(job.node)
    <3> SUFFICES ASSUME job # Idle
                 PROVE  /\ job.op \in {"sign", "verify"} /\ job.digest \in Digests
                        /\ job.layer \in 0 .. D - 1 /\ job.tree \in 0 .. Pow2(H - HP) - 1
                        /\ job.leaf \in 0 .. Pow2(HP) - 1 /\ HashValue(job.node)
      OBVIOUS
    <3>1. /\ job.op \in {"sign", "verify"} /\ job.digest \in Digests /\ job.layer \in 0 .. D - 1
          /\ job = Stage(job.op, job.digest, job.layer, job.node) /\ HashValue(job.node)
      BY DEF IInv, JobInv
    <3>2. /\ Stage(job.op, job.digest, job.layer, job.node).tree = TreeAt(job.digest, job.layer)
          /\ Stage(job.op, job.digest, job.layer, job.node).leaf = LeafAt(job.digest, job.layer)
      BY DEF Stage
    <3> QED BY <3>1, <3>2, LayersUp
  <2>3. \A v \in DOMAIN bytes : HashValue(v) /\ Len(bytes[v]) = N
    <3> TAKE v \in DOMAIN bytes
    <3>1. HashValue(v) /\ bytes[v] \in [1 .. N -> 0 .. 255]
      BY DEF IInv, BytesInv, Bytes
    <3> QED BY <3>1, Sizes, FunctionSequence
  <2> QED BY <2>1, <2>2, <2>3 DEF IInv, SigInv, VerdictInv, TypeOK
<1> QED BY <1>1, Invariance, PTL

\* Every signature slh_sign_internal returns passes slh_verify_internal, for every
\* parameter set, every digest and whatever bytes the values signed hash to.
THEOREM OwnMessageAccepted == Spec => []OwnMessageVerifies
<1>1. IInv => OwnMessageVerifies
  BY DEF IInv, VerdictInv, OwnMessageVerifies
<1> QED BY <1>1, Invariance, PTL

\* slh_verify_internal accepts a signature for no other message, for every parameter set,
\* every digest and whatever distinct bytes the values hash to: a digest that selects
\* other FORS values, another tree or another leaf leads to another public root.
THEOREM OtherMessagesRefused == Spec => []OtherMessageFails
<1>1. IInv => OtherMessageFails
  BY DEF IInv, VerdictInv, OtherMessageFails
<1> QED BY <1>1, Invariance, PTL

\* No WOTS key of the hypertree ever signs two values, however many signatures are made:
\* what ht_sign signs at a place is a function of that place.
THEOREM WotsKeysOneTime == Spec => []WotsKeySignsOnce
<1>1. IInv => WotsKeySignsOnce
  BY DEF IInv, WotsInv, WotsKeySignsOnce
<1> QED BY <1>1, Invariance, PTL

\* The WOTS signature of a value cannot be carried on to the digits of any other string,
\* for every parameter set and whatever bytes the value hashes to: len2 digits hold every
\* checksum, and the checksum falls when the digits rise (wots_sign).
THEOREM ChecksumGuards == Spec => []NoOtherStringReachable
<1>1. IInv => NoOtherStringReachable
  <2> SUFFICES ASSUME IInv, NEW v \in wots
               PROVE  LET digits == WotsDigits(bytes[v.value])
                      IN  \A other \in DigitStrings \ {digits} : \E i \in 1 .. WotsLen : other[i] < digits[i]
    BY DEF NoOtherStringReachable
  <2>1. bytes[v.value] \in Bytes
    BY DEF IInv, WotsInv, BytesInv
  <2> QED BY <2>1, OtherStringsFallBehind
<1> QED BY <1>1, Invariance, PTL

\* Every hash call behind the signatures and the public root has an address of its own,
\* for every parameter set and however many signatures are made: what is computed at an
\* address is a function of it (set_type_and_clear and the words set after it).
THEOREM AddressesTell == Spec => []OneInputPerAddress
<1>1. IInv => OneInputPerAddress
  <2> SUFFICES ASSUME IInv
               PROVE  LET values == Computed(Range(sig) \cup {v.value : v \in wots} \cup {PkRoot})
                      IN  Cardinality({v.adrs : v \in values}) = Cardinality(values)
    BY DEF OneInputPerAddress
  <2> DEFINE signedValues == {v.value : v \in wots}
             known == Range(sig) \cup signedValues \cup {PkRoot}
  <2>1. IsFiniteSet(Range(sig)) /\ \A v \in Range(sig) : Genuine(v)
    <3>1. \E n \in Nat : DOMAIN sig = 1 .. n /\ \A i \in 1 .. n : Genuine(sig[i])
      <4>1. CASE signed = None
        <5>1. DOMAIN sig = 1 .. 0 /\ 0 \in Nat
          BY <4>1 DEF IInv, SigInv
        <5> QED BY <5>1
      <4>2. CASE signed # None
        <5>1. PICK n : MadeBelow(sig, signed, bytes, n)
          BY <4>2 DEF IInv, SigInv
        <5>2. DOMAIN sig = 1 .. Len(sig) /\ Len(sig) \in Nat
          BY <5>1, LenProperties DEF MadeBelow
        <5> QED BY <5>1, <5>2 DEF MadeBelow
      <4> QED BY <4>1, <4>2
    <3>2. PICK n \in Nat : DOMAIN sig = 1 .. n /\ \A i \in 1 .. n : Genuine(sig[i])
      BY <3>1
    <3>3. IsFiniteSet(DOMAIN sig)
      <4>1. 1 \in Int /\ n \in Int
        OBVIOUS
      <4> QED BY <3>2, <4>1, FS_Interval
    <3> QED BY <3>2, <3>3, FiniteRange DEF Range
  <2>2. IsFiniteSet(signedValues) /\ \A v \in signedValues : Genuine(v)
    <3> DEFINE f == [w \in wots |-> w.value]
    <3>1. Range(f) = signedValues /\ DOMAIN f = wots
      BY DEF Range
    <3> HIDE DEF f
    <3>2. IsFiniteSet(signedValues)
      BY <3>1, FiniteRange DEF IInv, WotsInv
    <3>3. ASSUME NEW w \in wots PROVE Genuine(w.value)
      <4>1. w.layer \in 0 .. D - 1 /\ w.value = NodeOf(w.layer, w.tree, w.leaf)
        BY DEF IInv, WotsInv
      <4>2. CASE w.layer = 0
        BY <4>1, <4>2 DEF NodeOf, Genuine, OfFors, FewTimeAdrs
      <4>3. CASE w.layer # 0
        <5>1. w.layer - 1 \in 0 .. D - 1
          BY <4>1, <4>3, Sizes
        <5> QED BY <4>1, <4>3, <5>1, RootGenuine DEF NodeOf
      <4> QED BY <4>2, <4>3
    <3> QED BY <3>2, <3>3
  <2>3. Genuine(PkRoot)
    <3>1. D - 1 \in 0 .. D - 1
      BY Sizes
    <3> QED BY <3>1, RootGenuine DEF PkRoot
  <2> HIDE DEF signedValues
  <2>4. IsFiniteSet(known) /\ \A v \in known : Genuine(v)
    BY <2>1, <2>2, <2>3, FS_Union, FS_AddElement
  <2> HIDE DEF known
  <2>5. IsFiniteSet(Computed(known)) /\ \A v \in Computed(known) : Genuine(v)
    BY <2>4, ComputedGenuine
  <2> DEFINE values == Computed(known)
  <2> HIDE DEF values
  <2>6. Cardinality({v.adrs : v \in values}) = Cardinality(values)
    BY <2>5, OneValuePerAddress DEF values
  <2> QED BY <2>6 DEF values, known, signedValues
<1> QED BY <1>1, Invariance, PTL
=============================================================================
