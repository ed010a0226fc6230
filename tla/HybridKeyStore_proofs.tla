----------------------- MODULE HybridKeyStore_proofs -----------------------
(***************************************************************************)
(* Theorems about HybridKeyStore for every set of key pairs.               *)
(***************************************************************************)
EXTENDS HybridKeyStore, SequenceTheorems, FiniteSetTheorems, FunctionTheorems, TLAPS

\* Induction.  What is to be shown of every number is that it lies in a set.
LEMMA SetInduction ==
  ASSUME NEW S, 0 \in S, \A n \in Nat : n \in S => n + 1 \in S
  PROVE  Nat \subseteq S
<1> SUFFICES ASSUME Nat \ S # {} PROVE FALSE
  OBVIOUS
<1> DEFINE R == OpToRel(<, Nat)
<1>1. \A m, n \in Nat : m < n => <<m, n>> \in R
  BY DEF OpToRel
<1>2. IsWellFoundedOn(R, Nat)
  BY NatLessThanWellFounded
<1> HIDE DEF R
<1>3. PICK n \in Nat \ S : \A m \in Nat \ S : <<m, n>> \notin R
  BY <1>2, WFMin
<1>4. n # 0 /\ n - 1 \in Nat /\ n - 1 < n
  BY <1>3
<1>5. <<n - 1, n>> \in R
  BY <1>1, <1>4
<1>6. n - 1 \in S
  BY <1>3, <1>4, <1>5
<1>7. n - 1 + 1 = n
  BY <1>3
<1> QED BY <1>3, <1>4, <1>6, <1>7

-----------------------------------------------------------------------------
(* Octets.                                                                 *)
Sums(octets, n, f) == f = [k \in 0 .. n |-> IF k = 0 THEN 0 ELSE f[k - 1] + octets[k].bytes]

\* The lengths of the pieces can be added up.
LEMMA SumsExist ==
  ASSUME NEW octets, NEW n \in Nat
  PROVE  \E f : Sums(octets, n, f)
<1> DEFINE S == {m \in Nat : \E f : Sums(octets, m, f)}
<1>1. 0 \in S
  <2>1. Sums(octets, 0, [k \in 0 .. 0 |-> 0])
    BY DEF Sums
  <2> QED BY <2>1
<1>2. ASSUME NEW m \in Nat, m \in S PROVE m + 1 \in S
  <2>1. PICK f : Sums(octets, m, f)
    BY <1>2
  <2> DEFINE g == [k \in 0 .. m + 1 |-> IF k = m + 1 THEN f[m] + octets[m + 1].bytes ELSE f[k]]
  <2>2. \A k \in 0 .. m + 1 : g[k] = IF k = 0 THEN 0 ELSE g[k - 1] + octets[k].bytes
    BY <2>1 DEF Sums
  <2>3. Sums(octets, m + 1, g)
    BY <2>2 DEF Sums
  <2> QED BY <2>3
<1> HIDE DEF S
<1>3. n \in S
  BY <1>1, <1>2, SetInduction
<1> QED BY <1>3 DEF S

\* The length of the first pieces grows by each piece.
LEMMA UptoSteps ==
  ASSUME NEW octets, Len(octets) \in Nat
  PROVE  /\ Upto(octets)[0] = 0
         /\ \A k \in 1 .. Len(octets) : Upto(octets)[k] = Upto(octets)[k - 1] + octets[k].bytes
<1> DEFINE n == Len(octets)
           f == CHOOSE f : Sums(octets, n, f)
<1>1. Sums(octets, n, f)
  BY SumsExist
<1>2. Upto(octets) = f
  BY DEF Upto, Sums
<1> HIDE DEF f
<1>3. \A k \in 0 .. n : f[k] = IF k = 0 THEN 0 ELSE f[k - 1] + octets[k].bytes
  BY <1>1 DEF Sums
<1> QED BY <1>2, <1>3

\* Up to five pieces.
LEMMA UptoFive ==
  ASSUME NEW octets, Len(octets) \in 0 .. 5,
         \A k \in 1 .. Len(octets) : octets[k].bytes \in Nat
  PROVE  /\ Upto(octets)[0] = 0
         /\ Len(octets) >= 1 => Upto(octets)[1] = octets[1].bytes
         /\ Len(octets) >= 2 => Upto(octets)[2] = octets[1].bytes + octets[2].bytes
         /\ Len(octets) >= 3 => Upto(octets)[3] = octets[1].bytes + octets[2].bytes + octets[3].bytes
         /\ Len(octets) >= 4 => Upto(octets)[4] = octets[1].bytes + octets[2].bytes + octets[3].bytes + octets[4].bytes
<1>1. Upto(octets)[0] = 0
  BY UptoSteps
<1>2. \A k \in 1 .. Len(octets) : Upto(octets)[k] = Upto(octets)[k - 1] + octets[k].bytes
  BY UptoSteps
<1> QED BY <1>1, <1>2

\* Short sequences are their elements.
LEMMA OneElement ==
  ASSUME NEW S, NEW s \in Seq(S), Len(s) = 1
  PROVE  s = <<s[1]>>
<1>0. s[1] \in S
  <2>1. \A i \in 1 .. 1 : s[i] \in S
    BY ElementOfSeq
  <2> QED BY <2>1
<1> DEFINE t == <<s[1]>>
<1>1. t \in Seq(S) /\ Len(t) = 1 /\ t[1] = s[1]
  BY <1>0
<1> HIDE DEF t
<1>2. \A i \in 1 .. Len(s) : s[i] = t[i]
  BY <1>1
<1>3. s = t
  BY <1>1, <1>2, SeqEqual
<1> QED BY <1>3 DEF t

\* Two elements.
LEMMA TwoElements ==
  ASSUME NEW S, NEW s \in Seq(S), Len(s) = 2
  PROVE  s = <<s[1], s[2]>>
<1>0. s[1] \in S /\ s[2] \in S
  <2>1. \A i \in 1 .. 2 : s[i] \in S
    BY ElementOfSeq
  <2> QED BY <2>1
<1> DEFINE t == <<s[1], s[2]>>
<1>1. t \in Seq(S) /\ Len(t) = 2 /\ t[1] = s[1] /\ t[2] = s[2]
  BY <1>0
<1> HIDE DEF t
<1>2. \A i \in 1 .. Len(s) : s[i] = t[i]
  BY <1>1
<1>3. s = t
  BY <1>1, <1>2, SeqEqual
<1> QED BY <1>3 DEF t

\* Three elements.
LEMMA ThreeElements ==
  ASSUME NEW S, NEW s \in Seq(S), Len(s) = 3
  PROVE  s = <<s[1], s[2], s[3]>>
<1>0. s[1] \in S /\ s[2] \in S /\ s[3] \in S
  <2>1. \A i \in 1 .. 3 : s[i] \in S
    BY ElementOfSeq
  <2> QED BY <2>1
<1> DEFINE t == <<s[1], s[2], s[3]>>
<1>1. t \in Seq(S) /\ Len(t) = 3 /\ t[1] = s[1] /\ t[2] = s[2] /\ t[3] = s[3]
  BY <1>0
<1> HIDE DEF t
<1>2. \A i \in 1 .. Len(s) : s[i] = t[i]
  BY <1>1
<1>3. s = t
  BY <1>1, <1>2, SeqEqual
<1> QED BY <1>3 DEF t

\* Four elements.
LEMMA FourElements ==
  ASSUME NEW S, NEW s \in Seq(S), Len(s) = 4
  PROVE  s = <<s[1], s[2], s[3], s[4]>>
<1>0. s[1] \in S /\ s[2] \in S /\ s[3] \in S /\ s[4] \in S
  <2>1. \A i \in 1 .. 4 : s[i] \in S
    BY ElementOfSeq
  <2> QED BY <2>1
<1> DEFINE t == <<s[1], s[2], s[3], s[4]>>
<1>1. t \in Seq(S) /\ Len(t) = 4 /\ t[1] = s[1] /\ t[2] = s[2] /\ t[3] = s[3] /\ t[4] = s[4]
  BY <1>0
<1> HIDE DEF t
<1>2. \A i \in 1 .. Len(s) : s[i] = t[i]
  BY <1>1
<1>3. s = t
  BY <1>1, <1>2, SeqEqual
<1> QED BY <1>3 DEF t

\* Short concatenations.
LEMMA Concatenated ==
  ASSUME NEW a, NEW b
  PROVE  /\ <<a>> \o <<b>> = <<a, b>>
         /\ \A c : <<a, b>> \o <<c>> = <<a, b, c>>
         /\ \A c : <<a>> \o <<b, c>> = <<a, b, c>>
<1>1. <<a>> \o <<b>> = <<a, b>>
  <2> DEFINE S == {a, b}
  <2>1. <<a>> \in Seq(S) /\ <<b>> \in Seq(S)
    OBVIOUS
  <2> DEFINE s == <<a>> \o <<b>>
  <2>2. s \in Seq(S) /\ Len(s) = 2 /\ s[1] = a /\ s[2] = b
    BY <2>1, ConcatProperties
  <2> HIDE DEF s, S
  <2>3. s = <<a, b>>
    BY <2>2, TwoElements
  <2> QED BY <2>3 DEF s
<1>2. ASSUME NEW c PROVE <<a, b>> \o <<c>> = <<a, b, c>> /\ <<a>> \o <<b, c>> = <<a, b, c>>
  <2> DEFINE S == {a, b, c}
  <2>1. <<a, b>> \in Seq(S) /\ <<c>> \in Seq(S) /\ <<a>> \in Seq(S) /\ <<b, c>> \in Seq(S)
    OBVIOUS
  <2> DEFINE s == <<a, b>> \o <<c>>
             t == <<a>> \o <<b, c>>
  <2>2. s \in Seq(S) /\ Len(s) = 3 /\ s[1] = a /\ s[2] = b /\ s[3] = c
    BY <2>1, ConcatProperties
  <2>3. t \in Seq(S) /\ Len(t) = 3 /\ t[1] = a /\ t[2] = b /\ t[3] = c
    BY <2>1, ConcatProperties
  <2> HIDE DEF s, t, S
  <2>4. s = <<a, b, c>> /\ t = <<a, b, c>>
    BY <2>2, <2>3, ThreeElements
  <2> QED BY <2>4 DEF s, t
<1> QED BY <1>1, <1>2

\* Four pieces, put together of two or of three and one.
LEMMA ConcatenatedFour ==
  ASSUME NEW a, NEW b, NEW c, NEW d
  PROVE  <<a, b>> \o <<c, d>> = <<a, b, c, d>> /\ <<a, b, c>> \o <<d>> = <<a, b, c, d>>
<1> DEFINE S == {a, b, c, d}
<1>1. <<a, b>> \in Seq(S) /\ <<c, d>> \in Seq(S) /\ <<a, b, c>> \in Seq(S) /\ <<d>> \in Seq(S)
  OBVIOUS
<1> DEFINE s == <<a, b>> \o <<c, d>>
           t == <<a, b, c>> \o <<d>>
<1>2. s \in Seq(S) /\ Len(s) = 4 /\ s[1] = a /\ s[2] = b /\ s[3] = c /\ s[4] = d
  BY <1>1, ConcatProperties
<1>3. t \in Seq(S) /\ Len(t) = 4 /\ t[1] = a /\ t[2] = b /\ t[3] = c /\ t[4] = d
  BY <1>1, ConcatProperties
<1> HIDE DEF s, t, S
<1>4. s = <<a, b, c, d>> /\ t = <<a, b, c, d>>
  BY <1>2, <1>3, FourElements
<1> QED BY <1>4 DEF s, t

\* A cut leaves the first pieces and the others.
CutAt(octets, k, s) ==
  /\ Len(s[1]) = k /\ Len(s[2]) = Len(octets) - k
  /\ \A i \in 1 .. k : s[1][i] = octets[i]
  /\ \A i \in 1 .. Len(octets) - k : s[2][i] = octets[k + i]
  /\ \E S : s[1] \in Seq(S) /\ s[2] \in Seq(S)

LEMMA Cut ==
  ASSUME NEW S, NEW octets \in Seq(S), NEW k \in 0 .. Len(octets)
  PROVE  CutAt(octets, k, <<SubSeq(octets, 1, k), SubSeq(octets, k + 1, Len(octets))>>)
<1> DEFINE s == SubSeq(octets, 1, k)
           t == SubSeq(octets, k + 1, Len(octets))
           n == Len(octets)
<1>1. n \in Nat /\ k \in Nat /\ k <= n /\ \A i \in 1 .. n : octets[i] \in S
  OBVIOUS
<1>2. s \in Seq(S) /\ Len(s) = k /\ \A i \in 1 .. k : s[i] = octets[i]
  <2>1. \A i \in 1 .. k : octets[i] \in S
    BY <1>1
  <2>2. /\ s \in Seq(S) /\ Len(s) = IF 1 <= k THEN k - 1 + 1 ELSE 0
        /\ \A i \in 1 .. k - 1 + 1 : s[i] = octets[1 + i - 1]
    BY <1>1, <2>1, SubSeqProperties
  <2>3. k - 1 + 1 = k /\ (IF 1 <= k THEN k - 1 + 1 ELSE 0) = k /\ \A i \in 1 .. k : 1 + i - 1 = i
    BY <1>1
  <2> HIDE DEF s
  <2> QED BY <2>2, <2>3
<1>3. t \in Seq(S) /\ Len(t) = n - k /\ \A i \in 1 .. n - k : t[i] = octets[k + i]
  <2>1. \A i \in k + 1 .. n : octets[i] \in S
    BY <1>1
  <2>2. /\ t \in Seq(S) /\ Len(t) = IF k + 1 <= n THEN n - (k + 1) + 1 ELSE 0
        /\ \A i \in 1 .. n - (k + 1) + 1 : t[i] = octets[k + 1 + i - 1]
    BY <1>1, <2>1, SubSeqProperties
  <2>3. n - (k + 1) + 1 = n - k /\ (IF k + 1 <= n THEN n - (k + 1) + 1 ELSE 0) = n - k
        /\ \A i \in 1 .. n - k : k + 1 + i - 1 = k + i
    BY <1>1
  <2> HIDE DEF t, n
  <2> QED BY <2>2, <2>3
<1> HIDE DEF s, t
<1> QED BY <1>2, <1>3 DEF CutAt, s, t

\* What Split returns are the cuts at its length.
LEMMA SplitCuts ==
  ASSUME NEW S, NEW octets \in Seq(S), NEW n
  PROVE  /\ \A s \in Split(octets, n) :
              \E k \in 0 .. Len(octets) : Upto(octets)[k] = n /\ CutAt(octets, k, s)
         /\ \A k \in 0 .. Len(octets) :
              Upto(octets)[k] = n => \E s \in Split(octets, n) : CutAt(octets, k, s)
<1> DEFINE cut(k) == <<SubSeq(octets, 1, k), SubSeq(octets, k + 1, Len(octets))>>
<1>1. \A k \in 0 .. Len(octets) : CutAt(octets, k, cut(k))
  BY Cut
<1>2. Split(octets, n) = {cut(k) : k \in {k \in 0 .. Len(octets) : Upto(octets)[k] = n}}
  BY DEF Split
<1> HIDE DEF cut
<1> QED BY <1>1, <1>2

\* Two pieces of the kinds that are looked for, the first as long as it should be.
Halves(octets, n, first, second) ==
  /\ Len(octets) = 2 /\ octets[1].bytes = n
  /\ octets[1].kind = first /\ octets[2].kind = second

\* Cut in two pieces of these kinds.
CutInTwo(octets, n, first, second) ==
  {s \in Split(octets, n) : Matches(s[1], <<first>>) /\ Matches(s[2], <<second>>)}

\* A sequence of one piece of a kind.
LEMMA MatchesOne ==
  ASSUME NEW octets, Len(octets) \in Nat, DOMAIN octets = 1 .. Len(octets), NEW kind
  PROVE  Matches(octets, <<kind>>) <=> Len(octets) = 1 /\ octets[1].kind = kind
<1>1. Len(<<kind>>) = 1 /\ <<kind>>[1] = kind
  OBVIOUS
<1>2. Len(octets) = 1 => DOMAIN octets = {1}
  OBVIOUS
<1> QED BY <1>1, <1>2 DEF Matches

\* Only two pieces are cut in two, behind the first.
LEMMA InTwo ==
  ASSUME NEW S, NEW octets \in Seq(S), NEW n, NEW first, NEW second,
         Len(octets) >= 1 => octets[1].bytes \in Nat
  PROVE  /\ \A s \in CutInTwo(octets, n, first, second) :
              Halves(octets, n, first, second) /\ s[1][1] = octets[1] /\ s[2][1] = octets[2]
         /\ Halves(octets, n, first, second) => CutInTwo(octets, n, first, second) # {}
<1>1. Upto(octets)[0] = 0 /\ (Len(octets) >= 1 => Upto(octets)[1] = octets[1].bytes)
  <2>1. Len(octets) \in Nat
    OBVIOUS
  <2>2. Upto(octets)[0] = 0
    BY <2>1, UptoSteps
  <2>3. \A k \in 1 .. Len(octets) : Upto(octets)[k] = Upto(octets)[k - 1] + octets[k].bytes
    BY <2>1, UptoSteps
  <2>4. Len(octets) >= 1 => Upto(octets)[1] = Upto(octets)[1 - 1] + octets[1].bytes
    BY <2>1, <2>3
  <2> QED BY <2>2, <2>4
<1>2. ASSUME NEW s, NEW k \in 0 .. Len(octets), CutAt(octets, k, s)
      PROVE  /\ Matches(s[1], <<first>>) <=> k = 1 /\ s[1][1].kind = first
             /\ Matches(s[2], <<second>>) <=> Len(octets) - k = 1 /\ s[2][1].kind = second
  <2>1. /\ Len(s[1]) = k /\ Len(s[2]) = Len(octets) - k
        /\ DOMAIN s[1] = 1 .. Len(s[1]) /\ DOMAIN s[2] = 1 .. Len(s[2])
        /\ Len(s[1]) \in Nat /\ Len(s[2]) \in Nat
    BY <1>2 DEF CutAt
  <2> QED BY <2>1, MatchesOne
<1>3. ASSUME NEW s \in CutInTwo(octets, n, first, second)
      PROVE  Halves(octets, n, first, second) /\ s[1][1] = octets[1] /\ s[2][1] = octets[2]
  <2>1. s \in Split(octets, n) /\ Matches(s[1], <<first>>) /\ Matches(s[2], <<second>>)
    BY DEF CutInTwo
  <2>2. PICK k \in 0 .. Len(octets) : Upto(octets)[k] = n /\ CutAt(octets, k, s)
    BY <2>1, SplitCuts
  <2>3. k = 1 /\ Len(octets) = 2 /\ s[1][1].kind = first /\ s[2][1].kind = second
    <3>1. k = 1 /\ Len(octets) - k = 1
      BY <1>2, <2>1, <2>2
    <3>2. Len(octets) \in Nat
      OBVIOUS
    <3>3. Len(octets) = 2
      BY <3>1, <3>2
    <3> QED BY <1>2, <2>1, <2>2, <3>1, <3>3
  <2>4. s[1][1] = octets[1] /\ s[2][1] = octets[2]
    BY <2>2, <2>3 DEF CutAt
  <2>5. octets[1].bytes = n
    BY <1>1, <2>2, <2>3
  <2> QED BY <2>3, <2>4, <2>5 DEF Halves
<1>4. ASSUME Halves(octets, n, first, second) PROVE CutInTwo(octets, n, first, second) # {}
  <2>1. Len(octets) = 2 /\ Upto(octets)[1] = n /\ 1 \in 0 .. Len(octets) /\ Len(octets) - 1 = 1
    BY <1>1, <1>4 DEF Halves
  <2>2. PICK s \in Split(octets, n) : CutAt(octets, 1, s)
    BY <2>1, SplitCuts
  <2>3. s[1][1] = octets[1] /\ s[2][1] = octets[2]
    BY <2>1, <2>2 DEF CutAt
  <2>4. Matches(s[1], <<first>>) /\ Matches(s[2], <<second>>)
    BY <1>2, <1>4, <2>1, <2>2, <2>3 DEF Halves
  <2> QED BY <2>2, <2>4 DEF CutInTwo
<1> QED BY <1>3, <1>4

-----------------------------------------------------------------------------
\* The algorithms of each family (COMBINATIONS of hybrid_factory.py).
AlgorithmShape(a) ==
  \/ a.family = "xwing" /\ a.pq = "ml-kem" /\ a.trad = "x25519"
  \/ a.family = "composite-sig" /\ a.pq = "ml-dsa" /\ a.trad \in {"rsa", "rsa-odd", "ecdsa", "ed25519"}
  \/ a.family = "composite-kem" /\ a.pq = "ml-kem" /\ a.trad \in {"ecdh", "rsa", "rsa-odd", "x25519"}
  \/ /\ a.family = "chempat" /\ a.pq \in {"ml-kem", "frodokem", "sntrup761", "mceliece"}
     /\ a.trad \in {"x25519", "ecdh"}

\* Every algorithm in use has one of these shapes, generated or assembled.
LEMMA AlgorithmsOfFamilies ==
  ASSUME NEW a \in Algorithms
  PROVE  AlgorithmShape(a)
<1>1. CASE a = [family |-> "xwing", pq |-> "ml-kem", trad |-> "x25519"]
  BY <1>1 DEF AlgorithmShape
<1>2. CASE a # [family |-> "xwing", pq |-> "ml-kem", trad |-> "x25519"]
  <2>0. PICK family \in {"composite-sig", "composite-kem", "chempat"} :
          \E pq \in Family \cup {None}, trad \in AllowedTrad(family) \cup {None} :
            a \in Generated(family, pq, Rounded(trad)) \cup
                  (IF pq = None /\ trad = None THEN {} ELSE Assembled(family, pq, trad))
    BY <1>2 DEF Algorithms, Combinations, Composite
  <2>1. PICK pq \in Family \cup {None}, trad \in AllowedTrad(family) \cup {None} :
          a \in Generated(family, pq, Rounded(trad)) \cup
                (IF pq = None /\ trad = None THEN {} ELSE Assembled(family, pq, trad))
    BY <2>0
  <2> DEFINE table == Combinations[family]
             Entry(c) == \E i \in DOMAIN table : c = table[i]
  <2>2. \A x, y : \A c \in ValidCombination(family, x, y) :
           Entry(c) /\ x \in {None, c[1]} /\ y \in {None, c[2]}
    BY DEF ValidCombination
  <2>3. \A c : Entry(c) =>
           CASE family = "composite-sig" -> c[1] = "ml-dsa" /\ c[2] \in {"rsa", "ed25519", "ecdsa"}
             [] family = "composite-kem" -> c[1] = "ml-kem" /\ c[2] \in {"ecdh", "rsa", "x25519"}
             [] OTHER -> c[1] \in {"ml-kem", "frodokem", "sntrup761", "mceliece"}
                         /\ c[2] \in {"x25519", "ecdh"}
    BY DEF Combinations, Composite
  <2> HIDE DEF Entry, table
  <2>4. CASE a \in Generated(family, pq, Rounded(trad))
    <3>1. PICK c : /\ a = [family |-> family, pq |-> c[1], trad |-> c[2]]
                   /\ c = Default(family) \/ Entry(c)
      BY <2>2, <2>4 DEF Generated
    <3>2. CASE c = Default(family)
      BY <3>1, <3>2 DEF Default, AlgorithmShape
    <3>3. CASE Entry(c)
      BY <2>3, <3>1, <3>3 DEF AlgorithmShape
    <3> QED BY <3>1, <3>2, <3>3
  <2>5. CASE a \in Assembled(family, pq, trad)
    <3>1. PICK c : /\ a = [family |-> family, pq |-> IF pq = None THEN c[1] ELSE pq,
                           trad |-> IF trad = None THEN c[2] ELSE trad]
                   /\ Entry(c) /\ pq \in {None, c[1]}
      BY <2>2, <2>5 DEF Assembled
    <3>2. a.family = family /\ a.pq = c[1] /\ (a.trad = c[2] \/ a.trad \in AllowedTrad(family))
      BY <2>1, <3>1
    <3> QED BY <2>3, <3>1, <3>2 DEF AllowedTrad, AlgorithmShape
  <2> QED BY <2>1, <2>4, <2>5
<1> QED BY <1>1, <1>2

-----------------------------------------------------------------------------
(* What the octets of a private key are read as.                           *)
LEMMA Pieces ==
  /\ \A x : Seed(x).kind = "seed" /\ Seed(x).of = x /\ Seed(x).bytes = SeedBytes(alg.pq)
  /\ \A x : Raw(x).kind = "raw" /\ Raw(x).of = x /\ Raw(x).bytes = RawBytes(alg.pq)
  /\ \A x : Trad(x).kind = "trad" /\ Trad(x).of = x /\ Trad(x).bytes = TradKeyBytes(alg.trad)
  /\ \A x : XSeed(x).kind = "xseed" /\ XSeed(x).of = x /\ XSeed(x).bytes = 32
  /\ \A x, y : /\ Choice(x, y).kind = "choice" /\ Choice(x, y).of = <<x, y>>
               /\ Choice(x, y).bytes = RawBytes(alg.pq) + 100
  /\ SeedBytes(alg.pq) \in Nat /\ RawBytes(alg.pq) \in Nat /\ TradKeyBytes(alg.trad) \in Nat
BY DEF Seed, Raw, Trad, XSeed, Choice, SeedBytes, RawBytes, TradKeyBytes

\* The key that the seed of one half and the other half make.
SeedKey(p, t) == KeyOf(Pq!KeyOf(alg.pq, p, p), t, <<>>)

\* A composite key is read from the seed and the traditional key, and from nothing else
\* (_load_composite_sig_from_private_bytes, _load_composite_kem_from_private_bytes).
LEMMA CompositeLoads ==
  ASSUME NEW p, NEW t
  PROVE  /\ LoadedComposite(<<Seed(p), Trad(t)>>) = {SeedKey(p, t)}
         /\ LoadedComposite(<<Raw(p), Trad(t)>>) = {}
         /\ LoadedComposite(<<Seed(p), Seed(p), Trad(t), Trad(t)>>) = {}
<1> DEFINE n == SeedBytes(alg.pq)
           key_of(s) == KeyOf(Pq!KeyOf(alg.pq, s[1][1].of, s[1][1].of), s[2][1].of, <<>>)
<1>0. ASSUME NEW octets
      PROVE  LoadedComposite(octets) = {key_of(s) : s \in CutInTwo(octets, n, "seed", "trad")}
  BY DEF LoadedComposite, CutInTwo
<1>1. LoadedComposite(<<Seed(p), Trad(t)>>) = {SeedKey(p, t)}
  <2> DEFINE octets == <<Seed(p), Trad(t)>>
             S == {Seed(p), Trad(t)}
  <2>1. octets \in Seq(S) /\ Len(octets) = 2 /\ octets[1] = Seed(p) /\ octets[2] = Trad(t)
    OBVIOUS
  <2> HIDE DEF octets, S
  <2>2. octets[1].bytes = n /\ n \in Nat /\ octets[1].kind = "seed" /\ octets[2].kind = "trad"
        /\ octets[1].of = p /\ octets[2].of = t
    BY <2>1, Pieces
  <2> HIDE DEF n
  <2>5. octets[1].bytes \in Nat /\ Halves(octets, n, "seed", "trad")
    BY <2>1, <2>2 DEF Halves
  <2>3. /\ \A s \in CutInTwo(octets, n, "seed", "trad") : s[1][1] = octets[1] /\ s[2][1] = octets[2]
        /\ CutInTwo(octets, n, "seed", "trad") # {}
    BY <2>1, <2>5, InTwo
  <2>4. \A s \in CutInTwo(octets, n, "seed", "trad") : key_of(s) = SeedKey(p, t)
    BY <2>2, <2>3 DEF SeedKey
  <2> HIDE DEF key_of
  <2> QED BY <1>0, <2>3, <2>4 DEF octets
<1>2. LoadedComposite(<<Raw(p), Trad(t)>>) = {}
  <2> DEFINE octets == <<Raw(p), Trad(t)>>
             S == {Raw(p), Trad(t)}
  <2>1. octets \in Seq(S) /\ Len(octets) = 2 /\ octets[1] = Raw(p)
    OBVIOUS
  <2> HIDE DEF octets, S
  <2>2. octets[1].bytes \in Nat /\ (octets[1].kind # "seed" \/ Len(octets) # 2)
    BY <2>1, Pieces
  <2>4. ~Halves(octets, n, "seed", "trad")
    BY <2>2 DEF Halves
  <2> HIDE DEF n
  <2>3. CutInTwo(octets, n, "seed", "trad") = {}
    BY <2>1, <2>2, <2>4, InTwo
  <2> QED BY <1>0, <2>3 DEF octets
<1>3. LoadedComposite(<<Seed(p), Seed(p), Trad(t), Trad(t)>>) = {}
  <2> DEFINE octets == <<Seed(p), Seed(p), Trad(t), Trad(t)>>
             S == {Seed(p), Trad(t)}
  <2>1. octets \in Seq(S) /\ Len(octets) = 4 /\ octets[1] = Seed(p)
    OBVIOUS
  <2> HIDE DEF octets, S
  <2>2. octets[1].bytes \in Nat /\ (octets[1].kind # "seed" \/ Len(octets) # 2)
    BY <2>1, Pieces
  <2>4. ~Halves(octets, n, "seed", "trad")
    BY <2>2 DEF Halves
  <2> HIDE DEF n
  <2>3. CutInTwo(octets, n, "seed", "trad") = {}
    BY <2>1, <2>2, <2>4, InTwo
  <2> QED BY <1>0, <2>3 DEF octets
<1> QED BY <1>1, <1>2, <1>3

\* How long up to four pieces are.
LEMMA BytesOne ==
  ASSUME NEW a, a.bytes \in Nat
  PROVE  Bytes(<<a>>) = a.bytes
<1> DEFINE octets == <<a>>
<1>1. Len(octets) = 1 /\ octets[1] = a
  OBVIOUS
<1>2. Bytes(octets) = Upto(octets)[1]
  BY DEF Bytes
<1> HIDE DEF octets
<1>3. Len(octets) \in 0 .. 5 /\ Len(octets) >= 1 /\ \A k \in 1 .. Len(octets) : octets[k].bytes \in Nat
  BY <1>1
<1>4. Upto(octets)[1] = octets[1].bytes
  BY <1>3, UptoFive
<1> QED BY <1>1, <1>2, <1>4 DEF octets

\* Two pieces.
LEMMA BytesTwo ==
  ASSUME NEW a, NEW b, a.bytes \in Nat, b.bytes \in Nat
  PROVE  Bytes(<<a, b>>) = a.bytes + b.bytes
<1> DEFINE octets == <<a, b>>
<1>1. Len(octets) = 2 /\ octets[1] = a /\ octets[2] = b
  OBVIOUS
<1>2. Bytes(octets) = Upto(octets)[2]
  BY DEF Bytes
<1> HIDE DEF octets
<1>3. Len(octets) \in 0 .. 5 /\ Len(octets) >= 2 /\ \A k \in 1 .. Len(octets) : octets[k].bytes \in Nat
  BY <1>1
<1>4. Upto(octets)[2] = octets[1].bytes + octets[2].bytes
  BY <1>3, UptoFive
<1> QED BY <1>1, <1>2, <1>4 DEF octets

\* Three pieces.
LEMMA BytesThree ==
  ASSUME NEW a, NEW b, NEW c, a.bytes \in Nat, b.bytes \in Nat, c.bytes \in Nat
  PROVE  Bytes(<<a, b, c>>) = a.bytes + b.bytes + c.bytes
<1> DEFINE octets == <<a, b, c>>
<1>1. Len(octets) = 3 /\ octets[1] = a /\ octets[2] = b /\ octets[3] = c
  OBVIOUS
<1>2. Bytes(octets) = Upto(octets)[3]
  BY DEF Bytes
<1> HIDE DEF octets
<1>3. Len(octets) \in 0 .. 5 /\ Len(octets) >= 3 /\ \A k \in 1 .. Len(octets) : octets[k].bytes \in Nat
  BY <1>1
<1>4. Upto(octets)[3] = octets[1].bytes + octets[2].bytes + octets[3].bytes
  BY <1>3, UptoFive
<1> QED BY <1>1, <1>2, <1>4 DEF octets

\* Four pieces.
LEMMA BytesFour ==
  ASSUME NEW a, NEW b, NEW c, NEW d, a.bytes \in Nat, b.bytes \in Nat, c.bytes \in Nat, d.bytes \in Nat
  PROVE  Bytes(<<a, b, c, d>>) = a.bytes + b.bytes + c.bytes + d.bytes
<1> DEFINE octets == <<a, b, c, d>>
<1>1. Len(octets) = 4 /\ octets[1] = a /\ octets[2] = b /\ octets[3] = c /\ octets[4] = d
  OBVIOUS
<1>2. Bytes(octets) = Upto(octets)[4]
  BY DEF Bytes
<1> HIDE DEF octets
<1>3. Len(octets) \in 0 .. 5 /\ Len(octets) >= 4 /\ \A k \in 1 .. Len(octets) : octets[k].bytes \in Nat
  BY <1>1
<1>4. Upto(octets)[4] = octets[1].bytes + octets[2].bytes + octets[3].bytes + octets[4].bytes
  BY <1>3, UptoFive
<1> QED BY <1>1, <1>2, <1>4 DEF octets

\* The length tells the form of an X-Wing key (XWingPrivateKey.from_private_bytes).
LEMMA XWingLoads ==
  ASSUME NEW p, NEW r, NEW t, alg.pq = "ml-kem", alg.trad = "x25519"
  PROVE  /\ LoadedXWing(<<XSeed(p)>>) = {Expanded(p)}
         /\ LoadedXWing(<<Seed(p), Trad(t)>>) = {KeyOf(Pq!KeyOf("ml-kem", p, p), t, <<>>)}
         /\ LoadedXWing(<<Raw(p), Trad(t)>>) = {KeyOf(Pq!KeyOf("ml-kem", None, p), t, <<>>)}
         /\ p = r /\ p = t => LoadedXWing(<<XSeed(p), Raw(r), Trad(t)>>) = {Expanded(p)}
         /\ p # r \/ p # t => LoadedXWing(<<XSeed(p), Raw(r), Trad(t)>>) = {}
         /\ LoadedXWing(<<Seed(p), Trad(t), Raw(p), Trad(t)>>) = {}
         /\ Bytes(<<Seed(p), Trad(t), Raw(p), Trad(t)>>) = 2528
         /\ Bytes(<<XSeed(p)>>) = 32 /\ Bytes(<<Seed(p), Trad(t)>>) = 96
         /\ Bytes(<<Raw(p), Trad(t)>>) = 2432 /\ Bytes(<<XSeed(p), Raw(r), Trad(t)>>) = 2464
<1>0. /\ \A x : XSeed(x).bytes = 32 /\ Seed(x).bytes = 64 /\ Trad(x).bytes = 32 /\ Raw(x).bytes = 2400
      /\ \A x : XSeed(x).of = x /\ Seed(x).of = x /\ Trad(x).of = x /\ Raw(x).of = x
  BY DEF XSeed, Seed, Trad, Raw, SeedBytes, RawBytes, TradKeyBytes
<1>1. Bytes(<<XSeed(p)>>) = 32
  BY <1>0, BytesOne
<1>2. Bytes(<<Seed(p), Trad(t)>>) = 96 /\ Bytes(<<Raw(p), Trad(t)>>) = 2432
  <2>1. Seed(p).bytes \in Nat /\ Raw(p).bytes \in Nat /\ Trad(t).bytes \in Nat
    BY <1>0
  <2>2. /\ Bytes(<<Seed(p), Trad(t)>>) = Seed(p).bytes + Trad(t).bytes
        /\ Bytes(<<Raw(p), Trad(t)>>) = Raw(p).bytes + Trad(t).bytes
    BY <2>1, BytesTwo
  <2> QED BY <1>0, <2>2
<1>3. Bytes(<<XSeed(p), Raw(r), Trad(t)>>) = 2464
  <2>1. XSeed(p).bytes \in Nat /\ Raw(r).bytes \in Nat /\ Trad(t).bytes \in Nat
    BY <1>0
  <2>2. Bytes(<<XSeed(p), Raw(r), Trad(t)>>) = XSeed(p).bytes + Raw(r).bytes + Trad(t).bytes
    BY <2>1, BytesThree
  <2> QED BY <1>0, <2>2
<1>4. Bytes(<<Seed(p), Trad(t), Raw(p), Trad(t)>>) = 2528
  <2>1. Seed(p).bytes \in Nat /\ Raw(p).bytes \in Nat /\ Trad(t).bytes \in Nat
    BY <1>0
  <2>2. Bytes(<<Seed(p), Trad(t), Raw(p), Trad(t)>>)
          = Seed(p).bytes + Trad(t).bytes + Raw(p).bytes + Trad(t).bytes
    BY <2>1, BytesFour
  <2> QED BY <1>0, <2>2
<1>5. LoadedXWing(<<XSeed(p)>>) = {Expanded(p)}
  BY <1>0, <1>1 DEF LoadedXWing
<1>6. LoadedXWing(<<Seed(p), Trad(t)>>) = {KeyOf(Pq!KeyOf("ml-kem", p, p), t, <<>>)}
  BY <1>0, <1>2 DEF LoadedXWing
<1>7. LoadedXWing(<<Raw(p), Trad(t)>>) = {KeyOf(Pq!KeyOf("ml-kem", None, p), t, <<>>)}
  BY <1>0, <1>2 DEF LoadedXWing
<1>8. /\ p = r /\ p = t => LoadedXWing(<<XSeed(p), Raw(r), Trad(t)>>) = {Expanded(p)}
      /\ p # r \/ p # t => LoadedXWing(<<XSeed(p), Raw(r), Trad(t)>>) = {}
  <2>1. LoadedXWing(<<XSeed(p), Raw(r), Trad(t)>>) = {k \in {Expanded(p)} : k.pq.raw = r /\ k.trad = t}
    BY <1>0, <1>3 DEF LoadedXWing
  <2>2. Expanded(p).pq.raw = p /\ Expanded(p).trad = p
    BY DEF Expanded, KeyOf, Pq!KeyOf
  <2> QED BY <2>1, <2>2
<1>9. LoadedXWing(<<Seed(p), Trad(t), Raw(p), Trad(t)>>) = {}
  BY <1>4 DEF LoadedXWing
<1> QED BY <1>1, <1>2, <1>3, <1>4, <1>5, <1>6, <1>7, <1>8, <1>9

\* Cut in some octets and a traditional key.
CutBeforeTrad(octets, n) ==
  {s \in Split(octets, n) : s[1] # <<>> /\ Matches(s[2], <<"trad">>)}

\* Octets that end with a traditional key are cut before it, if what precedes is as long as it
\* is said to be.
LEMMA BeforeTrad ==
  ASSUME NEW S, NEW octets \in Seq(S), NEW m \in Nat, m > 0, Len(octets) = m + 1,
         octets[m + 1].kind = "trad", NEW n, Upto(octets)[m] = n
  PROVE  /\ CutBeforeTrad(octets, n) # {}
         /\ \A s \in CutBeforeTrad(octets, n) : CutAt(octets, m, s) /\ s[2][1] = octets[m + 1]
<1>1. ASSUME NEW s, NEW k \in 0 .. Len(octets), CutAt(octets, k, s)
      PROVE  Matches(s[2], <<"trad">>) <=> Len(octets) - k = 1 /\ s[2][1].kind = "trad"
  <2>1. Len(s[2]) = Len(octets) - k /\ DOMAIN s[2] = 1 .. Len(s[2]) /\ Len(s[2]) \in Nat
    BY <1>1 DEF CutAt
  <2> QED BY <2>1, MatchesOne
<1>2. ASSUME NEW s \in CutBeforeTrad(octets, n)
      PROVE  CutAt(octets, m, s) /\ s[2][1] = octets[m + 1]
  <2>1. s \in Split(octets, n) /\ Matches(s[2], <<"trad">>)
    BY DEF CutBeforeTrad
  <2>2. PICK k \in 0 .. Len(octets) : CutAt(octets, k, s)
    BY <2>1, SplitCuts
  <2>3. Len(octets) - k = 1
    BY <1>1, <2>1, <2>2
  <2>4. k = m
    BY <2>3
  <2>5. CutAt(octets, m, s) /\ 1 \in 1 .. Len(octets) - m
    BY <2>2, <2>3, <2>4
  <2> QED BY <2>5 DEF CutAt
<1>3. CutBeforeTrad(octets, n) # {}
  <2>1. m \in 0 .. Len(octets) /\ Len(octets) - m = 1
    OBVIOUS
  <2>2. PICK s \in Split(octets, n) : CutAt(octets, m, s)
    BY <2>1, SplitCuts
  <2>3. s[2][1] = octets[m + 1] /\ Len(s[1]) = m
    BY <2>1, <2>2 DEF CutAt
  <2>4. Matches(s[2], <<"trad">>)
    BY <1>1, <2>1, <2>2, <2>3
  <2>5. s[1] # <<>>
    BY <2>3
  <2> QED BY <2>4, <2>5 DEF CutBeforeTrad
<1> QED BY <1>2, <1>3

\* The keys of a Chempat key are those that its post-quantum half is read as.
ChempatKeys(octets, t) == {KeyOf(pq, t, <<>>) : pq \in Pq!Loaded(PqBlob(octets))}

\* The size in front measures the post-quantum half (_load_chempat_private_key).
LEMMA ChempatLoads ==
  ASSUME NEW x, NEW y, NEW t, x.bytes \in Nat, y.bytes \in Nat
  PROVE  /\ LoadedChempat(Chempat(<<x>>, t)) = ChempatKeys(<<x>>, t)
         /\ LoadedChempat(Chempat(<<x, y>>, t)) = ChempatKeys(<<x, y>>, t)
         /\ Len(Chempat(<<x>>, t)) = 3 /\ Len(Chempat(<<x, y>>, t)) = 4
<1> DEFINE keys_of(s) == {KeyOf(pq, s[2][1].of, <<>>) : pq \in Pq!Loaded(PqBlob(s[1]))}
<1>0. Trad(t).kind = "trad" /\ Trad(t).of = t /\ Trad(t).bytes \in Nat
  BY Pieces
<1>1. Chempat(<<x>>, t) = <<Size(<<x>>), x, Trad(t)>>
  <2> DEFINE z == Size(<<x>>)
             w == Trad(t)
  <2>1. Chempat(<<x>>, t) = (<<z>> \o <<x>>) \o <<w>>
    BY DEF Chempat
  <2> HIDE DEF z, w
  <2>2. <<z>> \o <<x>> = <<z, x>> /\ <<z, x>> \o <<w>> = <<z, x, w>>
    BY Concatenated
  <2> QED BY <2>1, <2>2 DEF z, w
<1>2. Chempat(<<x, y>>, t) = <<Size(<<x, y>>), x, y, Trad(t)>>
  <2> DEFINE z == Size(<<x, y>>)
             w == Trad(t)
  <2>1. Chempat(<<x, y>>, t) = (<<z>> \o <<x, y>>) \o <<w>>
    BY DEF Chempat
  <2> HIDE DEF z, w
  <2>2. <<z>> \o <<x, y>> = <<z, x, y>> /\ <<z, x, y>> \o <<w>> = <<z, x, y, w>>
    <3>1. <<z>> \o <<x, y>> = <<z, x, y>>
      BY Concatenated
    <3>2. <<z, x, y>> \o <<w>> = <<z, x, y, w>>
      BY ConcatenatedFour
    <3> QED BY <3>1, <3>2
  <2> QED BY <2>1, <2>2 DEF z, w
<1>3. ASSUME NEW octets
      PROVE  LoadedChempat(octets) = UNION {keys_of(s) : s \in CutBeforeTrad(Tail(octets), octets[1].of)}
  BY DEF LoadedChempat, CutBeforeTrad
<1>4. LoadedChempat(Chempat(<<x>>, t)) = ChempatKeys(<<x>>, t)
  <2> DEFINE octets == Chempat(<<x>>, t)
             tail == <<x, Trad(t)>>
             S == {x, Trad(t)}
  <2>1. octets[1].of = x.bytes /\ Tail(octets) = tail
    <3> DEFINE z == Size(<<x>>)
               w == Trad(t)
    <3>1. z.of = x.bytes
      BY BytesOne DEF Size
    <3>2. octets = <<z, x, w>> /\ tail = <<x, w>>
      BY <1>1
    <3> HIDE DEF octets, tail, z, w
    <3> QED BY <3>1, <3>2
  <2>2. tail \in Seq(S) /\ Len(tail) = 1 + 1 /\ tail[1] = x /\ tail[2] = Trad(t)
    OBVIOUS
  <2> HIDE DEF tail, S
  <2>3. tail[1 + 1].kind = "trad" /\ Upto(tail)[1] = x.bytes
    <3>1. Len(tail) \in 0 .. 5 /\ Len(tail) >= 1 /\ \A k \in 1 .. Len(tail) : tail[k].bytes \in Nat
      BY <1>0, <2>2
    <3>2. Upto(tail)[1] = tail[1].bytes
      BY <3>1, UptoFive
    <3> QED BY <1>0, <2>2, <3>2
  <2>4. /\ CutBeforeTrad(tail, x.bytes) # {}
        /\ \A s \in CutBeforeTrad(tail, x.bytes) : CutAt(tail, 1, s) /\ s[2][1] = tail[1 + 1]
    <3>1. 1 \in Nat /\ 1 > 0
      OBVIOUS
    <3> QED BY <2>2, <2>3, <3>1, BeforeTrad, ZenonT(60)
  <2>5. \A s \in CutBeforeTrad(tail, x.bytes) : keys_of(s) = ChempatKeys(<<x>>, t)
    <3> SUFFICES ASSUME NEW s \in CutBeforeTrad(tail, x.bytes) PROVE keys_of(s) = ChempatKeys(<<x>>, t)
      OBVIOUS
    <3>1. s[1][1] = x /\ Len(s[1]) = 1 /\ s[2][1].of = t
      BY <1>0, <2>2, <2>4 DEF CutAt
    <3>2. s[1] = <<x>>
      <4>1. PICK T : s[1] \in Seq(T)
        BY <2>4 DEF CutAt
      <4> QED BY <3>1, <4>1, OneElement
    <3> QED BY <3>1, <3>2 DEF ChempatKeys
  <2> HIDE DEF keys_of
  <2> QED BY <1>3, <2>1, <2>4, <2>5
<1>5. LoadedChempat(Chempat(<<x, y>>, t)) = ChempatKeys(<<x, y>>, t)
  <2> DEFINE octets == Chempat(<<x, y>>, t)
             tail == <<x, y, Trad(t)>>
             S == {x, y, Trad(t)}
             n == x.bytes + y.bytes
  <2>1. octets[1].of = n /\ Tail(octets) = tail
    <3> DEFINE z == Size(<<x, y>>)
               w == Trad(t)
    <3>1. z.of = n
      BY BytesTwo DEF Size
    <3>2. octets = <<z, x, y, w>> /\ tail = <<x, y, w>>
      BY <1>2
    <3> HIDE DEF octets, tail, z, w, n
    <3> QED BY <3>1, <3>2
  <2>2. tail \in Seq(S) /\ Len(tail) = 2 + 1 /\ tail[1] = x /\ tail[2] = y /\ tail[3] = Trad(t)
    OBVIOUS
  <2> HIDE DEF tail, S
  <2>3. tail[2 + 1].kind = "trad" /\ Upto(tail)[2] = n
    <3>1. Len(tail) \in 0 .. 5 /\ Len(tail) >= 2 /\ \A k \in 1 .. Len(tail) : tail[k].bytes \in Nat
      BY <1>0, <2>2
    <3>2. Upto(tail)[2] = tail[1].bytes + tail[2].bytes
      BY <3>1, UptoFive
    <3> QED BY <1>0, <2>2, <3>2
  <2> HIDE DEF n
  <2>4. /\ CutBeforeTrad(tail, n) # {}
        /\ \A s \in CutBeforeTrad(tail, n) : CutAt(tail, 2, s) /\ s[2][1] = tail[2 + 1]
    <3>1. 2 \in Nat /\ 2 > 0
      OBVIOUS
    <3> QED BY <2>2, <2>3, <3>1, BeforeTrad, ZenonT(60)
  <2>5. \A s \in CutBeforeTrad(tail, n) : keys_of(s) = ChempatKeys(<<x, y>>, t)
    <3> SUFFICES ASSUME NEW s \in CutBeforeTrad(tail, n) PROVE keys_of(s) = ChempatKeys(<<x, y>>, t)
      OBVIOUS
    <3>1. s[1][1] = x /\ s[1][2] = y /\ Len(s[1]) = 2 /\ s[2][1].of = t
      BY <1>0, <2>2, <2>4 DEF CutAt
    <3>2. s[1] = <<x, y>>
      <4>1. PICK T : s[1] \in Seq(T)
        BY <2>4 DEF CutAt
      <4> QED BY <3>1, <4>1, TwoElements
    <3> QED BY <3>1, <3>2 DEF ChempatKeys
  <2> HIDE DEF keys_of
  <2> QED BY <1>3, <2>1, <2>4, <2>5
<1> QED BY <1>1, <1>2, <1>4, <1>5

-----------------------------------------------------------------------------
(* The inductive invariant.                                                *)
\* A key object whose private parts are of one pair each; a seed that is kept is its own, and
\* only of Chempat the public post-quantum half may be somebody else's.
KeyGood(k) ==
  /\ k = KeyOf(k.pq, k.trad, k.xseed)
  /\ k.pq \in Pq!Key /\ k.pq.family = alg.pq /\ k.trad \in Pair
  /\ k.pq.used = k.pq.raw /\ k.pq.seed \in {None, k.pq.raw}
  /\ k.pq.seed # None => alg.pq \in Pq!SeedFamily
  /\ alg.family # "chempat" => k.pq.pub = k.pq.raw
  /\ \/ k.xseed = <<>>
     \/ alg.family = "xwing" /\ k.xseed = <<XSeed(k.pq.raw)>> /\ k.trad = k.pq.raw
     \/ alg.family = "xwing" /\ k.xseed = <<Seed(k.pq.raw), Trad(k.trad)>>

\* A key whose public half is its own too, or missing.
OwnPublic(k) == k.pq.pub \in {None, k.pq.raw} /\ (k.pq.pub = None => alg.pq = "mceliece")

\* The octets of the halves p and t that are written: bare by private_bytes, or not.
OwnPq(p, bare) ==
  CASE alg.pq = "ml-kem"   -> IF bare THEN {<<Raw(p)>>}
                              ELSE {<<Choice(p, None)>>, <<Choice(None, p)>>, <<Choice(p, p)>>}
    [] alg.pq = "frodokem" -> {<<Raw(p)>>, <<Seed(p)>>, <<Seed(p), Raw(p)>>}
    [] OTHER               -> {<<Raw(p)>>}

OwnPrivate(p, t, bare) ==
  CASE alg.family = "chempat" -> {Chempat(octets, t) : octets \in OwnPq(p, bare)}
    [] alg.family = "xwing"   ->
         {<<Seed(p), Trad(t)>>, <<Raw(p), Trad(t)>>, <<Seed(p), Trad(t), Raw(p), Trad(t)>>}
         \cup (IF p = t THEN {<<XSeed(p)>>, <<XSeed(p), Raw(p), Trad(p)>>} ELSE {})
    [] OTHER ->
         {<<Seed(p), Trad(t)>>, <<Raw(p), Trad(t)>>, <<Seed(p), Seed(p), Trad(t), Trad(t)>>}

\* Whatever may be in a file.
AnyPrivate(octets) ==
  \/ octets \in ForeignPrivate
  \/ \E p \in Pair, t \in Pair, bare \in BOOLEAN : octets \in OwnPrivate(p, t, bare)

KeyInv ==
  key # NoKey => KeyGood(key) /\ (owner # Foreign => OwnPublic(key) /\ owner = UsedBy(key))

FileInv ==
  file # NoFile =>
    Registered(alg) /\ AnyPrivate(file.private) /\ file.public \in ForeignPublic \cup {None}

OwnFileInv ==
  file # NoFile /\ fileOwner # Foreign => exported \in BOOLEAN /\
    \E p \in Pair, t \in Pair :
      /\ fileOwner = [pq |-> p, trad |-> t]
      /\ file.private \in OwnPrivate(p, t, exported)
      /\ file.public \in {None, PublicOctets(fileOwner, OwnForm(alg.trad))}

IInv == alg \in Algorithms /\ KeyInv /\ FileInv /\ OwnFileInv

-----------------------------------------------------------------------------
(* The post-quantum half of a Chempat key.                                 *)
PqGood(pq) ==
  /\ pq \in Pq!Key /\ pq.family = alg.pq
  /\ pq.used = pq.raw /\ pq.seed \in {None, pq.raw}
  /\ pq.seed # None => alg.pq \in Pq!SeedFamily
  /\ pq.pub \in {None, pq.raw} /\ (pq.pub = None => alg.pq = "mceliece")

HalfBlob(choice, seed, raw) ==
  [family |-> alg.pq, version |-> 0, choice |-> choice, pub |-> None, seed |-> seed, raw |-> raw]

\* The post-quantum families that hybrid keys have; of these three keep a seed.
PqFamily == {"ml-dsa", "ml-kem", "frodokem", "sntrup761", "mceliece"}

\* Of the families of the halves, these keep a seed.
LEMMA SeedFamilies ==
  ASSUME alg \in Algorithms
  PROVE  /\ alg.pq \in PqFamily /\ alg.pq \in Family
         /\ alg.pq \in Pq!SeedFamily <=> alg.pq \in {"ml-dsa", "ml-kem", "frodokem"}
         /\ alg.pq \in Pq!MlFamily <=> alg.pq \in {"ml-dsa", "ml-kem"}
<1>1. alg.pq \in PqFamily
  BY AlgorithmsOfFamilies DEF AlgorithmShape, PqFamily
<1> QED BY <1>1, HalvesAssumption DEF PqFamily, Pq!SeedFamily, Pq!MlFamily

\* The OneAsymmetricKey made of the octets in front of the traditional key (_load_pq_key).
LEMMA PqBlobs ==
  ASSUME NEW p, NEW r
  PROVE  /\ PqBlob(<<Raw(p)>>) = HalfBlob(FALSE, None, p)
         /\ PqBlob(<<Seed(p)>>) = HalfBlob(FALSE, p, None)
         /\ PqBlob(<<Seed(p), Raw(p)>>) = HalfBlob(FALSE, p, p)
         /\ PqBlob(<<Choice(p, r)>>) = HalfBlob(TRUE, p, r)
<1> DEFINE of(octets, kind) == IF \E i \in DOMAIN octets : octets[i].kind = kind
                               THEN octets[CHOOSE i \in DOMAIN octets : octets[i].kind = kind].of
                               ELSE None
<1>1. ASSUME NEW octets, Matches(octets, <<"choice">>)
      PROVE  PqBlob(octets) = HalfBlob(TRUE, octets[1].of[1], octets[1].of[2])
  BY <1>1 DEF PqBlob, HalfBlob
<1>2. ASSUME NEW octets, ~Matches(octets, <<"choice">>)
      PROVE  PqBlob(octets) = HalfBlob(FALSE, of(octets, "seed"), of(octets, "raw"))
  <2>1. Matches(octets, <<"choice">>) = FALSE
    BY <1>2 DEF Matches
  <2>2. PqBlob(octets) = [family |-> alg.pq, version |-> 0, choice |-> FALSE, pub |-> None,
                          seed |-> of(octets, "seed"), raw |-> of(octets, "raw")]
    BY <2>1, Zenon DEF PqBlob
  <2> QED BY <2>2 DEF HalfBlob
<1> HIDE DEF of
<1>3. ASSUME NEW x
      PROVE  /\ Matches(<<x>>, <<"choice">>) <=> x.kind = "choice"
             /\ \A kind : of(<<x>>, kind) = IF x.kind = kind THEN x.of ELSE None
  <2> DEFINE octets == <<x>>
  <2>1. Len(octets) = 1 /\ octets[1] = x /\ DOMAIN octets = 1 .. Len(octets) /\ DOMAIN octets = {1}
    OBVIOUS
  <2> HIDE DEF octets
  <2>2. Matches(octets, <<"choice">>) <=> x.kind = "choice"
    BY <2>1, MatchesOne
  <2>3. ASSUME NEW kind PROVE of(octets, kind) = IF x.kind = kind THEN x.of ELSE None
    BY <2>1 DEF of
  <2> QED BY <2>2, <2>3 DEF octets
<1>4. PqBlob(<<Raw(p)>>) = HalfBlob(FALSE, None, p)
  <2> DEFINE x == Raw(p)
  <2>1. x.kind = "raw" /\ x.of = p
    BY Pieces
  <2> HIDE DEF x
  <2>2. ~Matches(<<x>>, <<"choice">>) /\ of(<<x>>, "seed") = None /\ of(<<x>>, "raw") = p
    BY <1>3, <2>1
  <2> QED BY <1>2, <2>2 DEF x
<1>5. PqBlob(<<Seed(p)>>) = HalfBlob(FALSE, p, None)
  <2> DEFINE x == Seed(p)
  <2>1. x.kind = "seed" /\ x.of = p
    BY Pieces
  <2> HIDE DEF x
  <2>2. ~Matches(<<x>>, <<"choice">>) /\ of(<<x>>, "seed") = p /\ of(<<x>>, "raw") = None
    BY <1>3, <2>1
  <2> QED BY <1>2, <2>2 DEF x
<1>6. PqBlob(<<Seed(p), Raw(p)>>) = HalfBlob(FALSE, p, p)
  <2> DEFINE octets == <<Seed(p), Raw(p)>>
  <2>1. Len(octets) = 2 /\ DOMAIN octets = {1, 2} /\ octets[1] = Seed(p) /\ octets[2] = Raw(p)
    OBVIOUS
  <2>2. DOMAIN octets = 1 .. Len(octets)
    OBVIOUS
  <2> HIDE DEF octets
  <2>3. /\ octets[1].kind = "seed" /\ octets[1].of = p
        /\ octets[2].kind = "raw" /\ octets[2].of = p
    BY <2>1, Pieces
  <2>4. ~Matches(octets, <<"choice">>)
    BY <2>1, <2>2, MatchesOne
  <2>5. of(octets, "seed") = p /\ of(octets, "raw") = p
    BY <2>1, <2>3 DEF of
  <2> QED BY <1>2, <2>4, <2>5 DEF octets
<1>7. PqBlob(<<Choice(p, r)>>) = HalfBlob(TRUE, p, r)
  <2> DEFINE x == Choice(p, r)
  <2>1. x.kind = "choice" /\ x.of = <<p, r>>
    BY Pieces
  <2> HIDE DEF x
  <2>2. Matches(<<x>>, <<"choice">>) /\ <<x>>[1] = x
    BY <1>3, <2>1
  <2>3. PqBlob(<<x>>) = HalfBlob(TRUE, x.of[1], x.of[2])
    BY <1>1, <2>2
  <2> QED BY <2>1, <2>3 DEF x
<1> QED BY <1>4, <1>5, <1>6, <1>7

\* from_one_asym_key of the half: the pair that its parts are of, and when there is one.
LEMMA HalfLoads ==
  ASSUME alg \in Algorithms, NEW choice \in BOOLEAN,
         NEW seed \in Pair \cup {None}, NEW raw \in Pair \cup {None}, seed # None \/ raw # None
  PROVE  /\ \A pq \in Pq!Loaded(HalfBlob(choice, seed, raw)) :
              PqGood(pq) /\ pq.raw = IF seed # None THEN seed ELSE raw
         /\ /\ choice = (alg.pq \in Pq!MlFamily)
            /\ seed # None => alg.pq \in Pq!SeedFamily
            /\ seed # None /\ raw # None => alg.pq \in Pq!MlFamily
            => Pq!Loaded(HalfBlob(choice, seed, raw)) # {}
<1> DEFINE blob == HalfBlob(choice, seed, raw)
           pair == IF seed # None THEN seed ELSE raw
<1>1. /\ blob.family = alg.pq /\ blob.choice = choice /\ blob.pub = None
      /\ blob.seed = seed /\ blob.raw = raw
  BY DEF HalfBlob
<1> HIDE DEF blob
<1>2. pair \in Pair /\ None \notin Pair /\ Pq!Secret(blob) = pair
  BY <1>1, AbsenceAssumption DEF Pq!Secret
<1>3. alg.pq \in PqFamily /\ alg.pq \in Family /\ alg.pq # "falcon"
  BY SeedFamilies DEF PqFamily
<1>4. /\ alg.pq \in Pq!SeedFamily <=> alg.pq \in {"ml-dsa", "ml-kem", "frodokem"}
      /\ alg.pq \in Pq!MlFamily <=> alg.pq \in {"ml-dsa", "ml-kem"}
  BY SeedFamilies
<1>5. CASE alg.pq = "mceliece"
  <2>1. Pq!WellFormed(blob) => seed = None
    BY <1>1, <1>4, <1>5 DEF Pq!WellFormed
  <2>2. Pq!WellFormed(blob) => pair = raw
    BY <2>1
  <2>3. Pq!Loaded(blob) = IF ~Pq!WellFormed(blob) THEN {} ELSE {Pq!McElieceKey(raw, None)}
    BY <1>1, <1>5 DEF Pq!Loaded
  <2>4. raw = pair => PqGood(Pq!McElieceKey(raw, None)) /\ Pq!McElieceKey(raw, None).raw = pair
    BY <1>2, <1>3, <1>5 DEF Pq!McElieceKey, Pq!KeyOf, PqGood, Pq!Key, Pq!Half
  <2>5. choice = FALSE /\ seed = None => Pq!WellFormed(blob)
    <3>1. (alg.pq \in Pq!MlFamily) = FALSE
      BY <1>4, <1>5
    <3> QED BY <1>1, <3>1 DEF Pq!WellFormed
  <2>6. ASSUME choice = (alg.pq \in Pq!MlFamily), seed # None => alg.pq \in Pq!SeedFamily
        PROVE  choice = FALSE /\ seed = None
    BY <1>4, <1>5, <2>6
  <2> QED BY <2>2, <2>3, <2>4, <2>5, <2>6 DEF blob
<1>6. CASE alg.pq # "mceliece"
  <2> DEFINE made == Pq!KeyOf(alg.pq, seed, pair)
  <2>1. Pq!Loaded(blob) = IF ~Pq!WellFormed(blob) THEN {} ELSE {made}
    <3>1. made.pub = pair /\ blob.pub \in {None, made.pub}
      BY <1>1 DEF Pq!KeyOf
    <3>2. Pq!DerivedKeys(blob) = {made}
      BY <1>1, <1>2, <3>1 DEF Pq!DerivedKeys
    <3> HIDE DEF made
    <3> QED BY <1>1, <1>3, <1>6, <3>2 DEF Pq!Loaded
  <2>2. Pq!WellFormed(blob) => PqGood(made) /\ made.raw = pair
    <3> SUFFICES ASSUME Pq!WellFormed(blob) PROVE PqGood(made) /\ made.raw = pair
      OBVIOUS
    <3>1. seed # None => alg.pq \in Pq!SeedFamily
      BY <1>1 DEF Pq!WellFormed
    <3>2. /\ made.family = alg.pq /\ made.seed = seed /\ made.raw = pair
          /\ made.pub = pair /\ made.used = pair
      BY DEF Pq!KeyOf
    <3>3. made \in Pq!Key
      BY <1>2, <1>3 DEF Pq!Key, Pq!KeyOf, Pq!Half
    <3> HIDE DEF made
    <3> QED BY <1>2, <3>1, <3>2, <3>3 DEF PqGood
  <2>3. ASSUME choice = (alg.pq \in Pq!MlFamily), seed # None => alg.pq \in Pq!SeedFamily,
               seed # None /\ raw # None => alg.pq \in Pq!MlFamily
        PROVE  Pq!WellFormed(blob)
    BY <1>1, <2>3 DEF Pq!WellFormed
  <2> HIDE DEF made
  <2> QED BY <2>1, <2>2, <2>3 DEF blob
<1> QED BY <1>5, <1>6

-----------------------------------------------------------------------------
(* Key objects out of octets.                                              *)
\* The fields of the keys that are put together.
LEMMA KeyFields ==
  ASSUME NEW pq, NEW t, NEW xseed
  PROVE  /\ KeyOf(pq, t, xseed).pq = pq /\ KeyOf(pq, t, xseed).trad = t
         /\ KeyOf(pq, t, xseed).xseed = xseed
BY DEF KeyOf

\* The seed that may be kept beside the halves.
SeedGood(pq, t, xseed) ==
  \/ xseed = <<>>
  \/ alg.family = "xwing" /\ xseed = <<XSeed(pq.raw)>> /\ t = pq.raw
  \/ alg.family = "xwing" /\ xseed = <<Seed(pq.raw), Trad(t)>>

\* A key that is put together of a good half is good.
LEMMA BuiltKey ==
  ASSUME alg \in Algorithms, NEW pq, PqGood(pq), NEW t \in Pair, NEW xseed, SeedGood(pq, t, xseed)
  PROVE  /\ KeyGood(KeyOf(pq, t, xseed)) /\ OwnPublic(KeyOf(pq, t, xseed))
         /\ UsedBy(KeyOf(pq, t, xseed)) = [pq |-> pq.raw, trad |-> t]
<1> DEFINE k == KeyOf(pq, t, xseed)
<1>1. k.pq = pq /\ k.trad = t /\ k.xseed = xseed
  BY KeyFields
<1>2. k = KeyOf(k.pq, k.trad, k.xseed)
  BY <1>1
<1> HIDE DEF k
<1>3. alg.family # "chempat" => pq.pub = pq.raw
  BY AlgorithmsOfFamilies DEF AlgorithmShape, PqGood
<1>4. KeyGood(k)
  BY <1>1, <1>2, <1>3 DEF KeyGood, PqGood, SeedGood
<1>5. OwnPublic(k) /\ UsedBy(k) = [pq |-> pq.raw, trad |-> t]
  BY <1>1 DEF OwnPublic, UsedBy, PqGood
<1> QED BY <1>4, <1>5 DEF k

\* A post-quantum half with or without its seed.
LEMMA BuiltHalf ==
  ASSUME alg \in Algorithms, NEW p \in Pair, NEW seed \in {None, p},
         seed # None => alg.pq \in Pq!SeedFamily
  PROVE  PqGood(Pq!KeyOf(alg.pq, seed, p)) /\ Pq!KeyOf(alg.pq, seed, p).raw = p
<1> DEFINE pq == Pq!KeyOf(alg.pq, seed, p)
<1>1. pq.family = alg.pq /\ pq.seed = seed /\ pq.raw = p /\ pq.pub = p /\ pq.used = p
  BY DEF Pq!KeyOf
<1>2. pq \in Pq!Key
  BY SeedFamilies DEF Pq!KeyOf, Pq!Key, Pq!Half
<1> HIDE DEF pq
<1>3. PqGood(pq)
  BY <1>1, <1>2, AbsenceAssumption DEF PqGood
<1> QED BY <1>1, <1>3 DEF pq

\* What a load has to give for octets of the halves p and t.
ReadAs(k, p, t) == KeyGood(k) /\ OwnPublic(k) /\ UsedBy(k) = [pq |-> p, trad |-> t]

\* The key that a seed and a traditional half make is good.
LEMMA SeedKeyGood ==
  ASSUME alg \in Algorithms, NEW p \in Pair, NEW t \in Pair, alg.pq \in Pq!SeedFamily
  PROVE  ReadAs(SeedKey(p, t), p, t)
<1>1. PqGood(Pq!KeyOf(alg.pq, p, p)) /\ Pq!KeyOf(alg.pq, p, p).raw = p
  BY BuiltHalf
<1> QED BY <1>1, BuiltKey DEF SeedKey, ReadAs, SeedGood

\* The X-Wing key that 32 bytes expand to is good.
LEMMA ExpandedGood ==
  ASSUME alg \in Algorithms, NEW p \in Pair, alg.family = "xwing"
  PROVE  ReadAs(Expanded(p), p, p) /\ Expanded(p).pq.raw = p /\ Expanded(p).trad = p
<1>1. alg.pq = "ml-kem" /\ alg.pq \in Pq!SeedFamily
  BY AlgorithmsOfFamilies, SeedFamilies DEF AlgorithmShape
<1> DEFINE pq == Pq!KeyOf("ml-kem", p, p)
<1>2. PqGood(pq) /\ pq.raw = p
  BY <1>1, BuiltHalf
<1> HIDE DEF pq
<1>3. SeedGood(pq, p, <<XSeed(p)>>)
  BY <1>2 DEF SeedGood
<1>4. Expanded(p) = KeyOf(pq, p, <<XSeed(p)>>)
  BY DEF Expanded, pq
<1> QED BY <1>2, <1>3, <1>4, BuiltKey, KeyFields DEF ReadAs

\* What is made of the octets of a composite key.
CompositeReads(p, t) ==
  /\ LoadedPrivate(<<Seed(p), Trad(t)>>) # {}
  /\ \A octets \in {<<Seed(p), Trad(t)>>, <<Raw(p), Trad(t)>>,
                    <<Seed(p), Seed(p), Trad(t), Trad(t)>>} :
       \A k \in LoadedPrivate(octets) : ReadAs(k, p, t)

\* Composite keys.
LEMMA CompositePrivate ==
  ASSUME alg \in Algorithms, alg.family \in Composite, NEW p \in Pair, NEW t \in Pair
  PROVE  CompositeReads(p, t)
<1>1. alg.pq \in Pq!SeedFamily
  BY AlgorithmsOfFamilies, SeedFamilies DEF AlgorithmShape, Composite
<1>2. \A octets : LoadedPrivate(octets) = LoadedComposite(octets)
  BY DEF LoadedPrivate, Composite
<1>3. /\ LoadedComposite(<<Seed(p), Trad(t)>>) = {SeedKey(p, t)}
      /\ LoadedComposite(<<Raw(p), Trad(t)>>) = {}
      /\ LoadedComposite(<<Seed(p), Seed(p), Trad(t), Trad(t)>>) = {}
  BY CompositeLoads
<1>4. ReadAs(SeedKey(p, t), p, t)
  BY <1>1, SeedKeyGood
<1> QED BY <1>2, <1>3, <1>4 DEF CompositeReads

\* What is made of the octets of an X-Wing key.
XWingReads(p, r, t) ==
  /\ LoadedPrivate(<<XSeed(p)>>) # {}
  /\ LoadedPrivate(<<Seed(p), Trad(t)>>) # {}
  /\ LoadedPrivate(<<Raw(p), Trad(t)>>) # {}
  /\ LoadedPrivate(<<XSeed(p), Raw(p), Trad(p)>>) # {}
  /\ Bytes(<<Seed(p), Trad(t), Raw(p), Trad(t)>>) = 2528
  /\ \A k \in LoadedPrivate(<<XSeed(p)>>) : ReadAs(k, p, p)
  /\ \A octets \in {<<Seed(p), Trad(t)>>, <<Raw(p), Trad(t)>>,
                    <<Seed(p), Trad(t), Raw(p), Trad(t)>>} :
       \A k \in LoadedPrivate(octets) : ReadAs(k, p, t)
  /\ \A k \in LoadedPrivate(<<XSeed(p), Raw(r), Trad(t)>>) : ReadAs(k, p, p) /\ p = r /\ p = t

\* X-Wing keys, also those that were put together out of three pairs.
LEMMA XWingPrivate ==
  ASSUME alg \in Algorithms, alg.family = "xwing", NEW p \in Pair, NEW r \in Pair, NEW t \in Pair
  PROVE  XWingReads(p, r, t)
<1>1. alg.pq = "ml-kem" /\ alg.trad = "x25519" /\ alg.pq \in Pq!SeedFamily
  BY AlgorithmsOfFamilies, SeedFamilies DEF AlgorithmShape
<1>2. \A octets : LoadedPrivate(octets) = LoadedXWing(octets)
  BY DEF LoadedPrivate
<1>3. ReadAs(Expanded(p), p, p) /\ Expanded(p).pq.raw = p /\ Expanded(p).trad = p
  BY ExpandedGood
<1>4. ReadAs(KeyOf(Pq!KeyOf("ml-kem", p, p), t, <<>>), p, t)
  BY <1>1, SeedKeyGood DEF SeedKey
<1>5. ReadAs(KeyOf(Pq!KeyOf("ml-kem", None, p), t, <<>>), p, t)
  <2>1. PqGood(Pq!KeyOf(alg.pq, None, p)) /\ Pq!KeyOf(alg.pq, None, p).raw = p
    BY BuiltHalf
  <2> QED BY <1>1, <2>1, BuiltKey DEF ReadAs, SeedGood
<1>6. /\ LoadedXWing(<<XSeed(p)>>) = {Expanded(p)}
      /\ LoadedXWing(<<Seed(p), Trad(t)>>) = {KeyOf(Pq!KeyOf("ml-kem", p, p), t, <<>>)}
      /\ LoadedXWing(<<Raw(p), Trad(t)>>) = {KeyOf(Pq!KeyOf("ml-kem", None, p), t, <<>>)}
      /\ p = r /\ p = t => LoadedXWing(<<XSeed(p), Raw(r), Trad(t)>>) = {Expanded(p)}
      /\ p # r \/ p # t => LoadedXWing(<<XSeed(p), Raw(r), Trad(t)>>) = {}
      /\ LoadedXWing(<<Seed(p), Trad(t), Raw(p), Trad(t)>>) = {}
      /\ Bytes(<<Seed(p), Trad(t), Raw(p), Trad(t)>>) = 2528
  BY <1>1, XWingLoads
<1>7. LoadedXWing(<<XSeed(p), Raw(p), Trad(p)>>) = {Expanded(p)}
  <2> DEFINE octets == <<XSeed(p), Raw(p), Trad(p)>>
  <2>1. octets[1].of = p /\ octets[2].of = p /\ octets[3].of = p
    BY Pieces
  <2>2. Bytes(octets) = 2464
    <3>1. XSeed(p).bytes = 32 /\ Raw(p).bytes = 2400 /\ Trad(p).bytes = 32
      BY <1>1 DEF XSeed, Trad, Raw, RawBytes, TradKeyBytes
    <3>2. Bytes(octets) = XSeed(p).bytes + Raw(p).bytes + Trad(p).bytes
      BY <3>1, BytesThree
    <3> QED BY <3>1, <3>2
  <2> HIDE DEF octets
  <2>3. LoadedXWing(octets) = {k \in {Expanded(p)} : k.pq.raw = p /\ k.trad = p}
    BY <2>1, <2>2 DEF LoadedXWing
  <2> QED BY <1>3, <2>3 DEF octets
<1>8. \A k \in LoadedPrivate(<<XSeed(p), Raw(r), Trad(t)>>) : ReadAs(k, p, p) /\ p = r /\ p = t
  BY <1>2, <1>3, <1>6
<1>9. LoadedPrivate(<<XSeed(p), Raw(p), Trad(p)>>) # {}
  BY <1>2, <1>3, <1>7
<1>10. \A octets \in {<<Seed(p), Trad(t)>>, <<Raw(p), Trad(t)>>,
                       <<Seed(p), Trad(t), Raw(p), Trad(t)>>} :
         \A k \in LoadedPrivate(octets) : ReadAs(k, p, t)
  BY <1>2, <1>4, <1>5, <1>6
<1>11. /\ LoadedPrivate(<<XSeed(p)>>) # {} /\ LoadedPrivate(<<Seed(p), Trad(t)>>) # {}
       /\ LoadedPrivate(<<Raw(p), Trad(t)>>) # {}
       /\ \A k \in LoadedPrivate(<<XSeed(p)>>) : ReadAs(k, p, p)
  <2>1. \A k : {k} # {}
    OBVIOUS
  <2>2. /\ LoadedPrivate(<<XSeed(p)>>) = {Expanded(p)}
        /\ LoadedPrivate(<<Seed(p), Trad(t)>>) = {KeyOf(Pq!KeyOf("ml-kem", p, p), t, <<>>)}
        /\ LoadedPrivate(<<Raw(p), Trad(t)>>) = {KeyOf(Pq!KeyOf("ml-kem", None, p), t, <<>>)}
    BY <1>2, <1>6
  <2>3. \A k \in {Expanded(p)} : ReadAs(k, p, p)
    BY <1>3
  <2> QED BY <2>1, <2>2, <2>3
<1> QED BY <1>6, <1>8, <1>9, <1>10, <1>11 DEF XWingReads

\* What is made of the octets of a Chempat key.
ChempatReads(p, t) ==
  /\ \A octets \in {<<Raw(p)>>, <<Seed(p)>>, <<Seed(p), Raw(p)>>} :
       \A k \in LoadedPrivate(Chempat(octets, t)) : ReadAs(k, p, t)
  /\ \A s \in Pair \cup {None}, r \in Pair \cup {None} : s # None \/ r # None =>
       \A k \in LoadedPrivate(Chempat(<<Choice(s, r)>>, t)) :
         ReadAs(k, IF s # None THEN s ELSE r, t)
  /\ alg.pq # "ml-kem" => LoadedPrivate(Chempat(<<Raw(p)>>, t)) # {}
  /\ alg.pq = "frodokem" => LoadedPrivate(Chempat(<<Seed(p)>>, t)) # {}
  /\ alg.pq = "ml-kem" =>
       \A s \in Pair \cup {None}, r \in Pair \cup {None} : s # None \/ r # None =>
         LoadedPrivate(Chempat(<<Choice(s, r)>>, t)) # {}
  /\ Len(Chempat(<<Seed(p), Raw(p)>>, t)) = 4

\* Chempat keys, also those with a Choice of two pairs, of which the seed counts.
LEMMA ChempatPrivate ==
  ASSUME alg \in Algorithms, alg.family = "chempat", NEW p \in Pair, NEW t \in Pair
  PROVE  ChempatReads(p, t)
<1>1. \A octets : LoadedPrivate(octets) = LoadedChempat(octets)
  BY DEF LoadedPrivate
<1>2. /\ alg.pq \in {"ml-kem", "frodokem", "sntrup761", "mceliece"}
      /\ alg.pq \in Pq!SeedFamily <=> alg.pq \in {"ml-dsa", "ml-kem", "frodokem"}
      /\ alg.pq \in Pq!MlFamily <=> alg.pq \in {"ml-dsa", "ml-kem"}
  BY AlgorithmsOfFamilies, SeedFamilies DEF AlgorithmShape
<1>3. None \notin Pair /\ p # None
  BY AbsenceAssumption
<1>4. \A x : Seed(x).bytes \in Nat /\ Raw(x).bytes \in Nat
  BY Pieces
<1>5. \A x, y : Choice(x, y).bytes \in Nat
  BY Pieces
<1>6. ASSUME NEW octets, NEW choice \in BOOLEAN, NEW seed \in Pair \cup {None},
             NEW raw \in Pair \cup {None}, seed # None \/ raw # None,
             PqBlob(octets) = HalfBlob(choice, seed, raw),
             LoadedChempat(Chempat(octets, t)) = ChempatKeys(octets, t)
      PROVE  /\ \A k \in LoadedPrivate(Chempat(octets, t)) :
                  ReadAs(k, IF seed # None THEN seed ELSE raw, t)
             /\ /\ choice = (alg.pq \in Pq!MlFamily)
                /\ seed # None => alg.pq \in Pq!SeedFamily
                /\ seed # None /\ raw # None => alg.pq \in Pq!MlFamily
                => LoadedPrivate(Chempat(octets, t)) # {}
  <2> DEFINE halves == Pq!Loaded(HalfBlob(choice, seed, raw))
             pair == IF seed # None THEN seed ELSE raw
  <2>1. LoadedPrivate(Chempat(octets, t)) = {KeyOf(pq, t, <<>>) : pq \in halves}
    BY <1>1, <1>6 DEF ChempatKeys
  <2>2. /\ \A pq \in halves : PqGood(pq) /\ pq.raw = pair
        /\ /\ choice = (alg.pq \in Pq!MlFamily)
           /\ seed # None => alg.pq \in Pq!SeedFamily
           /\ seed # None /\ raw # None => alg.pq \in Pq!MlFamily
           => halves # {}
    BY <1>6, HalfLoads
  <2> HIDE DEF halves, pair
  <2>3. \A pq \in halves : ReadAs(KeyOf(pq, t, <<>>), pair, t)
    BY <2>2, BuiltKey DEF ReadAs, SeedGood
  <2>4. \A k \in LoadedPrivate(Chempat(octets, t)) : ReadAs(k, pair, t)
    BY <2>1, <2>3
  <2>5. halves # {} => LoadedPrivate(Chempat(octets, t)) # {}
    BY <2>1
  <2> QED BY <2>2, <2>4, <2>5 DEF pair
<1>7. /\ \A k \in LoadedPrivate(Chempat(<<Raw(p)>>, t)) : ReadAs(k, p, t)
      /\ alg.pq # "ml-kem" => LoadedPrivate(Chempat(<<Raw(p)>>, t)) # {}
  <2>1. PqBlob(<<Raw(p)>>) = HalfBlob(FALSE, None, p)
    BY PqBlobs
  <2>2. LoadedChempat(Chempat(<<Raw(p)>>, t)) = ChempatKeys(<<Raw(p)>>, t)
    BY <1>4, ChempatLoads
  <2>3. alg.pq # "ml-kem" => FALSE = (alg.pq \in Pq!MlFamily)
    BY <1>2
  <2> QED BY <1>3, <1>6, <2>1, <2>2, <2>3
<1>8. /\ \A k \in LoadedPrivate(Chempat(<<Seed(p)>>, t)) : ReadAs(k, p, t)
      /\ alg.pq = "frodokem" => LoadedPrivate(Chempat(<<Seed(p)>>, t)) # {}
  <2>1. PqBlob(<<Seed(p)>>) = HalfBlob(FALSE, p, None)
    BY PqBlobs
  <2>2. LoadedChempat(Chempat(<<Seed(p)>>, t)) = ChempatKeys(<<Seed(p)>>, t)
    BY <1>4, ChempatLoads
  <2>3. alg.pq = "frodokem" => FALSE = (alg.pq \in Pq!MlFamily) /\ alg.pq \in Pq!SeedFamily
    BY <1>2
  <2>4. /\ \A k \in LoadedPrivate(Chempat(<<Seed(p)>>, t)) : ReadAs(k, IF p # None THEN p ELSE None, t)
        /\ /\ FALSE = (alg.pq \in Pq!MlFamily)
           /\ p # None => alg.pq \in Pq!SeedFamily
           /\ p # None /\ None # None => alg.pq \in Pq!MlFamily
           => LoadedPrivate(Chempat(<<Seed(p)>>, t)) # {}
    BY <1>3, <1>6, <2>1, <2>2
  <2> QED BY <1>3, <2>3, <2>4
<1>9. /\ \A k \in LoadedPrivate(Chempat(<<Seed(p), Raw(p)>>, t)) : ReadAs(k, p, t)
      /\ Len(Chempat(<<Seed(p), Raw(p)>>, t)) = 4
  <2>1. PqBlob(<<Seed(p), Raw(p)>>) = HalfBlob(FALSE, p, p)
    BY PqBlobs
  <2>2. /\ LoadedChempat(Chempat(<<Seed(p), Raw(p)>>, t)) = ChempatKeys(<<Seed(p), Raw(p)>>, t)
        /\ Len(Chempat(<<Seed(p), Raw(p)>>, t)) = 4
    BY <1>4, ChempatLoads
  <2> QED BY <1>3, <1>6, <2>1, <2>2
<1>10. ASSUME NEW s \in Pair \cup {None}, NEW r \in Pair \cup {None}, s # None \/ r # None
       PROVE  /\ \A k \in LoadedPrivate(Chempat(<<Choice(s, r)>>, t)) :
                   ReadAs(k, IF s # None THEN s ELSE r, t)
              /\ alg.pq = "ml-kem" => LoadedPrivate(Chempat(<<Choice(s, r)>>, t)) # {}
  <2>1. PqBlob(<<Choice(s, r)>>) = HalfBlob(TRUE, s, r)
    BY PqBlobs
  <2>2. LoadedChempat(Chempat(<<Choice(s, r)>>, t)) = ChempatKeys(<<Choice(s, r)>>, t)
    BY <1>5, ChempatLoads
  <2>3. alg.pq = "ml-kem" => /\ TRUE = (alg.pq \in Pq!MlFamily)
                             /\ alg.pq \in Pq!SeedFamily /\ alg.pq \in Pq!MlFamily
    BY <1>2
  <2> QED BY <1>6, <1>10, <2>1, <2>2, <2>3
<1> QED BY <1>7, <1>8, <1>9, <1>10 DEF ChempatReads

\* What is made of a Choice of two pairs, of which the seed counts if it is there.
ChoiceReads(s, r, t) ==
  /\ \A k \in LoadedPrivate(Chempat(<<Choice(s, r)>>, t)) : ReadAs(k, IF s # None THEN s ELSE r, t)
  /\ alg.pq = "ml-kem" => LoadedPrivate(Chempat(<<Choice(s, r)>>, t)) # {}

\* A Choice of a seed and raw bytes, of one pair or of two.
LEMMA ChoicePrivate ==
  ASSUME alg \in Algorithms, alg.family = "chempat", NEW t \in Pair,
         NEW s \in Pair \cup {None}, NEW r \in Pair \cup {None}, s # None \/ r # None
  PROVE  ChoiceReads(s, r, t)
<1>1. ChempatReads(t, t)
  BY ChempatPrivate
<1>2. /\ \A k \in LoadedPrivate(Chempat(<<Choice(s, r)>>, t)) :
           ReadAs(k, IF s # None THEN s ELSE r, t)
      /\ alg.pq = "ml-kem" => LoadedPrivate(Chempat(<<Choice(s, r)>>, t)) # {}
  BY <1>1, Zenon DEF ChempatReads
<1> QED BY <1>2 DEF ChoiceReads

\* The Choice of the parts of one pair.
OwnChoices(p) == {<<Choice(p, None)>>, <<Choice(None, p)>>, <<Choice(p, p)>>}

\* It is read as that pair.
LEMMA OwnChoice ==
  ASSUME alg \in Algorithms, alg.family = "chempat", NEW p \in Pair, NEW t \in Pair,
         NEW half \in OwnChoices(p)
  PROVE  /\ \A k \in LoadedPrivate(Chempat(half, t)) : ReadAs(k, p, t)
         /\ alg.pq = "ml-kem" => LoadedPrivate(Chempat(half, t)) # {}
<1>0. p # None /\ p \in Pair \cup {None} /\ None \in Pair \cup {None}
  BY AbsenceAssumption
<1>1. ChoiceReads(p, None, t) /\ ChoiceReads(None, p, t) /\ ChoiceReads(p, p, t)
  BY <1>0, ChoicePrivate
<1>2. CASE half = <<Choice(p, None)>>
  BY <1>0, <1>1, <1>2 DEF ChoiceReads
<1>3. CASE half = <<Choice(None, p)>>
  BY <1>0, <1>1, <1>3 DEF ChoiceReads
<1>4. CASE half = <<Choice(p, p)>>
  BY <1>0, <1>1, <1>4 DEF ChoiceReads
<1> QED BY <1>2, <1>3, <1>4 DEF OwnChoices

\* What is written of the halves p and t is read as them, if it is read at all.
LEMMA OwnLoads ==
  ASSUME alg \in Algorithms, NEW p \in Pair, NEW t \in Pair, NEW bare \in BOOLEAN,
         NEW octets \in OwnPrivate(p, t, bare)
  PROVE  \A k \in LoadedPrivate(octets) : ReadAs(k, p, t)
<1>1. CASE alg.family = "chempat"
  <2>1. PICK half \in OwnPq(p, bare) : octets = Chempat(half, t)
    BY <1>1 DEF OwnPrivate
  <2>2. \/ half \in {<<Raw(p)>>, <<Seed(p)>>, <<Seed(p), Raw(p)>>}
        \/ half \in OwnChoices(p)
    BY <2>1 DEF OwnPq, OwnChoices
  <2>3. CASE half \in {<<Raw(p)>>, <<Seed(p)>>, <<Seed(p), Raw(p)>>}
    <3>1. ChempatReads(p, t)
      BY <1>1, ChempatPrivate
    <3> QED BY <2>1, <2>3, <3>1 DEF ChempatReads
  <2>4. CASE half \in OwnChoices(p)
    BY <1>1, <2>1, <2>4, OwnChoice
  <2> QED BY <2>2, <2>3, <2>4
<1>2. CASE alg.family = "xwing"
  <2>1. \/ octets \in {<<Seed(p), Trad(t)>>, <<Raw(p), Trad(t)>>, <<Seed(p), Trad(t), Raw(p), Trad(t)>>}
        \/ p = t /\ octets \in {<<XSeed(p)>>, <<XSeed(p), Raw(p), Trad(p)>>}
    BY <1>2 DEF OwnPrivate
  <2>2. XWingReads(p, p, t) /\ XWingReads(p, p, p)
    BY <1>2, XWingPrivate
  <2>3. CASE octets \in {<<Seed(p), Trad(t)>>, <<Raw(p), Trad(t)>>, <<Seed(p), Trad(t), Raw(p), Trad(t)>>}
    BY <2>2, <2>3 DEF XWingReads
  <2>4. CASE p = t /\ octets = <<XSeed(p)>>
    BY <2>2, <2>4 DEF XWingReads
  <2>5. CASE p = t /\ octets = <<XSeed(p), Raw(p), Trad(p)>>
    BY <2>2, <2>5 DEF XWingReads
  <2> QED BY <2>1, <2>3, <2>4, <2>5
<1>3. CASE alg.family \in Composite
  <2>1. octets \in {<<Seed(p), Trad(t)>>, <<Raw(p), Trad(t)>>, <<Seed(p), Seed(p), Trad(t), Trad(t)>>}
    BY <1>3 DEF OwnPrivate, Composite
  <2>2. CompositeReads(p, t)
    BY <1>3, CompositePrivate
  <2> QED BY <2>1, <2>2 DEF CompositeReads
<1> QED BY <1>1, <1>2, <1>3, AlgorithmsOfFamilies DEF AlgorithmShape, Composite

\* Whatever the octets are put together of, the key that they are read as is good.
LEMMA AnyLoads ==
  ASSUME alg \in Algorithms, NEW octets, AnyPrivate(octets), NEW k \in LoadedPrivate(octets)
  PROVE  KeyGood(k) /\ OwnPublic(k)
<1>1. CASE \E p \in Pair, t \in Pair, bare \in BOOLEAN : octets \in OwnPrivate(p, t, bare)
  BY <1>1, OwnLoads DEF ReadAs
<1>2. CASE octets \in ForeignPrivate
  <2> SUFFICES \E p, t : ReadAs(k, p, t)
    BY DEF ReadAs
  <2>1. CASE alg.family = "chempat"
    <3>1. PICK t \in Pair, half \in {<<Raw(p)>> : p \in Pair} \cup {<<Seed(p)>> : p \in Pair}
                                    \cup {<<Choice(p, r)>> : p \in Pair \cup {None}, r \in Pair} :
            octets = Chempat(half, t)
      BY <1>2, <2>1 DEF ForeignPrivate
    <3>2. CASE half \in {<<Raw(p)>> : p \in Pair}
      <4>1. PICK p \in Pair : half = <<Raw(p)>>
        BY <3>2
      <4>2. ChempatReads(p, t)
        BY <2>1, ChempatPrivate
      <4> QED BY <3>1, <4>1, <4>2 DEF ChempatReads
    <3>3. CASE half \in {<<Seed(p)>> : p \in Pair}
      <4>1. PICK p \in Pair : half = <<Seed(p)>>
        BY <3>3
      <4>2. ChempatReads(p, t)
        BY <2>1, ChempatPrivate
      <4> QED BY <3>1, <4>1, <4>2 DEF ChempatReads
    <3>4. CASE half \in {<<Choice(p, r)>> : p \in Pair \cup {None}, r \in Pair}
      <4>1. PICK s \in Pair \cup {None}, r \in Pair : half = <<Choice(s, r)>>
        BY <3>4
      <4>2. r \in Pair \cup {None} /\ r # None
        BY AbsenceAssumption
      <4>3. ChoiceReads(s, r, t)
        BY <2>1, <4>2, ChoicePrivate
      <4> QED BY <3>1, <4>1, <4>3 DEF ChoiceReads
    <3> QED BY <3>1, <3>2, <3>3, <3>4
  <2>2. CASE alg.family = "xwing"
    <3>1. \/ \E p \in Pair : octets = <<XSeed(p)>>
          \/ \E p, t \in Pair : octets \in {<<Seed(p), Trad(t)>>, <<Raw(p), Trad(t)>>}
          \/ \E p, r, t \in Pair : octets = <<XSeed(p), Raw(r), Trad(t)>>
      BY <1>2, <2>2 DEF ForeignPrivate
    <3>2. CASE \E p \in Pair : octets = <<XSeed(p)>>
      <4>1. PICK p \in Pair : octets = <<XSeed(p)>>
        BY <3>2
      <4>2. XWingReads(p, p, p)
        BY <2>2, XWingPrivate
      <4> QED BY <4>1, <4>2 DEF XWingReads
    <3>3. CASE \E p, t \in Pair : octets \in {<<Seed(p), Trad(t)>>, <<Raw(p), Trad(t)>>}
      <4>1. PICK p \in Pair, t \in Pair : octets \in {<<Seed(p), Trad(t)>>, <<Raw(p), Trad(t)>>}
        BY <3>3
      <4>2. XWingReads(p, p, t)
        BY <2>2, XWingPrivate
      <4> QED BY <4>1, <4>2 DEF XWingReads
    <3>4. CASE \E p, r, t \in Pair : octets = <<XSeed(p), Raw(r), Trad(t)>>
      <4>1. PICK p \in Pair, r \in Pair, t \in Pair : octets = <<XSeed(p), Raw(r), Trad(t)>>
        BY <3>4
      <4>2. XWingReads(p, r, t)
        BY <2>2, XWingPrivate
      <4> QED BY <4>1, <4>2 DEF XWingReads
    <3> QED BY <3>1, <3>2, <3>3, <3>4
  <2>3. CASE alg.family \in Composite
    <3>1. PICK p \in Pair, t \in Pair : octets = <<Seed(p), Trad(t)>>
      BY <1>2, <2>3 DEF ForeignPrivate, Composite
    <3>2. CompositeReads(p, t)
      BY <2>3, CompositePrivate
    <3> QED BY <3>1, <3>2 DEF CompositeReads
  <2> QED BY <2>1, <2>2, <2>3, AlgorithmsOfFamilies DEF AlgorithmShape, Composite
<1> QED BY <1>1, <1>2 DEF AnyPrivate

\* What is written is read, but for what Unreadable lists.
LEMMA OwnReadable ==
  ASSUME alg \in Algorithms, NEW p \in Pair, NEW t \in Pair, NEW bare \in BOOLEAN,
         NEW octets \in OwnPrivate(p, t, bare),
         alg.family \in Composite => Matches(octets, <<"seed", "trad">>),
         ~(alg.family = "chempat" /\ alg.pq = "frodokem" /\ Len(octets) = 4),
         ~(alg.family = "chempat" /\ alg.pq = "ml-kem" /\ bare),
         ~(alg.family = "xwing" /\ Bytes(octets) = 2528)
  PROVE  LoadedPrivate(octets) # {}
<1>1. CASE alg.family = "chempat"
  <2>1. PICK half \in OwnPq(p, bare) : octets = Chempat(half, t)
    BY <1>1 DEF OwnPrivate
  <2>2. CASE alg.pq = "ml-kem"
    <3>1. half \in OwnChoices(p)
      BY <1>1, <2>1, <2>2 DEF OwnPq, OwnChoices
    <3>2. alg.pq = "ml-kem" => LoadedPrivate(Chempat(half, t)) # {}
      <4> HIDE <2>1
      <4> QED BY <1>1, <3>1, OwnChoice
    <3> QED BY <2>1, <2>2, <3>2
  <2>3. CASE alg.pq = "frodokem"
    <3>1. half \in {<<Raw(p)>>, <<Seed(p)>>, <<Seed(p), Raw(p)>>}
      BY <2>1, <2>3 DEF OwnPq
    <3>2. ChempatReads(p, t)
      BY <1>1, ChempatPrivate
    <3>3. /\ LoadedPrivate(Chempat(<<Raw(p)>>, t)) # {}
          /\ LoadedPrivate(Chempat(<<Seed(p)>>, t)) # {}
          /\ Len(Chempat(<<Seed(p), Raw(p)>>, t)) = 4
      BY <2>3, <3>2 DEF ChempatReads
    <3> QED BY <1>1, <2>1, <2>3, <3>1, <3>3
  <2>4. CASE alg.pq \notin {"ml-kem", "frodokem"}
    <3>1. half = <<Raw(p)>>
      BY <2>1, <2>4 DEF OwnPq
    <3>2. ChempatReads(p, t)
      BY <1>1, ChempatPrivate
    <3> QED BY <2>1, <2>4, <3>1, <3>2 DEF ChempatReads
  <2> QED BY <2>2, <2>3, <2>4
<1>2. CASE alg.family = "xwing"
  <2>1. \/ octets \in {<<Seed(p), Trad(t)>>, <<Raw(p), Trad(t)>>, <<Seed(p), Trad(t), Raw(p), Trad(t)>>}
        \/ p = t /\ octets \in {<<XSeed(p)>>, <<XSeed(p), Raw(p), Trad(p)>>}
    BY <1>2 DEF OwnPrivate
  <2>2. XWingReads(p, p, t)
    BY <1>2, XWingPrivate
  <2>3. /\ LoadedPrivate(<<XSeed(p)>>) # {} /\ LoadedPrivate(<<Seed(p), Trad(t)>>) # {}
        /\ LoadedPrivate(<<Raw(p), Trad(t)>>) # {} /\ LoadedPrivate(<<XSeed(p), Raw(p), Trad(p)>>) # {}
        /\ Bytes(<<Seed(p), Trad(t), Raw(p), Trad(t)>>) = 2528
    BY <2>2 DEF XWingReads
  <2> QED BY <1>2, <2>1, <2>3
<1>3. CASE alg.family \in Composite
  <2>1. octets \in {<<Seed(p), Trad(t)>>, <<Raw(p), Trad(t)>>, <<Seed(p), Seed(p), Trad(t), Trad(t)>>}
    BY <1>3 DEF OwnPrivate, Composite
  <2>2. octets = <<Seed(p), Trad(t)>>
    <3>1. ~Matches(<<Raw(p), Trad(t)>>, <<"seed", "trad">>)
      <4> DEFINE x == Raw(p)
                 y == Trad(t)
      <4>1. x.kind = "raw"
        BY Pieces
      <4> HIDE DEF x, y
      <4>2. <<x, y>>[1].kind = "raw" /\ 1 \in DOMAIN <<x, y>> /\ <<"seed", "trad">>[1] = "seed"
        BY <4>1
      <4>3. ~Matches(<<x, y>>, <<"seed", "trad">>)
        BY <4>2 DEF Matches
      <4> QED BY <4>3 DEF x, y
    <3>2. ~Matches(<<Seed(p), Seed(p), Trad(t), Trad(t)>>, <<"seed", "trad">>)
      BY DEF Matches
    <3> QED BY <1>3, <2>1, <3>1, <3>2
  <2>3. CompositeReads(p, t)
    BY <1>3, CompositePrivate
  <2> QED BY <2>2, <2>3 DEF CompositeReads
<1> QED BY <1>1, <1>2, <1>3, AlgorithmsOfFamilies DEF AlgorithmShape, Composite

-----------------------------------------------------------------------------
(* The public key.                                                         *)
\* What one traditional key in a form is read as.
PublicRead(pub, form) ==
  [pq |-> pub.pq, trad |-> IF form = "high bit" THEN [pair |-> pub.trad, form |-> form] ELSE pub.trad]

\* A public key of two halves is read as these halves, if its combination has an identifier
\* (load_hybrid_public_key_from_spki).
LEMMA PublicLoads ==
  ASSUME Registered(alg), NEW pub, NEW form
  PROVE  LoadedPublic(PublicOctets(pub, form)) = {PublicRead(pub, form)}
<1> DEFINE octets == PublicOctets(pub, form)
           n == PqPublicBytes(alg.pq)
           read(s) == [pq   |-> s[1][1].of,
                       trad |-> IF s[2][1].of.form = "high bit" THEN s[2][1].of ELSE s[2][1].of.pair]
           S == {octets[1], octets[2]}
<1>1. LoadedPublic(octets) = {read(s) : s \in CutInTwo(octets, n, "pqpub", "tradpub")}
  BY DEF LoadedPublic, CutInTwo
<1>2. n \in Nat
  BY DEF PqPublicBytes
<1>3. /\ octets \in Seq(S) /\ Len(octets) = 2
      /\ octets[1].kind = "pqpub" /\ octets[1].bytes = n /\ octets[1].of = pub.pq
      /\ octets[2].kind = "tradpub" /\ octets[2].of = [pair |-> pub.trad, form |-> form]
  BY DEF PublicOctets
<1> HIDE DEF octets, n, S
<1>4. octets[1].bytes \in Nat /\ Halves(octets, n, "pqpub", "tradpub")
  BY <1>2, <1>3 DEF Halves
<1>5. /\ \A s \in CutInTwo(octets, n, "pqpub", "tradpub") : s[1][1] = octets[1] /\ s[2][1] = octets[2]
      /\ CutInTwo(octets, n, "pqpub", "tradpub") # {}
  BY <1>3, <1>4, InTwo
<1>6. \A s \in CutInTwo(octets, n, "pqpub", "tradpub") : read(s) = PublicRead(pub, form)
  <2> SUFFICES ASSUME NEW s \in CutInTwo(octets, n, "pqpub", "tradpub")
               PROVE  read(s) = PublicRead(pub, form)
    OBVIOUS
  <2> DEFINE point == [pair |-> pub.trad, form |-> form]
  <2>1. s[1][1].of = pub.pq /\ s[2][1].of = point
    BY <1>3, <1>5
  <2>2. point.form = form /\ point.pair = pub.trad
    OBVIOUS
  <2> HIDE DEF point
  <2>3. PublicRead(pub, form) = [pq |-> pub.pq, trad |-> IF form = "high bit" THEN point ELSE pub.trad]
    BY DEF PublicRead, point
  <2> QED BY <2>1, <2>2, <2>3
<1> HIDE DEF read
<1> QED BY <1>1, <1>5, <1>6 DEF octets

\* A public key that was cut short or has a rest is not read.
LEMMA OnlyTwoPieces ==
  ASSUME NEW S, NEW octets \in Seq(S), Len(octets) # 2, octets[1].bytes \in Nat
  PROVE  LoadedPublic(octets) = {}
<1> DEFINE n == PqPublicBytes(alg.pq)
<1>1. ~Halves(octets, n, "pqpub", "tradpub")
  BY DEF Halves
<1> HIDE DEF n
<1>2. CutInTwo(octets, n, "pqpub", "tradpub") = {}
  BY <1>1, InTwo
<1>3. {s \in Split(octets, n) :
         Registered(alg) /\ Matches(s[1], <<"pqpub">>) /\ Matches(s[2], <<"tradpub">>)} = {}
  BY <1>2 DEF CutInTwo
<1> QED BY <1>3 DEF LoadedPublic, n

\* A piece more.
LEMMA Appended ==
  ASSUME NEW S, NEW s \in Seq(S), NEW x \in S
  PROVE  /\ Append(s, x) \in Seq(S) /\ Len(Append(s, x)) = Len(s) + 1
         /\ Len(s) > 0 => Append(s, x)[1] = s[1]
OBVIOUS

\* A third piece after two.
LEMMA AppendedThird ==
  ASSUME NEW S, NEW s \in Seq(S), Len(s) = 2, NEW x \in S
  PROVE  Append(s, x) \in Seq(S) /\ Len(Append(s, x)) = 3 /\ Append(s, x)[1] = s[1]
<1>1. /\ Append(s, x) \in Seq(S) /\ Len(Append(s, x)) = Len(s) + 1
      /\ Len(s) > 0 => Append(s, x)[1] = s[1]
  BY Appended, Zenon
<1>2. Len(s) + 1 = 3 /\ Len(s) > 0
  OBVIOUS
<1> QED BY <1>1, <1>2, Zenon

\* The public keys that somebody puts in place belong to some pairs.
LEMMA ForeignPublicLoads ==
  ASSUME NEW octets \in ForeignPublic, NEW read \in LoadedPublic(octets)
  PROVE  read.pq \in Pair
<1> DEFINE rest == [kind |-> "rest", of |-> None, bytes |-> 1]
<1>1. PICK pub \in [pq : Pair, trad : Pair], form \in PublicForms(alg.trad) :
        LET whole == PublicOctets(pub, form)
        IN  octets \in {whole, Front(whole), Append(whole, rest)}
  BY DEF ForeignPublic
<1> DEFINE whole == PublicOctets(pub, form)
           S == {whole[1], whole[2], rest}
<1>2. whole \in Seq(S) /\ Len(whole) = 2 /\ whole[1].bytes \in Nat
  BY DEF PublicOctets, PqPublicBytes
<1>3. octets \in {whole, Front(whole), Append(whole, rest)}
  BY <1>1
<1>4. rest \in S
  OBVIOUS
<1>5. CASE octets = whole
  <2>0. Registered(alg)
    BY DEF LoadedPublic
  <2>1. read = PublicRead(pub, form)
    BY <1>5, <2>0, PublicLoads
  <2> QED BY <2>1 DEF PublicRead
<1> HIDE DEF whole, S, rest
<1>6. CASE octets = Front(whole)
  <2>1. 1 \in 0 .. Len(whole) /\ Len(whole) - 1 = 1
    BY <1>2
  <2>2. CutAt(whole, 1, <<SubSeq(whole, 1, 1), SubSeq(whole, 1 + 1, Len(whole))>>)
    BY <1>2, <2>1, Cut
  <2>3. octets = SubSeq(whole, 1, 1)
    BY <1>6, <2>1 DEF Front
  <2>4. Len(octets) = 1 /\ octets[1] = whole[1] /\ \E T : octets \in Seq(T)
    BY <2>2, <2>3 DEF CutAt
  <2>5. PICK T : octets \in Seq(T)
    BY <2>4
  <2>6. Len(octets) # 2 /\ octets[1].bytes \in Nat
    BY <1>2, <2>4
  <2>7. LoadedPublic(octets) = {}
    BY <2>5, <2>6, OnlyTwoPieces
  <2> QED BY <2>7
<1>7. CASE octets = Append(whole, rest)
  <2>1. octets \in Seq(S) /\ Len(octets) = 3 /\ octets[1] = whole[1]
    BY <1>2, <1>4, <1>7, AppendedThird
  <2>2. Len(octets) # 2 /\ octets[1].bytes \in Nat
    BY <1>2, <2>1
  <2>3. LoadedPublic(octets) = {}
    BY <2>1, <2>2, OnlyTwoPieces
  <2> QED BY <2>3
<1> QED BY <1>3, <1>5, <1>6, <1>7

\* The form that is written can be read, and is not the one with the bit that X25519 ignores.
LEMMA OwnForms ==
  ASSUME alg \in Algorithms
  PROVE  OwnForm(alg.trad) \in PublicForms(alg.trad) /\ OwnForm(alg.trad) # "high bit"
<1>1. alg.trad \in {"rsa", "rsa-odd", "ecdsa", "ed25519", "ecdh", "x25519"}
  BY AlgorithmsOfFamilies DEF AlgorithmShape
<1> QED BY <1>1 DEF OwnForm, PublicForms, SentForm, Forms, Dh

-----------------------------------------------------------------------------
(* from_one_asym_key with the public key.                                  *)
\* The public key that is taken over, and the rest of the key as it was.
LEMMA TakenPublic ==
  ASSUME alg \in Algorithms, NEW k, KeyGood(k), NEW pub, pub.pq \in Pair
  PROVE  /\ KeyGood(TakesPublic(k, pub))
         /\ UsedBy(TakesPublic(k, pub)) = UsedBy(k)
         /\ TakesPublic(k, pub).pq.raw = k.pq.raw
         /\ TakesPublic(k, pub).pq.pub = IF alg.family = "chempat" THEN pub.pq ELSE k.pq.pub
         /\ TakesPublic(k, pub).trad = k.trad
<1>1. CASE alg.family # "chempat"
  BY <1>1 DEF TakesPublic
<1>2. CASE alg.family = "chempat"
  <2> DEFINE new == TakesPublic(k, pub)
             half == [k.pq EXCEPT !.pub = pub.pq]
  <2>1. k = [pq |-> k.pq, trad |-> k.trad, xseed |-> k.xseed] /\ k.pq \in Pq!Key
    BY DEF KeyGood, KeyOf
  <2>2. new = [pq |-> half, trad |-> k.trad, xseed |-> k.xseed]
    BY <1>2, <2>1 DEF TakesPublic
  <2>3. /\ half \in Pq!Key /\ half.pub = pub.pq /\ half.family = k.pq.family
        /\ half.raw = k.pq.raw /\ half.used = k.pq.used /\ half.seed = k.pq.seed
    BY <2>1 DEF Pq!Key, Pq!Half
  <2> HIDE DEF half, new
  <2>4. new = KeyOf(half, k.trad, k.xseed) /\ new.pq = half /\ new.trad = k.trad /\ new.xseed = k.xseed
    BY <2>2 DEF KeyOf
  <2>5. KeyGood(new)
    BY <1>2, <2>3, <2>4 DEF KeyGood
  <2>6. UsedBy(new) = UsedBy(k)
    BY <2>3, <2>4 DEF UsedBy
  <2> QED BY <1>2, <2>3, <2>4, <2>5, <2>6 DEF new
<1> QED BY <1>1, <1>2

\* Whatever the parts of a file, a key that is made of it has private parts of one pair each
\* and the public key that the file has.
LEMMA LoadedGood ==
  ASSUME alg \in Algorithms, NEW blob, AnyPrivate(blob.private),
         blob.public \in ForeignPublic \cup {None}, NEW k \in Loaded(blob)
  PROVE  /\ KeyGood(k)
         /\ blob.public # None => \E pub \in LoadedPublic(blob.public) :
              pub.pq = k.pq.pub /\ pub.trad = k.trad
<1>1. CASE blob.public = None
  <2>1. k \in LoadedPrivate(blob.private)
    BY <1>1 DEF Loaded
  <2> QED BY <1>1, <2>1, AnyLoads
<1>2. CASE blob.public # None
  <2>1. PICK pub \in LoadedPublic(blob.public), old \in LoadedPrivate(blob.private) :
          k = TakesPublic(old, pub) /\ PublicOf(k) = pub
    BY <1>2 DEF Loaded
  <2>2. pub.pq \in Pair
    BY <1>2, <2>1, ForeignPublicLoads
  <2>3. KeyGood(old) /\ OwnPublic(old)
    BY <2>1, AnyLoads
  <2>4. KeyGood(k) /\ k.pq.pub = IF alg.family = "chempat" THEN pub.pq ELSE old.pq.pub
    BY <2>1, <2>2, <2>3, TakenPublic
  <2>5. k.pq.pub \in Pair
    BY <2>2, <2>3, <2>4 DEF KeyGood, Pq!Key
  <2>6. PublicOf(k) = [pq |-> k.pq.pub, trad |-> k.trad]
    BY <2>5, AbsenceAssumption DEF PublicOf
  <2>7. pub.pq = k.pq.pub /\ pub.trad = k.trad
    BY <2>1, <2>6
  <2> QED BY <2>1, <2>4, <2>7
<1> QED BY <1>1, <1>2

\* A file of one's own gives the halves and the public key back, if its private part is read.
LEMMA OwnLoaded ==
  ASSUME alg \in Algorithms, NEW blob, NEW p \in Pair, NEW t \in Pair, NEW bare \in BOOLEAN,
         blob.private \in OwnPrivate(p, t, bare),
         blob.public \in {None, PublicOctets([pq |-> p, trad |-> t], OwnForm(alg.trad))},
         Registered(alg)
  PROVE  /\ LoadedPrivate(blob.private) # {} => Loaded(blob) # {}
         /\ \A k \in Loaded(blob) :
              /\ ReadAs(k, p, t)
              /\ blob.public # None => PublicOf(k) = [pq |-> p, trad |-> t]
<1> DEFINE pub == [pq |-> p, trad |-> t]
<1>0. \A k \in LoadedPrivate(blob.private) : ReadAs(k, p, t)
  BY OwnLoads
<1>1. CASE blob.public = None
  BY <1>0, <1>1 DEF Loaded
<1>2. CASE blob.public # None
  <2>0. pub.pq = p /\ pub.trad = t
    OBVIOUS
  <2>1. LoadedPublic(blob.public) = {pub}
    <3>1. blob.public = PublicOctets(pub, OwnForm(alg.trad))
      BY <1>2
    <3>2. PublicRead(pub, OwnForm(alg.trad)) = pub
      BY OwnForms DEF PublicRead
    <3> HIDE DEF pub
    <3> QED BY <3>1, <3>2, PublicLoads
  <2> HIDE DEF pub
  <2>2. Loaded(blob) = {k \in {TakesPublic(k, pub) : k \in LoadedPrivate(blob.private)} : PublicOf(k) = pub}
    BY <1>2, <2>1 DEF Loaded
  <2>3. ASSUME NEW old \in LoadedPrivate(blob.private)
        PROVE  ReadAs(TakesPublic(old, pub), p, t) /\ PublicOf(TakesPublic(old, pub)) = pub
    <3> DEFINE k == TakesPublic(old, pub)
    <3>1. ReadAs(old, p, t)
      BY <1>0
    <3>2. old.pq.raw = p /\ old.trad = t /\ KeyGood(old) /\ OwnPublic(old)
      BY <3>1 DEF ReadAs, UsedBy, KeyGood
    <3>3. /\ KeyGood(k) /\ UsedBy(k) = UsedBy(old) /\ k.pq.raw = old.pq.raw /\ k.trad = old.trad
          /\ k.pq.pub = IF alg.family = "chempat" THEN pub.pq ELSE old.pq.pub
      BY <2>0, <3>2, TakenPublic
    <3> HIDE DEF k
    <3>4. k.pq.pub = p
      BY <2>0, <3>2, <3>3 DEF KeyGood
    <3>5. OwnPublic(k)
      BY <3>2, <3>3, <3>4, AbsenceAssumption DEF OwnPublic
    <3>6. PublicOf(k) = [pq |-> p, trad |-> t]
      BY <3>2, <3>3, <3>4, AbsenceAssumption DEF PublicOf
    <3> QED BY <3>1, <3>3, <3>5, <3>6 DEF ReadAs, k, pub
  <2> QED BY <2>2, <2>3 DEF pub
<1> QED BY <1>1, <1>2

-----------------------------------------------------------------------------
(* What is written.                                                        *)
\* What a good key is, for the fields that are written.
LEMMA GoodFields ==
  ASSUME alg \in Algorithms, NEW k, KeyGood(k)
  PROVE  /\ k.pq.raw \in Pair /\ k.trad \in Pair /\ k.pq.family = alg.pq
         /\ k.pq.seed # None => k.pq.seed = k.pq.raw
         /\ UsedBy(k) = [pq |-> k.pq.raw, trad |-> k.trad]
BY DEF KeyGood, Pq!Key, UsedBy

\* Nothing in front or behind.
LEMMA WithEmpty ==
  ASSUME NEW a
  PROVE  /\ <<>> \o <<a>> = <<a>> /\ <<a>> \o <<>> = <<a>>
         /\ \A b : <<>> \o <<a, b>> = <<a, b>> /\ <<a, b>> \o <<>> = <<a, b>>
<1>1. <<a>> \in Seq({a})
  OBVIOUS
<1>2. \A b : <<a, b>> \in Seq({a, b})
  OBVIOUS
<1>3. \A S : \A s \in Seq(S) : s \o <<>> = s /\ <<>> \o s = s
  BY ConcatEmptySeq
<1>4. <<>> \o <<a>> = <<a>> /\ <<a>> \o <<>> = <<a>>
  BY <1>1, <1>3, Zenon
<1>5. \A b : <<>> \o <<a, b>> = <<a, b>> /\ <<a, b>> \o <<>> = <<a, b>>
  BY <1>2, <1>3, Zenon
<1> QED BY <1>4, <1>5

\* The half of a Chempat key as save_keys_with_support_seed writes it.
LEMMA SavedHalf ==
  ASSUME alg \in Algorithms, alg.family = "chempat", NEW k, KeyGood(k), NEW saveType \in SaveType,
         Pq!WritesSeed(alg.pq, saveType) => k.pq.seed # None
  PROVE  PqOctets(k, saveType) \in OwnPq(k.pq.raw, FALSE)
<1> DEFINE p == k.pq.raw
           writes == Pq!WritesSeed(alg.pq, saveType)
           x == Seed(p)
           y == Raw(p)
           octets == PqOctets(k, saveType)
<1>1. k.pq.family = alg.pq /\ (writes => k.pq.seed = p)
  BY GoodFields
<1>2. /\ alg.pq \in {"ml-kem", "frodokem", "sntrup761", "mceliece"}
      /\ alg.pq \in Pq!SeedFamily <=> alg.pq \in {"ml-kem", "frodokem"}
      /\ alg.pq \in Pq!MlFamily <=> alg.pq = "ml-kem"
  BY AlgorithmsOfFamilies, SeedFamilies DEF AlgorithmShape
<1>3. CASE alg.pq = "ml-kem"
  <2> DEFINE blob == Pq!SavedBlob(k.pq, saveType, 0, FALSE)
  <2>1. /\ blob.choice = (alg.pq \in Pq!MlFamily)
        /\ blob.seed = IF writes THEN k.pq.seed ELSE None
        /\ blob.raw = IF writes /\ saveType = "seed" THEN None ELSE p
    BY <1>1 DEF Pq!SavedBlob, Pq!InChoice
  <2>2. octets = IF blob.choice THEN <<Choice(blob.seed, blob.raw)>>
                 ELSE (IF writes THEN <<Seed(k.pq.seed)>> ELSE <<>>)
                      \o (IF writes /\ saveType = "seed" THEN <<>> ELSE <<Raw(k.pq.raw)>>)
    BY DEF PqOctets
  <2> HIDE DEF blob, octets
  <2>3. blob.choice
    BY <1>2, <1>3, <2>1
  <2>4. octets = <<Choice(blob.seed, blob.raw)>>
    BY <2>2, <2>3
  <2>5. writes <=> saveType \in {"seed", "seed_and_raw"}
    BY <1>2, <1>3 DEF Pq!WritesSeed
  <2> HIDE DEF writes
  <2>6. \/ blob.seed = p /\ blob.raw = None
        \/ blob.seed = None /\ blob.raw = p
        \/ blob.seed = p /\ blob.raw = p
    BY <1>1, <2>1, <2>5 DEF SaveType
  <2> HIDE DEF p
  <2>7. octets \in OwnChoices(p)
    BY <2>4, <2>6 DEF OwnChoices
  <2> QED BY <1>3, <2>7 DEF OwnPq, OwnChoices, octets, p
<1>4. CASE alg.pq # "ml-kem"
  <2>1. (alg.pq \in Pq!MlFamily) = FALSE
    BY <1>2, <1>4
  <2>2. octets = (IF writes THEN <<Seed(k.pq.seed)>> ELSE <<>>)
                 \o (IF writes /\ saveType = "seed" THEN <<>> ELSE <<y>>)
    <3>1. Pq!SavedBlob(k.pq, saveType, 0, FALSE).choice = FALSE
      BY <1>1, <2>1 DEF Pq!SavedBlob, Pq!InChoice
    <3> QED BY <3>1 DEF PqOctets
  <2>3. \/ octets = <<x>> \o <<>> /\ writes
        \/ octets = <<x>> \o <<y>> /\ writes
        \/ octets = <<>> \o <<y>>
    <3> HIDE DEF octets, writes, y, p
    <3> QED BY <1>1, <2>2
  <2>4. writes => alg.pq = "frodokem"
    BY <1>2, <1>4 DEF Pq!WritesSeed, Pq!MlFamily
  <2> HIDE DEF octets, writes, x, y
  <2>5. <<x>> \o <<>> = <<x>> /\ <<>> \o <<y>> = <<y>> /\ <<x>> \o <<y>> = <<x, y>>
    BY Concatenated, WithEmpty
  <2>6. octets = <<y>> \/ (octets \in {<<x>>, <<x, y>>} /\ alg.pq = "frodokem")
    BY <2>3, <2>4, <2>5
  <2> QED BY <1>4, <2>6 DEF OwnPq, octets, x, y
<1> QED BY <1>3, <1>4

\* What is saved of a key are the octets of its halves (_save_keys_with_support_seed).
LEMMA SavedOwn ==
  ASSUME alg \in Algorithms, NEW k, KeyGood(k), NEW saveType \in SaveType,
         NEW version, NEW include, CanSave(k, saveType, version, include)
  PROVE  SavedOctets(k, saveType) \in OwnPrivate(k.pq.raw, k.trad, FALSE)
<1> DEFINE p == k.pq.raw
           t == k.trad
           octets == SavedOctets(k, saveType)
<1>1. Pq!WritesSeed(alg.pq, saveType) => k.pq.seed # None /\ k.pq.seed = p
  BY GoodFields DEF CanSave
<1>2. CASE alg.family = "chempat"
  <2>1. PqOctets(k, saveType) \in OwnPq(p, FALSE)
    BY <1>1, <1>2, SavedHalf
  <2>2. octets = Chempat(PqOctets(k, saveType), t)
    BY <1>2 DEF SavedOctets
  <2> QED BY <1>2, <2>1, <2>2 DEF OwnPrivate
<1>3. CASE alg.family = "xwing"
  <2> DEFINE x == XSeed(p)
             s == Seed(p)
             r == Raw(p)
             y == Trad(t)
  <2>1. octets = (IF saveType = "raw" THEN <<>> ELSE k.xseed)
                 \o (IF saveType = "seed" THEN <<>> ELSE <<r>> \o <<y>>)
    BY <1>3 DEF SavedOctets
  <2>2. saveType # "raw" => (p = t /\ k.xseed = <<x>>) \/ k.xseed = <<s, y>>
    BY <1>3 DEF CanSave, KeyGood
  <2>3. octets \in {<<s, y>>, <<r, y>>, <<s, y, r, y>>} \/ (p = t /\ octets \in {<<x>>, <<x, r, y>>})
    <3> HIDE DEF x, s, r, y, octets, p, t
    <3>1. /\ <<r>> \o <<y>> = <<r, y>> /\ <<>> \o <<r, y>> = <<r, y>>
          /\ <<x>> \o <<>> = <<x>> /\ <<s, y>> \o <<>> = <<s, y>>
      BY Concatenated, WithEmpty
    <3>2. <<x>> \o <<r, y>> = <<x, r, y>>
      BY Concatenated
    <3>3. <<s, y>> \o <<r, y>> = <<s, y, r, y>>
      BY ConcatenatedFour
    <3>4. CASE saveType = "raw"
      BY <2>1, <3>1, <3>4
    <3>5. CASE saveType = "seed"
      BY <2>1, <2>2, <3>1, <3>5
    <3>6. CASE saveType = "seed_and_raw"
      BY <2>1, <2>2, <3>1, <3>2, <3>3, <3>6
    <3> QED BY <3>4, <3>5, <3>6 DEF SaveType
  <2> HIDE DEF octets
  <2> QED BY <1>3, <2>3 DEF OwnPrivate, octets
<1>4. CASE alg.family \in Composite
  <2> DEFINE s == Seed(p)
             r == Raw(p)
             y == Trad(t)
  <2>1. alg.pq \in Pq!MlFamily
    BY <1>4, AlgorithmsOfFamilies, SeedFamilies DEF AlgorithmShape, Composite
  <2>2. saveType # "raw" => k.pq.seed = p
    BY <1>1, <2>1 DEF Pq!WritesSeed, Pq!SeedFamily, Pq!MlFamily, SaveType
  <2>3. octets = IF saveType = "seed_and_raw"
                 THEN <<Seed(k.pq.seed)>> \o <<Seed(k.pq.seed)>> \o <<y>> \o <<y>>
                 ELSE (IF saveType = "seed" THEN <<Seed(k.pq.seed)>> ELSE <<r>>) \o <<y>>
    BY <1>4 DEF SavedOctets, Composite
  <2>4. octets = IF saveType = "seed_and_raw" THEN <<s>> \o <<s>> \o <<y>> \o <<y>>
                 ELSE (IF saveType = "seed" THEN <<s>> ELSE <<r>>) \o <<y>>
    <3> HIDE DEF octets, p
    <3> QED BY <2>2, <2>3
  <2>5. octets \in {<<s, y>>, <<r, y>>, <<s, s, y, y>>}
    <3> HIDE DEF octets, s, r, y
    <3>1. <<s>> \o <<y>> = <<s, y>> /\ <<r>> \o <<y>> = <<r, y>> /\ <<s>> \o <<s>> = <<s, s>>
      BY Concatenated, WithEmpty
    <3>2. <<s, s>> \o <<y>> = <<s, s, y>>
      BY Concatenated
    <3>3. <<s, s, y>> \o <<y>> = <<s, s, y, y>>
      BY ConcatenatedFour
    <3> QED BY <2>4, <3>1, <3>2, <3>3
  <2> HIDE DEF octets
  <2> QED BY <1>4, <2>5 DEF OwnPrivate, Composite, octets
<1> QED BY <1>2, <1>3, <1>4, AlgorithmsOfFamilies DEF AlgorithmShape, Composite

\* What private_bytes writes of a key are the octets of its halves (_export_private_key).
LEMMA ExportedOwn ==
  ASSUME alg \in Algorithms, NEW k, KeyGood(k), CanExport(k)
  PROVE  ExportedOctets(k) \in OwnPrivate(k.pq.raw, k.trad, TRUE)
<1> DEFINE p == k.pq.raw
           t == k.trad
<1>1. CASE alg.family = "chempat"
  <2>1. <<Raw(p)>> \in OwnPq(p, TRUE)
    BY DEF OwnPq
  <2>2. ExportedOctets(k) = Chempat(<<Raw(p)>>, t)
    BY <1>1 DEF ExportedOctets
  <2> QED BY <1>1, <2>1, <2>2 DEF OwnPrivate
<1>2. CASE alg.family = "xwing"
  <2>1. ExportedOctets(k) = IF k.xseed # <<>> THEN k.xseed ELSE <<Raw(p), Trad(t)>>
    BY <1>2 DEF ExportedOctets
  <2>2. k.xseed # <<>> => (p = t /\ k.xseed = <<XSeed(p)>>) \/ k.xseed = <<Seed(p), Trad(t)>>
    BY DEF KeyGood
  <2> QED BY <1>2, <2>1, <2>2 DEF OwnPrivate
<1>3. CASE alg.family \in Composite
  <2>1. k.pq.seed = p
    BY <1>3, GoodFields DEF CanExport
  <2>2. ExportedOctets(k) = <<Seed(p), Trad(t)>>
    BY <1>3, <2>1 DEF ExportedOctets, Composite
  <2> QED BY <1>3, <2>2 DEF OwnPrivate, Composite
<1> QED BY <1>1, <1>2, <1>3, AlgorithmsOfFamilies DEF AlgorithmShape, Composite

-----------------------------------------------------------------------------
(* Every action keeps the inductive invariant.                             *)
\* The algorithm never changes, and with it what can be written.
LEMMA SameHalves ==
  ASSUME alg' = alg
  PROVE  \A p, bare : OwnPq(p, bare)' = OwnPq(p, bare)
BY DEF OwnPq, Seed, Raw, Choice

\* What is written of two halves stays the same.
LEMMA SameOwn ==
  ASSUME alg' = alg, NEW p, NEW t, NEW bare
  PROVE  OwnPrivate(p, t, bare)' = OwnPrivate(p, t, bare)
BY SameHalves DEF OwnPrivate, Seed, Raw, Choice, Chempat, Trad, XSeed, Size, OwnPq

\* What is put together elsewhere stays the same.
LEMMA SameForeign ==
  ASSUME alg' = alg
  PROVE  ForeignPrivate' = ForeignPrivate
BY DEF ForeignPrivate, Seed, Raw, Choice, Chempat, Trad, XSeed, Size

\* The public keys that may be in a file stay the same.
LEMMA SamePublic ==
  ASSUME alg' = alg
  PROVE  ForeignPublic' = ForeignPublic
BY DEF ForeignPublic, PublicOctets

\* The octets of a public key stay the same.
LEMMA SamePublicOctets ==
  ASSUME alg' = alg, NEW pub, NEW form
  PROVE  PublicOctets(pub, form)' = PublicOctets(pub, form)
BY DEF PublicOctets

\* What has an identifier keeps it.
LEMMA SameRegistered ==
  ASSUME alg' = alg
  PROVE  Registered(alg)' = Registered(alg)
BY DEF Registered

\* What is in hand and what is in the file, of whichever origin.
KeyOwned(k, by) == KeyGood(k) /\ (by # Foreign => OwnPublic(k) /\ by = UsedBy(k))

FileOwned(f, by, bare) ==
  /\ Registered(alg)
  /\ AnyPrivate(f.private) /\ f.public \in ForeignPublic \cup {None}
  /\ by # Foreign => bare \in BOOLEAN /\
       \E p \in Pair, t \in Pair :
         /\ by = [pq |-> p, trad |-> t]
         /\ f.private \in OwnPrivate(p, t, bare)
         /\ f.public \in {None, PublicOctets(by, OwnForm(alg.trad))}

\* The invariant in these words.
LEMMA IInvParts ==
  IInv <=> /\ alg \in Algorithms
           /\ key # NoKey => KeyOwned(key, owner)
           /\ file # NoFile => FileOwned(file, fileOwner, exported)
BY DEF IInv, KeyInv, FileInv, OwnFileInv, KeyOwned, FileOwned

\* A step leaves the algorithm alone: it keeps the invariant if the key and the file
\* that it leaves behind are good.
LEMMA StepInv ==
  ASSUME IInv, alg' = alg,
         key' # NoKey => KeyOwned(key', owner'),
         file' # NoFile => FileOwned(file', fileOwner', exported')
  PROVE  IInv'
<1>1. KeyInv'
  BY DEF KeyInv, KeyOwned, KeyGood, OwnPublic, UsedBy, KeyOf, Seed, Trad, XSeed
<1>2. FileInv'
  <2>1. SUFFICES ASSUME file' # NoFile
                 PROVE  /\ Registered(alg)' /\ AnyPrivate(file.private)'
                        /\ file'.public \in ForeignPublic' \cup {None}
    BY DEF FileInv
  <2>2. AnyPrivate(file.private)'
    BY <2>1, SameForeign, SameOwn DEF FileOwned, AnyPrivate
  <2> QED BY <2>1, <2>2, SamePublic, SameRegistered DEF FileOwned
<1>3. OwnFileInv'
  BY SameOwn, SamePublicOctets DEF OwnFileInv, FileOwned
<1> QED BY <1>1, <1>2, <1>3 DEF IInv

\* The invariant holds at the start.
LEMMA InitInv == Init => IInv
BY DEF Init, IInv, KeyInv, FileInv, OwnFileInv

\* A new key of good halves, under the pairs of these halves.
LEMMA OwnedInv ==
  ASSUME IInv, NEW pq, PqGood(pq), NEW t \in Pair, NEW xseed, SeedGood(pq, t, xseed),
         Owned(KeyOf(pq, t, xseed), [pq |-> pq.raw, trad |-> t])
  PROVE  IInv'
<1> DEFINE k == KeyOf(pq, t, xseed)
           pairs == [pq |-> pq.raw, trad |-> t]
<1>1. KeyGood(k) /\ OwnPublic(k) /\ UsedBy(k) = pairs
  BY BuiltKey DEF IInv
<1>2. key' = k /\ owner' = pairs /\ alg' = alg /\ file' = file /\ fileOwner' = fileOwner /\ exported' = exported
  BY DEF Owned
<1> HIDE DEF k, pairs
<1>3. KeyOwned(key', owner')
  BY <1>1, <1>2 DEF KeyOwned
<1> QED BY <1>2, <1>3, IInvParts, StepInv

\* A generated or assembled key is good (generate_hybrid_key, from_keys).
LEMMA MakeInv ==
  ASSUME IInv, NEW p \in Pair, NEW t \in Pair, NEW seeded \in BOOLEAN, Make(p, t, seeded)
  PROVE  IInv'
<1> DEFINE seed == IF seeded /\ alg.pq \in Pq!SeedFamily THEN p ELSE None
           pq == Pq!KeyOf(alg.pq, seed, p)
<1>1. Owned(KeyOf(pq, t, <<>>), [pq |-> p, trad |-> t])
  <2>1. (IF seeded THEN Pq!NewKey(alg.pq, p) ELSE [Pq!NewKey(alg.pq, p) EXCEPT !.seed = None]) = pq
    BY DEF Pq!NewKey, Pq!KeyOf
  <2> HIDE DEF pq
  <2> QED BY <2>1 DEF Make
<1>2. seed \in {None, p} /\ (seed # None => alg.pq \in Pq!SeedFamily)
  OBVIOUS
<1> HIDE DEF seed
<1>3. PqGood(pq) /\ pq.raw = p
  BY <1>2, BuiltHalf DEF IInv
<1> HIDE DEF pq
<1>4. SeedGood(pq, t, <<>>)
  BY DEF SeedGood
<1> QED BY <1>1, <1>3, <1>4, OwnedInv

\* The post-quantum half of a generated X-Wing key.
LEMMA XWingHalf ==
  ASSUME alg \in Algorithms, alg.family = "xwing", NEW p \in Pair
  PROVE  /\ PqGood(Pq!KeyOf("ml-kem", p, p)) /\ Pq!KeyOf("ml-kem", p, p).raw = p
         /\ Pq!NewKey("ml-kem", p) = Pq!KeyOf("ml-kem", p, p)
<1>1. alg.pq = "ml-kem" /\ alg.pq \in Pq!SeedFamily
  BY AlgorithmsOfFamilies, SeedFamilies DEF AlgorithmShape
<1>2. PqGood(Pq!KeyOf(alg.pq, p, p)) /\ Pq!KeyOf(alg.pq, p, p).raw = p
  BY <1>1, BuiltHalf
<1>3. Pq!NewKey("ml-kem", p) = Pq!KeyOf("ml-kem", p, p)
  BY <1>1 DEF Pq!NewKey
<1> QED BY <1>1, <1>2, <1>3

\* An X-Wing key of 32 bytes is good (generate).
LEMMA MakeXWingInv ==
  ASSUME IInv, NEW p \in Pair, MakeXWing(p)
  PROVE  IInv'
<1> DEFINE pq == Pq!KeyOf("ml-kem", p, p)
<1>1. PqGood(pq) /\ pq.raw = p
  BY XWingHalf DEF IInv, MakeXWing
<1>2. Owned(KeyOf(pq, p, <<XSeed(p)>>), [pq |-> p, trad |-> p])
  BY DEF MakeXWing, Expanded
<1> HIDE DEF pq
<1>3. SeedGood(pq, p, <<XSeed(p)>>)
  BY <1>1 DEF SeedGood, MakeXWing
<1> QED BY <1>1, <1>2, <1>3, OwnedInv

\* An X-Wing key of 96 bytes is good (from_seed).
LEMMA MakeXWingExpandedInv ==
  ASSUME IInv, NEW p \in Pair, NEW t \in Pair, MakeXWingExpanded(p, t)
  PROVE  IInv'
<1> DEFINE pq == Pq!KeyOf("ml-kem", p, p)
<1>1. PqGood(pq) /\ pq.raw = p /\ Pq!NewKey("ml-kem", p) = pq
  BY XWingHalf DEF IInv, MakeXWingExpanded
<1> HIDE DEF pq
<1>2. Owned(KeyOf(pq, t, <<Seed(p), Trad(t)>>), [pq |-> p, trad |-> t])
  BY <1>1 DEF MakeXWingExpanded
<1>3. SeedGood(pq, t, <<Seed(p), Trad(t)>>)
  BY <1>1 DEF SeedGood, MakeXWingExpanded
<1> QED BY <1>1, <1>2, <1>3, OwnedInv

\* A file of the key in hand, with its public key or without.
LEMMA WrittenInv ==
  ASSUME IInv, key # NoKey, Registered(alg), NEW octets, NEW public, NEW bare \in BOOLEAN,
         octets \in OwnPrivate(key.pq.raw, key.trad, bare),
         \/ public = None
         \/ PublicOf(key) # None /\ public = PublicOctets(PublicOf(key), OwnForm(alg.trad)),
         Written(octets, public, bare)
  PROVE  IInv'
<1> DEFINE p == key.pq.raw
           t == key.trad
           f == [private |-> octets, public |-> public]
<1>1. alg \in Algorithms /\ KeyOwned(key, owner)
  BY IInvParts
<1>2. KeyGood(key) /\ p \in Pair /\ t \in Pair /\ UsedBy(key) = [pq |-> p, trad |-> t]
  BY <1>1, GoodFields DEF KeyOwned
<1>3. /\ f' = f /\ file' = f /\ fileOwner' = owner /\ exported' = bare
      /\ alg' = alg /\ key' = key /\ owner' = owner /\ f.private = octets /\ f.public = public
  BY DEF Written
<1> HIDE DEF f
<1>4. public # None => PublicOf(key) = [pq |-> key.pq.pub, trad |-> t] /\ key.pq.pub \in Pair
  BY <1>2 DEF PublicOf, KeyGood, Pq!Key, Pq!Half
<1>5. public # None => public \in ForeignPublic
  <2>1. public # None => PublicOf(key) \in [pq : Pair, trad : Pair]
    BY <1>2, <1>4
  <2>2. OwnForm(alg.trad) \in PublicForms(alg.trad)
    BY <1>1, OwnForms
  <2> QED BY <2>1, <2>2 DEF ForeignPublic
<1>6. owner # Foreign => owner = [pq |-> p, trad |-> t] /\ (public # None => PublicOf(key) = owner)
  BY <1>1, <1>2, <1>4, AbsenceAssumption DEF KeyOwned, OwnPublic
<1>7. AnyPrivate(octets)
  BY <1>2 DEF AnyPrivate
<1>8. FileOwned(f, owner, bare)
  BY <1>2, <1>3, <1>5, <1>6, <1>7 DEF FileOwned
<1> QED BY <1>1, <1>3, <1>8, StepInv

\* What is saved is the own key (save_private_key_one_asym_key).
LEMMA SaveInv ==
  ASSUME IInv, NEW saveType \in SaveType, NEW version \in 0 .. 1, NEW include \in BOOLEAN,
         Save(saveType, version, include)
  PROVE  IInv'
<1> DEFINE octets == SavedOctets(key, saveType)
           public == IF version = 1 \/ include
                     THEN PublicOctets(PublicOf(key), OwnForm(alg.trad)) ELSE None
<1>1. key # NoKey /\ CanSave(key, saveType, version, include) /\ Written(octets, public, FALSE)
  BY DEF Save
<1>2. alg \in Algorithms /\ KeyGood(key)
  BY <1>1, IInvParts DEF KeyOwned
<1>3. octets \in OwnPrivate(key.pq.raw, key.trad, FALSE)
  BY <1>1, <1>2, SavedOwn
<1>4. \/ public = None
      \/ PublicOf(key) # None /\ public = PublicOctets(PublicOf(key), OwnForm(alg.trad))
  BY <1>1 DEF CanSave
<1>5. Registered(alg)
  BY <1>1 DEF CanSave
<1> HIDE DEF octets, public
<1> QED BY <1>1, <1>3, <1>4, <1>5, WrittenInv

\* What is exported is the own key (private_bytes).
LEMMA ExportInv ==
  ASSUME IInv, Export
  PROVE  IInv'
<1>1. key # NoKey /\ CanExport(key) /\ Written(ExportedOctets(key), None, TRUE)
  BY DEF Export
<1>2. alg \in Algorithms /\ KeyGood(key)
  BY <1>1, IInvParts DEF KeyOwned
<1>3. ExportedOctets(key) \in OwnPrivate(key.pq.raw, key.trad, TRUE)
  BY <1>1, <1>2, ExportedOwn
<1>4. Registered(alg)
  BY <1>1 DEF CanExport
<1> QED BY <1>1, <1>3, <1>4, WrittenInv

\* What is loaded is good, and of an own file own (from_one_asym_key).
LEMMA LoadInv ==
  ASSUME IInv, Load
  PROVE  IInv'
<1>1. PICK k \in Loaded(file) : key' = k
  BY DEF Load
<1>2. /\ file # NoFile /\ owner' = fileOwner /\ alg' = alg /\ file' = file
      /\ fileOwner' = fileOwner /\ exported' = exported
  BY DEF Load
<1>3. alg \in Algorithms /\ FileOwned(file, fileOwner, exported)
  BY <1>2, IInvParts
<1>4. KeyGood(k)
  BY <1>3, LoadedGood DEF FileOwned
<1>5. fileOwner # Foreign => OwnPublic(k) /\ UsedBy(k) = fileOwner
  <2> SUFFICES ASSUME fileOwner # Foreign PROVE OwnPublic(k) /\ UsedBy(k) = fileOwner
    OBVIOUS
  <2>1. PICK p \in Pair, t \in Pair :
          /\ fileOwner = [pq |-> p, trad |-> t]
          /\ file.private \in OwnPrivate(p, t, exported)
          /\ file.public \in {None, PublicOctets([pq |-> p, trad |-> t], OwnForm(alg.trad))}
    BY <1>3 DEF FileOwned
  <2>2. exported \in BOOLEAN /\ Registered(alg)
    BY <1>3 DEF FileOwned
  <2>3. ReadAs(k, p, t)
    BY <1>3, <2>1, <2>2, OwnLoaded
  <2> QED BY <2>1, <2>3 DEF ReadAs
<1>6. KeyOwned(key', owner')
  BY <1>1, <1>2, <1>4, <1>5 DEF KeyOwned
<1> QED BY <1>2, <1>3, <1>6, StepInv

\* A Chempat key that went through its raw bytes is the same pair (from_private_bytes).
LEMMA RestoreChempatInv ==
  ASSUME IInv, RestoreChempat
  PROVE  IInv'
<1>1. PICK pq \in Pq!FromRaw(alg.pq, key.pq.raw) : key' = KeyOf(pq, key.trad, <<>>)
  BY DEF RestoreChempat
<1>2. /\ key # NoKey /\ alg.family = "chempat" /\ owner' = owner /\ alg' = alg /\ file' = file
      /\ fileOwner' = fileOwner /\ exported' = exported
  BY DEF RestoreChempat
<1>3. alg \in Algorithms /\ KeyOwned(key, owner)
  BY <1>2, IInvParts
<1>4. key.pq.raw \in Pair /\ key.trad \in Pair /\ UsedBy(key) = [pq |-> key.pq.raw, trad |-> key.trad]
  BY <1>3, GoodFields DEF KeyOwned
<1>5. PqGood(pq) /\ pq.raw = key.pq.raw
  <2> DEFINE p == key.pq.raw
  <2>1. alg.pq # "falcon"
    BY <1>3, SeedFamilies DEF PqFamily
  <2>2. CASE alg.pq = "mceliece"
    <3>1. pq = Pq!McElieceKey(p, None)
      BY <1>1, <2>2 DEF Pq!FromRaw
    <3> HIDE DEF p
    <3>2. /\ Pq!McElieceKey(p, None).raw = p /\ Pq!McElieceKey(p, None).used = p
          /\ Pq!McElieceKey(p, None).pub = None /\ Pq!McElieceKey(p, None).seed = None
          /\ Pq!McElieceKey(p, None).family = alg.pq
      BY <2>2 DEF Pq!McElieceKey, Pq!KeyOf
    <3>3. p \in Pair => Pq!McElieceKey(p, None) \in Pq!Key
      BY <1>3, <2>2, SeedFamilies DEF Pq!McElieceKey, Pq!KeyOf, Pq!Key, Pq!Half
    <3>4. p \in Pair
      BY <1>4 DEF p
    <3>5. PqGood(pq) /\ pq.raw = p
      BY <2>2, <3>1, <3>2, <3>3, <3>4 DEF PqGood
    <3> QED BY <3>5 DEF p
  <2>3. CASE alg.pq # "mceliece"
    <3>1. pq = Pq!KeyOf(alg.pq, None, p)
      BY <1>1, <2>1, <2>3 DEF Pq!FromRaw
    <3>2. p \in Pair /\ None \in {None, p}
      BY <1>4
    <3> HIDE DEF p
    <3>3. PqGood(pq) /\ pq.raw = p
      BY <1>3, <3>1, <3>2, BuiltHalf
    <3> QED BY <3>3 DEF p
  <2> QED BY <2>2, <2>3
<1>6. SeedGood(pq, key.trad, <<>>)
  BY DEF SeedGood
<1>7. /\ KeyGood(key') /\ OwnPublic(key') /\ UsedBy(key') = UsedBy(key)
  <2> DEFINE t == key.trad
  <2>1. t \in Pair /\ SeedGood(pq, t, <<>>) /\ key' = KeyOf(pq, t, <<>>)
    BY <1>1, <1>4, <1>6
  <2> HIDE DEF t
  <2>2. KeyGood(KeyOf(pq, t, <<>>)) /\ OwnPublic(KeyOf(pq, t, <<>>))
        /\ UsedBy(KeyOf(pq, t, <<>>)) = [pq |-> pq.raw, trad |-> t]
    BY <1>3, <1>5, <2>1, BuiltKey
  <2> QED BY <1>4, <1>5, <2>1, <2>2 DEF t
<1>8. KeyOwned(key', owner')
  BY <1>2, <1>3, <1>7 DEF KeyOwned
<1> QED BY <1>2, <1>8, IInvParts, StepInv

\* A file that somebody puts in place is one of those that are expected.
LEMMA ReplaceInv ==
  ASSUME IInv, NEW private \in ForeignPrivate, NEW public \in ForeignPublic \cup {None},
         Replace(private, public)
  PROVE  IInv'
<1> DEFINE f == [private |-> private, public |-> public]
<1>1. /\ file' = f /\ fileOwner' = Foreign /\ alg' = alg /\ key' = key /\ owner' = owner
      /\ f.private = private /\ f.public = public /\ Registered(alg)
  BY DEF Replace
<1> HIDE DEF f
<1>2. FileOwned(f, Foreign, exported')
  BY <1>1 DEF FileOwned, AnyPrivate
<1> QED BY <1>1, <1>2, IInvParts, StepInv

\* The inductive invariant holds in every state.
THEOREM HybridInductive == Spec => []IInv
<1>1. IInv /\ [Next]_vars => IInv'
  <2> SUFFICES ASSUME IInv, [Next]_vars PROVE IInv'
    OBVIOUS
  <2>1. ASSUME NEW p \in Pair, NEW t \in Pair, NEW seeded \in BOOLEAN, Make(p, t, seeded) PROVE IInv'
    BY <2>1, MakeInv
  <2>2. ASSUME NEW p \in Pair, MakeXWing(p) PROVE IInv'
    BY <2>2, MakeXWingInv
  <2>3. ASSUME NEW p \in Pair, NEW t \in Pair, MakeXWingExpanded(p, t) PROVE IInv'
    BY <2>3, MakeXWingExpandedInv
  <2>4. ASSUME NEW saveType \in SaveType, NEW version \in 0 .. 1, NEW include \in BOOLEAN,
               Save(saveType, version, include)
        PROVE  IInv'
    BY <2>4, SaveInv
  <2>5. CASE Export
    BY <2>5, ExportInv
  <2>6. CASE Load
    BY <2>6, LoadInv
  <2>7. CASE RestoreChempat
    BY <2>7, RestoreChempatInv
  <2>8. ASSUME NEW private \in ForeignPrivate, NEW public \in ForeignPublic \cup {None},
               Replace(private, public)
        PROVE  IInv'
    BY <2>8, ReplaceInv
  <2>9. CASE UNCHANGED vars
    BY <2>9, IInvParts, StepInv DEF vars
  <2> QED BY <2>1, <2>2, <2>3, <2>4, <2>5, <2>6, <2>7, <2>8, <2>9 DEF Next
<1> QED BY InitInv, <1>1, PTL DEF Spec

-----------------------------------------------------------------------------
(* The properties that the runs check.                                     *)
\* A key object stays whole: its halves are keys of the two families of its algorithm, and the
\* seed an X-Wing key keeps is the one that both halves follow from.
THEOREM HybridTypeOK == Spec => []TypeOK
<1>1. IInv => TypeOK
  <2> SUFFICES ASSUME IInv PROVE TypeOK
    OBVIOUS
  <2>1. ASSUME key # NoKey
        PROVE  /\ key.pq \in Pq!Key /\ key.pq.family = alg.pq /\ key.trad \in Pair
               /\ \A piece \in ToSet(key.xseed) :
                    /\ alg.family = "xwing"
                    /\ piece.kind # "trad" => piece.of = key.pq.used
                    /\ piece.kind # "seed" => piece.of = key.trad
    <3> DEFINE p == key.pq.raw
               t == key.trad
    <3>1. KeyGood(key)
      BY <2>1 DEF IInv, KeyInv
    <3>2. /\ key.pq \in Pq!Key /\ key.pq.family = alg.pq /\ t \in Pair /\ key.pq.used = p
      BY <3>1 DEF KeyGood
    <3>3. \/ key.xseed = <<>>
          \/ alg.family = "xwing" /\ key.xseed = <<XSeed(p)>> /\ t = p
          \/ alg.family = "xwing" /\ key.xseed = <<Seed(p), Trad(t)>>
      BY <3>1 DEF KeyGood
    <3>4. /\ XSeed(p).of = p /\ XSeed(p).kind = "xseed"
          /\ Seed(p).of = p /\ Seed(p).kind = "seed"
          /\ Trad(t).of = t /\ Trad(t).kind = "trad"
      BY Pieces
    <3>5. CASE key.xseed = <<>>
      BY <3>2, <3>5 DEF ToSet
    <3>6. CASE alg.family = "xwing" /\ key.xseed = <<XSeed(p)>> /\ t = p
      <4>1. ToSet(key.xseed) = {XSeed(p)}
        BY <3>6 DEF ToSet
      <4> QED BY <3>2, <3>4, <3>6, <4>1
    <3>7. CASE alg.family = "xwing" /\ key.xseed = <<Seed(p), Trad(t)>>
      <4>1. ToSet(key.xseed) = {Seed(p), Trad(t)}
        BY <3>7 DEF ToSet
      <4> QED BY <3>2, <3>4, <3>7, <4>1
    <3> QED BY <3>3, <3>5, <3>6, <3>7
  <2>2. alg \in Algorithms /\ (file # NoFile => file.public \in ForeignPublic \cup {None})
    BY DEF IInv, FileInv
  <2> QED BY <2>1, <2>2 DEF TypeOK
<1> QED BY <1>1, HybridInductive, PTL

\* Whatever somebody put in place of the file, a key that is made of it with a public key in
\* it has a traditional half of this public key, and outside Chempat a post-quantum half too
\* (from_one_asym_key).
THEOREM HybridAcceptedIsOnePair == Spec => []AcceptedIsOnePair
<1>1. IInv => AcceptedIsOnePair
  <2> SUFFICES ASSUME IInv, file # NoFile, file.public # None, NEW k \in Loaded(file)
               PROVE  \E pub \in LoadedPublic(file.public) :
                        k.trad = pub.trad /\ (alg.family # "chempat" => k.pq.used = pub.pq)
    BY DEF AcceptedIsOnePair
  <2>1. alg \in Algorithms /\ AnyPrivate(file.private) /\ file.public \in ForeignPublic \cup {None}
    BY DEF IInv, FileInv
  <2>2. KeyGood(k) /\ \E pub \in LoadedPublic(file.public) : pub.pq = k.pq.pub /\ pub.trad = k.trad
    BY <2>1, LoadedGood
  <2>3. alg.family # "chempat" => k.pq.used = k.pq.pub
    BY <2>2 DEF KeyGood
  <2> QED BY <2>2, <2>3
<1> QED BY <1>1, HybridInductive, PTL

\* What the library wrote it reads, but for what Unreadable lists, and gets the two halves
\* and the public key back, through any number of saves, exports, loads and restores.
THEOREM HybridOwnFileLoads == Spec => []OwnFileLoads
<1>1. IInv => OwnFileLoads
  <2> SUFFICES ASSUME IInv, file # NoFile, fileOwner # Foreign, ~Unreadable(file)
               PROVE  /\ Loaded(file) # {}
                      /\ \A k \in Loaded(file) :
                           UsedBy(k) = fileOwner /\ (file.public # None => PublicOf(k) = fileOwner)
    BY DEF OwnFileLoads
  <2>1. alg \in Algorithms /\ exported \in BOOLEAN /\ Registered(alg)
    BY DEF IInv, FileInv, OwnFileInv
  <2>2. PICK p \in Pair, t \in Pair :
          /\ fileOwner = [pq |-> p, trad |-> t]
          /\ file.private \in OwnPrivate(p, t, exported)
          /\ file.public \in {None, PublicOctets([pq |-> p, trad |-> t], OwnForm(alg.trad))}
    BY DEF IInv, OwnFileInv
  <2>3. LoadedPrivate(file.private) # {}
    <3> DEFINE octets == file.private
    <3>1. /\ alg.family \in Composite => Matches(octets, <<"seed", "trad">>)
          /\ ~(alg.family = "chempat" /\ alg.pq = "frodokem" /\ Len(octets) = 4)
          /\ ~(alg.family = "chempat" /\ alg.pq = "ml-kem" /\ exported)
          /\ ~(alg.family = "xwing" /\ Bytes(octets) = 2528)
      BY DEF Unreadable
    <3>2. octets \in OwnPrivate(p, t, exported)
      BY <2>2
    <3> HIDE DEF octets
    <3>3. LoadedPrivate(octets) # {}
      BY <2>1, <3>1, <3>2, OwnReadable
    <3> QED BY <3>3 DEF octets
  <2>4. /\ Loaded(file) # {}
        /\ \A k \in Loaded(file) :
             ReadAs(k, p, t) /\ (file.public # None => PublicOf(k) = [pq |-> p, trad |-> t])
    BY <2>1, <2>2, <2>3, OwnLoaded
  <2> QED BY <2>2, <2>4 DEF ReadAs
<1> QED BY <1>1, HybridInductive, PTL

-----------------------------------------------------------------------------
(* How the ciphertexts are cut.                                            *)
\* A cut that falls behind one number of pieces.
LEMMA SplitAt ==
  ASSUME NEW octets, NEW n, NEW m \in 0 .. Len(octets),
         \A k \in 0 .. Len(octets) : Upto(octets)[k] = n <=> k = m
  PROVE  Split(octets, n) = {<<SubSeq(octets, 1, m), SubSeq(octets, m + 1, Len(octets))>>}
<1> DEFINE cut(k) == <<SubSeq(octets, 1, k), SubSeq(octets, k + 1, Len(octets))>>
<1>1. {k \in 0 .. Len(octets) : Upto(octets)[k] = n} = {m}
  OBVIOUS
<1>2. Split(octets, n) = {cut(k) : k \in {k \in 0 .. Len(octets) : Upto(octets)[k] = n}}
  BY DEF Split
<1> HIDE DEF cut
<1>3. Split(octets, n) = {cut(m)}
  BY <1>1, <1>2
<1> QED BY <1>3 DEF cut

\* A cut behind the first of up to three pieces that are not empty.
LEMMA SplitOne ==
  ASSUME NEW x, x.bytes \in Nat, x.bytes > 0
  PROVE  Split(<<x>>, x.bytes) = {<< <<x>>, <<>> >>}
<1> DEFINE octets == <<x>>
           n == x.bytes
           s == SubSeq(octets, 1, 1)
           t == SubSeq(octets, 1 + 1, Len(octets))
<1>1. octets \in Seq({x}) /\ Len(octets) = 1 /\ octets[1] = x /\ 1 \in 0 .. Len(octets)
  OBVIOUS
<1>2. CutAt(octets, 1, <<s, t>>)
  BY <1>1, Cut
<1> HIDE DEF octets, s, t
<1>3. /\ Len(octets) \in 0 .. 5 /\ \A k \in 1 .. Len(octets) : octets[k].bytes \in Nat
      /\ Len(octets) >= 1
  BY <1>1
<1>4. /\ Upto(octets)[0] = 0
      /\ Upto(octets)[1] = x.bytes
  BY <1>1, <1>3, UptoFive
<1>5. \A k \in 0 .. Len(octets) : k \in {0, 1}
  BY <1>1
<1>6. \A k \in 0 .. Len(octets) : Upto(octets)[k] = n <=> k = 1
  BY <1>4, <1>5
<1>7. Split(octets, n) = {<<s, t>>}
  BY <1>1, <1>6, SplitAt DEF s, t
<1>8. s = <<x>>
  BY <1>1, <1>2, OneElement DEF CutAt
<1>9. t = <<>>
  BY <1>1, <1>2, EmptySeq DEF CutAt
<1> QED BY <1>7, <1>8, <1>9 DEF octets

\* Of two pieces.
LEMMA SplitTwo ==
  ASSUME NEW x, NEW y, x.bytes \in Nat, x.bytes > 0, y.bytes \in Nat, y.bytes > 0
  PROVE  Split(<<x, y>>, x.bytes) = {<< <<x>>, <<y>> >>}
<1> DEFINE octets == <<x, y>>
           n == x.bytes
           s == SubSeq(octets, 1, 1)
           t == SubSeq(octets, 1 + 1, Len(octets))
<1>1. octets \in Seq({x, y}) /\ Len(octets) = 2 /\ octets[1] = x /\ octets[2] = y /\ 1 \in 0 .. Len(octets)
  OBVIOUS
<1>2. CutAt(octets, 1, <<s, t>>)
  BY <1>1, Cut
<1> HIDE DEF octets, s, t
<1>3. /\ Len(octets) \in 0 .. 5 /\ \A k \in 1 .. Len(octets) : octets[k].bytes \in Nat
      /\ Len(octets) >= 1 /\ Len(octets) >= 2
  BY <1>1
<1>4. /\ Upto(octets)[0] = 0
      /\ Upto(octets)[1] = octets[1].bytes
      /\ Upto(octets)[2] = octets[1].bytes + octets[2].bytes
  BY <1>3, UptoFive
<1>5. /\ Upto(octets)[0] = 0
      /\ Upto(octets)[1] = x.bytes
      /\ Upto(octets)[2] = x.bytes + y.bytes
  BY <1>1, <1>4
<1>6. \A k \in 0 .. Len(octets) : k \in {0, 1, 2}
  BY <1>1
<1>7. \A k \in 0 .. Len(octets) : Upto(octets)[k] = n <=> k = 1
  BY <1>5, <1>6
<1>8. Split(octets, n) = {<<s, t>>}
  BY <1>1, <1>7, SplitAt DEF s, t
<1>9. s = <<x>>
  BY <1>1, <1>2, OneElement DEF CutAt
<1>10. t = <<y>>
  BY <1>1, <1>2, OneElement DEF CutAt
<1> QED BY <1>8, <1>9, <1>10 DEF octets

\* Of three pieces.
LEMMA SplitThree ==
  ASSUME NEW x, NEW y, NEW z, x.bytes \in Nat, x.bytes > 0, y.bytes \in Nat, y.bytes > 0,
         z.bytes \in Nat, z.bytes > 0
  PROVE  Split(<<x, y, z>>, x.bytes) = {<< <<x>>, <<y, z>> >>}
<1> DEFINE octets == <<x, y, z>>
           n == x.bytes
           s == SubSeq(octets, 1, 1)
           t == SubSeq(octets, 1 + 1, Len(octets))
<1>1. /\ octets \in Seq({x, y, z}) /\ Len(octets) = 3
      /\ octets[1] = x /\ octets[2] = y /\ octets[3] = z /\ 1 \in 0 .. Len(octets)
  OBVIOUS
<1>2. CutAt(octets, 1, <<s, t>>)
  BY <1>1, Cut
<1> HIDE DEF octets, s, t
<1>3. /\ Len(octets) \in 0 .. 5 /\ \A k \in 1 .. Len(octets) : octets[k].bytes \in Nat
      /\ Len(octets) >= 1 /\ Len(octets) >= 2 /\ Len(octets) >= 3
  BY <1>1
<1>4. /\ Upto(octets)[0] = 0
      /\ Upto(octets)[1] = octets[1].bytes
      /\ Upto(octets)[2] = octets[1].bytes + octets[2].bytes
      /\ Upto(octets)[3] = octets[1].bytes + octets[2].bytes + octets[3].bytes
  BY <1>3, UptoFive
<1>5. /\ Upto(octets)[0] = 0
      /\ Upto(octets)[1] = x.bytes
      /\ Upto(octets)[2] = x.bytes + y.bytes
      /\ Upto(octets)[3] = x.bytes + y.bytes + z.bytes
  BY <1>1, <1>4
<1>6. \A k \in 0 .. Len(octets) : k \in {0, 1, 2, 3}
  BY <1>1
<1>7. \A k \in 0 .. Len(octets) : Upto(octets)[k] = n <=> k = 1
  BY <1>5, <1>6
<1>8. Split(octets, n) = {<<s, t>>}
  BY <1>1, <1>7, SplitAt DEF s, t
<1>9. s = <<x>>
  BY <1>1, <1>2, OneElement DEF CutAt
<1>10. t = <<y, z>>
  BY <1>1, <1>2, TwoElements DEF CutAt
<1> QED BY <1>8, <1>9, <1>10 DEF octets

\* Nothing is not cut.
LEMMA SplitNone ==
  ASSUME NEW n, n # 0
  PROVE  Split(<<>>, n) = {}
<1>1. Len(<<>>) = 0 /\ 0 .. 0 = {0}
  OBVIOUS
<1>2. Upto(<<>>)[0] = 0
  BY <1>1, UptoSteps
<1> QED BY <1>1, <1>2 DEF Split

-----------------------------------------------------------------------------
(* What decaps takes for the parts of a ciphertext.                        *)
KemAlgorithm(a) == AlgorithmShape(a) /\ a.family # "composite-sig"

\* A part of a ciphertext, of the post-quantum and of the traditional half.
PqPart(a, x) == x.kind = "pq" /\ x.bytes = PqCtBytes[a.pq]
TradPart(a, x) ==
  IF a.trad \in Dh THEN x.kind = "point" /\ \E form \in Forms(a.trad) : x.bytes = PointBytes[form]
  ELSE x.kind = "oaep" /\ x.bytes = 256

\* The sizes: a point is shorter than anything post-quantum.
LEMMA PartSizes ==
  ASSUME NEW a, KemAlgorithm(a), NEW p, PqPart(a, p), NEW t, TradPart(a, t)
  PROVE  /\ p.bytes \in Nat /\ p.bytes > 65 /\ t.bytes \in Nat /\ t.bytes > 0
         /\ p.bytes = PqCtBytes[a.pq]
         /\ a.family = "xwing" => p.bytes = 1088 /\ t.bytes = 32
         /\ a.family = "chempat" /\ a.trad = "x25519" => t.bytes = 32
         /\ a.family = "chempat" /\ a.trad = "ecdh" => t.bytes \in {33, 65}
<1>1. /\ PqCtBytes["ml-kem"] = 1088 /\ PqCtBytes["frodokem"] = 15744
      /\ PqCtBytes["sntrup761"] = 1039 /\ PqCtBytes["mceliece"] = 96
  BY DEF PqCtBytes
<1>2. a.pq \in {"ml-kem", "frodokem", "sntrup761", "mceliece"} /\ (a.family = "xwing" => a.pq = "ml-kem")
  BY DEF KemAlgorithm, AlgorithmShape
<1>3. p.bytes = PqCtBytes[a.pq]
  BY DEF PqPart
<1>4. p.bytes \in Nat /\ p.bytes > 65 /\ (a.family = "xwing" => p.bytes = 1088)
  BY <1>1, <1>2, <1>3
<1>5. /\ PointBytes["plain"] = 32 /\ PointBytes["high bit"] = 32
      /\ PointBytes["compressed"] = 33 /\ PointBytes["uncompressed"] = 65
  BY DEF PointBytes
<1>6. a.trad = "x25519" => t.bytes = 32
  BY <1>5 DEF TradPart, Forms, Dh
<1>7. a.trad = "ecdh" => t.bytes \in {33, 65}
  <2>1. a.trad = "ecdh" => \E form \in {"compressed", "uncompressed"} : t.bytes = PointBytes[form]
    BY DEF TradPart, Forms, Dh
  <2>2. a.trad = "ecdh" => \/ t.bytes = PointBytes["compressed"]
                           \/ t.bytes = PointBytes["uncompressed"]
    BY <2>1
  <2> QED BY <1>5, <2>2
<1>8. a.trad \notin {"x25519", "ecdh"} => t.bytes = 256
  BY DEF TradPart, Dh
<1>9. a.family = "xwing" => a.trad = "x25519"
  BY DEF KemAlgorithm, AlgorithmShape
<1> QED BY <1>3, <1>4, <1>6, <1>7, <1>8, <1>9

\* Both parts of a ciphertext that was put together out of two.
Parts(p, t) == [pq |-> <<p>>, trad |-> <<t>>]

\* The length of a point is read off the length of the whole (_check_ct_length).
LEMMA PointLength ==
  ASSUME NEW a, KemAlgorithm(a), a.family = "chempat", NEW p, PqPart(a, p), NEW t, TradPart(a, t)
  PROVE  TradBytes(a, <<t, p>>) = {t.bytes}
<1>1. /\ p.bytes \in Nat /\ p.bytes > 65 /\ t.bytes \in Nat /\ p.bytes = PqCtBytes[a.pq]
      /\ a.trad = "x25519" => t.bytes = 32
      /\ a.trad = "ecdh" => t.bytes \in {33, 65}
  BY PartSizes
<1>2. Bytes(<<t, p>>) = t.bytes + p.bytes
  BY <1>1, BytesTwo
<1>3. a.trad \in {"x25519", "ecdh"}
  BY DEF KemAlgorithm, AlgorithmShape
<1>4. 256 \div 8 = 32
  OBVIOUS
<1>5. CASE a.trad = "x25519"
  <2>1. DhSize(a.trad) = 32
    BY <1>5 DEF DhSize
  <2> QED BY <1>1, <1>2, <1>5, <2>1 DEF TradBytes
<1>6. CASE a.trad = "ecdh"
  <2>1. DhSize(a.trad) = 33
    BY <1>4, <1>6 DEF DhSize
  <2>2. CASE t.bytes = 33
    BY <1>1, <1>2, <1>6, <2>1, <2>2 DEF TradBytes
  <2>3. CASE t.bytes = 65
    BY <1>1, <1>2, <1>6, <2>1, <2>3 DEF TradBytes
  <2> QED BY <1>1, <1>6, <2>2, <2>3
<1> QED BY <1>3, <1>5, <1>6

\* What was put together is taken apart again.
LEMMA ReadWhole ==
  ASSUME NEW a, KemAlgorithm(a), NEW p, PqPart(a, p), NEW t, TradPart(a, t)
  PROVE  Read(a, Joined(a, <<p>>, <<t>>)) = {Parts(p, t)}
<1>1. /\ p.bytes \in Nat /\ p.bytes > 0 /\ t.bytes \in Nat /\ t.bytes > 0 /\ p.bytes = PqCtBytes[a.pq]
      /\ a.family = "xwing" => p.bytes = 1088 /\ t.bytes = 32
  BY PartSizes
<1>2. a.family \in {"chempat", "xwing", "composite-kem"}
  BY DEF KemAlgorithm, AlgorithmShape
<1>3. Joined(a, <<p>>, <<t>>) = IF a.family = "chempat" THEN <<t, p>> ELSE <<p, t>>
  <2>1. <<t>> \o <<p>> = <<t, p>> /\ <<p>> \o <<t>> = <<p, t>>
    BY Concatenated, Zenon
  <2> QED BY <2>1, Zenon DEF Joined
<1>4. CASE a.family = "chempat"
  <2> DEFINE ct == <<t, p>>
  <2>1. Split(ct, t.bytes) = {<< <<t>>, <<p>> >>}
    BY <1>1, SplitTwo
  <2>2. TradBytes(a, ct) = {t.bytes}
    BY <1>4, PointLength
  <2> HIDE DEF ct
  <2>3. Read(a, ct) = {[pq |-> s[2], trad |-> s[1]] : s \in Split(ct, t.bytes)}
    BY <1>4, <2>2 DEF Read
  <2>4. Read(a, ct) = {[pq |-> <<p>>, trad |-> <<t>>]}
    BY <2>1, <2>3
  <2> QED BY <1>3, <1>4, <2>4 DEF Parts, ct
<1>5. CASE a.family = "xwing"
  <2> DEFINE ct == <<p, t>>
  <2>1. Split(ct, 1088) = {<< <<p>>, <<t>> >>}
    BY <1>1, <1>5, SplitTwo
  <2>2. Split(<<t>>, 32) = {<< <<t>>, <<>> >>}
    BY <1>1, <1>5, SplitOne
  <2> HIDE DEF ct
  <2> DEFINE half == << <<p>>, <<t>> >>
             rest == << <<t>>, <<>> >>
             parts(s) == {[pq |-> s[1], trad |-> u[1]] : u \in Split(s[2], 32)}
  <2>3. Read(a, ct) = UNION {parts(s) : s \in Split(ct, 1088)}
    BY <1>5 DEF Read
  <2>4. half[1] = <<p>> /\ half[2] = <<t>> /\ rest[1] = <<t>>
    OBVIOUS
  <2>5. Split(ct, 1088) = {half} /\ Split(<<t>>, 32) = {rest}
    BY <2>1, <2>2
  <2> HIDE DEF half, rest
  <2>6. parts(half) = {[pq |-> <<p>>, trad |-> <<t>>]}
    BY <2>4, <2>5
  <2> HIDE DEF parts
  <2>7. Read(a, ct) = {[pq |-> <<p>>, trad |-> <<t>>]}
    BY <2>3, <2>5, <2>6
  <2> QED BY <1>3, <1>5, <2>7 DEF Parts, ct
<1>6. CASE a.family = "composite-kem"
  <2> DEFINE ct == <<p, t>>
  <2>1. Split(ct, p.bytes) = {<< <<p>>, <<t>> >>}
    BY <1>1, SplitTwo
  <2> HIDE DEF ct
  <2>2. Read(a, ct) = {[pq |-> s[1], trad |-> s[2]] : s \in Split(ct, p.bytes)}
    BY <1>1, <1>6 DEF Read
  <2>3. Read(a, ct) = {[pq |-> <<p>>, trad |-> <<t>>]}
    BY <2>1, <2>2
  <2> QED BY <1>3, <1>6, <2>3 DEF Parts, ct
<1> QED BY <1>2, <1>4, <1>5, <1>6

\* The secrets of both halves, combined over the parts.
Combining(a, used, pub, p, t) ==
  {Combined(a, PqSecret(used.pq, p), ss, <<p>>, <<t>>, pub) :
     ss \in {ss \in TradSecrets(UsesRfc9180(a), used.trad, <<t>>) : HasLabel(a)}}

\* decaps combines the secrets of the two parts it reads.
LEMMA DecapsParts ==
  ASSUME NEW a, NEW p, NEW t, NEW used, NEW pub, NEW ct, Read(a, ct) = {Parts(p, t)}
  PROVE  Decaps(a, used, pub, ct) = Combining(a, used, pub, p, t)
<1> DEFINE part == Parts(p, t)
           secrets(x) == {Combined(a, PqSecret(used.pq, x.pq[1]), ss, x.pq, x.trad, pub) :
                            ss \in TradSecrets(UsesRfc9180(a), used.trad, x.trad)}
<1>1. Read(a, ct) = {part}
  OBVIOUS
<1>2. part.pq = <<p>> /\ part.trad = <<t>> /\ Len(part.pq) = 1 /\ part.pq[1] = p
  BY DEF Parts
<1> HIDE DEF part
<1>3. Decaps(a, used, pub, ct) = UNION {secrets(x) : x \in {x \in {part} : HasLabel(a) /\ Len(x.pq) = 1}}
  BY <1>1 DEF Decaps
<1>4. secrets(part) = {Combined(a, PqSecret(used.pq, p), ss, <<p>>, <<t>>, pub) :
                         ss \in TradSecrets(UsesRfc9180(a), used.trad, <<t>>)}
  BY <1>2
<1>5. CASE HasLabel(a)
  <2>1. Combining(a, used, pub, p, t) = secrets(part)
    BY <1>4, <1>5 DEF Combining
  <2>2. {x \in {part} : HasLabel(a) /\ Len(x.pq) = 1} = {part}
    BY <1>2, <1>5
  <2> HIDE DEF secrets
  <2>3. Decaps(a, used, pub, ct) = UNION {secrets(x) : x \in {part}}
    BY <1>3, <2>2
  <2> QED BY <2>1, <2>3
<1>6. CASE ~HasLabel(a)
  <2>1. Combining(a, used, pub, p, t) = {}
    BY <1>6 DEF Combining
  <2> HIDE DEF secrets
  <2>2. Decaps(a, used, pub, ct) = {}
    BY <1>3, <1>6
  <2> QED BY <2>1, <2>2
<1> QED BY <1>5, <1>6

\* Without parts, or with a traditional part that is not one piece, there is no secret.
LEMMA DecapsNothing ==
  ASSUME NEW a, NEW used, NEW pub, NEW ct, \A part \in Read(a, ct) : Len(part.trad) # 1
  PROVE  Decaps(a, used, pub, ct) = {}
<1>1. \A part \in Read(a, ct) : TradSecrets(UsesRfc9180(a), used.trad, part.trad) = {}
  BY DEF TradSecrets
<1> QED BY <1>1 DEF Decaps

-----------------------------------------------------------------------------
(* What was encapsulated is opened.                                        *)
\* A ciphertext of one's own has one secret with the traditional half.
HasOneSecret(rfc9180, pair, t) == \E s : TradSecrets(rfc9180, pair, <<t>>) = {s}

\* A point, and a ciphertext for the pair itself, has exactly one.
LEMMA OneSecret ==
  ASSUME NEW rfc9180, NEW pair, NEW t, t.kind = "point" \/ (t.kind = "oaep" /\ t.of = pair)
  PROVE  HasOneSecret(rfc9180, pair, t)
<1>1. Len(<<t>>) = 1 /\ <<t>>[1] = t
  OBVIOUS
<1>2. CASE t.kind = "point"
  BY <1>1, <1>2 DEF TradSecrets, HasOneSecret
<1>3. CASE t.kind = "oaep" /\ t.of = pair
  <2>1. TradSecrets(rfc9180, pair, <<t>>) = {<<"oaep", t>>}
    BY <1>1, <1>3 DEF TradSecrets
  <2> QED BY <2>1 DEF HasOneSecret
<1> QED BY <1>2, <1>3

\* The two parts that encaps sends.
SentPq(a, pub, coin) == PqCt(a.pq, pub.pq, coin)
SentTrad(a, pub, coin, eph) ==
  IF a.trad \in Dh THEN Point(eph, SentForm(a.trad)) ELSE Oaep(pub.trad, coin)

\* Both parts are of the kind and the size that is read, and the traditional one has its secret.
LEMMA SentParts ==
  ASSUME NEW a, KemAlgorithm(a), NEW pub, NEW coin, NEW eph
  PROVE  /\ PqPart(a, SentPq(a, pub, coin))
         /\ TradPart(a, SentTrad(a, pub, coin, eph))
         /\ HasOneSecret(UsesRfc9180(a), pub.trad, SentTrad(a, pub, coin, eph))
<1> DEFINE t == SentTrad(a, pub, coin, eph)
<1>1. PqPart(a, SentPq(a, pub, coin))
  BY DEF PqPart, SentPq, PqCt
<1>2. CASE a.trad \in Dh
  <2>1. SentForm(a.trad) \in Forms(a.trad)
    BY DEF SentForm, Forms
  <2>2. t.kind = "point" /\ t.bytes = PointBytes[SentForm(a.trad)]
    BY <1>2 DEF SentTrad, Point
  <2> HIDE DEF t
  <2> QED BY <1>1, <1>2, <2>1, <2>2, OneSecret DEF TradPart, t
<1>3. CASE a.trad \notin Dh
  <2>1. t.kind = "oaep" /\ t.of = pub.trad /\ t.bytes = 256
    BY <1>3 DEF SentTrad, Oaep
  <2> HIDE DEF t
  <2> QED BY <1>1, <1>3, <2>1, OneSecret DEF TradPart, t
<1> QED BY <1>2, <1>3

\* encaps makes a ciphertext unless the key has no label, and decaps finds its secret.
LEMMA EncapsOpens ==
  ASSUME NEW a, KemAlgorithm(a), NEW pub, NEW coin, NEW eph
  PROVE  /\ HasLabel(a) => Encaps(a, pub, coin, eph) # {}
         /\ \A e \in Encaps(a, pub, coin, eph) : Decaps(a, pub, pub, e.ct) = {e.ss}
<1> DEFINE p == SentPq(a, pub, coin)
           t == SentTrad(a, pub, coin, eph)
           ct == Joined(a, <<p>>, <<t>>)
           secret(ss) == Combined(a, PqSecret(pub.pq, p), ss, <<p>>, <<t>>, pub)
           shared == TradSecrets(UsesRfc9180(a), pub.trad, <<t>>)
<1>1. Encaps(a, pub, coin, eph) = {[ct |-> ct, ss |-> secret(ss)] : ss \in {ss \in shared : HasLabel(a)}}
  BY DEF Encaps, SentPq, SentTrad
<1>2. Combining(a, pub, pub, p, t) = {secret(ss) : ss \in {ss \in shared : HasLabel(a)}}
  BY DEF Combining
<1> HIDE DEF p, t
<1>3. Decaps(a, pub, pub, ct) = Combining(a, pub, pub, p, t)
  BY SentParts, ReadWhole, DecapsParts DEF p, t
<1>4. HasOneSecret(UsesRfc9180(a), pub.trad, t)
  BY SentParts DEF t
<1>5. PICK s : shared = {s}
  BY <1>4, Zenon DEF HasOneSecret
<1> HIDE DEF ct, secret, shared
<1>6. CASE HasLabel(a)
  <2>1. {ss \in shared : HasLabel(a)} = {s}
    BY <1>5, <1>6
  <2> DEFINE e == [ct |-> ct, ss |-> secret(s)]
  <2>2. Encaps(a, pub, coin, eph) = {e} /\ Combining(a, pub, pub, p, t) = {secret(s)}
    BY <1>1, <1>2, <2>1
  <2>3. e.ct = ct /\ e.ss = secret(s)
    OBVIOUS
  <2> HIDE DEF e
  <2> QED BY <1>3, <2>2, <2>3
<1>7. CASE ~HasLabel(a)
  BY <1>1, <1>7
<1> QED BY <1>6, <1>7

\* What is made with the public key object a private one opens, as OwnCiphertextOpens has it.
OpensOwn(private, public, pub, other, length, coin, drawn) ==
  LET made == ComputeEncaps(public, other, length, coin, drawn)
  IN  /\ other = None /\ made = {} => private.class = "composite-kem" /\ ~HasLabel(alg)
      /\ \A e \in made : ComputeDecaps(private, pub, e.ct, length)
                           = IF private.class \in BareDh THEN {} ELSE {e.ss}

\* Hybrid keys and each half of them open what was made for them, by the class of the object.
LEMMA ObjectOpens ==
  ASSUME KemAlgorithm(alg), NEW p, NEW r, NEW private \in Objects(alg, [pq |-> p, trad |-> r]),
         NEW other, NEW length, NEW coin, NEW drawn
  PROVE  OpensOwn(private, private, [pq |-> p, trad |-> r], other, length, coin, drawn)
<1> DEFINE pub == [pq |-> p, trad |-> r]
           made == ComputeEncaps(private, other, length, coin, drawn)
           eph == IF other = None THEN drawn ELSE other
           point == Point(eph, SentForm(private.alg.trad))
           pqCt == PqCt(private.alg.pq, private.pq, coin)
           rsaCt == RsaCt(private.trad, coin)
<1>1. PICK class : /\ private = [class |-> class, alg |-> alg, pq |-> p, trad |-> r]
                   /\ class \in RsaClass \cup DhClass \cup {"pq", alg.family}
  BY DEF Objects, RsaClass, DhClass, BareDh
<1>2. private.class = class /\ private.alg = alg /\ private.pq = p /\ private.trad = r
  BY <1>1
<1>3. alg.family \in {"chempat", "xwing", "composite-kem"}
  BY DEF KemAlgorithm, AlgorithmShape
<1>4. <<point>>[1] = point /\ <<pqCt>>[1] = pqCt /\ <<rsaCt>>[1] = rsaCt
  OBVIOUS
<1> DEFINE rsaSs(ct) == RsaSecret(private.trad, ct, length)
           pqSs(ct) == PqSecret(private.pq, ct)
           shared == TradSecrets(Rfc9180(class), private.trad, <<point>>)
           hybrid == Encaps(alg, pub, coin, eph)
<1>5. \/ other # None /\ ~TakesOther(private)
      \/ made = CASE class \in RsaClass -> {[ct |-> <<rsaCt>>, ss |-> rsaSs(<<rsaCt>>[1])]}
                  [] class \in DhClass  -> {[ct |-> <<point>>, ss |-> ss] : ss \in shared}
                  [] class = "pq"       -> {[ct |-> <<pqCt>>, ss |-> pqSs(<<pqCt>>[1])]}
                  [] OTHER              -> hybrid
  BY <1>2, Zenon DEF ComputeEncaps
<1>6. \A ct : ComputeDecaps(private, pub, ct, length) =
        CASE class \in RsaClass          -> {rsaSs(ct[1])}
          [] class \in DhClass \ BareDh  -> TradSecrets(Rfc9180(class), private.trad, ct)
          [] class \in BareDh            -> {}
          [] class = "pq"                -> {pqSs(ct[1])}
          [] OTHER                       -> Decaps(alg, pub, pub, ct)
  BY <1>2, Zenon DEF ComputeDecaps
<1>7. /\ \A x \in RsaClass : x \notin DhClass /\ x \notin BareDh /\ x # "pq"
      /\ \A x \in BareDh : x \in DhClass
      /\ "pq" \notin DhClass /\ "pq" \notin BareDh
  BY DEF RsaClass, DhClass, BareDh
<1> HIDE DEF made, point, pqCt, rsaCt, rsaSs, pqSs, shared, hybrid, pub, eph
<1>8. CASE other # None /\ ~TakesOther(private)
  BY <1>8 DEF OpensOwn, ComputeEncaps
<1>9. CASE ~(other # None /\ ~TakesOther(private))
  <2>1. CASE class \in RsaClass
    <3> DEFINE e == [ct |-> <<rsaCt>>, ss |-> rsaSs(rsaCt)]
    <3>1. made = {e}
      BY <1>4, <1>9, <1>5, <1>7, <2>1
    <3>2. e.ct = <<rsaCt>> /\ e.ss = rsaSs(rsaCt)
      OBVIOUS
    <3> HIDE DEF e
    <3>3. ComputeDecaps(private, pub, <<rsaCt>>, length) = {rsaSs(rsaCt)}
      BY <1>4, <1>6, <1>7, <2>1
    <3> QED BY <1>2, <1>7, <2>1, <3>1, <3>2, <3>3 DEF OpensOwn, made, pub
  <2>2. CASE class \in DhClass
    <3>1. class \notin RsaClass /\ class # "pq"
      BY <1>7, <2>2
    <3>2. made = {[ct |-> <<point>>, ss |-> ss] : ss \in shared}
      BY <1>9, <1>5, <2>2, <3>1
    <3>3. \E s : shared = {s}
      <4>1. point.kind = "point"
        BY DEF Point, point
      <4>2. HasOneSecret(Rfc9180(class), private.trad, point)
        BY <4>1, OneSecret
      <4> QED BY <4>2 DEF HasOneSecret, shared
    <3>4. PICK s : shared = {s}
      BY <3>3
    <3> DEFINE e == [ct |-> <<point>>, ss |-> s]
    <3>5. made = {e}
      BY <3>2, <3>4
    <3>6. e.ct = <<point>> /\ e.ss = s
      OBVIOUS
    <3> HIDE DEF e
    <3>7. ComputeDecaps(private, pub, <<point>>, length) = IF class \in BareDh THEN {} ELSE shared
      BY <1>6, <2>2, <3>1 DEF shared
    <3> QED BY <1>2, <3>4, <3>5, <3>6, <3>7 DEF OpensOwn, made, pub
  <2>3. CASE class = "pq"
    <3> DEFINE e == [ct |-> <<pqCt>>, ss |-> pqSs(pqCt)]
    <3>0. class \notin RsaClass /\ class \notin DhClass /\ class \notin BareDh
      BY <1>7, <2>3
    <3>1. made = {e}
      BY <1>4, <1>9, <1>5, <2>3, <3>0
    <3>2. e.ct = <<pqCt>> /\ e.ss = pqSs(pqCt)
      OBVIOUS
    <3> HIDE DEF e
    <3>3. ComputeDecaps(private, pub, <<pqCt>>, length) = {pqSs(pqCt)}
      BY <1>4, <1>6, <2>3, <3>0
    <3> QED BY <1>2, <3>0, <3>1, <3>2, <3>3 DEF OpensOwn, made, pub
  <2>4. CASE class = alg.family
    <3>0. class \notin RsaClass /\ class \notin DhClass /\ class \notin BareDh /\ class # "pq"
      BY <1>3, <2>4 DEF DhClass, RsaClass, BareDh
    <3>1. made = Encaps(alg, pub, coin, eph)
      BY <1>9, <1>5, <3>0 DEF hybrid
    <3>2. \A ct : ComputeDecaps(private, pub, ct, length) = Decaps(alg, pub, pub, ct)
      BY <1>6, <3>0
    <3>3. /\ HasLabel(alg) => made # {}
          /\ \A e \in made : Decaps(alg, pub, pub, e.ct) = {e.ss}
      BY <3>1, EncapsOpens
    <3>4. ~HasLabel(alg) => alg.family = "composite-kem"
      BY DEF HasLabel, KemAlgorithm, AlgorithmShape
    <3> QED BY <1>2, <2>4, <3>0, <3>2, <3>3, <3>4 DEF OpensOwn, made, pub
  <2> QED BY <1>1, <2>1, <2>2, <2>3, <2>4
<1> QED BY <1>8, <1>9

\* The public key of a key object with an own public half is that of the pairs in use, and if
\* its combination has an identifier it is read back as written.
LEMMA OwnPublicRead ==
  ASSUME IInv, key # NoKey, PublicOf(key) # None, owner # Foreign \/ alg.family # "chempat"
  PROVE  /\ PublicOf(key) = UsedBy(key)
         /\ HandedOut(key) = IF PublicRegistered(alg) THEN {PublicOf(key)} ELSE {}
<1>1. alg \in Algorithms /\ KeyGood(key) /\ (owner # Foreign => OwnPublic(key))
  BY DEF IInv, KeyInv
<1>2. key.pq.pub # None /\ PublicOf(key) = [pq |-> key.pq.pub, trad |-> key.trad]
  BY DEF PublicOf
<1>3. key.pq.pub = key.pq.raw
  BY <1>1, <1>2 DEF KeyGood, OwnPublic
<1>4. PublicOf(key) = UsedBy(key)
  BY <1>1, <1>2, <1>3 DEF UsedBy, KeyGood
<1> DEFINE pub == PublicOf(key)
           form == OwnForm(alg.trad)
<1>5. pub = [pq |-> pub.pq, trad |-> pub.trad]
  BY <1>2
<1>6. form # "high bit"
  BY <1>1, OwnForms
<1>7. HandedOut(key) = IF PublicRegistered(alg) THEN LoadedPublic(PublicOctets(pub, form)) ELSE {}
  BY DEF HandedOut
<1> HIDE DEF pub, form
<1>8. PublicRead(pub, form) = pub
  BY <1>5, <1>6 DEF PublicRead
<1>9. PublicRegistered(alg) => LoadedPublic(PublicOctets(pub, form)) = {pub}
  BY <1>8, PublicLoads DEF PublicRegistered
<1> QED BY <1>4, <1>7, <1>9 DEF pub

\* That of every object, with the pairs in use and the public key as it is kept or handed out.
AllOpened(pairs, pub) ==
  /\ PublicRegistered(alg) => HandedOut(key) # {}
  /\ \A given \in HandedOut(key) \cup {pub}, private \in Objects(alg, pairs), length \in KeyLength,
       other \in Pair \cup {None}, coin \in Coin, drawn \in Pair :
       OpensOwn(private, [private EXCEPT !.pq = given.pq, !.trad = given.trad], pub,
                other, length, coin, drawn)

\* Whoever gets the public key of a key in use, which can be written and loaded if its combination
\* has an identifier, can encapsulate to the key and to each half of it, and it opens what was
\* made (compute_encaps, compute_decaps); a key of any other combination opens what is made
\* with its public key as it is.
THEOREM HybridOwnCiphertextOpens == Spec => []OwnCiphertextOpens
<1>1. IInv => OwnCiphertextOpens
  <2> SUFFICES ASSUME IInv, key # NoKey, alg.family # "composite-sig", PublicOf(key) # None,
                      owner # Foreign \/ alg.family # "chempat"
               PROVE  AllOpened(UsedBy(key), PublicOf(key))
    BY Zenon DEF OwnCiphertextOpens, AllOpened, OpensOwn
  <2> DEFINE pairs == UsedBy(key)
  <2>1. PublicOf(key) = pairs /\ HandedOut(key) = IF PublicRegistered(alg) THEN {pairs} ELSE {}
    BY OwnPublicRead
  <2>2. KemAlgorithm(alg)
    BY AlgorithmsOfFamilies DEF IInv, KemAlgorithm
  <2>3. pairs = [pq |-> pairs.pq, trad |-> pairs.trad]
    BY DEF UsedBy
  <2> HIDE DEF pairs
  <2>4. ASSUME NEW private \in Objects(alg, pairs)
        PROVE  [private EXCEPT !.pq = pairs.pq, !.trad = pairs.trad] = private
    <3>1. PICK class : private = [class |-> class, alg |-> alg, pq |-> pairs.pq, trad |-> pairs.trad]
      BY DEF Objects
    <3>2. /\ [private EXCEPT !.pq = pairs.pq] = private
          /\ [private EXCEPT !.trad = pairs.trad] = private
      BY <3>1
    <3>3. [private EXCEPT !.pq = pairs.pq, !.trad = pairs.trad]
            = [[private EXCEPT !.pq = pairs.pq] EXCEPT !.trad = pairs.trad]
      OBVIOUS
    <3> QED BY <3>2, <3>3
  <2>5. ASSUME NEW private \in Objects(alg, pairs), NEW other, NEW length, NEW coin, NEW drawn
        PROVE  OpensOwn(private, private, pairs, other, length, coin, drawn)
    <3>1. private \in Objects(alg, [pq |-> pairs.pq, trad |-> pairs.trad])
      BY <2>3
    <3>2. OpensOwn(private, private, [pq |-> pairs.pq, trad |-> pairs.trad], other, length, coin, drawn)
      BY <2>2, <3>1, ObjectOpens, Zenon
    <3> QED BY <2>3, <3>2
  <2>6. ASSUME NEW given \in HandedOut(key) \cup {pairs}, NEW private \in Objects(alg, pairs),
               NEW length \in KeyLength, NEW other \in Pair \cup {None},
               NEW coin \in Coin, NEW drawn \in Pair
        PROVE  OpensOwn(private, [private EXCEPT !.pq = given.pq, !.trad = given.trad], pairs,
                        other, length, coin, drawn)
    <3>1. given = pairs
      BY <2>1
    <3>2. [private EXCEPT !.pq = given.pq, !.trad = given.trad] = private
      BY <2>4, <3>1
    <3> QED BY <2>5, <3>2
  <2>7. PublicRegistered(alg) => HandedOut(key) # {}
    BY <2>1
  <2>8. AllOpened(pairs, pairs)
    BY <2>6, <2>7, Zenon DEF AllOpened
  <2> QED BY <2>1, <2>8 DEF pairs
<1> QED BY <1>1, HybridInductive, PTL

-----------------------------------------------------------------------------
(* A ciphertext that is too short or too long.                             *)
\* One piece less or more than two.
LEMMA OneMoreOrLess ==
  ASSUME NEW x, NEW y, NEW z
  PROVE  Front(<<x, y>>) = <<x>> /\ Append(<<x, y>>, z) = <<x, y, z>>
<1> DEFINE s == <<x, y>>
           front == SubSeq(s, 1, 1)
           S == {x, y, z}
           long == Append(s, z)
           rest == SubSeq(s, 1 + 1, Len(s))
<1>1. s \in Seq(S) /\ z \in S /\ 1 \in 0 .. Len(s)
  OBVIOUS
<1>2. Len(s) = 2 /\ s[1] = x /\ s[2] = y
  OBVIOUS
<1> HIDE DEF s, S
<1>3. Front(s) = front
  BY <1>2 DEF Front
<1>4. CutAt(s, 1, <<front, rest>>)
  BY <1>1, Cut
<1> HIDE DEF front, rest
<1>5. front = <<x>>
  <2>1. /\ Len(front) = 1 /\ front[1] = x
        /\ \E T : front \in Seq(T)
    BY <1>2, <1>4 DEF CutAt
  <2> QED BY <2>1, OneElement
<1>6. /\ long \in Seq(S) /\ Len(long) = Len(s) + 1
      /\ \A i \in 1 .. Len(s) : long[i] = s[i]
      /\ long[Len(s) + 1] = z
  BY <1>1
<1> HIDE DEF long
<1>7. long \in Seq(S) /\ Len(long) = 3 /\ long[1] = x /\ long[2] = y /\ long[3] = z
  BY <1>2, <1>6
<1>8. long = <<x, y, z>>
  BY <1>7, ThreeElements
<1> QED BY <1>3, <1>5, <1>8 DEF s, long, front

\* Without its last part nothing is opened.
LEMMA ShortFails ==
  ASSUME NEW a, KemAlgorithm(a), NEW p, PqPart(a, p), NEW t, TradPart(a, t), NEW used, NEW pub
  PROVE  Decaps(a, used, pub, Front(Joined(a, <<p>>, <<t>>))) = {}
<1> DEFINE ct == Front(Joined(a, <<p>>, <<t>>))
<1>1. /\ p.bytes \in Nat /\ p.bytes > 0 /\ t.bytes \in Nat /\ t.bytes > 0 /\ p.bytes = PqCtBytes[a.pq]
      /\ p.bytes > 65
      /\ a.family = "xwing" => p.bytes = 1088 /\ t.bytes = 32
      /\ a.family = "chempat" /\ a.trad = "x25519" => t.bytes = 32
      /\ a.family = "chempat" /\ a.trad = "ecdh" => t.bytes \in {33, 65}
  BY PartSizes
<1>2. a.family \in {"chempat", "xwing", "composite-kem"}
  BY DEF KemAlgorithm, AlgorithmShape
<1>3. ct = IF a.family = "chempat" THEN <<t>> ELSE <<p>>
  <2>1. /\ <<t>> \o <<p>> = <<t, p>> /\ <<p>> \o <<t>> = <<p, t>>
        /\ Front(<<t, p>>) = <<t>> /\ Front(<<p, t>>) = <<p>>
    BY Concatenated, OneMoreOrLess, Zenon
  <2> QED BY <2>1 DEF Joined
<1> HIDE DEF ct
<1>4. CASE a.family = "chempat"
  <2>1. Bytes(ct) = t.bytes
    BY <1>1, <1>3, <1>4, BytesOne
  <2>2. a.trad \in {"x25519", "ecdh"}
    BY <1>4 DEF KemAlgorithm, AlgorithmShape
  <2>3. DhSize(a.trad) \in Nat /\ DhSize(a.trad) >= 1 /\ t.bytes <= 65
    BY <1>1, <1>4, <2>2 DEF DhSize
  <2>4. TradBytes(a, ct) = {}
    BY <1>1, <2>1, <2>3 DEF TradBytes
  <2>5. Read(a, ct) = {}
    BY <1>4, <2>4 DEF Read
  <2> QED BY <2>5, DecapsNothing DEF ct
<1>5. CASE a.family = "xwing"
  <2> DEFINE half == << <<p>>, <<>> >>
             parts(s) == {[pq |-> s[1], trad |-> u[1]] : u \in Split(s[2], 32)}
  <2>1. Split(ct, 1088) = {half}
    BY <1>1, <1>3, <1>5, SplitOne
  <2>2. half[2] = <<>>
    OBVIOUS
  <2>3. Split(half[2], 32) = {}
    BY <2>2, SplitNone
  <2> HIDE DEF half
  <2>4. parts(half) = {}
    BY <2>3
  <2>5. Read(a, ct) = UNION {parts(s) : s \in Split(ct, 1088)}
    BY <1>5 DEF Read
  <2> HIDE DEF parts
  <2>6. Read(a, ct) = {}
    BY <2>1, <2>4, <2>5
  <2> QED BY <2>6, DecapsNothing DEF ct
<1>6. CASE a.family = "composite-kem"
  <2> DEFINE half == << <<p>>, <<>> >>
  <2>1. Split(ct, PqCtBytes[a.pq]) = {half}
    BY <1>1, <1>3, <1>6, SplitOne
  <2>2. Len(half[2]) = 0
    OBVIOUS
  <2> HIDE DEF half
  <2>3. Read(a, ct) = {[pq |-> half[1], trad |-> half[2]]}
    BY <1>6, <2>1 DEF Read
  <2>4. \A part \in Read(a, ct) : Len(part.trad) # 1
    BY <2>2, <2>3
  <2> QED BY <2>4, DecapsNothing DEF ct
<1> QED BY <1>2, <1>4, <1>5, <1>6

\* With a byte behind it X-Wing reads the same parts, and the others nothing.
SameOrNothing(a, used, pub, p, t, ct) == Decaps(a, used, pub, ct) = {} \/ Read(a, ct) = {Parts(p, t)}

\* With a rest behind it a ciphertext is not opened, or read as without it.
LEMMA LongFails ==
  ASSUME NEW a, KemAlgorithm(a), NEW p, PqPart(a, p), NEW t, TradPart(a, t), NEW used, NEW pub,
         NEW rest, rest.bytes = 1
  PROVE  SameOrNothing(a, used, pub, p, t, Append(Joined(a, <<p>>, <<t>>), rest))
<1> DEFINE ct == Append(Joined(a, <<p>>, <<t>>), rest)
<1>1. /\ p.bytes \in Nat /\ p.bytes > 0 /\ t.bytes \in Nat /\ t.bytes > 0 /\ p.bytes = PqCtBytes[a.pq]
      /\ a.family = "xwing" => p.bytes = 1088 /\ t.bytes = 32
      /\ a.family = "chempat" /\ a.trad = "x25519" => t.bytes = 32
      /\ a.family = "chempat" /\ a.trad = "ecdh" => t.bytes \in {33, 65}
      /\ rest.bytes \in Nat /\ rest.bytes > 0
  BY PartSizes
<1>2. a.family \in {"chempat", "xwing", "composite-kem"}
  BY DEF KemAlgorithm, AlgorithmShape
<1>3. ct = IF a.family = "chempat" THEN <<t, p, rest>> ELSE <<p, t, rest>>
  <2>1. <<t>> \o <<p>> = <<t, p>> /\ <<p>> \o <<t>> = <<p, t>>
    BY Concatenated, Zenon
  <2>2. Append(<<t, p>>, rest) = <<t, p, rest>> /\ Append(<<p, t>>, rest) = <<p, t, rest>>
    BY OneMoreOrLess
  <2> QED BY <2>1, <2>2, Zenon DEF Joined
<1> HIDE DEF ct
<1>4. CASE a.family = "chempat"
  <2>1. Bytes(ct) = t.bytes + p.bytes + 1
    BY <1>1, <1>3, <1>4, BytesThree
  <2>2. a.trad \in {"x25519", "ecdh"}
    BY <1>4 DEF KemAlgorithm, AlgorithmShape
  <2>3. 256 \div 8 = 32
    OBVIOUS
  <2>4. DhSize(a.trad) = IF a.trad = "x25519" THEN 32 ELSE 33
    BY <2>3 DEF DhSize
  <2>5. TradBytes(a, ct) = {}
    <3>1. CASE a.trad = "x25519"
      BY <1>1, <1>4, <2>1, <2>4, <3>1 DEF TradBytes
    <3>2. CASE a.trad = "ecdh"
      BY <1>1, <1>4, <2>1, <2>4, <3>2 DEF TradBytes
    <3> QED BY <2>2, <3>1, <3>2
  <2>6. Read(a, ct) = {}
    BY <1>4, <2>5 DEF Read
  <2> QED BY <2>6, DecapsNothing DEF SameOrNothing, ct
<1>5. CASE a.family = "xwing"
  <2> DEFINE half == << <<p>>, <<t, rest>> >>
             tail == << <<t>>, <<rest>> >>
             parts(s) == {[pq |-> s[1], trad |-> u[1]] : u \in Split(s[2], 32)}
  <2>1. Split(ct, 1088) = {half}
    BY <1>1, <1>3, <1>5, SplitThree
  <2>2. half[1] = <<p>> /\ half[2] = <<t, rest>> /\ tail[1] = <<t>>
    OBVIOUS
  <2>3. Split(<<t, rest>>, 32) = {tail}
    BY <1>1, <1>5, SplitTwo
  <2> HIDE DEF half, tail
  <2>4. parts(half) = {[pq |-> <<p>>, trad |-> <<t>>]}
    BY <2>2, <2>3
  <2>5. Read(a, ct) = UNION {parts(s) : s \in Split(ct, 1088)}
    BY <1>5 DEF Read
  <2> HIDE DEF parts
  <2>6. Read(a, ct) = {Parts(p, t)}
    BY <2>1, <2>4, <2>5 DEF Parts
  <2> QED BY <2>6 DEF SameOrNothing, ct
<1>6. CASE a.family = "composite-kem"
  <2> DEFINE half == << <<p>>, <<t, rest>> >>
  <2>1. Split(ct, PqCtBytes[a.pq]) = {half}
    BY <1>1, <1>3, <1>6, SplitThree
  <2>2. Len(half[2]) = 2
    OBVIOUS
  <2> HIDE DEF half
  <2>3. Read(a, ct) = {[pq |-> half[1], trad |-> half[2]]}
    BY <1>6, <2>1 DEF Read
  <2>4. \A part \in Read(a, ct) : Len(part.trad) # 1
    BY <2>2, <2>3
  <2> QED BY <2>4, DecapsNothing DEF SameOrNothing, ct
<1> QED BY <1>2, <1>4, <1>5, <1>6

-----------------------------------------------------------------------------
(* No two ciphertexts have one secret.                                     *)
\* The parts that arrive, and what is put together of them.
PqCts(a) == {PqCt(a.pq, pair, coin) : pair \in Pair, coin \in Coin}
TradCts(a) ==
  IF a.trad \in Dh THEN {Point(eph, form) : eph \in Pair, form \in Forms(a.trad)}
  ELSE {Oaep(pair, coin) : pair \in Pair, coin \in Coin}
Whole(a) == {Joined(a, <<p>>, <<t>>) : p \in PqCts(a), t \in TradCts(a)}
Rest == [kind |-> "rest", of |-> None, with |-> None, bytes |-> 1]

LEMMA ArrivingParts ==
  ASSUME NEW a
  PROVE  /\ Whole(a) \subseteq Arriving(a)
         /\ \A ct \in Arriving(a) : \E whole \in Whole(a) : ct \in {whole, Front(whole), Append(whole, Rest)}
         /\ \A p \in PqCts(a) : PqPart(a, p)
         /\ \A t \in TradCts(a) : TradPart(a, t)
<1>1. /\ Whole(a) \subseteq Arriving(a)
      /\ \A ct \in Arriving(a) : \E whole \in Whole(a) : ct \in {whole, Front(whole), Append(whole, Rest)}
  <2> DEFINE whole == {Joined(a, <<p>>, <<t>>) : p \in PqCts(a), t \in TradCts(a)}
             arriving == whole \cup {Front(ct) : ct \in whole} \cup {Append(ct, Rest) : ct \in whole}
  <2>1. Arriving(a) = arriving
    BY DEF Arriving, PqCts, TradCts, Rest
  <2>2. Whole(a) = whole
    BY DEF Whole
  <2> HIDE DEF whole
  <2> QED BY <2>1, <2>2
<1>2. \A p \in PqCts(a) : PqPart(a, p)
  BY DEF PqCts, PqCt, PqPart
<1>3. \A t \in TradCts(a) : TradPart(a, t)
  <2>1. \A eph, form : Point(eph, form).kind = "point" /\ Point(eph, form).bytes = PointBytes[form]
    BY DEF Point
  <2>2. \A pair, coin : Oaep(pair, coin).kind = "oaep" /\ Oaep(pair, coin).bytes = 256
    BY DEF Oaep
  <2> QED BY <2>1, <2>2 DEF TradCts, TradPart
<1> QED BY <1>1, <1>2, <1>3

\* What arrives and is opened is two parts that are combined.
LEMMA ArrivingOpened ==
  ASSUME NEW a, KemAlgorithm(a), NEW used, NEW pub
  PROVE  /\ \A p \in PqCts(a), t \in TradCts(a) : \E ct \in Arriving(a) :
              Read(a, ct) = {Parts(p, t)} /\ Decaps(a, used, pub, ct) = Combining(a, used, pub, p, t)
         /\ \A ct \in Arriving(a) : Decaps(a, used, pub, ct) # {} =>
              \E p \in PqCts(a), t \in TradCts(a) :
                Read(a, ct) = {Parts(p, t)} /\ Decaps(a, used, pub, ct) = Combining(a, used, pub, p, t)
<1>1. ASSUME NEW p \in PqCts(a), NEW t \in TradCts(a)
      PROVE  LET ct == Joined(a, <<p>>, <<t>>)
             IN  /\ ct \in Arriving(a)
                 /\ Read(a, ct) = {Parts(p, t)} /\ Decaps(a, used, pub, ct) = Combining(a, used, pub, p, t)
  <2>1. PqPart(a, p) /\ TradPart(a, t)
    BY ArrivingParts
  <2>2. Read(a, Joined(a, <<p>>, <<t>>)) = {Parts(p, t)}
    BY <2>1, ReadWhole
  <2>3. Joined(a, <<p>>, <<t>>) \in Arriving(a)
    BY ArrivingParts DEF Whole
  <2> QED BY <2>2, <2>3, DecapsParts
<1>2. ASSUME NEW ct \in Arriving(a), Decaps(a, used, pub, ct) # {}
      PROVE  \E p \in PqCts(a), t \in TradCts(a) :
               Read(a, ct) = {Parts(p, t)} /\ Decaps(a, used, pub, ct) = Combining(a, used, pub, p, t)
  <2>1. PICK whole \in Whole(a) : ct \in {whole, Front(whole), Append(whole, Rest)}
    BY ArrivingParts
  <2>2. PICK p \in PqCts(a), t \in TradCts(a) : whole = Joined(a, <<p>>, <<t>>)
    BY DEF Whole
  <2>3. PqPart(a, p) /\ TradPart(a, t)
    BY ArrivingParts
  <2>4. CASE ct = whole
    BY <1>1, <2>2, <2>4
  <2>5. CASE ct = Front(whole)
    BY <1>2, <2>2, <2>3, <2>5, ShortFails
  <2>6. CASE ct = Append(whole, Rest)
    <3>1. Rest.bytes = 1
      BY DEF Rest
    <3>2. Read(a, ct) = {Parts(p, t)}
      <4> DEFINE long == Append(Joined(a, <<p>>, <<t>>), Rest)
      <4>1. SameOrNothing(a, used, pub, p, t, long)
        BY <2>3, <3>1, LongFails
      <4>2. ct = long
        BY <2>2, <2>6
      <4> QED BY <1>2, <4>1, <4>2 DEF SameOrNothing
    <3>3. Decaps(a, used, pub, ct) = Combining(a, used, pub, p, t)
      BY <3>2, DecapsParts
    <3> QED BY <3>2, <3>3
  <2> QED BY <2>1, <2>4, <2>5, <2>6
<1>3. \A p \in PqCts(a), t \in TradCts(a) : \E ct \in Arriving(a) :
        Read(a, ct) = {Parts(p, t)} /\ Decaps(a, used, pub, ct) = Combining(a, used, pub, p, t)
  BY <1>1
<1> QED BY <1>2, <1>3

\* One ciphertext has at most one secret, and the secret tells both parts of it
\* (kem_combiner): the hash of Chempat takes the ciphertexts, those of the others the
\* traditional one and the post-quantum secret.
LEMMA CombiningBinds ==
  ASSUME NEW a, NEW used, NEW pub, NEW p, NEW t
  PROVE  /\ \A r, s \in Combining(a, used, pub, p, t) : r = s
         /\ \A q, u : \A s \in Combining(a, used, pub, p, t) :
              s \in Combining(a, used, pub, q, u) => p = q /\ t = u
<1>1. ASSUME NEW r \in Combining(a, used, pub, p, t), NEW s \in Combining(a, used, pub, p, t)
      PROVE  r = s
  <2> DEFINE shared == TradSecrets(UsesRfc9180(a), used.trad, <<t>>)
  <2>1. \A x, y \in shared : x = y
    BY DEF TradSecrets
  <2> HIDE DEF shared
  <2> QED BY <2>1 DEF Combining, shared
<1>2. ASSUME NEW q, NEW u, NEW s \in Combining(a, used, pub, p, t), s \in Combining(a, used, pub, q, u)
      PROVE  p = q /\ t = u
  <2>1. PICK x : s = Combined(a, PqSecret(used.pq, p), x, <<p>>, <<t>>, pub)
    BY DEF Combining
  <2>2. PICK y : s = Combined(a, PqSecret(used.pq, q), y, <<q>>, <<u>>, pub)
    BY <1>2 DEF Combining
  <2>3. CASE a.family = "chempat"
    <3>1. s = <<x, PqSecret(used.pq, p), <<t, p>>, pub, a>>
      BY <2>1, <2>3, Concatenated DEF Combined
    <3>2. s = <<y, PqSecret(used.pq, q), <<u, q>>, pub, a>>
      BY <2>2, <2>3, Concatenated DEF Combined
    <3>3. <<t, p>> = <<u, q>>
      BY <3>1, <3>2
    <3> QED BY <3>3
  <2>4. CASE a.family # "chempat"
    <3>1. s = <<PqSecret(used.pq, p), x, <<t>>, pub.trad, a>>
      BY <2>1, <2>4 DEF Combined
    <3>2. s = <<PqSecret(used.pq, q), y, <<u>>, pub.trad, a>>
      BY <2>2, <2>4 DEF Combined
    <3>3. <<t>> = <<u>> /\ <<used.pq, p>> = <<used.pq, q>>
      BY <3>1, <3>2 DEF PqSecret
    <3> QED BY <3>3
  <2> QED BY <2>3, <2>4
<1> QED BY <1>1, <1>2

\* The image of a finite set, and of one on which the function is an injection.
LEMMA ImageFinite ==
  ASSUME NEW S, IsFiniteSet(S), NEW f
  PROVE  /\ IsFiniteSet({f[x] : x \in S})
         /\ (\A x, y \in S : f[x] = f[y] => x = y) => Cardinality({f[x] : x \in S}) = Cardinality(S)
<1> DEFINE T == {f[x] : x \in S}
           g == [x \in S |-> f[x]]
<1>1. g \in [S -> T] /\ (\A y \in T : \E x \in S : g[x] = y) /\ (\A x \in S : g[x] = f[x])
  OBVIOUS
<1> HIDE DEF T, g
<1>2. g \in Surjection(S, T)
  BY <1>1, Fun_IsSurj
<1>3. (\A x, y \in S : f[x] = f[y] => x = y) => g \in Injection(S, T)
  BY <1>1, Fun_IsInj
<1>4. IsFiniteSet(T) /\ (Cardinality(T) = Cardinality(S) <=> g \in Injection(S, T))
  BY <1>2, FS_Surjection
<1> QED BY <1>3, <1>4 DEF T

\* A set that is no larger than the pairs of two finite ones.
FromTwo(f, A, B, T) == \A y \in T : \E x \in A, z \in B : y = f[<<x, z>>]

\* Such a set is finite.
LEMMA FiniteOfTwo ==
  ASSUME NEW A, IsFiniteSet(A), NEW B, IsFiniteSet(B), NEW f, NEW T, FromTwo(f, A, B, T)
  PROVE  IsFiniteSet(T)
<1> DEFINE S == A \X B
<1>1. IsFiniteSet(S)
  BY FS_Product
<1>2. \A y \in T : \E x \in S : y = f[x]
  <2>1. \A x \in A, z \in B : <<x, z>> \in S
    OBVIOUS
  <2> HIDE DEF S
  <2> QED BY <2>1 DEF FromTwo
<1> HIDE DEF S
<1>3. IsFiniteSet({f[x] : x \in S})
  BY <1>1, ImageFinite
<1>4. T \in SUBSET {f[x] : x \in S}
  BY <1>2
<1> QED BY <1>3, <1>4, FS_Subset

\* There are finitely many parts, as there are finitely many keys and coins.
LEMMA FiniteParts ==
  ASSUME NEW a
  PROVE  IsFiniteSet(PqCts(a)) /\ IsFiniteSet(TradCts(a))
<1>2. IsFiniteSet(Forms(a.trad))
  <2>1. \A x, y : IsFiniteSet({x, y})
    <3>1. \A x : IsFiniteSet({x})
      BY FS_Singleton
    <3>2. \A x, y : {x} \cup {y} = {x, y}
      OBVIOUS
    <3>3. ASSUME NEW x, NEW y PROVE IsFiniteSet({x} \cup {y})
      BY <3>1, FS_Union
    <3> QED BY <3>2, <3>3
  <2> QED BY <2>1 DEF Forms
<1>4. IsFiniteSet(PqCts(a))
  <2> DEFINE f == [x \in Pair \X Coin |-> PqCt(a.pq, x[1], x[2])]
  <2>1. \A pair \in Pair, coin \in Coin : f[<<pair, coin>>] = PqCt(a.pq, pair, coin)
    OBVIOUS
  <2> HIDE DEF f
  <2>2. FromTwo(f, Pair, Coin, PqCts(a))
    BY <2>1 DEF PqCts, FromTwo
  <2> QED BY <2>2, FinitenessAssumption, FiniteOfTwo
<1>5. IsFiniteSet(TradCts(a))
  <2>1. CASE a.trad \in Dh
    <3> DEFINE f == [x \in Pair \X Forms(a.trad) |-> Point(x[1], x[2])]
    <3>1. \A eph \in Pair, form \in Forms(a.trad) : f[<<eph, form>>] = Point(eph, form)
      OBVIOUS
    <3> HIDE DEF f
    <3>2. FromTwo(f, Pair, Forms(a.trad), TradCts(a))
      BY <2>1, <3>1 DEF TradCts, FromTwo
    <3> QED BY <1>2, <3>2, FinitenessAssumption, FiniteOfTwo
  <2>2. CASE a.trad \notin Dh
    <3> DEFINE f == [x \in Pair \X Coin |-> Oaep(x[1], x[2])]
    <3>1. \A pair \in Pair, coin \in Coin : f[<<pair, coin>>] = Oaep(pair, coin)
      OBVIOUS
    <3> HIDE DEF f
    <3>2. FromTwo(f, Pair, Coin, TradCts(a))
      BY <2>2, <3>1 DEF TradCts, FromTwo
    <3> QED BY <3>2, FinitenessAssumption, FiniteOfTwo
  <2> QED BY <2>1, <2>2
<1> QED BY <1>4, <1>5

\* As many secrets as pairs of parts that are read.
LEMMA AsManySecrets ==
  ASSUME NEW a, KemAlgorithm(a), NEW used, NEW pub
  PROVE  LET opened == {ct \in Arriving(a) : Decaps(a, used, pub, ct) # {}}
         IN  Cardinality(UNION {Decaps(a, used, pub, ct) : ct \in opened})
               = Cardinality({Read(a, ct) : ct \in opened})
<1> DEFINE opened == {ct \in Arriving(a) : Decaps(a, used, pub, ct) # {}}
           secrets == UNION {Decaps(a, used, pub, ct) : ct \in opened}
           reads == {Read(a, ct) : ct \in opened}
           combined(g) == Combining(a, used, pub, g[1], g[2])
           all == PqCts(a) \X TradCts(a)
           G == {g \in all : combined(g) # {}}
           f == [g \in G |-> CHOOSE s : s \in combined(g)]
           h == [g \in G |-> {Parts(g[1], g[2])}]
<1>1. IsFiniteSet(all) /\ G \in SUBSET all
  BY FiniteParts, FS_Product
<1>2. IsFiniteSet(G)
  <2> HIDE DEF G, all
  <2> QED BY <1>1, FS_Subset
<1>3. \A g \in G : g = <<g[1], g[2]>> /\ g[1] \in PqCts(a) /\ g[2] \in TradCts(a)
  OBVIOUS
<1>4. \A g \in G : f[g] \in combined(g) /\ h[g] = {Parts(g[1], g[2])}
  OBVIOUS
<1>5. \A g \in G : \A s \in combined(g) : s = f[g]
  BY <1>4, CombiningBinds
<1>6. \A p \in PqCts(a), t \in TradCts(a) : \A s \in Combining(a, used, pub, p, t) :
        \E g \in G : g = <<p, t>> /\ s = f[g]
  <2> SUFFICES ASSUME NEW p \in PqCts(a), NEW t \in TradCts(a), NEW s \in Combining(a, used, pub, p, t)
               PROVE  \E g \in G : g = <<p, t>> /\ s = f[g]
    OBVIOUS
  <2> DEFINE g == <<p, t>>
  <2>1. g \in all /\ combined(g) = Combining(a, used, pub, p, t)
    OBVIOUS
  <2>2. g \in G /\ s \in combined(g)
    BY <2>1
  <2> HIDE DEF f, G, combined, all, g
  <2>3. s = f[g]
    BY <1>5, <2>2
  <2> QED BY <2>2, <2>3 DEF g
<1>7. \A ct \in opened : \E g \in G :
        Read(a, ct) = {Parts(g[1], g[2])} /\ Decaps(a, used, pub, ct) = combined(g)
  <2> SUFFICES ASSUME NEW ct \in opened
               PROVE  \E g \in G : Read(a, ct) = {Parts(g[1], g[2])} /\ Decaps(a, used, pub, ct) = combined(g)
    OBVIOUS
  <2>1. PICK p \in PqCts(a), t \in TradCts(a) :
          Read(a, ct) = {Parts(p, t)} /\ Decaps(a, used, pub, ct) = Combining(a, used, pub, p, t)
    BY ArrivingOpened
  <2>2. Combining(a, used, pub, p, t) # {}
    BY <2>1
  <2> DEFINE g == <<p, t>>
  <2>3. g \in G /\ g[1] = p /\ g[2] = t
    BY <2>2
  <2> HIDE DEF g, G
  <2> QED BY <2>1, <2>3
<1>8. \A g \in G : \E ct \in opened :
        Read(a, ct) = {Parts(g[1], g[2])} /\ Decaps(a, used, pub, ct) = combined(g)
  <2> SUFFICES ASSUME NEW g \in G
               PROVE  \E ct \in opened :
                        Read(a, ct) = {Parts(g[1], g[2])} /\ Decaps(a, used, pub, ct) = combined(g)
    OBVIOUS
  <2>1. PICK ct \in Arriving(a) : /\ Read(a, ct) = {Parts(g[1], g[2])}
                                  /\ Decaps(a, used, pub, ct) = Combining(a, used, pub, g[1], g[2])
    BY <1>3, ArrivingOpened
  <2>2. ct \in opened
    BY <2>1
  <2> QED BY <2>1, <2>2
<1> HIDE DEF f, h, G, combined, opened
<1>9. secrets = {f[g] : g \in G}
  BY <1>4, <1>5, <1>7, <1>8
<1>10. reads = {h[g] : g \in G}
  <2>1. \A ct \in opened : \E g \in G : Read(a, ct) = h[g]
    BY <1>4, <1>7, Zenon
  <2>2. \A g \in G : \E ct \in opened : Read(a, ct) = h[g]
    BY <1>4, <1>8, Zenon
  <2> QED BY <2>1, <2>2, Zenon
<1>11. \A g, k \in G : f[g] = f[k] => g = k
  <2> SUFFICES ASSUME NEW g \in G, NEW k \in G, f[g] = f[k] PROVE g = k
    OBVIOUS
  <2>1. f[g] \in Combining(a, used, pub, g[1], g[2]) /\ f[g] \in Combining(a, used, pub, k[1], k[2])
    BY <1>4 DEF combined
  <2>2. g[1] = k[1] /\ g[2] = k[2]
    BY <2>1, CombiningBinds
  <2> QED BY <1>3, <2>2
<1>12. \A g, k \in G : h[g] = h[k] => g = k
  <2> SUFFICES ASSUME NEW g \in G, NEW k \in G, h[g] = h[k] PROVE g = k
    OBVIOUS
  <2>1. Parts(g[1], g[2]) = Parts(k[1], k[2])
    BY <1>4
  <2>2. <<g[1]>> = <<k[1]>> /\ <<g[2]>> = <<k[2]>>
    BY <2>1 DEF Parts
  <2>3. g[1] = k[1] /\ g[2] = k[2]
    BY <2>2
  <2> QED BY <1>3, <2>3
<1>13. Cardinality({f[g] : g \in G}) = Cardinality(G) /\ Cardinality({h[g] : g \in G}) = Cardinality(G)
  BY <1>2, <1>11, <1>12, ImageFinite
<1> QED BY <1>9, <1>10, <1>13 DEF opened

\* A key that opens two ciphertexts makes two secrets of them (kem_combiner of the three
\* families), however many keys and coins there are.
THEOREM HybridCiphertextBound == Spec => []CiphertextBound
<1>1. IInv => CiphertextBound
  <2> SUFFICES ASSUME IInv, key # NoKey, alg.family # "composite-sig"
               PROVE  LET opened == {ct \in Arriving(alg) : Opened(key, ct) # {}}
                      IN  Cardinality(UNION {Opened(key, ct) : ct \in opened})
                            = Cardinality({Read(alg, ct) : ct \in opened})
    BY DEF CiphertextBound
  <2>1. KemAlgorithm(alg)
    BY AlgorithmsOfFamilies DEF IInv, KemAlgorithm
  <2>2. CASE PublicOf(key) = None
    <3>1. \A ct : Opened(key, ct) = {}
      BY <2>2 DEF Opened
    <3>2. {ct \in Arriving(alg) : Opened(key, ct) # {}} = {}
      BY <3>1
    <3> QED BY <3>2
  <2>3. CASE PublicOf(key) # None
    <3>1. \A ct : Opened(key, ct) = Decaps(alg, UsedBy(key), PublicOf(key), ct)
      BY <2>3 DEF Opened
    <3> QED BY <2>1, <3>1, AsManySecrets
  <2> QED BY <2>2, <2>3
<1> QED BY <1>1, HybridInductive, PTL
=============================================================================
