----------------------------- MODULE FoKem_proofs ----------------------------
(***************************************************************************)
(* Theorems about the key objects of ML-KEM and FrodoKEM (FoKem), for every *)
(* parameter set: packing keeps the length of what it packs, so the public  *)
(* half lies where the classes cut it from the private bytes; and secrets   *)
(* tell ciphertext and pair, so that the objects are an ideal KEM whenever  *)
(* decapsulation with a pair as generated undoes encapsulation.             *)
(***************************************************************************)
EXTENDS FoKem, SequenceTheorems, FiniteSetTheorems, WellFoundedInduction, TLAPS

-----------------------------------------------------------------------------
(* Sequences.                                                               *)
\* Induction over the natural numbers, for sets.
LEMMA SetInduction ==
  ASSUME NEW S, 0 \in S, \A n \in Nat : n \in S => n + 1 \in S
  PROVE  Nat \subseteq S
<1> SUFFICES ASSUME Nat \ S # {} PROVE FALSE
  OBVIOUS
<1> DEFINE R == OpToRel(<, Nat)
<1>1. \A m, n \in Nat : m < n => <<m, n>> \in R
  BY DEF OpToRel
<1>2. IsWellFoundedOn(R, Nat)
  BY NatLessThanWellFounded
<1> HIDE DEF R
<1>3. PICK n \in Nat \ S : \A m \in Nat \ S : <<m, n>> \notin R
  BY <1>2, WFMin
<1>4. n # 0 /\ n - 1 \in Nat /\ n - 1 < n
  BY <1>3
<1>5. <<n - 1, n>> \in R
  BY <1>1, <1>4
<1>6. n - 1 \in S
  BY <1>3, <1>4, <1>5
<1>7. n - 1 + 1 = n
  BY <1>3
<1> QED BY <1>3, <1>4, <1>6, <1>7

\* The loop behind FlattenSeq, and what it has after each turn.
Loop(seqs, m, f) == f = [i \in 1 .. m |-> IF i = 1 THEN seqs[i] ELSE f[i - 1] \o seqs[i]]

\* It has a result.
LEMMA LoopExists ==
  ASSUME NEW n \in Nat, NEW seqs
  PROVE  \E f : Loop(seqs, n, f)
<1> DEFINE S == {m \in Nat : \E f : Loop(seqs, m, f)}
<1>1. 0 \in S
  <2>1. Loop(seqs, 0, [i \in 1 .. 0 |-> <<>>])
    BY DEF Loop
  <2> QED BY <2>1
<1>2. ASSUME NEW m \in Nat, m \in S PROVE m + 1 \in S
  <2>1. PICK f : Loop(seqs, m, f)
    BY <1>2
  <2> DEFINE next == IF m = 0 THEN seqs[1] ELSE f[m] \o seqs[m + 1]
             g == [i \in 1 .. m + 1 |-> IF i = m + 1 THEN next ELSE f[i]]
  <2>2. ASSUME NEW i \in 1 .. m + 1 PROVE g[i] = IF i = 1 THEN seqs[i] ELSE g[i - 1] \o seqs[i]
    <3>1. CASE i = m + 1 /\ m = 0
      BY <3>1
    <3>2. CASE i = m + 1 /\ m # 0
      <4>1. i - 1 = m /\ m \in 1 .. m + 1 /\ m # m + 1 /\ i # 1
        BY <3>2
      <4>2. g[m] = f[m] /\ g[i] = f[m] \o seqs[i]
        BY <3>2, <4>1
      <4> HIDE DEF g
      <4> QED BY <4>1, <4>2
    <3>3. CASE i # m + 1
      <4>1. i \in 1 .. m /\ g[i] = f[i]
        BY <3>3
      <4>2. f[i] = IF i = 1 THEN seqs[i] ELSE f[i - 1] \o seqs[i]
        BY <2>1, <4>1 DEF Loop
      <4>3. i # 1 => g[i - 1] = f[i - 1]
        BY <4>1
      <4> HIDE DEF g
      <4> QED BY <4>1, <4>2, <4>3
    <3> QED BY <3>1, <3>2, <3>3
  <2>3. Loop(seqs, m + 1, g)
    BY <2>2 DEF Loop
  <2> QED BY <2>3
<1> HIDE DEF S
<1>3. n \in S
  BY <1>1, <1>2, SetInduction
<1> QED BY <1>3 DEF S

\* Sequences of one length.
Alike(seqs, n, d, V) == seqs \in [1 .. n -> Seq(V)] /\ \A i \in 1 .. n : Len(seqs[i]) = d
Joined(s, n, d, V) == s \in Seq(V) /\ Len(s) = n * d

\* Joined they are as long as all of them.
LEMMA FlattenLength ==
  ASSUME NEW n \in Nat, n > 0, NEW d \in Nat, NEW V, NEW seqs, Alike(seqs, n, d, V)
  PROVE  Joined(FlattenSeq(seqs), n, d, V)
<1> DEFINE f == CHOOSE f : Loop(seqs, n, f)
<1>1. Loop(seqs, n, f)
  BY LoopExists
<1>2. Len(seqs) = n /\ seqs \in [1 .. n -> Seq(V)]
  BY DEF Alike
<1>3. FlattenSeq(seqs) = f[n]
  BY <1>2 DEF FlattenSeq, Loop
<1> HIDE DEF f
<1>4. \A i \in 1 .. n : f[i] = IF i = 1 THEN seqs[i] ELSE f[i - 1] \o seqs[i]
  BY <1>1 DEF Loop
<1> DEFINE S == {m \in Nat : m + 1 <= n => Joined(f[m + 1], m + 1, d, V)}
<1>5. 0 \in S
  <2>1. 1 \in 1 .. n /\ 0 + 1 = 1 /\ 1 * d = d
    OBVIOUS
  <2>2. f[1] \in Seq(V) /\ Len(f[1]) = d
    BY <1>2, <1>4, <2>1 DEF Alike
  <2>3. Joined(f[1], 1, d, V)
    BY <2>1, <2>2 DEF Joined
  <2> QED BY <2>1, <2>3
<1>6. ASSUME NEW m \in Nat, m \in S PROVE m + 1 \in S
  <2> SUFFICES ASSUME m + 1 + 1 <= n PROVE Joined(f[m + 1 + 1], m + 1 + 1, d, V)
    OBVIOUS
  <2> DEFINE k == m + 1
  <2>1. k \in 1 .. n /\ k + 1 \in 1 .. n /\ k + 1 # 1 /\ (k + 1) - 1 = k /\ k + 1 <= n
    OBVIOUS
  <2>2. Joined(f[k], k, d, V)
    BY <1>6, <2>1
  <2> HIDE DEF k
  <2>3. f[k + 1] = f[k] \o seqs[k + 1]
    BY <1>4, <2>1
  <2>4. seqs[k + 1] \in Seq(V) /\ Len(seqs[k + 1]) = d
    BY <2>1 DEF Alike
  <2> DEFINE a == f[k]
             b == seqs[k + 1]
  <2>5. f[k + 1] \in Seq(V) /\ Len(f[k + 1]) = k * d + d
    <3>1. a \in Seq(V) /\ b \in Seq(V) /\ Len(a) = k * d /\ Len(b) = d
      BY <2>2, <2>4 DEF Joined
    <3> HIDE DEF a, b
    <3>2. a \o b \in Seq(V) /\ Len(a \o b) = Len(a) + Len(b)
      BY <3>1
    <3>3. f[k + 1] = a \o b
      BY <2>3 DEF a, b
    <3> QED BY <3>1, <3>2, <3>3
  <2>6. k * d + d = (k + 1) * d
    BY <2>1
  <2>7. Joined(f[k + 1], k + 1, d, V)
    BY <2>5, <2>6 DEF Joined
  <2> QED BY <2>7 DEF k
<1> HIDE DEF S
<1>7. n - 1 \in Nat /\ n - 1 \in S
  BY <1>5, <1>6, SetInduction
<1>8. n - 1 + 1 = n
  OBVIOUS
<1> QED BY <1>3, <1>7, <1>8 DEF S

\* b lies in s behind the first a elements.
Lies(s, a, b) ==
  /\ a \in Nat /\ a + Len(b) <= Len(s)
  /\ \A i \in 1 .. Len(b) : s[i + a] = b[i]

\* It does once it was appended, and what is appended later leaves it there.
LEMMA LiesAppended ==
  ASSUME NEW V, NEW s \in Seq(V), NEW b \in Seq(V)
  PROVE  /\ Lies(s \o b, Len(s), b)
         /\ \A a, c : Lies(s, a, c) /\ c \in Seq(V) => Lies(s \o b, a, c)
<1>1. Len(s) \in Nat /\ Len(b) \in Nat /\ Len(s \o b) = Len(s) + Len(b)
  OBVIOUS
<1>2. \A i \in 1 .. Len(b) : (s \o b)[i + Len(s)] = b[i]
  OBVIOUS
<1>3. ASSUME NEW a, NEW c, Lies(s, a, c), c \in Seq(V) PROVE Lies(s \o b, a, c)
  <2>1. a \in Nat /\ a + Len(c) <= Len(s) /\ Len(c) \in Nat
    BY <1>3 DEF Lies
  <2>2. ASSUME NEW i \in 1 .. Len(c) PROVE (s \o b)[i + a] = c[i]
    <3>1. i + a \in 1 .. Len(s)
      BY <1>1, <2>1
    <3> DEFINE k == i + a
    <3>2. s[k] = c[i]
      BY <1>3 DEF Lies
    <3>3. k \in 1 .. Len(s)
      BY <3>1
    <3> HIDE DEF k
    <3>4. (s \o b)[k] = s[k]
      BY <3>3
    <3>5. (s \o b)[k] = c[i]
      BY <3>2, <3>4
    <3> QED BY <3>5 DEF k
  <2>3. a + Len(c) <= Len(s \o b)
    BY <1>1, <2>1
  <2> QED BY <2>1, <2>2, <2>3 DEF Lies
<1> QED BY <1>1, <1>2, <1>3 DEF Lies

\* And can be cut out again.
LEMMA CutOut ==
  ASSUME NEW V, NEW s \in Seq(V), NEW b \in Seq(V), NEW a, Lies(s, a, b),
         NEW from, NEW to, from = a + 1, to = a + Len(b)
  PROVE  SubSeq(s, from, to) = b
<1>1. a \in Nat /\ a + Len(b) <= Len(s) /\ Len(b) \in Nat /\ Len(s) \in Nat
  BY DEF Lies
<1> DEFINE t == SubSeq(s, from, to)
<1>2. t = [i \in 1 .. Len(b) |-> s[i + a]]
  <2>1. to - from + 1 = Len(b)
    BY <1>1
  <2>2. \A i \in 1 .. Len(b) : from + i - 1 = i + a
    BY <1>1
  <2>3. t = [i \in 1 .. to - from + 1 |-> s[from + i - 1]]
    BY <1>1
  <2> HIDE DEF t
  <2> QED BY <2>1, <2>2, <2>3
<1>3. t = [i \in 1 .. Len(b) |-> b[i]]
  BY <1>2 DEF Lies
<1> HIDE DEF t
<1>4. b = [i \in 1 .. Len(b) |-> b[i]]
  OBVIOUS
<1>5. t = b
  BY <1>3, <1>4
<1> QED BY <1>5 DEF t

\* A function on 1 .. n is a sequence of its values.
LEMMA SequenceOf ==
  ASSUME NEW n \in Nat, NEW f, f = [i \in 1 .. n |-> f[i]], NEW V, \A i \in 1 .. n : f[i] \in V
  PROVE  f \in Seq(V) /\ Len(f) = n
<1>1. f \in [1 .. n -> V]
  OBVIOUS
<1> QED BY <1>1

-----------------------------------------------------------------------------
(* ML-KEM: the public key lies between the secret vector and its hash.      *)
\* The powers of two up to 2^e.
Power(e, f) == f = [k \in 0 .. e |-> IF k = 0 THEN 1 ELSE 2 * f[k - 1]]

\* There is at least one coefficient.
LEMMA CoefficientsAre == N \in Nat /\ N > 0
<1> DEFINE S == {e \in Nat : \E f : Power(e, f) /\ f[e] \in Nat /\ f[e] > 0}
           T == {e \in Nat : \A f : Power(LogN, f) /\ e <= LogN => f[e] \in Nat /\ f[e] > 0}
<1>1. LogN \in Nat
  BY MlKemAssumption
<1>2. 0 \in S
  <2> DEFINE f == [k \in 0 .. 0 |-> 1]
  <2>1. Power(0, f) /\ f[0] = 1
    BY DEF Power
  <2> HIDE DEF f
  <2> QED BY <2>1
<1>3. ASSUME NEW e \in Nat, e \in S PROVE e + 1 \in S
  <2>1. PICK f : Power(e, f) /\ f[e] \in Nat /\ f[e] > 0
    BY <1>3
  <2> DEFINE g == [k \in 0 .. e + 1 |-> IF k = e + 1 THEN 2 * f[e] ELSE f[k]]
  <2>2. ASSUME NEW k \in 0 .. e + 1 PROVE g[k] = IF k = 0 THEN 1 ELSE 2 * g[k - 1]
    <3>1. CASE k = e + 1
      <4>1. k - 1 = e /\ e \in 0 .. e + 1 /\ e # e + 1 /\ k # 0
        BY <3>1
      <4>2. g[e] = f[e] /\ g[k] = 2 * f[e]
        BY <3>1, <4>1
      <4> HIDE DEF g
      <4> QED BY <4>1, <4>2
    <3>2. CASE k # e + 1
      <4>1. k \in 0 .. e /\ g[k] = f[k]
        BY <3>2
      <4>2. f[k] = IF k = 0 THEN 1 ELSE 2 * f[k - 1]
        BY <2>1, <4>1 DEF Power
      <4>3. k # 0 => g[k - 1] = f[k - 1]
        BY <4>1
      <4> HIDE DEF g
      <4> QED BY <4>1, <4>2, <4>3
    <3> QED BY <3>1, <3>2
  <2>3. Power(e + 1, g)
    BY <2>2 DEF Power
  <2>4. g[e + 1] \in Nat /\ g[e + 1] > 0
    <3>1. g[e + 1] = 2 * f[e]
      OBVIOUS
    <3> HIDE DEF g
    <3> QED BY <2>1, <3>1
  <2> HIDE DEF g
  <2> QED BY <2>3, <2>4
<1>4. LogN \in S
  <2> HIDE DEF S
  <2> QED BY <1>1, <1>2, <1>3, SetInduction
<1> DEFINE power == CHOOSE f : Power(LogN, f)
<1>5. Power(LogN, power)
  BY <1>4
<1>6. N = power[LogN]
  BY DEF N, Power
<1>7. 0 \in T
  BY <1>1 DEF Power
<1>8. ASSUME NEW e \in Nat, e \in T PROVE e + 1 \in T
  <2> SUFFICES ASSUME NEW f, Power(LogN, f), e + 1 <= LogN PROVE f[e + 1] \in Nat /\ f[e + 1] > 0
    OBVIOUS
  <2>1. f[e] \in Nat /\ f[e] > 0
    <3>1. e <= LogN
      BY <1>1
    <3> QED BY <1>8, <3>1
  <2>2. e + 1 \in 0 .. LogN /\ e + 1 # 0 /\ (e + 1) - 1 = e
    BY <1>1
  <2>3. f[e + 1] = 2 * f[e]
    BY <2>2 DEF Power
  <2> QED BY <2>1, <2>3
<1>9. LogN \in T
  <2> HIDE DEF T
  <2> QED BY <1>1, <1>7, <1>8, SetInduction
<1> HIDE DEF power
<1> QED BY <1>1, <1>5, <1>6, <1>9

\* A packed polynomial is a string of PolySize(12) bytes.
LEMMA EncodedLength ==
  ASSUME NEW f
  PROVE  /\ DOMAIN ByteEncode(12, f) = 1 .. PolySize(12) /\ PolySize(12) \in Nat
         /\ ByteEncode(12, f) = [i \in 1 .. PolySize(12) |-> ByteEncode(12, f)[i]]
<1> DEFINE bits == [i \in 1 .. N |-> BitsOf(f[i - 1] % Field(12), 12)]
           V == {bits[i][j] : i \in 1 .. N, j \in 1 .. 12}
           b == FlattenSeq(bits)
<1>1. N \in Nat /\ N > 0 /\ 12 \in Nat
  BY CoefficientsAre
<1>2. Alike(bits, N, 12, V)
  <2>1. ASSUME NEW i \in 1 .. N PROVE bits[i] \in Seq(V) /\ Len(bits[i]) = 12
    <3>1. bits[i] = [j \in 1 .. 12 |-> bits[i][j]]
      BY DEF BitsOf
    <3>2. \A j \in 1 .. 12 : bits[i][j] \in V
      OBVIOUS
    <3> HIDE DEF bits, V
    <3> DEFINE e == bits[i]
    <3>3. e = [j \in 1 .. 12 |-> e[j]] /\ \A j \in 1 .. 12 : e[j] \in V
      BY <3>1, <3>2
    <3> HIDE DEF e
    <3>4. e \in Seq(V) /\ Len(e) = 12
      BY <1>1, <3>3, SequenceOf
    <3> QED BY <3>4 DEF e
  <2>2. bits = [i \in 1 .. N |-> bits[i]]
    OBVIOUS
  <2> HIDE DEF bits, V
  <2>3. bits \in [1 .. N -> Seq(V)]
    BY <2>1, <2>2
  <2> QED BY <2>1, <2>3 DEF Alike
<1> HIDE DEF bits, V
<1>3. Joined(b, N, 12, V)
  BY <1>1, <1>2, FlattenLength
<1> HIDE DEF b
<1>4. Len(b) = N * 12
  BY <1>3 DEF Joined
<1>5. Len(b) \div 8 = PolySize(12) /\ PolySize(12) \in Nat
  BY <1>1, <1>4 DEF PolySize
<1>6. ByteEncode(12, f) = BitsToBytes(b)
  BY DEF ByteEncode, b, bits
<1> DEFINE y == ByteEncode(12, f)
           Byte(i) == Value(SubSeq(b, 8 * i - 7, 8 * i))
<1>7. y = [i \in 1 .. PolySize(12) |-> Byte(i)]
  BY <1>5, <1>6 DEF BitsToBytes
<1> HIDE DEF Byte, y
<1>8. DOMAIN y = 1 .. PolySize(12) /\ y = [i \in 1 .. PolySize(12) |-> y[i]]
  BY <1>7
<1> QED BY <1>5, <1>8 DEF y

\* A packed vector is K of them; its elements are those of V.
Elements(v) == {ByteEncode(12, v[i - 1])[j] : i \in 1 .. K, j \in 1 .. PolySize(12)}

\* The length of a packed vector, and what its elements are.
LEMMA VectorLength ==
  ASSUME NEW v, NEW V, Elements(v) \subseteq V
  PROVE  Joined(EncodeVector(12, v), K, PolySize(12), V)
<1> DEFINE polys == [i \in 1 .. K |-> ByteEncode(12, v[i - 1])]
<1>1. K \in Nat /\ K > 0 /\ PolySize(12) \in Nat
  BY MlKemAssumption, EncodedLength
<1>2. ASSUME NEW i \in 1 .. K PROVE polys[i] \in Seq(V) /\ Len(polys[i]) = PolySize(12)
  <2> DEFINE e == ByteEncode(12, v[i - 1])
  <2>1. e = [j \in 1 .. PolySize(12) |-> e[j]]
    BY EncodedLength
  <2>2. \A j \in 1 .. PolySize(12) : e[j] \in V
    BY DEF Elements
  <2>3. polys[i] = e
    OBVIOUS
  <2> HIDE DEF e, polys
  <2>4. e \in Seq(V) /\ Len(e) = PolySize(12)
    BY <1>1, <2>1, <2>2, SequenceOf
  <2> QED BY <2>3, <2>4
<1>3. polys = [i \in 1 .. K |-> polys[i]]
  OBVIOUS
<1>4. EncodeVector(12, v) = FlattenSeq(polys)
  BY DEF EncodeVector
<1> HIDE DEF polys
<1>5. polys \in [1 .. K -> Seq(V)]
  BY <1>2, <1>3
<1>6. Alike(polys, K, PolySize(12), V)
  BY <1>2, <1>5 DEF Alike
<1> QED BY <1>1, <1>4, <1>6, FlattenLength

\* The places of the hash and of z in a private key, and of rho in a public key.
HashAt == 2 * PolySize(12) * K + 2
RejectAt == 2 * PolySize(12) * K + 3
RhoAt == PolySize(12) * K + 1

\* Where the parts of a key pair lie: the public key, its hash and z in the private key, and rho
\* in the public key (keygen_internal, get_public_key, decaps_internal, k_pke_encrypt).
LEMMA MlKemKeyIs ==
  ASSUME NEW seed
  PROVE  /\ MlKemPublic(MlKemKeygen(seed).sk) = MlKemKeygen(seed).pk
         /\ MlKemKeygen(seed).sk[HashAt] = H(MlKemKeygen(seed).pk) /\ MlKemKeygen(seed).sk[RejectAt] = seed.z
         /\ MlKemKeygen(seed).pk[RhoAt] = <<"rho", seed.d>>
<1> DEFINE pke == KPkeKeygen(seed.d)
           ek == pke.ek
           dk == pke.dk
           tail == <<H(ek), seed.z>>
           d == PolySize(12) * K
           rho == <<"rho", seed.d>>
<1>1. PICK s, t : dk = EncodeVector(12, s) /\ ek = EncodeVector(12, t) \o <<rho>>
  BY DEF KPkeKeygen
<1>2. MlKemKeygen(seed).pk = ek /\ MlKemKeygen(seed).sk = dk \o ek \o tail
  BY DEF MlKemKeygen
<1> HIDE DEF pke, ek, dk, tail, rho
<1> DEFINE V == Elements(s) \cup Elements(t) \cup {rho, tail[1], tail[2]}
           ev == EncodeVector(12, t)
<1>3. Joined(dk, K, PolySize(12), V) /\ Joined(ev, K, PolySize(12), V)
  BY <1>1, VectorLength
<1>4. K \in Nat /\ PolySize(12) \in Nat /\ K * PolySize(12) = d /\ d \in Nat
  BY MlKemAssumption, EncodedLength
<1>5. tail \in Seq(V)
  BY DEF tail
<1>6. rho \in V
  OBVIOUS
<1> HIDE DEF V, ev
<1>7. dk \in Seq(V) /\ Len(dk) = d /\ ev \in Seq(V) /\ Len(ev) = d
  BY <1>3, <1>4 DEF Joined
<1>8. ek = ev \o <<rho>>
  BY <1>1 DEF ev
<1>9. ek \in Seq(V) /\ Len(ek) = d + 1
  BY <1>4, <1>6, <1>7, <1>8
<1> DEFINE a == dk \o ek
           sk == a \o tail
<1>10. Lies(a, d, ek) /\ a \in Seq(V)
  BY <1>7, <1>9, LiesAppended
<1> HIDE DEF a
<1>11. Lies(sk, d, ek) /\ sk \in Seq(V)
  BY <1>5, <1>9, <1>10, LiesAppended
<1> HIDE DEF sk
<1>12. d + 1 = d + 1 /\ 2 * PolySize(12) * K + 1 = d + Len(ek)
  BY <1>4, <1>9
<1>13. SubSeq(sk, d + 1, 2 * PolySize(12) * K + 1) = ek
  BY <1>9, <1>11, <1>12, CutOut
<1>14. MlKemPublic(sk) = ek
  BY <1>13 DEF MlKemPublic
<1>15. sk[HashAt] = H(ek) /\ sk[RejectAt] = seed.z
  <2>1. Lies(sk, Len(a), tail)
    BY <1>5, <1>10, LiesAppended DEF sk
  <2>2. Len(a) = 2 * d + 1
    BY <1>4, <1>7, <1>9 DEF a
  <2>3. Len(tail) = 2 /\ tail[1] = H(ek) /\ tail[2] = seed.z
    BY DEF tail
  <2>4. \A i \in 1 .. 2 : sk[i + Len(a)] = tail[i]
    BY <2>1, <2>3 DEF Lies
  <2> HIDE DEF d
  <2>5. sk[1 + Len(a)] = H(ek) /\ sk[2 + Len(a)] = seed.z
    BY <2>3, <2>4
  <2>6. d \in Nat /\ HashAt = 2 * d + 2 /\ RejectAt = 2 * d + 3
    BY <1>4 DEF HashAt, RejectAt, d
  <2>7. 1 + Len(a) = HashAt /\ 2 + Len(a) = RejectAt
    BY <2>2, <2>6
  <2> QED BY <2>5, <2>7
<1>16. ek[RhoAt] = rho
  <2>1. ek[Len(ev) + 1] = rho
    BY <1>6, <1>7, <1>8
  <2>2. Len(ev) + 1 = RhoAt
    BY <1>4, <1>7 DEF RhoAt
  <2> QED BY <2>1, <2>2
<1> QED BY <1>2, <1>14, <1>15, <1>16 DEF sk, a, rho

\* What get_public_key cuts from the private key is the public key that keygen made, for every
\* parameter set, seed and outcome of the hash functions (keygen_internal, get_public_key).
THEOREM MlKemPublicIsPacked ==
  ASSUME NEW seed
  PROVE  MlKemPublic(MlKemKeygen(seed).sk) = MlKemKeygen(seed).pk
BY MlKemKeyIs

\* Decapsulation returns the key of a message that encrypts to this very ciphertext, or the
\* implicit secret of the ciphertext (decaps_internal).
LEMMA MlKemDecapsIs ==
  ASSUME NEW seed, NEW c
  PROVE  LET pk == MlKemKeygen(seed).pk
             ss == MlKemDecaps(MlKemKeygen(seed).sk, c)
         IN  \/ \E m : c = KPkeEncrypt(pk, m, <<"r", m, H(pk)>>) /\ ss = <<"K", m, H(pk)>>
             \/ ss = <<"J", seed.z, c>>
<1> DEFINE pk == MlKemKeygen(seed).pk
           sk == MlKemKeygen(seed).sk
           m == KPkeDecrypt(SubSeq(sk, 1, PolySize(12) * K), c)
<1>1. MlKemPublic(sk) = pk /\ sk[HashAt] = H(pk) /\ sk[RejectAt] = seed.z
  BY MlKemKeyIs
<1> HIDE DEF pk, sk
<1>2. MlKemDecaps(sk, c) = IF c = KPkeEncrypt(MlKemPublic(sk), m, G(m, sk[HashAt]).r)
                           THEN G(m, sk[HashAt]).k ELSE J(sk[RejectAt], c)
  BY DEF MlKemDecaps, HashAt, RejectAt
<1> HIDE DEF m
<1>3. G(m, sk[HashAt]) = [k |-> <<"K", m, H(pk)>>, r |-> <<"r", m, H(pk)>>] /\ J(sk[RejectAt], c) = <<"J", seed.z, c>>
  BY <1>1 DEF G, J
<1>4. \/ c = KPkeEncrypt(pk, m, <<"r", m, H(pk)>>) /\ MlKemDecaps(sk, c) = <<"K", m, H(pk)>>
      \/ MlKemDecaps(sk, c) = <<"J", seed.z, c>>
  BY <1>1, <1>2, <1>3
<1> QED BY <1>4 DEF pk, sk

\* Two equal secrets are those of one ciphertext, and of seeds that share a part.
LEMMA MlKemTells ==
  ASSUME NEW x, NEW y, NEW a, NEW b,
         MlKemDecaps(MlKemKeygen(x).sk, a) = MlKemDecaps(MlKemKeygen(y).sk, b)
  PROVE  a = b /\ (x.d = y.d \/ x.z = y.z)
<1> DEFINE p == MlKemKeygen(x).pk
           q == MlKemKeygen(y).pk
           s == MlKemDecaps(MlKemKeygen(x).sk, a)
           t == MlKemDecaps(MlKemKeygen(y).sk, b)
<1>1. \/ \E m : a = KPkeEncrypt(p, m, <<"r", m, H(p)>>) /\ s = <<"K", m, H(p)>>
      \/ s = <<"J", x.z, a>>
  BY MlKemDecapsIs
<1>2. \/ \E m : b = KPkeEncrypt(q, m, <<"r", m, H(q)>>) /\ t = <<"K", m, H(q)>>
      \/ t = <<"J", y.z, b>>
  BY MlKemDecapsIs
<1>3. p[RhoAt] = <<"rho", x.d>> /\ q[RhoAt] = <<"rho", y.d>> /\ s = t
  BY MlKemKeyIs
<1> HIDE DEF p, q, s, t
<1>4. ASSUME NEW u, NEW m, NEW n, NEW o, u = <<m, n, o>> PROVE u[1] = m /\ u[2] = n /\ u[3] = o
  BY <1>4
<1>5. CASE s = <<"J", x.z, a>> /\ t = <<"J", y.z, b>>
  <2>1. s[2] = x.z /\ s[3] = a /\ t[2] = y.z /\ t[3] = b
    BY <1>4, <1>5
  <2> QED BY ONLY <1>3, <2>1
<1>6. ASSUME NEW m, a = KPkeEncrypt(p, m, <<"r", m, H(p)>>), s = <<"K", m, H(p)>>,
             NEW n, b = KPkeEncrypt(q, n, <<"r", n, H(q)>>), t = <<"K", n, H(q)>>
      PROVE  a = b /\ x.d = y.d
  <2>1. s[2] = m /\ s[3] = H(p) /\ t[2] = n /\ t[3] = H(q)
    BY <1>4, <1>6
  <2>2. m = n /\ H(p) = H(q)
    BY ONLY <1>3, <2>1
  <2>3. H(p)[2] = p /\ H(q)[2] = q
    BY DEF H
  <2>4. p = q
    BY ONLY <2>2, <2>3
  <2>5. p[RhoAt][2] = x.d /\ q[RhoAt][2] = y.d
    BY <1>3
  <2>6. x.d = y.d
    BY ONLY <2>4, <2>5
  <2> QED BY <1>6, <2>2, <2>4, <2>6
<1>7. ASSUME NEW m, s = <<"K", m, H(p)>>, t = <<"J", y.z, b>> PROVE FALSE
  <2>1. s[1] = "K" /\ t[1] = "J"
    BY <1>4, <1>7
  <2>2. "K" # "J"
    OBVIOUS
  <2> QED BY ONLY <1>3, <2>1, <2>2
<1>8. ASSUME NEW m, s = <<"J", x.z, a>>, t = <<"K", m, H(q)>> PROVE FALSE
  <2>1. s[1] = "J" /\ t[1] = "K"
    BY <1>4, <1>8
  <2>2. "K" # "J"
    OBVIOUS
  <2> QED BY ONLY <1>3, <2>1, <2>2
<1> QED BY <1>1, <1>2, <1>5, <1>6, <1>7, <1>8

-----------------------------------------------------------------------------
(* FrodoKEM: the public key lies behind s.                                  *)
\* A dimension is as long as it says.
LEMMA DimensionIs ==
  ASSUME NEW n \in Nat
  PROVE  Cardinality(Dim(n)) = n
<1>1. Cardinality(0 .. n - 1) = n
  <2>1. 0 \in Int /\ n - 1 \in Int
    OBVIOUS
  <2>2. Cardinality(0 .. n - 1) = IF 0 > n - 1 THEN 0 ELSE n - 1 - 0 + 1
    BY <2>1, FS_Interval
  <2> QED BY <2>2
<1> QED BY <1>1 DEF Dim

\* The shape of a matrix.
Shape(x, n1, n2) == Rows(x) = n1 /\ Cols(x) = n2

\* A matrix as built has its shape.
LEMMA MatrixShape ==
  ASSUME NEW n1 \in Nat, NEW n2 \in Nat, n1 > 0, NEW x, NEW e,
         x = [i \in Dim(n1) |-> [j \in Dim(n2) |-> e[i * n2 + j + 1]]]
  PROVE  Shape(x, n1, n2)
<1>1. 0 \in Dim(n1)
  BY DEF Dim
<1>2. DOMAIN x = Dim(n1) /\ DOMAIN x[0] = Dim(n2)
  BY <1>1
<1> QED BY <1>2, DimensionIs DEF Shape, Rows, Cols

\* The matrix B of keygen has as many rows as A and NBar columns.
LEMMA ProductShape ==
  ASSUME NEW seedA, NEW st, NEW e
  PROVE  Shape(MatrixAdd(MatrixMul(Gen(seedA), Transpose(SampleMatrix(st, 0, NBar, FrodoN))), e), FrodoN, NBar)
<1> DEFINE s == SampleMatrix(st, 0, NBar, FrodoN)
           t == Transpose(s)
           m == MatrixMul(Gen(seedA), t)
           b == MatrixAdd(m, e)
<1>1. FrodoN \in Nat /\ FrodoN > 0 /\ NBar \in Nat /\ NBar > 0
  <2>1. FrodoN \in Nat \ {0} /\ NBar \in Nat \ {0}
    BY FrodoAssumption
  <2> QED BY <2>1
<1>2. Shape(s, NBar, FrodoN)
  <2>1. \E f : s = [i \in Dim(NBar) |-> [j \in Dim(FrodoN) |-> f[i * FrodoN + j + 1]]]
    BY DEF SampleMatrix, Mat
  <2> QED BY <1>1, <2>1, MatrixShape
<1> HIDE DEF s
<1>3. Shape(t, FrodoN, NBar)
  <2>1. \E f : t = [i \in Dim(FrodoN) |-> [j \in Dim(NBar) |-> f[i * NBar + j + 1]]]
    BY <1>2 DEF Shape, Transpose, Mat
  <2> QED BY <1>1, <2>1, MatrixShape
<1> HIDE DEF t
<1>4. Shape(Gen(seedA), FrodoN, FrodoN)
  <2>1. \E f : Gen(seedA) = [i \in Dim(FrodoN) |-> [j \in Dim(FrodoN) |-> f[i * FrodoN + j + 1]]]
    <3> DEFINE blocks == {<<i, j, GenBlock(seedA, i, j)>> : i \in Dim(FrodoN), j \in {8 * k : k \in 0 .. FrodoN \div 8 - 1}}
               Block(i, j) == (CHOOSE a \in blocks : a[1] = i /\ a[2] = j)[3]
               f == SubSeq([k \in 1 .. FrodoN * FrodoN |->
                              Block((k - 1) \div FrodoN, 8 * (((k - 1) % FrodoN) \div 8))[(((k - 1) % FrodoN) % 8) + 1] % QF],
                           1, FrodoN * FrodoN)
    <3>1. Gen(seedA) = [i \in Dim(FrodoN) |-> [j \in Dim(FrodoN) |-> f[i * FrodoN + j + 1]]]
      BY DEF Gen, Mat
    <3> HIDE DEF f
    <3> QED BY <3>1
  <2> QED BY <1>1, <2>1, MatrixShape
<1>5. Shape(m, FrodoN, NBar)
  <2>1. \E f : m = [i \in Dim(FrodoN) |-> [j \in Dim(NBar) |-> f[i * NBar + j + 1]]]
    BY <1>3, <1>4 DEF Shape, MatrixMul, Mat
  <2> QED BY <1>1, <2>1, MatrixShape
<1> HIDE DEF m
<1>6. Shape(b, FrodoN, NBar)
  <2>1. \E f : b = [i \in Dim(FrodoN) |-> [j \in Dim(NBar) |-> f[i * NBar + j + 1]]]
    BY <1>5 DEF Shape, MatrixAdd, Mat
  <2> QED BY <1>1, <2>1, MatrixShape
<1> QED BY <1>6 DEF b, m, t, s

\* Where the parts of a key pair lie: the public key behind s, its hash at the end, and the hash of
\* z in front of the matrix (kem_keygen, _derivate_public_key, kem_decaps).
LEMMA FrodoKeyIs ==
  ASSUME NEW seed
  PROVE  /\ FrodoPublic(FrodoKeygen(seed).sk) = FrodoKeygen(seed).pk
         /\ FrodoKeygen(seed).sk[1] = seed.s
         /\ FrodoKeygen(seed).sk[Len(FrodoKeygen(seed).sk)] = Shake(FrodoKeygen(seed).pk)
         /\ FrodoKeygen(seed).pk[1] = Shake(seed.z)
<1> DEFINE n == D * FrodoN * NBar
           r == Shake16(<<95, seed.se>>, 2 * FrodoN * NBar)
           st == SampleMatrix(r, 0, NBar, FrodoN)
           e == SampleMatrix(r, FrodoN * NBar, FrodoN, NBar)
           b == MatrixAdd(MatrixMul(Gen(Shake(seed.z)), Transpose(st)), e)
           bits == Pack(b)
           pk == <<Shake(seed.z)>> \o bits
           words == ToWords(st)
           h == Shake(pk)
<1>1. FrodoKeygen(seed).pk = pk /\ FrodoKeygen(seed).sk = <<seed.s>> \o pk \o words \o <<h>>
  BY DEF FrodoKeygen
<1>2. Shape(b, FrodoN, NBar)
  BY ProductShape
<1>3. n \in Nat /\ NBar * FrodoN \in Nat /\ D * FrodoN \in Nat
  <2>1. D \in Nat /\ FrodoN \in Nat /\ NBar \in Nat
    BY FrodoAssumption
  <2> QED BY <2>1
<1> HIDE DEF b
<1>4. bits = [i \in 1 .. n |-> bits[i]]
  BY <1>2 DEF Shape, Pack
<1>5. words = [i \in 1 .. NBar * FrodoN |-> words[i]]
  BY DEF ToWords
<1> HIDE DEF st, bits, words, h, r
<1> DEFINE V == {seed.s, Shake(seed.z), h} \cup {bits[i] : i \in 1 .. n} \cup {words[i] : i \in 1 .. NBar * FrodoN}
<1>6. seed.s \in V /\ Shake(seed.z) \in V /\ h \in V
      /\ (\A i \in 1 .. n : bits[i] \in V) /\ \A i \in 1 .. NBar * FrodoN : words[i] \in V
  OBVIOUS
<1> HIDE DEF V, n
<1>7. bits \in Seq(V) /\ Len(bits) = n
  BY <1>3, <1>4, <1>6, SequenceOf
<1>8. words \in Seq(V)
  <2> DEFINE l == NBar * FrodoN
  <2>1. l \in Nat /\ words = [i \in 1 .. l |-> words[i]] /\ \A i \in 1 .. l : words[i] \in V
    BY <1>3, <1>5, <1>6
  <2> HIDE DEF l
  <2> QED BY <2>1, SequenceOf
<1>9. pk \in Seq(V) /\ Len(pk) = 1 + n
  BY <1>3, <1>6, <1>7
<1>10. <<seed.s>> \in Seq(V) /\ Len(<<seed.s>>) = 1 /\ <<h>> \in Seq(V)
  BY <1>6
<1> DEFINE front == <<seed.s>>
           x == front \o pk
           y == x \o words
           end == <<h>>
           sk == y \o end
<1> HIDE DEF pk, front, end
<1>11. front \in Seq(V) /\ Len(front) = 1 /\ end \in Seq(V)
  BY <1>10 DEF front, end
<1>12. Lies(x, 1, pk) /\ x \in Seq(V)
  <2>1. Lies(x, Len(front), pk)
    BY <1>9, <1>11, LiesAppended
  <2>2. x \in Seq(V)
    BY <1>9, <1>11
  <2> HIDE DEF x
  <2> QED BY <1>11, <2>1, <2>2
<1> HIDE DEF x
<1>13. Lies(y, 1, pk) /\ y \in Seq(V)
  BY <1>8, <1>9, <1>12, LiesAppended
<1> HIDE DEF y
<1>14. Lies(sk, 1, pk) /\ sk \in Seq(V)
  BY <1>9, <1>11, <1>13, LiesAppended
<1> HIDE DEF sk
<1>15. PkSize = 1 + n
  BY DEF PkSize, n
<1>16. PICK at, from, to : at = 1 /\ from = 2 /\ to = 1 + PkSize /\ from = at + 1 /\ to = at + Len(pk)
  BY <1>3, <1>9, <1>15
<1>17. SubSeq(sk, from, to) = pk
  <2>1. Lies(sk, at, pk) /\ pk \in Seq(V) /\ sk \in Seq(V) /\ from = at + 1 /\ to = at + Len(pk)
    BY <1>9, <1>14, <1>16
  <2> HIDE DEF V
  <2> QED BY ONLY <2>1, CutOut
<1>18. FrodoPublic(sk) = pk
  BY <1>16, <1>17 DEF FrodoPublic
<1>19. sk[1] = seed.s
  <2>1. x[1] = seed.s /\ Len(x) \in Nat /\ Len(x) >= 1
    BY <1>9, <1>11 DEF x, front
  <2>2. y[1] = x[1] /\ Len(y) \in Nat /\ Len(y) >= 1
    BY <1>8, <1>12, <2>1 DEF y
  <2>3. sk[1] = y[1]
    BY <1>11, <1>13, <2>2 DEF sk
  <2> QED BY <2>1, <2>2, <2>3
<1>20. sk[Len(sk)] = h
  <2>1. Len(sk) = Len(y) + 1 /\ Len(y) \in Nat
    BY <1>11, <1>13 DEF sk, end
  <2>2. sk[Len(y) + 1] = h
    BY <1>11, <1>13 DEF sk, end
  <2> QED BY <2>1, <2>2
<1>21. pk[1] = Shake(seed.z)
  BY <1>6, <1>7 DEF pk
<1>22. h = Shake(pk)
  BY DEF h
<1> QED BY <1>1, <1>18, <1>19, <1>20, <1>21, <1>22 DEF sk, y, x, front, end

\* What _derivate_public_key cuts from the private key is the public key that keygen made, for
\* every parameter set and outcome of the hash functions (kem_keygen, _derivate_public_key).
THEOREM FrodoPublicIsPacked ==
  ASSUME NEW seed
  PROVE  FrodoPublic(FrodoKeygen(seed).sk) = FrodoKeygen(seed).pk
BY FrodoKeyIs

\* Two equal secrets are those of one ciphertext, and of seeds that share a part, when s is none of
\* the values that stand for a k (kem_decaps).
LEMMA FrodoTells ==
  ASSUME NEW x, NEW y, NEW a, NEW b, x.s[1] # "k", y.s[1] # "k",
         FrodoDecaps(FrodoKeygen(x).sk, a) = FrodoDecaps(FrodoKeygen(y).sk, b)
  PROVE  a = b /\ (x.z = y.z \/ x.s = y.s)
<1> DEFINE p == FrodoKeygen(x).pk
           q == FrodoKeygen(y).pk
           s == FrodoDecaps(FrodoKeygen(x).sk, a)
           t == FrodoDecaps(FrodoKeygen(y).sk, b)
           Kept(pk, seed, k) == k = seed.s \/ \E mu, salt : k = <<"k", <<Shake(pk), mu, salt>>>>
<1>1. ASSUME NEW seed, NEW c
      PROVE  \E k : Kept(FrodoKeygen(seed).pk, seed, k) /\ FrodoDecaps(FrodoKeygen(seed).sk, c) = Shake(<<c, k>>)
  <2> DEFINE sk == FrodoKeygen(seed).sk
             pk == FrodoKeygen(seed).pk
  <2>1. sk[1] = seed.s /\ sk[Len(sk)] = Shake(pk)
    BY FrodoKeyIs
  <2> HIDE DEF sk, pk
  <2>2. \E mu, salt : \E k \in {<<"k", <<sk[Len(sk)], mu, salt>>>>, sk[1]} : FrodoDecaps(sk, c) = Shake(<<c, k>>)
    BY DEF FrodoDecaps
  <2>3. PICK mu, salt : \E k \in {<<"k", <<Shake(pk), mu, salt>>>>, seed.s} : FrodoDecaps(sk, c) = Shake(<<c, k>>)
    BY <2>1, <2>2
  <2> QED BY <2>3 DEF sk, pk
<1>2. PICK k : Kept(p, x, k) /\ s = Shake(<<a, k>>)
  BY <1>1
<1>3. PICK l : Kept(q, y, l) /\ t = Shake(<<b, l>>)
  BY <1>1
<1>4. p[1] = Shake(x.z) /\ q[1] = Shake(y.z) /\ s = t
  BY FrodoKeyIs
<1> HIDE DEF p, q, s, t
<1>5. ASSUME NEW v PROVE Shake(v)[2] = v
  BY DEF Shake
<1>6. a = b /\ k = l
  <2>1. <<a, k>> = <<b, l>>
    BY <1>2, <1>3, <1>4, <1>5
  <2>2. <<a, k>>[1] = a /\ <<a, k>>[2] = k /\ <<b, l>>[1] = b /\ <<b, l>>[2] = l
    OBVIOUS
  <2> QED BY ONLY <2>1, <2>2
<1>7. ASSUME NEW pk, NEW m, NEW n, k = <<"k", <<Shake(pk), m, n>>>> PROVE k[1] = "k" /\ k[2][1][2] = pk
  BY <1>5, <1>7
<1>8. CASE k = x.s
  <2>1. l[1] # "k"
    BY <1>6, <1>8
  <2> QED BY <1>3, <1>6, <1>7, <1>8, <2>1
<1>9. ASSUME NEW m, NEW n, k = <<"k", <<Shake(p), m, n>>>> PROVE x.z = y.z
  <2>1. k[1] = "k" /\ k[2][1][2] = p
    BY <1>7, <1>9
  <2>2. k # y.s
    BY <2>1
  <2>3. PICK u, w : k = <<"k", <<Shake(q), u, w>>>>
    BY <1>3, <1>6, <2>2
  <2>4. k[2][1][2] = q
    BY <1>7, <2>3
  <2>5. Shake(x.z) = Shake(y.z)
    BY <1>4, <2>1, <2>4
  <2>6. Shake(x.z)[2] = x.z /\ Shake(y.z)[2] = y.z
    BY <1>5
  <2> QED BY ONLY <2>5, <2>6
<1> QED BY <1>2, <1>6, <1>8, <1>9

-----------------------------------------------------------------------------
(* The key objects.                                                         *)
\* A key holds the private bytes of its pair, and the public half drawn with them or none.
KeyOf(d, key) ==
  \E seed \in Seeds \cup {None}, public \in {None, Pair[scheme][d].pk} :
    key = [seed |-> seed, private |-> Pair[scheme][d].sk, public |-> public]

Inv ==
  /\ scheme \in Schemes
  /\ DOMAIN keys = Seeds /\ \A d \in Seeds : KeyOf(d, keys[d])
  /\ \A m \in sent : m.pair \in Seeds
  /\ IsFiniteSet(answers) /\ Cardinality(answers) <= AnswerBound

\* What public_key cuts from the private bytes of a pair is its public half, of either class.
LEMMA PairIs ==
  ASSUME NEW s \in Schemes, NEW d \in Seeds
  PROVE  Pair[s][d].sk # None /\ PublicPart(s, Pair[s][d].sk) = Pair[s][d].pk
<1>1. Pair[s][d] = KeyGen(s, d) /\ KeyGen(s, d).sk # None
  BY PrivateAssumption DEF Pair
<1>2. CASE s = "ml-kem"
  <2> DEFINE seed == Expanded(s, d)
  <2>1. KeyGen(s, d) = MlKemKeygen(seed) /\ \A sk : PublicPart(s, sk) = MlKemPublic(sk)
    BY <1>2 DEF KeyGen, PublicPart
  <2>2. MlKemPublic(MlKemKeygen(seed).sk) = MlKemKeygen(seed).pk
    BY MlKemPublicIsPacked
  <2> QED BY <1>1, <2>1, <2>2
<1>3. CASE s # "ml-kem"
  <2> DEFINE seed == Expanded(s, d)
  <2>1. KeyGen(s, d) = FrodoKeygen(seed) /\ \A sk : PublicPart(s, sk) = FrodoPublic(sk)
    BY <1>3 DEF KeyGen, PublicPart
  <2>2. FrodoPublic(FrodoKeygen(seed).sk) = FrodoKeygen(seed).pk
    BY FrodoPublicIsPacked
  <2> QED BY <1>1, <2>1, <2>2
<1> QED BY <1>2, <1>3

\* However a key is stored and loaded it is one of its pair (_initialize_key, public_key).
LEMMA LoadedKeys ==
  ASSUME scheme \in Schemes, NEW d \in Seeds
  PROVE  /\ KeyOf(d, FromSeed(scheme, d)) /\ KeyOf(d, FromRaw(scheme, d)) /\ KeyOf(d, FromBoth(scheme, d))
         /\ \A key : KeyOf(d, key) => /\ KeyOf(d, WithPublic(scheme, key))
                                      /\ WithPublic(scheme, key).public = Pair[scheme][d].pk
                                      /\ key.private # None /\ key.seed \in Seeds \cup {None}
<1>1. Pair[scheme][d].sk # None /\ PublicPart(scheme, Pair[scheme][d].sk) = Pair[scheme][d].pk
  BY PairIs
<1>2. KeyOf(d, FromSeed(scheme, d)) /\ KeyOf(d, FromRaw(scheme, d)) /\ KeyOf(d, FromBoth(scheme, d))
  BY <1>1 DEF KeyOf, FromSeed, FromRaw, FromBoth, InitializeKey
<1>3. ASSUME NEW key, KeyOf(d, key)
      PROVE  /\ KeyOf(d, WithPublic(scheme, key)) /\ WithPublic(scheme, key).public = Pair[scheme][d].pk
             /\ key.private # None /\ key.seed \in Seeds \cup {None}
  <2>1. PICK seed \in Seeds \cup {None}, public \in {None, Pair[scheme][d].pk} :
          key = [seed |-> seed, private |-> Pair[scheme][d].sk, public |-> public]
    BY <1>3 DEF KeyOf
  <2> DEFINE full == [seed |-> seed, private |-> Pair[scheme][d].sk, public |-> Pair[scheme][d].pk]
  <2>2. WithPublic(scheme, key) = full
    <3>1. CASE public = None
      <4>1. key.public = None /\ key.private = Pair[scheme][d].sk
        BY <2>1, <3>1
      <4>2. WithPublic(scheme, key) = [key EXCEPT !.public = Pair[scheme][d].pk]
        BY <1>1, <4>1 DEF WithPublic
      <4> QED BY <2>1, <4>2
    <3>2. CASE public # None
      <4>1. key.public # None /\ key = full
        BY <2>1, <3>2
      <4> QED BY <4>1 DEF WithPublic
    <3> QED BY <3>1, <3>2
  <2>3. KeyOf(d, full) /\ full.public = Pair[scheme][d].pk
    BY DEF KeyOf
  <2> QED BY <1>1, <2>1, <2>2, <2>3
<1> QED BY <1>2, <1>3

\* A key made from its seed is one of its pair.
LEMMA InitInv == Init => Inv
<1> SUFFICES ASSUME Init PROVE Inv
  OBVIOUS
<1>1. scheme \in Schemes /\ keys = [d \in Seeds |-> FromSeed(scheme, d)] /\ sent = {} /\ answers = {}
  BY DEF Init
<1>2. \A d \in Seeds : KeyOf(d, keys[d])
  BY <1>1, LoadedKeys
<1>3. IsFiniteSet(answers) /\ Cardinality(answers) = 0 /\ AnswerBound \in Nat
  BY <1>1, FS_EmptySet, FoKemAssumption
<1> QED BY <1>1, <1>2, <1>3 DEF Inv

\* One more answer.
LEMMA MoreAnswers ==
  ASSUME Inv, Cardinality(answers) < AnswerBound, NEW a
  PROVE  IsFiniteSet(answers \cup {a}) /\ Cardinality(answers \cup {a}) <= AnswerBound
<1>1. IsFiniteSet(answers) /\ AnswerBound \in Nat
  BY FoKemAssumption DEF Inv
<1>2. Cardinality(answers) \in Nat
  BY <1>1, FS_CardinalityType
<1>3. /\ IsFiniteSet(answers \cup {a})
      /\ Cardinality(answers \cup {a}) = IF a \in answers THEN Cardinality(answers) ELSE Cardinality(answers) + 1
  BY <1>1, FS_AddElement
<1> QED BY <1>1, <1>2, <1>3

\* Loading a key, drawing its public half and answering keep the keys those of their pairs.
LEMMA NextInv == Inv /\ [Next]_vars => Inv'
<1> SUFFICES ASSUME Inv, [Next]_vars PROVE Inv'
  OBVIOUS
<1>1. scheme \in Schemes /\ DOMAIN keys = Seeds /\ \A d \in Seeds : KeyOf(d, keys[d])
  BY DEF Inv
<1>2. ASSUME NEW d \in Seeds, NEW key, KeyOf(d, key), keys' = [keys EXCEPT ![d] = key], scheme' = scheme
      PROVE  scheme' \in Schemes /\ DOMAIN keys' = Seeds /\ \A c \in Seeds : KeyOf(c, keys[c])'
  <2>1. DOMAIN keys' = Seeds /\ \A c \in Seeds : keys'[c] = IF c = d THEN key ELSE keys[c]
    BY <1>1, <1>2
  <2>2. ASSUME NEW c \in Seeds PROVE KeyOf(c, keys[c])'
    <3>1. KeyOf(c, IF c = d THEN key ELSE keys[c])
      BY <1>1, <1>2
    <3> QED BY <1>2, <2>1, <3>1 DEF KeyOf
  <2> QED BY <1>1, <1>2, <2>1, <2>2
<1>3. ASSUME NEW d \in Seeds, Load(d) PROVE Inv'
  <2>1. PICK key \in {FromSeed(scheme, d), FromRaw(scheme, d)} : keys' = [keys EXCEPT ![d] = key]
    BY <1>3 DEF Load
  <2>2. KeyOf(d, key)
    BY <1>1, <2>1, LoadedKeys
  <2>3. UNCHANGED <<scheme, sent, answers>>
    BY <1>3 DEF Load
  <2> QED BY <1>2, <2>1, <2>2, <2>3 DEF Inv
<1>4. ASSUME NEW d \in Seeds, LoadBoth(d) PROVE Inv'
  <2>1. keys' = [keys EXCEPT ![d] = FromBoth(scheme, d)] /\ UNCHANGED <<scheme, sent, answers>>
    BY <1>4 DEF LoadBoth
  <2>2. KeyOf(d, FromBoth(scheme, d))
    BY <1>1, LoadedKeys
  <2> QED BY <1>2, <2>1, <2>2 DEF Inv
<1>5. ASSUME NEW d \in Seeds, Encaps(d) PROVE Inv'
  <2> DEFINE key == WithPublic(scheme, keys[d])
  <2>1. /\ Cardinality(answers) < AnswerBound /\ scheme' = scheme /\ keys' = [keys EXCEPT ![d] = key]
        /\ \E e : /\ sent' = sent \cup {[pair |-> d, ct |-> e.ct]}
                  /\ answers' = answers \cup {[pair |-> d, ct |-> e.ct, ss |-> e.ss]}
    BY <1>5 DEF Encaps
  <2>2. KeyOf(d, key)
    BY <1>1, LoadedKeys
  <2> HIDE DEF key
  <2>3. IsFiniteSet(answers') /\ Cardinality(answers') <= AnswerBound
    BY <2>1, MoreAnswers
  <2>4. \A m \in sent' : m.pair \in Seeds
    BY <2>1 DEF Inv
  <2> QED BY <1>2, <2>1, <2>2, <2>3, <2>4 DEF Inv
<1>6. ASSUME NEW d \in Seeds, Decaps(d) PROVE Inv'
  <2>1. /\ Cardinality(answers) < AnswerBound /\ UNCHANGED <<scheme, keys, sent>>
        /\ \E a : answers' = answers \cup {a}
    BY <1>6 DEF Decaps
  <2>2. IsFiniteSet(answers') /\ Cardinality(answers') <= AnswerBound
    BY <2>1, MoreAnswers
  <2> QED BY <1>1, <2>1, <2>2 DEF Inv, KeyOf
<1>7. CASE UNCHANGED vars
  BY <1>7 DEF vars, Inv, KeyOf
<1> QED BY <1>3, <1>4, <1>5, <1>6, <1>7 DEF Next

\* Hence it holds in every state.
LEMMA InvHolds == Spec => []Inv
BY InitInv, NextInv, PTL DEF Spec

\* No constructor leaves a key without its private bytes (_initialize_key, from_private_bytes).
THEOREM FoKemTypes == Spec => []TypeOK
<1>1. ASSUME Inv PROVE TypeOK
  <2>1. \A d \in Seeds : keys[d].private # None /\ keys[d].seed \in Seeds \cup {None}
    BY <1>1, LoadedKeys DEF Inv
  <2> QED BY <1>1, <2>1 DEF Inv, TypeOK
<1> QED BY <1>1, InvHolds, PTL

\* Through any sequence of loads and uses, of any form, the public half of a key is the one its
\* pair was generated with (public_key, _initialize_key).
THEOREM FoKemPublicMatches == Spec => []PublicMatches
<1>1. ASSUME Inv PROVE PublicMatches
  BY <1>1, LoadedKeys DEF Inv, PublicMatches
<1> QED BY <1>1, InvHolds, PTL

-----------------------------------------------------------------------------
(* Secrets.                                                                 *)
\* Decapsulation undoes encapsulation with the pair as generated: the noise stays inside what
\* decoding corrects.  That depends on the parameters; a run checks it for some.
Decrypts ==
  \A s \in Schemes, d \in Seeds : \A m \in Coins[s] :
    LET e == EncapsWith(s, Pair[s][d].pk, m) IN DecapsWith(s, Pair[s][d].sk, e.ct) = e.ss

\* Every answer is what the private bytes of the pair make of the ciphertext.
Opened ==
  \A a \in answers : a.pair \in Seeds /\ a.ss = DecapsWith(scheme, Pair[scheme][a.pair].sk, a.ct)

\* An answer more, handed out or found, is again what the pair makes of it (encaps, decaps).
LEMMA OpenedKept ==
  ASSUME Decrypts
  PROVE  Inv /\ Opened /\ [Next]_vars => Opened'
<1> SUFFICES ASSUME Inv, Opened, [Next]_vars PROVE Opened'
  OBVIOUS
<1> DEFINE Opens(p, c) == DecapsWith(scheme, Pair[scheme][p].sk, c)
<1>1. ASSUME scheme' = scheme, NEW p \in Seeds, NEW c, answers' = answers \cup {[pair |-> p, ct |-> c, ss |-> Opens(p, c)]}
      PROVE  Opened'
  BY <1>1 DEF Opened
<1>2. ASSUME scheme' = scheme, answers' = answers PROVE Opened'
  BY <1>2 DEF Opened
<1>3. ASSUME NEW d \in Seeds, Encaps(d) PROVE Opened'
  <2> DEFINE key == WithPublic(scheme, keys[d])
  <2>1. key.public = Pair[scheme][d].pk /\ scheme \in Schemes
    BY LoadedKeys DEF Inv
  <2>2. PICK m \in Coins[scheme] : \E e \in {EncapsWith(scheme, key.public, m)} :
          answers' = answers \cup {[pair |-> d, ct |-> e.ct, ss |-> e.ss]}
    BY <1>3 DEF Encaps
  <2> DEFINE e == EncapsWith(scheme, Pair[scheme][d].pk, m)
  <2>3. answers' = answers \cup {[pair |-> d, ct |-> e.ct, ss |-> e.ss]} /\ scheme' = scheme
    BY <1>3, <2>1, <2>2 DEF Encaps
  <2>4. e.ss = Opens(d, e.ct)
    BY <2>1 DEF Decrypts
  <2> HIDE DEF e, Opens
  <2> QED BY <1>1, <2>3, <2>4
<1>4. ASSUME NEW d \in Seeds, Decaps(d) PROVE Opened'
  <2>1. scheme \in Schemes /\ KeyOf(d, keys[d])
    BY DEF Inv
  <2>2. keys[d].private = Pair[scheme][d].sk
    BY <2>1 DEF KeyOf
  <2>3. PICK ct : answers' = answers \cup {[pair |-> d, ct |-> ct, ss |-> DecapsWith(scheme, keys[d].private, ct)]}
    BY <1>4 DEF Decaps
  <2>4. scheme' = scheme
    BY <1>4 DEF Decaps
  <2> QED BY <1>1, <2>2, <2>3, <2>4
<1>5. ASSUME NEW d \in Seeds, Load(d) \/ LoadBoth(d) PROVE Opened'
  BY <1>2, <1>5 DEF Load, LoadBoth
<1>6. CASE UNCHANGED vars
  BY <1>2, <1>6 DEF vars
<1> QED BY <1>3, <1>4, <1>5, <1>6 DEF Next

\* Where decapsulation undoes encapsulation with a pair as generated, it does so however the key
\* was stored, loaded and completed in between (public_key, from_private_bytes, encaps, decaps).
THEOREM FoKemSecretsAgree ==
  ASSUME Decrypts
  PROVE  Spec => []SecretsAgree
<1>1. Init => Opened
  BY DEF Init, Opened
<1>2. Inv /\ Opened /\ [Next]_vars => Opened'
  BY OpenedKept
<1>3. Opened => SecretsAgree
  BY DEF Opened, SecretsAgree
<1> QED BY <1>1, <1>2, <1>3, InvHolds, PTL DEF Spec

\* Secrets of two pairs, or of two ciphertexts, differ, valid or not: the implicit secret as well
\* as the regular one tells what it was made from (decaps_internal, kem_decaps).
LEMMA SecretsTell ==
  ASSUME NEW s \in Schemes, NEW c \in Seeds, NEW d \in Seeds, NEW a, NEW b,
         DecapsWith(s, Pair[s][c].sk, a) = DecapsWith(s, Pair[s][d].sk, b)
  PROVE  c = d /\ a = b
<1> DEFINE x == Expanded(s, c)
           y == Expanded(s, d)
<1>1. Pair[s][c] = KeyGen(s, c) /\ Pair[s][d] = KeyGen(s, d) /\ (s = "ml-kem" \/ s = "frodokem")
  BY FoKemAssumption DEF Pair
<1>2. IF s = "ml-kem" THEN x.d = y.d \/ x.z = y.z => c = d
      ELSE x.s[1] # "k" /\ (x.z = y.z \/ x.s = y.s => c = d)
  BY ExpandedAssumption
<1>3. CASE s = "ml-kem"
  <2>1. MlKemDecaps(MlKemKeygen(x).sk, a) = MlKemDecaps(MlKemKeygen(y).sk, b)
    BY <1>1, <1>3 DEF KeyGen, DecapsWith
  <2> HIDE DEF x, y
  <2>2. a = b /\ (x.d = y.d \/ x.z = y.z)
    BY ONLY <2>1, MlKemTells
  <2> QED BY <1>2, <1>3, <2>2
<1>4. CASE s = "frodokem"
  <2>1. FrodoDecaps(FrodoKeygen(x).sk, a) = FrodoDecaps(FrodoKeygen(y).sk, b)
    BY <1>1, <1>4 DEF KeyGen, DecapsWith
  <2>2. x.s[1] # "k" /\ y.s[1] # "k"
    BY <1>4, ExpandedAssumption
  <2> HIDE DEF x, y
  <2>3. a = b /\ (x.z = y.z \/ x.s = y.s)
    BY ONLY <2>1, <2>2, FrodoTells
  <2> QED BY <1>2, <1>4, <2>3
<1> QED BY <1>1, <1>3, <1>4

\* Every step answers one question as the ideal KEM does, or none.
LEMMA IdealStep ==
  ASSUME Inv, Opened, Opened', [Next]_vars
  PROVE  [Ideal!Next]_answers
<1> SUFFICES ASSUME answers' # answers PROVE Ideal!Next
  OBVIOUS
<1>1. \E a : answers' = answers \cup {a}
  <2>1. ASSUME NEW d \in Seeds, Encaps(d) PROVE \E a : answers' = answers \cup {a}
    BY <2>1 DEF Encaps
  <2>2. ASSUME NEW d \in Seeds, Decaps(d) PROVE \E a : answers' = answers \cup {a}
    BY <2>2 DEF Decaps
  <2>3. ASSUME NEW d \in Seeds, Load(d) \/ LoadBoth(d) PROVE FALSE
    BY <2>3 DEF Load, LoadBoth
  <2> QED BY <2>1, <2>2, <2>3 DEF Next, vars
<1>2. PICK a : answers' = answers \cup {a}
  BY <1>1
<1>3. scheme' = scheme /\ scheme \in Schemes
  BY DEF Inv, Next, vars, Load, LoadBoth, Encaps, Decaps
<1>4. ASSUME NEW b \in answers' PROVE b.pair \in Seeds /\ b.ss = DecapsWith(scheme, Pair[scheme][b.pair].sk, b.ct)
  BY <1>3 DEF Opened
<1>5. ASSUME NEW b \in answers PROVE Ideal!SameQuestion(a, b) <=> a.ss = b.ss
  <2>1. a \in answers' /\ b \in answers'
    BY <1>2
  <2>2. /\ a.pair \in Seeds /\ a.ss = DecapsWith(scheme, Pair[scheme][a.pair].sk, a.ct)
        /\ b.pair \in Seeds /\ b.ss = DecapsWith(scheme, Pair[scheme][b.pair].sk, b.ct)
    BY <1>4, <2>1
  <2>3. a.ss = b.ss => a.pair = b.pair /\ a.ct = b.ct
    <3> SUFFICES ASSUME a.ss = b.ss PROVE a.pair = b.pair /\ a.ct = b.ct
      OBVIOUS
    <3>1. PICK s, p, q, u, v : s = scheme /\ p = a.pair /\ q = b.pair /\ u = a.ct /\ v = b.ct
      OBVIOUS
    <3>2. s \in Schemes /\ p \in Seeds /\ q \in Seeds
      BY <1>3, <2>2, <3>1
    <3>3. DecapsWith(s, Pair[s][p].sk, u) = DecapsWith(s, Pair[s][q].sk, v)
      BY <2>2, <3>1
    <3>4. p = q /\ u = v
      BY ONLY <3>2, <3>3, SecretsTell
    <3> QED BY <3>1, <3>4
  <2> QED BY <2>2, <2>3 DEF Ideal!SameQuestion
<1>6. Ideal!Answer(a)
  BY <1>2, <1>5 DEF Ideal!Answer
<1> QED BY <1>2, <1>6 DEF Ideal!Next

\* Where decapsulation undoes encapsulation with a pair as generated, the key objects are an ideal
\* KEM: what was damaged, or meant for another pair, opens to a secret of its own, and to the same
\* one whenever it is asked for (encaps, decaps_internal, kem_decaps).
THEOREM FoKemImplementsIdealKem ==
  ASSUME Decrypts
  PROVE  Spec => ImplementsIdealKem
<1>1. Init => Ideal!Init /\ Opened
  BY DEF Init, Ideal!Init, Opened
<1>2. Inv /\ Opened /\ [Next]_vars => Opened'
  BY OpenedKept
<1>3. Inv /\ Opened /\ Opened' /\ [Next]_vars => [Ideal!Next]_answers
  BY IdealStep
<1> QED BY <1>1, <1>2, <1>3, InvHolds, PTL DEF Spec, ImplementsIdealKem, Ideal!Spec
=============================================================================
