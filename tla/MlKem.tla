------------------------------- MODULE MlKem --------------------------------
(***************************************************************************)
(* The ML_KEM class of fips203.py with its own modulus and parameters on    *)
(* polynomials of N = 2^LogN coefficients (256 in the code).  Hashing is    *)
(* free: a hash value is what was hashed and stands for its 32 bytes as one *)
(* element of a byte string.  Xof and Prf are the expanded bytes.          *)
(***************************************************************************)
EXTENDS Integers, Sequences, FiniteSets, SequencesExt, FiniteSetsExt

CONSTANTS LogN, Q, Zeta,               \* Zeta: a root of unity of order N, 17 in the code
          K, Eta1, Eta2, Du, Dv,       \* a row of ML_KEM_PARAM
          Xof(_, _),                   \* SHAKE128: rho and two indices
          Prf(_, _)                    \* SHAKE256: seed and counter

ASSUME MlKemAssumption ==
  {LogN, Q, K, Eta1, Eta2, Du, Dv} \subseteq Nat \ {0} /\ Zeta \in 1 .. Q - 1

\* 2^LogN
N == LET power[k \in 0 .. LogN] == IF k = 0 THEN 1 ELSE 2 * power[k - 1] IN power[LogN]
Coeff == 0 .. N - 1
Row == 0 .. K - 1

\* The polynomial with coefficients C(0), ..., the vector of V(0), ...: as sequences first, which TLC evaluates once.
Poly(C(_)) ==
  LET c == SubSeq([j \in 1 .. N |-> C(j - 1)], 1, N)
  IN  [j \in Coeff |-> c[j + 1]]
Vec(V(_)) ==
  LET v == SubSeq([i \in 1 .. K |-> V(i - 1)], 1, K)
  IN  [i \in Row |-> v[i + 1]]

H(x) == <<"H", x>>
G(m, h) == [k |-> <<"K", m, h>>, r |-> <<"r", m, h>>]
J(z, c) == <<"J", z, c>>

-----------------------------------------------------------------------------
(* Compression and bytes.                                                   *)
Compress(d, f) == Poly(LAMBDA i : ((f[i] * 2 ^ d + (Q - 1) \div 2) \div Q) % 2 ^ d)

Decompress(d, f) == Poly(LAMBDA i : (Q * f[i] + 2 ^ (d - 1)) \div 2 ^ d)

BitsOf(x, len) == [j \in 1 .. len |-> (x \div 2 ^ (j - 1)) % 2]
Value(bits) == MapThenSumSet(LAMBDA j : bits[j] * 2 ^ (j - 1), 1 .. Len(bits))
BitsToBytes(b) == [i \in 1 .. Len(b) \div 8 |-> Value(SubSeq(b, 8 * i - 7, 8 * i))]
BytesToBits(b) == FlattenSeq([i \in 1 .. Len(b) |-> BitsOf(b[i], 8)])

\* Fields of d bits, reduced to what they can hold.
Field(d) == IF d < 12 THEN 2 ^ d ELSE Q
ByteEncode(d, f) == BitsToBytes(FlattenSeq([i \in 1 .. N |-> BitsOf(f[i - 1] % Field(d), d)]))
ByteDecode(d, b) ==
  LET bits == BytesToBits(b)
  IN  Poly(LAMBDA i : Value(SubSeq(bits, i * d + 1, (i + 1) * d)) % Field(d))
PolySize(d) == (N * d) \div 8

\* The polynomials of a vector one after the other, and the i-th of them.
EncodeVector(d, v) == FlattenSeq([i \in 1 .. K |-> ByteEncode(d, v[i - 1])])
DecodeAt(d, b, i) == ByteDecode(d, SubSeq(b, PolySize(d) * i + 1, PolySize(d) * (i + 1)))

-----------------------------------------------------------------------------
(* Sampling.                                                                *)
Halves(c) == <<c[1] + 256 * (c[2] % 16), c[2] \div 16 + 16 * c[3]>>
SampleNtt(bytes) ==
  LET values == FlattenSeq([i \in 1 .. Len(bytes) \div 3 |-> Halves(SubSeq(bytes, 3 * i - 2, 3 * i))])
      taken  == SelectSeq(values, LAMBDA x : x < Q)
  IN  Poly(LAMBDA i : taken[i + 1])

SamplePolyCbd(eta, bytes) ==
  LET bits == BytesToBits(bytes)
      Ones(from) == MapThenSumSet(LAMBDA j : bits[from + j], 1 .. eta)
  IN  Poly(LAMBDA i : (Ones(2 * i * eta) - Ones((2 * i + 1) * eta)) % Q)

\* The public matrix, as key generation and encryption expand it.
Matrix(rho) == Vec(LAMBDA i : Vec(LAMBDA j : SampleNtt(Xof(rho, <<j, i>>))))
\* k polynomials with the counters from n on.
Noise(eta, seed, n) == Vec(LAMBDA i : SamplePolyCbd(eta, Prf(seed, n + i)))

-----------------------------------------------------------------------------
(* Polynomials and their transform, which leaves pairs of coefficients.     *)
PolyAdd(f, g) == Poly(LAMBDA i : (f[i] + g[i]) % Q)
PolySub(f, g) == Poly(LAMBDA i : (f[i] - g[i]) % Q)
Zero == Poly(LAMBDA i : 0)

BitRev(m) == Value(Reverse(BitsOf(m, LogN - 1)))
PowMod(x, n) == FoldLeft(LAMBDA t, i : (t * x) % Q, 1, [i \in 1 .. n |-> i])
ZetaNtt == {<<i, PowMod(Zeta, BitRev(i))>> : i \in 0 .. N \div 2 - 1}
ZetaMul == {<<i, PowMod(Zeta, 2 * BitRev(i) + 1)>> : i \in 0 .. N \div 2 - 1}
At(table, i) == (CHOOSE p \in table : p[1] = i)[2]

Ntt(f) ==
  LET Layer(a, l) ==
        LET le   == N \div 2 ^ l
            z(j) == At(ZetaNtt, 2 ^ (l - 1) + j \div (2 * le))
        IN  Poly(LAMBDA j : IF j % (2 * le) < le THEN (a[j] + z(j) * a[j + le]) % Q
                             ELSE (a[j - le] - (z(j) * a[j])) % Q)
  IN  FoldLeft(Layer, f, [l \in 1 .. LogN - 1 |-> l])

NttInverse(f) ==
  LET Layer(a, l) ==
        LET le   == 2 ^ l
            z(j) == At(ZetaNtt, N \div le - 1 - j \div (2 * le))
        IN  Poly(LAMBDA j : IF j % (2 * le) < le THEN (a[j] + a[j + le]) % Q
                             ELSE (z(j) * (a[j] - a[j - le])) % Q)
      half == CHOOSE x \in 1 .. Q - 1 : (x * (N \div 2)) % Q = 1
      g    == FoldLeft(Layer, f, [l \in 1 .. LogN - 1 |-> l])
  IN  Poly(LAMBDA j : (half * g[j]) % Q)

MultiplyNtts(f, g) ==
  Poly(LAMBDA j :
     IF j % 2 = 0 THEN (f[j] * g[j] + ((f[j + 1] * g[j + 1]) % Q) * At(ZetaMul, j \div 2)) % Q
     ELSE (f[j - 1] * g[j] + f[j] * g[j - 1]) % Q)

\* f plus the inner product of two rows.
PlusProducts(f, Left(_), right) ==
  FoldLeft(LAMBDA w, j : PolyAdd(w, MultiplyNtts(Left(j - 1), right[j - 1])), f, [j \in 1 .. K |-> j])

-----------------------------------------------------------------------------
(* K-PKE and ML-KEM.  ek is the packed vector and rho, dk is the packed     *)
(* secret vector, ek, its hash and z.                                      *)
KPkeKeygen(d) ==
  LET rho == <<"rho", d>>
      sig == <<"sigma", d>>
      a   == Matrix(rho)
      sn  == Noise(Eta1, sig, 0)
      en  == Noise(Eta1, sig, K)
      s   == Vec(LAMBDA i : Ntt(sn[i]))
      t   == Vec(LAMBDA i : PlusProducts(Ntt(en[i]), LAMBDA j : a[i][j], s))
  IN  [ek |-> EncodeVector(12, t) \o <<rho>>, dk |-> EncodeVector(12, s)]

KPkeEncrypt(ek, m, r) ==
  LET a  == Matrix(ek[PolySize(12) * K + 1])
      yn == Noise(Eta1, r, 0)
      e1 == Noise(Eta2, r, K)
      e2 == SamplePolyCbd(Eta2, Prf(r, 2 * K))
      y  == Vec(LAMBDA i : Ntt(yn[i]))
      u  == Vec(LAMBDA i : PolyAdd(NttInverse(PlusProducts(Zero, LAMBDA j : a[j][i], y)), e1[i]))
      mu == Decompress(1, ByteDecode(1, m))
      ty == NttInverse(PlusProducts(Zero, LAMBDA j : DecodeAt(12, ek, j), y))
  IN  EncodeVector(Du, Vec(LAMBDA i : Compress(Du, u[i])))
      \o ByteEncode(Dv, Compress(Dv, PolyAdd(PolyAdd(ty, e2), mu)))

KPkeDecrypt(dk, c) ==
  LET c2 == SubSeq(c, PolySize(Du) * K + 1, PolySize(Du) * K + PolySize(Dv))
      up == Vec(LAMBDA i : Ntt(Decompress(Du, DecodeAt(Du, c, i))))
      vp == Decompress(Dv, ByteDecode(Dv, c2))
      w  == PlusProducts(Zero, LAMBDA j : DecodeAt(12, dk, j), up)
  IN  ByteEncode(1, Compress(1, PolySub(vp, NttInverse(w))))

MlKemKeygen(seed) ==
  LET pke == KPkeKeygen(seed.d)
  IN  [pk |-> pke.ek, sk |-> pke.dk \o pke.ek \o <<H(pke.ek), seed.z>>]

\* Mutant of MlKemPublic: rho is left out.
MlKemPublicShort(dk) == SubSeq(dk, PolySize(12) * K + 1, 2 * PolySize(12) * K)

\* get_public_key, and public_key of a private key that holds its raw bytes only.
MlKemPublic(dk) == SubSeq(dk, PolySize(12) * K + 1, 2 * PolySize(12) * K + 1)

MlKemEncaps(ek, m) ==
  LET g == G(m, H(ek))
  IN  [ss |-> g.k, ct |-> KPkeEncrypt(ek, m, g.r)]

\* Mutant of MlKemDecaps: a ciphertext that does not come out again is answered alike.
MlKemDecapsUnchecked(dk, c) ==
  LET mp == KPkeDecrypt(SubSeq(dk, 1, PolySize(12) * K), c)
  IN  G(mp, dk[2 * PolySize(12) * K + 2]).k

MlKemDecaps(dk, c) ==
  LET h  == dk[2 * PolySize(12) * K + 2]
      z  == dk[2 * PolySize(12) * K + 3]
      mp == KPkeDecrypt(SubSeq(dk, 1, PolySize(12) * K), c)
      g  == G(mp, h)
  IN  IF c = KPkeEncrypt(MlKemPublic(dk), mp, g.r) THEN g.k ELSE J(z, c)
=============================================================================
