------------------------------- MODULE MlDsa --------------------------------
(***************************************************************************)
(* The ML_DSA class of fips204.py on a small ring: keys, the signing loop   *)
(* with its rejections, verification, and every encoding in between.  A     *)
(* byte has B bits and a polynomial N = 2^B coefficients, as in the code    *)
(* with B = 8.  Hashing is free: a hash value is what was hashed, so equal  *)
(* values were computed alike.  What the code expands from a hash value is  *)
(* drawn anew: the masks of a turn, the coins of a challenge.              *)
(***************************************************************************)
EXTENDS Integers, Sequences, FiniteSets, SequencesExt, FiniteSetsExt, Functions

CONSTANTS B, Q, Zeta,            \* bits of a byte, modulus, a root of unity of order 2 * 2^B
          D, Tau, Gam1, Gam2, K, Ell, Eta, Beta, Omega,   \* a row of ML_DSA_PARAM
          NonceRange,            \* the nonce of a mask has two bytes
          Shake128(_, _),        \* three-byte draws for an entry of the matrix
          Shake256(_, _),        \* bytes for a secret polynomial
          Seeds,                 \* xi
          MaskStrings,           \* SHAKE256 output for one polynomial of a mask
          ChallengeCoins,        \* SHAKE256 output behind a challenge: sign bits and bytes
          Messages, Contexts,    \* sequences of symbols
          ContextLimit,          \* 255
          Oids, DigestOf(_, _),  \* encoded hash OID and digest, both a sequence of symbols
          TurnBound,             \* turns of the signing loop
          None, Raised           \* None; an exception

\* 1 << e
Pow2(e) == LET power[k \in 0 .. e] == IF k = 0 THEN 1 ELSE 2 * power[k - 1] IN power[e]

N == Pow2(B)
Byte == 0 .. N - 1
Bytes(len) == [1 .. len -> Byte]
Coeff == 0 .. N - 1
Row == 0 .. K - 1
Col == 0 .. Ell - 1

ASSUME ParamAssumption ==
  /\ {B, Q, D, Tau, Gam1, Gam2, K, Ell, Eta, Beta, Omega, NonceRange, TurnBound} \subseteq Nat \ {0}
  /\ Zeta \in Nat /\ N % B = 0 /\ Q % Pow2(D) = 1
  /\ (Q - 1) % (2 * Gam2) = 0 /\ (Q - 1) \div (2 * Gam2) >= 2
  /\ Tau <= N /\ Eta \in {2, 4} /\ Beta = Tau * Eta /\ Omega \in Byte
ASSUME NonceAssumption == TurnBound * Ell <= NonceRange

\* Messages, contexts, OIDs and digests are strings, and the OID in front of a digest tells
\* which hash made it, from which message.
ASSUME RequestAssumption ==
  /\ Contexts \cup Messages \subseteq Seq(Nat) /\ "pure" \notin DOMAIN Oids
  /\ \A h \in DOMAIN Oids, m \in Messages : Oids[h] \in Seq(Nat) /\ DigestOf(h, m) \in Seq(Nat)
  /\ \A h1, h2 \in DOMAIN Oids : \A m1, m2 \in Messages :
       Oids[h1] \o DigestOf(h1, m1) = Oids[h2] \o DigestOf(h2, m2) => h1 = h2 /\ m1 = m2
ASSUME NoneAssumption == None \notin Int /\ None \notin [Row -> [Coeff -> {0, 1}]] /\ None \notin DOMAIN Oids

-----------------------------------------------------------------------------
(* Bits and bytes.                                                          *)
BitLength(x) == CHOOSE b \in 0 .. x : Pow2(b) > x /\ (b = 0 \/ Pow2(b - 1) <= x)
IntegerToBits(x, alpha) == [i \in 1 .. alpha |-> (x \div Pow2(i - 1)) % 2]
BitsToInteger(y) == FoldLeft(LAMBDA x, bit : 2 * x + bit, 0, Reverse(y))
BitsToBytes(y) == [i \in 1 .. Len(y) \div B |-> BitsToInteger(SubSeq(y, (i - 1) * B + 1, i * B))]
BytesToBits(z) == FlattenSeq([i \in 1 .. Len(z) |-> IntegerToBits(z[i], B)])

SimpleBitPack(w, b) ==
  BitsToBytes(FlattenSeq([i \in 1 .. N |-> IntegerToBits(w[i - 1], BitLength(b))]))
BitPack(w, a, b) ==
  BitsToBytes(FlattenSeq([i \in 1 .. N |-> IntegerToBits(b - w[i - 1], BitLength(a + b))]))

SimpleBitUnpack(v, b) ==
  LET c == BitLength(b)
      z == BytesToBits(v)
  IN  [i \in Coeff |-> BitsToInteger(SubSeq(z, i * c + 1, (i + 1) * c))]
BitUnpack(v, a, b) ==
  LET c == BitLength(a + b)
      z == BytesToBits(v)
  IN  [i \in Coeff |-> b - BitsToInteger(SubSeq(z, i * c + 1, (i + 1) * c))]

\* The polynomials of a vector one after the other; size bytes cut out at each.
Concat(vector, Encode(_)) == FlattenSeq([i \in 1 .. Cardinality(DOMAIN vector) |-> Encode(vector[i - 1])])
Cut(string, at, size, rows, Decode(_)) ==
  [i \in rows |-> Decode(SubSeq(string, at + i * size + 1, at + (i + 1) * size))]
PolySize(b) == (N * BitLength(b)) \div B

\* The elements that are not None, in order.
Taken(s) == FoldLeft(LAMBDA t, x : IF x = None THEN t ELSE Append(t, x), <<>>, s)

\* The positions of the ones of all rows, padded, then where each row ends.
HintBitPack(h) ==
  LET ones(i) == Taken([j \in 1 .. N |-> IF h[i][j - 1] # 0 THEN j - 1 ELSE None])
      upto(i) == FlattenSeq([r \in 1 .. i |-> ones(r - 1)])
  IN  [p \in 1 .. Omega |-> IF p <= Len(upto(K)) THEN upto(K)[p] ELSE 0]
      \o [i \in 1 .. K |-> Len(upto(i))]

\* Mutant of HintBitUnpack: what follows the last index is not looked at.
HintBitUnpackPadded(y) ==
  LET start(i) == IF i = 1 THEN 0 ELSE y[Omega + i - 1]
      end(i)   == y[Omega + i]
  IN  IF \A i \in 1 .. K : /\ end(i) \in start(i) .. Omega
                           /\ \A p \in start(i) + 2 .. end(i) : y[p - 1] < y[p]
      THEN [i \in Row |-> [j \in Coeff |->
              IF \E p \in start(i + 1) + 1 .. end(i + 1) : y[p] = j THEN 1 ELSE 0]]
      ELSE None

HintBitUnpack(y) ==
  LET start(i) == IF i = 1 THEN 0 ELSE y[Omega + i - 1]
      end(i)   == y[Omega + i]
  IN  IF /\ \A i \in 1 .. K : /\ end(i) \in start(i) .. Omega
                              /\ \A p \in start(i) + 2 .. end(i) : y[p - 1] < y[p]
         /\ \A p \in end(K) + 1 .. Omega : y[p] = 0
      THEN [i \in Row |-> [j \in Coeff |->
              IF \E p \in start(i + 1) + 1 .. end(i + 1) : y[p] = j THEN 1 ELSE 0]]
      ELSE None

-----------------------------------------------------------------------------
(* Polynomials.                                                             *)
Add(a, b) == [j \in Coeff |-> (a[j] + b[j]) % Q]
Sub(a, b) == [j \in Coeff |-> (a[j] - b[j]) % Q]
Neg(a) == [j \in Coeff |-> (-a[j]) % Q]
MulNtt(a, b) == [j \in Coeff |-> (a[j] * b[j]) % Q]
Zero == [j \in Coeff |-> 0]

BitRev(m) == BitsToInteger(Reverse(IntegerToBits(m, B)))
PowMod(x, n) == FoldLeft(LAMBDA t, i : (t * x) % Q, 1, [i \in 1 .. n |-> i])
Zetas == {<<m, PowMod(Zeta, BitRev(m))>> : m \in Coeff}
ZetaAt(m) == (CHOOSE p \in Zetas : p[1] = m)[2]

\* X^N + 1 splits modulo Q: the root's N-th power is -1; and N can be divided by.
ASSUME RootAssumption == PowMod(Zeta, N) = Q - 1 /\ \E f \in 1 .. Q - 1 : (f * N) % Q = 1

\* One layer of butterflies of width le; the twiddle factor belongs to the block.
NttLayer(a, l) ==
  LET le   == N \div Pow2(l)
      z(j) == ZetaAt(Pow2(l - 1) + j \div (2 * le))
  IN  [j \in Coeff |-> IF j % (2 * le) < le THEN (a[j] + z(j) * a[j + le]) % Q
                       ELSE (a[j - le] - (z(j) * a[j])) % Q]
Ntt(w) == FoldLeft(NttLayer, w, [l \in 1 .. B |-> l])

\* The factor f of ntt_inverse.
Scale == CHOOSE f \in 1 .. Q - 1 : (f * N) % Q = 1

\* Mutant of NttInverse: the factors are taken in rising order.
NttInverseRising(w) ==
  LET Layer(a, l) ==
        LET le   == Pow2(l - 1)
            z(j) == -ZetaAt(N \div (2 * le) + j \div (2 * le))
        IN  [j \in Coeff |-> IF j % (2 * le) < le THEN (a[j] + a[j + le]) % Q
                             ELSE (z(j) * (a[j - le] - a[j])) % Q]
      v == FoldLeft(Layer, w, [l \in 1 .. B |-> l])
  IN  [j \in Coeff |-> (Scale * v[j]) % Q]

InverseLayer(a, l) ==
  LET le   == Pow2(l - 1)
      z(j) == -ZetaAt(N \div le - 1 - j \div (2 * le))
  IN  [j \in Coeff |-> IF j % (2 * le) < le THEN (a[j] + a[j + le]) % Q
                       ELSE (z(j) * (a[j - le] - a[j])) % Q]
NttInverse(w) ==
  LET v == FoldLeft(InverseLayer, w, [l \in 1 .. B |-> l])
  IN  [j \in Coeff |-> (Scale * v[j]) % Q]

MatrixVectorNtt(m, v) ==
  [i \in Row |-> FoldLeft(LAMBDA w, j : Add(w, MulNtt(m[i][j - 1], v[j - 1])), Zero, [j \in 1 .. Ell |-> j])]

\* An operation on each row of a vector.
Each(rows, Op(_)) == [i \in rows |-> Op(i)]
-----------------------------------------------------------------------------
(* Rounding.                                                                *)
ModPm(m, alpha) == -((alpha \div 2 - m) % alpha) + alpha \div 2
AbsModPm(x) == LET y == ModPm(x, Q) IN IF y < 0 THEN -y ELSE y
InfNorm(v) == Max(UNION {{AbsModPm(v[i][j]) : j \in Coeff} : i \in DOMAIN v})

\* Mutant of Power2Round1: t1 is rounded down.
RoundDown(r) == (r % Q) \div Pow2(D)

Power2Round0(r) == ModPm(r % Q, Pow2(D))
Power2Round1(r) == ((r % Q) - Power2Round0(r)) \div Pow2(D)

Decompose(r) ==
  LET rp == r % Q
      r0 == ModPm(rp, 2 * Gam2)
  IN  IF rp - r0 = Q - 1 THEN [r1 |-> 0, r0 |-> r0 - 1]
      ELSE [r1 |-> (rp - r0) \div (2 * Gam2), r0 |-> r0]
HighBits(w) == [j \in Coeff |-> Decompose(w[j]).r1]
LowBits(w) == [j \in Coeff |-> Decompose(w[j]).r0]

MakeHint(z, r) ==
  LET r1 == HighBits(r)
      v1 == HighBits(Add(r, z))
  IN  [j \in Coeff |-> IF r1[j] = v1[j] THEN 0 ELSE 1]
Weight(h) == Cardinality({p \in Row \X Coeff : h[p[1]][p[2]] # 0})

UseHint(h, r) ==
  LET m == (Q - 1) \div (2 * Gam2)
      Hinted(bit, d) == IF bit # 1 THEN d.r1 ELSE IF d.r0 > 0 THEN (d.r1 + 1) % m ELSE (d.r1 - 1) % m
  IN  [j \in Coeff |-> Hinted(h[j], Decompose(r[j]))]

-----------------------------------------------------------------------------
(* Sampling.                                                                *)
First(s) == [j \in Coeff |-> s[j + 1]]
CoeffFromThreeBytes(z) == IF z % Pow2(BitLength(Q)) < Q THEN z % Pow2(BitLength(Q)) ELSE None
CoeffFromHalfByte(b) ==
  CASE Eta = 2 /\ b < 15 -> 2 - (b % 5) [] Eta = 4 /\ b < 9 -> 4 - b [] OTHER -> None
NttCoeffs(draws) == Taken([i \in 1 .. Len(draws) |-> CoeffFromThreeBytes(draws[i])])
BoundedCoeffs(bytes) ==
  Taken(FlattenSeq([i \in 1 .. Len(bytes) |->
    <<CoeffFromHalfByte(bytes[i] % 16), CoeffFromHalfByte(bytes[i] \div 16)>>]))
RejNttPoly(draws) == First(NttCoeffs(draws))
RejBoundedPoly(bytes) == First(BoundedCoeffs(bytes))

\* The hash functions give as much as is drawn from them: N coefficients are found.
ASSUME DrawAssumption ==
  \A xi \in Seeds :
    /\ \A r \in Row, s \in Col :
         LET draws == Shake128(<<"rho", xi>>, <<s, r>>)
         IN  draws \in Seq(Nat) /\ Len(NttCoeffs(draws)) >= N
    /\ \A r \in 0 .. Ell + K - 1 :
         LET bytes == Shake256(<<"rhop", xi>>, r)
         IN  bytes \in Seq(Nat) /\ Len(BoundedCoeffs(bytes)) >= N

\* Tau places from the end: a byte behind the place is drawn again, the others bring their
\* coefficient to the place and leave a sign in its stead.
SampleInBall(coins) ==
  LET Step(s, j) ==
        IF s.i = N \/ j > s.i THEN s
        ELSE [i |-> s.i + 1,
              c |-> [s.c EXCEPT ![s.i] = s.c[j],
                                ![j] = IF coins.bits[s.i + Tau - N + 1] = 1 THEN -1 ELSE 1]]
  IN  FoldLeft(Step, [i |-> N - Tau, c |-> Zero], coins.bytes).c

ASSUME CoinAssumption ==
  MaskStrings \subseteq Bytes(PolySize(2 * Gam1 - 1)) /\ \A coin \in ChallengeCoins : coin.bytes \in Seq(Byte)

ExpandA(rho) == [r \in Row |-> [s \in Col |-> RejNttPoly(Shake128(rho, <<s, r>>))]]
ExpandS(rhop) ==
  [s1 |-> [r \in Col |-> RejBoundedPoly(Shake256(rhop, r))],
   s2 |-> [r \in Row |-> RejBoundedPoly(Shake256(rhop, r + Ell))]]

\* The nonces of the masks of a turn.
MaskNonces(kappa) == [r \in 1 .. Ell |-> (kappa + r - 1) % NonceRange]

-----------------------------------------------------------------------------
(* Keys, signatures and what is signed.                                     *)
T1Bound == Pow2(BitLength(Q - 1) - D) - 1
T0Low == Pow2(D - 1) - 1
T0High == Pow2(D - 1)
W1Bound == (Q - 1) \div (2 * Gam2) - 1

\* Mutant of PkEncode: the bound is a power of two, and takes a bit more.
PkEncodeWide(rho, t1) ==
  [rho |-> rho, t1 |-> Concat(t1, LAMBDA w : SimpleBitPack(w, T1Bound + 1))]

PkEncode(rho, t1) == [rho |-> rho, t1 |-> Concat(t1, LAMBDA w : SimpleBitPack(w, T1Bound))]
PkDecode(key) == Cut(key.t1, 0, PolySize(T1Bound), Row, LAMBDA v : SimpleBitUnpack(v, T1Bound))

SkEncode(rho, tr, s1, s2, t0) ==
  [rho |-> rho, tr |-> tr,
   polys |-> Concat(s1, LAMBDA w : BitPack(w, Eta, Eta)) \o Concat(s2, LAMBDA w : BitPack(w, Eta, Eta))
               \o Concat(t0, LAMBDA w : BitPack(w, T0Low, T0High))]
SkDecode(key) ==
  LET le == PolySize(2 * Eta)
      ld == PolySize(T0Low + T0High)
      Small(v) == BitUnpack(v, Eta, Eta)
  IN  [s1 |-> Cut(key.polys, 0, le, Col, Small),
       s2 |-> Cut(key.polys, Ell * le, le, Row, Small),
       t0 |-> Cut(key.polys, (Ell + K) * le, ld, Row, LAMBDA v : BitUnpack(v, T0Low, T0High))]

SigEncode(ct, z, h) ==
  [ct |-> ct, z |-> Concat(z, LAMBDA w : BitPack(w, Gam1 - 1, Gam1)), h |-> HintBitPack(h)]
SigDecodeZ(s) ==
  Cut(s.z, 0, PolySize(2 * Gam1 - 1), Col, LAMBDA v : BitUnpack(v, Gam1 - 1, Gam1))
W1Encode(w1) == Concat(w1, LAMBDA w : SimpleBitPack(w, W1Bound))

KeygenInternal(xi) ==
  LET rho == <<"rho", xi>>
      ah  == ExpandA(rho)
      s   == ExpandS(<<"rhop", xi>>)
      as1 == MatrixVectorNtt(ah, Each(Col, LAMBDA i : Ntt(s.s1[i])))
      t   == Each(Row, LAMBDA i : Add(NttInverse(as1[i]), s.s2[i]))
      pk1 == PkEncode(rho, Each(Row, LAMBDA i : [j \in Coeff |-> Power2Round1(t[i][j])]))
      t0  == Each(Row, LAMBDA i : [j \in Coeff |-> Power2Round0(t[i][j])])
  IN  [pk |-> pk1, sk |-> SkEncode(rho, <<"tr", pk1>>, s.s1, s.s2, t0)]

Modes == {"pure"} \cup DOMAIN Oids
Request == [mode : Modes \cup {None}, ctx : Contexts, m : Messages]
ASSUME AnswerAssumption == ContextLimit \in Nat /\ None \notin Request /\ TRUE \notin {None, Raised}

\* M' of sign and hash_ml_dsa_sign, and of verify and hash_ml_dsa_verify.
Prepared(r) ==
  IF r.mode = "pure" THEN <<0, Len(r.ctx)>> \o r.ctx \o r.m
  ELSE <<1, Len(r.ctx)>> \o r.ctx \o Oids[r.mode] \o DigestOf(r.mode, r.m)
Mu(tr, r) == <<tr, Prepared(r)>>

-----------------------------------------------------------------------------
VARIABLES
  pk, sk,   \* encoded keys
  request,  \* what sign was called for, None before
  kappa,    \* loop variable of sign_internal, None outside the loop
  nonces,   \* history: the nonces of the masks drawn so far
  sig,      \* signature, None before
  coins,    \* SHAKE256 output behind the challenge of sig
  verdict   \* what verify was asked and its answer, None before

vars == <<pk, sk, request, kappa, nonces, sig, coins, verdict>>

TypeOK ==
  /\ pk.t1 \in Bytes(K * PolySize(T1Bound))
  /\ sk.polys \in Bytes((Ell + K) * PolySize(2 * Eta) + K * PolySize(Pow2(D) - 1))
  /\ request \in Request \cup {None}
  /\ kappa = None \/ kappa \in 0 .. TurnBound * Ell
  /\ \A i \in 1 .. Len(nonces) : nonces[i] \in 0 .. NonceRange - 1
  /\ sig # None => sig.z \in Bytes(Ell * PolySize(2 * Gam1 - 1)) /\ sig.h \in Bytes(Omega + K)
  /\ coins \in ChallengeCoins \cup {None}
  /\ verdict # None => verdict.answer \in {TRUE, FALSE, None, Raised}

Init ==
  /\ \E xi \in Seeds : LET key == KeygenInternal(xi) IN pk = key.pk /\ sk = key.sk
  /\ request = None /\ kappa = None /\ nonces = <<>>
  /\ sig = None /\ coins = None /\ verdict = None

\* sign and hash_ml_dsa_sign up to the loop of sign_internal; None for a long context or
\* an unknown hash.
Sign(r) ==
  /\ request = None
  /\ request' = r
  /\ kappa' = IF Len(r.ctx) > ContextLimit \/ r.mode = None THEN None ELSE 0
  /\ UNCHANGED <<pk, sk, nonces, sig, coins, verdict>>

\* Mutant of NextKappa: turns share masks.
NextKappaByOne == kappa + 1

NextKappa == kappa + Ell

\* One turn of the loop of sign_internal.
Turn ==
  /\ kappa # None /\ kappa < TurnBound * Ell
  /\ \E open \in {SkDecode(sk)} :
     \E ah \in {ExpandA(sk.rho)},
        s1h \in {Each(Col, LAMBDA i : Ntt(open.s1[i]))},
        s2h \in {Each(Row, LAMBDA i : Ntt(open.s2[i]))},
        t0h \in {Each(Row, LAMBDA i : Ntt(open.t0[i]))},
        masks \in [Col -> MaskStrings] :
     \E y \in {Each(Col, LAMBDA i : BitUnpack(masks[i], Gam1 - 1, Gam1))} :
     \E aNtt \in {MatrixVectorNtt(ah, Each(Col, LAMBDA i : Ntt(y[i])))} :
     \E w \in {Each(Row, LAMBDA i : NttInverse(aNtt[i]))} :
     \E draw \in ChallengeCoins :
     \E ch \in {Ntt(SampleInBall(draw))} :
       LET ct  == <<Mu(sk.tr, request), W1Encode(Each(Row, LAMBDA i : HighBits(w[i])))>>
           Times(v, i) == NttInverse(MulNtt(ch, v[i]))
           z   == Each(Col, LAMBDA i : Add(y[i], Times(s1h, i)))
           wcs == Each(Row, LAMBDA i : Sub(w[i], Times(s2h, i)))
           ct0 == Each(Row, LAMBDA i : Times(t0h, i))
           h   == Each(Row, LAMBDA i : MakeHint(Neg(ct0[i]), Add(wcs[i], ct0[i])))
           done == /\ InfNorm(z) < Gam1 - Beta
                   /\ InfNorm(Each(Row, LAMBDA i : LowBits(wcs[i]))) < Gam2 - Beta
                   /\ InfNorm(ct0) < Gam2
                   /\ Weight(h) <= Omega
       IN  /\ kappa' = IF done THEN None ELSE NextKappa
           /\ sig' = IF done THEN SigEncode(ct, Each(Col, LAMBDA i : [j \in Coeff |-> ModPm(z[i][j], Q)]), h)
                     ELSE None
           /\ coins' = IF done THEN draw ELSE None
  /\ nonces' = nonces \o MaskNonces(kappa)
  /\ UNCHANGED <<pk, sk, request, verdict>>

\* verify_internal on the signature with these bytes in its hint part.
VerifyInternal(r, hint) ==
  LET z   == SigDecodeZ(sig)
      h   == HintBitUnpack(hint)
      t1  == PkDecode(pk)
      az  == MatrixVectorNtt(ExpandA(pk.rho), Each(Col, LAMBDA i : Ntt(z[i])))
      ch  == Ntt(SampleInBall(coins))
      Wp(i) == NttInverse(Sub(az[i], MulNtt(ch, Ntt([j \in Coeff |-> t1[i][j] * Pow2(D)]))))
      w1p == Each(Row, LAMBDA i : UseHint(h[i], Wp(i)))
  IN  h # None /\ InfNorm(z) < Gam1 - Beta /\ sig.ct = <<Mu(<<"tr", pk>>, r), W1Encode(w1p)>>

Answer(r, hint) ==
  CASE Len(r.ctx) > ContextLimit -> IF r.mode = "pure" THEN Raised ELSE None
    [] Len(r.ctx) <= ContextLimit /\ r.mode = None -> FALSE
    [] OTHER -> VerifyInternal(r, hint)

\* verify and hash_ml_dsa_verify of a finished signature.
Verify(r, hint) ==
  /\ verdict' = [request |-> r, hint |-> hint, answer |-> Answer(r, hint)]
  /\ UNCHANGED <<pk, sk, request, kappa, nonces, sig, coins>>

HintStrings == Bytes(Omega + K)

Next ==
  \/ \E r \in Request : Sign(r)
  \/ Turn
  \/ /\ sig # None /\ verdict = None
     /\ \/ \E r \in Request : Verify(r, sig.h)
        \/ \E hint \in HintStrings : Verify(request, hint)

Spec == Init /\ [][Next]_vars

-----------------------------------------------------------------------------
\* Whichever turns were rejected, for every mask and challenge a finished signature is
\* accepted for its own message: the hint gives back the high bits the challenge was made
\* from, after t was cut in two and everything packed and unpacked (sign_internal,
\* verify_internal, power2round, make_hint, use_hint).
SignedVerifies ==
  verdict # None /\ verdict.request = request /\ verdict.hint = sig.h => verdict.answer = TRUE

\* A signature is accepted for nothing but the message, context, mode and hash it was
\* made for, and with no other bytes in its hint part: the prefix tells message and
\* context apart, and hint_bit_unpack takes one encoding of each hint only.
AcceptedAsSigned ==
  verdict # None /\ verdict.answer = TRUE => verdict.request = request /\ verdict.hint = sig.h

\* No mask is drawn from a nonce a second time, whatever number of turns is rejected
\* (kappa in sign_internal, expand_mask): two answers with one mask give away the key.
MasksFresh == \A i, j \in 1 .. Len(nonces) : nonces[i] = nonces[j] => i = j

\* What signer and verifier multiply by way of ntt and ntt_inverse is the product in the
\* ring, where X^N is -1 (ntt, mul_ntt, ntt_inverse).
Rot(i, b) == [j \in Coeff |-> IF i <= j THEN b[j - i] ELSE -b[N + j - i]]   \* X^i times b
RingProduct(a, b) ==
  LET sum == FoldLeft(LAMBDA t, i : [j \in Coeff |-> t[j] + a[i] * Rot(i, b)[j]], Zero,
                      [i \in 1 .. N |-> i - 1])
  IN  [j \in Coeff |-> sum[j] % Q]
NttMultiplies ==
  sig # None /\ verdict = None =>
    LET c == SampleInBall(coins)
        z == SigDecodeZ(sig)
    IN  \A i \in Col : NttInverse(MulNtt(Ntt(c), Ntt(z[i]))) = RingProduct(c, z[i])
=============================================================================
