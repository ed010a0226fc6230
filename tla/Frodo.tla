------------------------------- MODULE Frodo --------------------------------
(***************************************************************************)
(* The FrodoKEM class of frodokem.py on small matrices.  Hashing is free: a *)
(* hash value is what was hashed, and stands as one element of a string for *)
(* its bytes.  A packed matrix is a string of bits.                        *)
(***************************************************************************)
EXTENDS Integers, Sequences, FiniteSets, SequencesExt, FiniteSetsExt

CONSTANTS D, FrodoN, NBar, B, Chi,    \* a row of setParamsFrodo*; NBar is also mbar
          GenBlock(_, _, _),          \* eight entries of a row of A: seedA, row, column
          Shake16(_, _)               \* noise: seed, length

ASSUME FrodoAssumption == {D, FrodoN, NBar, B} \subseteq Nat \ {0} /\ FrodoN % 8 = 0

QF == 2 ^ D
Dim(n) == 0 .. n - 1

-----------------------------------------------------------------------------
(* Matrices, as functions of row and column (a sequence first, which TLC evaluates once). *)
Mat(n1, n2, Entry(_, _)) ==
  LET e == SubSeq([t \in 1 .. n1 * n2 |-> Entry((t - 1) \div n2, (t - 1) % n2)], 1, n1 * n2)
  IN  [i \in Dim(n1) |-> [j \in Dim(n2) |-> e[i * n2 + j + 1]]]
Rows(x) == Cardinality(DOMAIN x)
Cols(x) == Cardinality(DOMAIN x[0])
MatrixMul(x, y) ==
  Mat(Rows(x), Cols(y), LAMBDA i, j : MapThenSumSet(LAMBDA k : x[i][k] * y[k][j], DOMAIN y) % QF)
MatrixAdd(x, y) == Mat(Rows(x), Cols(x), LAMBDA i, j : (x[i][j] + y[i][j]) % QF)
MatrixSub(x, y) == Mat(Rows(x), Cols(x), LAMBDA i, j : (x[i][j] - y[i][j]) % QF)
Transpose(x) == Mat(Cols(x), Rows(x), LAMBDA i, j : x[j][i])

-----------------------------------------------------------------------------
(* Messages and packing.                                                    *)
BitAt(x, l) == (x \div 2 ^ l) % 2
Sum2(len, Bit(_)) == MapThenSumSet(LAMBDA l : Bit(l) * 2 ^ l, 0 .. len - 1)

\* A message is its bits, those of a byte from the lowest on.
Encode(mu) ==
  Mat(NBar, NBar, LAMBDA i, j : Sum2(B, LAMBDA l : mu[(i * NBar + j) * B + l + 1]) * (QF \div 2 ^ B))

\* Mutant of Decode: rounds down.
DecodeDown(m) ==
  LET Digit(p) == (m[p \div NBar][p % NBar] * 2 ^ B) \div QF
  IN  [t \in 1 .. B * NBar * NBar |-> BitAt(Digit((t - 1) \div B), (t - 1) % B)]

Decode(m) ==
  LET Digit(p) == ((2 * m[p \div NBar][p % NBar] * 2 ^ B + QF) \div (2 * QF)) % 2 ^ B
  IN  [t \in 1 .. B * NBar * NBar |-> BitAt(Digit((t - 1) \div B), (t - 1) % B)]

\* The highest bit of an entry comes first.
Pack(c) ==
  LET n2 == Cols(c)
  IN  [t \in 1 .. D * Rows(c) * n2 |->
         LET p == (t - 1) \div D
         IN  BitAt(c[p \div n2][p % n2], D - 1 - ((t - 1) % D))]
Unpack(b, n1, n2) ==
  Mat(n1, n2, LAMBDA i, j : Sum2(D, LAMBDA l : b[(i * n2 + j) * D + D - l]))

\* S^T is stored in signed 16-bit words.
ToWords(st) == [t \in 1 .. NBar * FrodoN |-> st[(t - 1) \div FrodoN][(t - 1) % FrodoN] % 2 ^ 16]
Signed(word) == IF word >= 2 ^ 15 THEN word - 2 ^ 16 ELSE word
FromWords(w) == Mat(NBar, FrodoN, LAMBDA i, j : Signed(w[i * FrodoN + j + 1]))

-----------------------------------------------------------------------------
(* Sampling.                                                                *)
TChi(z) == Chi[1] \div 2 - 1 + MapThenSumSet(LAMBDA i : Chi[i], 2 .. z + 1)
Sample(r) ==
  LET e == Cardinality({z \in 0 .. Len(Chi) - 2 : r \div 2 > TChi(z)})
  IN  IF r % 2 = 1 THEN -e ELSE e
SampleMatrix(r, from, n1, n2) == Mat(n1, n2, LAMBDA i, j : Sample(r[from + i * n2 + j + 1]))

\* genAES128 reads eight entries at a time, genSHAKE128 a whole row: A[i][j] is one draw.
Gen(seedA) ==
  LET blocks == {<<i, j, GenBlock(seedA, i, j)>> : i \in Dim(FrodoN), j \in {8 * k : k \in 0 .. FrodoN \div 8 - 1}}
      Block(i, j) == (CHOOSE b \in blocks : b[1] = i /\ b[2] = j)[3]
  IN  Mat(FrodoN, FrodoN, LAMBDA i, j : Block(i, 8 * (j \div 8))[(j % 8) + 1] % QF)

-----------------------------------------------------------------------------
(* Keys: pk is seedA and packed B; sk is s, pk, the words of S^T, pkh.      *)
PkSize == 1 + D * FrodoN * NBar
Shake(x) == <<"shake", x>>

FrodoKeygen(seed) ==
  LET seedA == Shake(seed.z)
      r  == Shake16(<<95, seed.se>>, 2 * FrodoN * NBar)
      st == SampleMatrix(r, 0, NBar, FrodoN)
      e  == SampleMatrix(r, FrodoN * NBar, FrodoN, NBar)
      b  == MatrixAdd(MatrixMul(Gen(seedA), Transpose(st)), e)
      pk == <<seedA>> \o Pack(b)
  IN  [pk |-> pk, sk |-> <<seed.s>> \o pk \o ToWords(st) \o <<Shake(pk)>>]

\* _derivate_public_key.
FrodoPublic(sk) == SubSeq(sk, 2, 1 + PkSize)

\* Steps 4 to 13 of encapsulation, repeated by decapsulation.
Encrypted(pk, mu, seedSE) ==
  LET r   == Shake16(<<150, seedSE>>, 2 * NBar * FrodoN + NBar * NBar)
      sp  == SampleMatrix(r, 0, NBar, FrodoN)
      ep  == SampleMatrix(r, NBar * FrodoN, NBar, FrodoN)
      epp == SampleMatrix(r, 2 * NBar * FrodoN, NBar, NBar)
      bm  == Unpack(SubSeq(pk, 2, PkSize), FrodoN, NBar)
      v   == MatrixAdd(MatrixMul(sp, bm), epp)
  IN  [bp |-> MatrixAdd(MatrixMul(sp, Gen(pk[1])), ep), c |-> MatrixAdd(v, Encode(mu))]

\* c1, c2 and the salt in a row.
C1Size == D * NBar * FrodoN
C2Size == D * NBar * NBar

FrodoEncaps(pk, coins) ==
  LET g   == <<Shake(pk), coins.mu, coins.salt>>
      enc == Encrypted(pk, coins.mu, <<"se", g>>)
      c   == Pack(enc.bp) \o Pack(enc.c) \o <<coins.salt>>
  IN  [ct |-> c, ss |-> Shake(<<c, <<"k", g>>>>)]

FrodoDecaps(sk, ct) ==
  LET pk   == FrodoPublic(sk)
      s    == Transpose(FromWords(SubSeq(sk, 2 + PkSize, 1 + PkSize + NBar * FrodoN)))
      bp   == Unpack(SubSeq(ct, 1, C1Size), NBar, FrodoN)
      c    == Unpack(SubSeq(ct, C1Size + 1, C1Size + C2Size), NBar, NBar)
      mu   == Decode(MatrixSub(c, MatrixMul(bp, s)))
      g    == <<sk[Len(sk)], mu, ct[Len(ct)]>>
      enc  == Encrypted(pk, mu, <<"se", g>>)
      kbar == IF bp = enc.bp /\ c = enc.c THEN <<"k", g>> ELSE sk[1]
  IN  Shake(<<ct, kbar>>)
=============================================================================
