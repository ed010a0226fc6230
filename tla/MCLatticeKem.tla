---------------------------- MODULE MCLatticeKem ----------------------------
EXTENDS FoKem

\* Draws that look random: a congruential generator, started from what is expanded.
Draws(start, len, scale, modulus) ==
  LET x == FoldLeft(LAMBDA s, i : Append(s, (s[Len(s)] * 421 + 1663) % 7875), <<start % 7875>>,
                    [i \in 1 .. len |-> i])
  IN  SubSeq([i \in 1 .. len |-> (x[i] * scale) % modulus], 1, len)

\* ML-KEM: seeds d = z, messages of one byte.
MCXof(rho, ji) == Draws(rho[2] * 1009 + ji[1] * 211 + ji[2] * 37, 24, 37, 256)
MCPrf(seed, n) == Draws((IF seed[1] = "sigma" THEN seed[2] ELSE 11 + seed[2][1]) * 757 + n * 131, 6, 37, 256)

\* FrodoKEM: the seed of keygen is a number, that of encaps holds the message and the salt.
MCChi == <<20000, 20000, 2000, 500>>
MCGenBlock(a, i, j) == Draws(a[2] * 1009 + i * 211 + j * 37, 8, 1, 65536)
MCShake16(seed, len) ==
  LET start == IF seed[1] = 95 THEN 3 * seed[2]
               ELSE 11 + MapThenSumSet(LAMBDA t : seed[2][2][2][t] * 2 ^ t, 1 .. 8) + seed[2][2][3]
  IN  Draws(start * 757, len, 8, 65536)

MCSchemes == {"ml-kem", "frodokem"}
MCCoins ==
  [s \in MCSchemes |-> IF s = "ml-kem" THEN {<<77>>, <<0>>}
                       ELSE {[mu |-> <<1, 0, 0, 1, 1, 1, 0, 1>>, salt |-> 2],
                             [mu |-> <<0, 0, 0, 0, 0, 0, 0, 0>>, salt |-> 1]}]
MCExpanded(s, d) ==
  IF s = "ml-kem" THEN [d |-> d, z |-> <<"z", d>>] ELSE [z |-> d, se |-> d, s |-> <<"s", d>>]

\* One element changed (the first, one in the middle of each part, the last), one lost, one added.
MCDamaged(s, ct) ==
  LET Other(x) == IF s = "ml-kem" THEN (x + 1) % 256 ELSE 1 - x
      places   == IF s = "ml-kem" THEN {1, Len(ct)} ELSE {1, Len(ct) - 1}
  IN  {[ct EXCEPT ![i] = Other(@)] : i \in places}
      \cup {SubSeq(ct, 1, Len(ct) - 1), Append(ct, 0)}
      \cup (IF s = "ml-kem" THEN {} ELSE {[ct EXCEPT ![Len(ct)] = 3]})
=============================================================================
