------------------------------ MODULE MCMlDsa -------------------------------
EXTENDS MlDsa

\* Draws that look random: a congruential generator, started from the seed and a nonce.
Draws(start, modulus, len) ==
  LET x[i \in 0 .. len] == IF i = 0 THEN start ELSE (x[i - 1] * 421 + 1663) % 7875
  IN  [i \in 1 .. len |-> x[i] % modulus]
MCShake128(rho, nonce) == Draws(rho[2] * 1009 + nonce[1] * 211 + nonce[2] * 37, 512, 12)
MCShake256(rhop, nonce) == Draws(rhop[2] * 757 + nonce * 131, 256, 6)

\* Masks: the ends of their range, zero, and two in between.
MCMasks == {<<64, -63, 0, 40>>, <<5, -20, 33, -48>>, <<-9, 17, 2, 58>>}
MCMaskStrings == {BitPack([j \in Coeff |-> y[j + 1]], Gam1 - 1, Gam1) : y \in MCMasks}

\* Challenges: both places the same or not, a byte drawn again.
MCCoins ==
  [bits : {<<0, 0>>, <<0, 1>>, <<1, 0>>, <<1, 1>>},
   bytes : {<<0, 1, 0>>, <<2, 3, 0>>, <<2, 2, 0>>, <<3, 1, 0>>, <<1, 1, 0>>}]

\* A message that continues where a context ends, and one that looks like a hash.
MCMessages == {<<7>>, <<5, 7>>, <<9, 1, 1>>}
MCContexts == {<<>>, <<5>>, <<5, 5, 5>>}
MCOids == [h \in {"SHA-256"} |-> <<9, 1>>]
MCDigestOf(h, m) == <<Len(m)>>
=============================================================================
