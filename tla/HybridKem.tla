----------------------------- MODULE HybridKem ------------------------------
(***************************************************************************)
(* Encapsulation and decapsulation of the hybrid KEM keys: composite KEM,   *)
(* X-Wing and Chempat over the mechanisms of kem_mechanism.py.  Octets are  *)
(* sequences of pieces that carry their length, so that every cut falls     *)
(* where the code's lengths put it.  The post-quantum half is the KEM that  *)
(* FoKem implements: each ciphertext given to a pair has a secret of its    *)
(* own.  A hash is the tuple of what it is given.                          *)
(***************************************************************************)
EXTENDS Integers, Sequences, SequencesExt

CONSTANTS Pair,    \* the key pairs of either half; also what an ephemeral DH key may be
          Coin,    \* the randomness of a post-quantum or RSA encapsulation
          None

\* An algorithm is a record [family, pq, trad]; ecdh stands for a curve of 256 bits, rsa-odd for
\* an RSA key of another size than 2048, 3072 and 4096 bits.
Dh == {"x25519", "ecdh"}

\* How long the first pieces are together, for each number of them.
Upto(octets) ==
  LET sum[k \in 0 .. Len(octets)] == IF k = 0 THEN 0 ELSE sum[k - 1] + octets[k].bytes IN sum

Bytes(octets) == Upto(octets)[Len(octets)]

\* Both sides of a cut after n bytes; a cut inside a piece leaves two sides that nothing reads.
Split(octets, n) ==
  {<<SubSeq(octets, 1, k), SubSeq(octets, k + 1, Len(octets))>> :
     k \in {k \in 0 .. Len(octets) : Upto(octets)[k] = n}}

-----------------------------------------------------------------------------
\* pq_key.ct_length
PqCtBytes == [x \in {"ml-kem", "frodokem", "sntrup761", "mceliece"} |->
                CASE x = "ml-kem" -> 1088 [] x = "frodokem" -> 15744
                  [] x = "sntrup761" -> 1039 [] OTHER -> 96]

\* DHKEMPublicKey.key_size, which is its ct_length: a curve's is that of a compressed point.
DhSize(trad) == IF trad = "x25519" THEN 32 ELSE (256 \div 8) + 1

\* What encodes a point: X25519 ignores the highest bit, a curve reads both encodings.
PointBytes == [form \in {"plain", "high bit", "compressed", "uncompressed"} |->
                 CASE form = "compressed" -> 33 [] form = "uncompressed" -> 65 [] OTHER -> 32]
Forms(trad) == IF trad = "x25519" THEN {"plain", "high bit"} ELSE {"compressed", "uncompressed"}

\* encode_public_key
SentForm(trad) == IF trad = "x25519" THEN "plain" ELSE "uncompressed"

PqCt(pq, pair, coin) == [kind |-> "pq", of |-> pair, with |-> coin, bytes |-> PqCtBytes[pq]]
Oaep(pair, coin)     == [kind |-> "oaep", of |-> pair, with |-> coin, bytes |-> 256]
Point(eph, form)     == [kind |-> "point", of |-> eph, with |-> form, bytes |-> PointBytes[form]]

-----------------------------------------------------------------------------
\* The secret a pair has with a ciphertext of the post-quantum KEM.
PqSecret(pair, ct) == <<pair, ct>>

\* _perform_ecdh
Exchange(pair, point) == {pair, point.of}

\* What the traditional half makes of its part of a ciphertext: RSA-OAEP raises for a ciphertext
\* that is not its own, DHKEM derives the secret from both public keys as they were encoded,
\* ECDH-KEM and X-Wing hand out the bare exchange.
TradSecrets(rfc9180, pair, octets) ==
  IF Len(octets) # 1 THEN {}
  ELSE LET ct == octets[1]
       IN  CASE ct.kind = "oaep"  -> {s \in {<<"oaep", ct>>} : ct.of = pair}
             [] ct.kind = "point" -> {IF rfc9180
                                      THEN <<Exchange(pair, ct), ct, pair>>
                                      ELSE Exchange(pair, ct)}
             [] OTHER             -> {}

UsesRfc9180(alg) == alg.family = "chempat"

\* Mutant of Combined: the traditional ciphertext is not hashed.
CombinedWithoutCt(alg, pqSs, tradSs, pqCt, tradCt, pub) == <<pqSs, tradSs, pub.trad, alg>>

\* kem_combiner of the three families.
Combined(alg, pqSs, tradSs, pqCt, tradCt, pub) ==
  IF alg.family = "chempat"
  THEN <<tradSs, pqSs, tradCt \o pqCt, pub, alg>>
  ELSE <<pqSs, tradSs, tradCt, pub.trad, alg>>

\* COMPOSITE_KEM_LABELS has no entry for the sizes get_oid of a private key rounds away.
HasLabel(alg) == alg.trad # "rsa-odd"

Joined(alg, pqCt, tradCt) == IF alg.family = "chempat" THEN tradCt \o pqCt ELSE pqCt \o tradCt

-----------------------------------------------------------------------------
\* encaps to a public key, with an ephemeral key that was given or drawn.
Encaps(alg, pub, coin, eph) ==
  LET pqCt   == <<PqCt(alg.pq, pub.pq, coin)>>
      tradCt == <<IF alg.trad \in Dh THEN Point(eph, SentForm(alg.trad)) ELSE Oaep(pub.trad, coin)>>
  IN  {[ct |-> Joined(alg, pqCt, tradCt),
        ss |-> Combined(alg, PqSecret(pub.pq, pqCt[1]), ss, pqCt, tradCt, pub)] :
         ss \in {ss \in TradSecrets(UsesRfc9180(alg), pub.trad, tradCt) : HasLabel(alg)}}

\* Mutant of TradBytes: an uncompressed point counted one byte longer.
TradBytesByOne(alg, ct) ==
  LET n == DhSize(alg.trad)
      whole == n + PqCtBytes[alg.pq]
  IN  CASE Bytes(ct) = whole                                  -> {n}
        [] Bytes(ct) = whole + n /\ alg.trad = "ecdh"         -> {n + n}
        [] OTHER                                              -> {}

\* _check_ct_length and nenc of decaps: how many bytes of a Chempat ciphertext are the point.
TradBytes(alg, ct) ==
  LET n == DhSize(alg.trad)
      whole == n + PqCtBytes[alg.pq]
  IN  CASE Bytes(ct) = whole                                  -> {n}
        [] Bytes(ct) = whole + n - 1 /\ alg.trad = "ecdh"     -> {n + n - 1}
        [] OTHER                                              -> {}

\* What decaps takes for the two parts; X-Wing reads as far as it needs.
Read(alg, ct) ==
  CASE alg.family = "chempat" ->
         {[pq |-> s[2], trad |-> s[1]] : s \in UNION {Split(ct, n) : n \in TradBytes(alg, ct)}}
    [] alg.family = "xwing" ->
         UNION {{[pq |-> s[1], trad |-> t[1]] : t \in Split(s[2], 32)} : s \in Split(ct, 1088)}
    [] OTHER ->
         {[pq |-> s[1], trad |-> s[2]] : s \in Split(ct, PqCtBytes[alg.pq])}

\* decaps: no secret when it raises.  The public key is the one that the key object holds.
Decaps(alg, used, pub, ct) ==
  UNION {{Combined(alg, PqSecret(used.pq, part.pq[1]), ss, part.pq, part.trad, pub) :
            ss \in TradSecrets(UsesRfc9180(alg), used.trad, part.trad)} :
         part \in {part \in Read(alg, ct) : HasLabel(alg) /\ Len(part.pq) = 1}}

\* Whatever may arrive: parts of ciphertexts for any pair put together anew, encoded otherwise,
\* cut short or with bytes after them.
Arriving(alg) ==
  LET pqCts   == {PqCt(alg.pq, pair, coin) : pair \in Pair, coin \in Coin}
      tradCts == IF alg.trad \in Dh
                 THEN {Point(eph, form) : eph \in Pair, form \in Forms(alg.trad)}
                 ELSE {Oaep(pair, coin) : pair \in Pair, coin \in Coin}
      whole   == {Joined(alg, <<p>>, <<t>>) : p \in pqCts, t \in tradCts}
      rest    == [kind |-> "rest", of |-> None, with |-> None, bytes |-> 1]
  IN  whole \cup {Front(ct) : ct \in whole} \cup {Append(ct, rest) : ct \in whole}
=============================================================================
