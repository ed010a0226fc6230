---------------------------- MODULE KemDispatch -----------------------------
(***************************************************************************)
(* compute_encaps and compute_decaps: by the class of a key object they     *)
(* reach the KEM of HybridKem, its halves on their own, RSA-KEM and DHKEM.  *)
(* A key object is a record [class, alg, pq, trad] of its class, the        *)
(* algorithm it belongs to and the pairs of its halves.                    *)
(***************************************************************************)
EXTENDS HybridKem

CONSTANTS KeyLength    \* lengths a caller may ask of RSA-KEM

\* Keys of the cryptography package, and the wrappers of trad_kem_keys.py.
BareDh == {"ecdh key"}
DhClass  == BareDh \cup {"dhkem", "ecdh-kem"}
RsaClass == {"rsa key", "rsa-kem"}

\* RSAKem: a number below the modulus raised to e; the secret is KDF3 of it.
RsaCt(pair, coin) == [kind |-> "rsa", of |-> pair, with |-> coin, bytes |-> 256]
RsaSecret(pair, ct, length) == <<pair, ct, length>>

\* Bare DH keys are wrapped for RFC 9180.
Rfc9180(class) == class \in {"ecdh key", "dhkem"}

\* An ephemeral key is refused where it has no part in the KEM.
TakesOther(key) ==
  \/ key.class \in DhClass \cup {"chempat", "xwing"}
  \/ key.class = "composite-kem" /\ key.alg.trad \in Dh

\* compute_encaps; an ephemeral key that is not given is drawn.
ComputeEncaps(key, other, length, coin, drawn) ==
  LET eph   == IF other = None THEN drawn ELSE other
      point == <<Point(eph, SentForm(key.alg.trad))>>
      pqCt  == <<PqCt(key.alg.pq, key.pq, coin)>>
      rsaCt == <<RsaCt(key.trad, coin)>>
  IN  IF other # None /\ ~TakesOther(key) THEN {}
      ELSE CASE key.class \in RsaClass -> {[ct |-> rsaCt, ss |-> RsaSecret(key.trad, rsaCt[1], length)]}
             [] key.class \in DhClass  -> {[ct |-> point, ss |-> ss] :
                                           ss \in TradSecrets(Rfc9180(key.class), key.trad, point)}
             [] key.class = "pq"       -> {[ct |-> pqCt, ss |-> PqSecret(key.pq, pqCt[1])]}
             [] OTHER -> Encaps(key.alg, [pq |-> key.pq, trad |-> key.trad], coin, eph)

\* compute_decaps of a key object whose halves hold pub as their public keys.  A bare DH key is
\* not wrapped here, and of no class it knows.
ComputeDecaps(key, pub, ct, length) ==
  CASE key.class \in RsaClass          -> {RsaSecret(key.trad, ct[1], length)}
    [] key.class \in DhClass \ BareDh  -> TradSecrets(Rfc9180(key.class), key.trad, ct)
    [] key.class \in BareDh            -> {}
    [] key.class = "pq"                -> {PqSecret(key.pq, ct[1])}
    [] OTHER -> Decaps(key.alg, [pq |-> key.pq, trad |-> key.trad], pub, ct)

\* A hybrid key of these pairs, and what it hands out of its halves: the post-quantum key and the
\* wrapper of the traditional one, which holds a bare key.
Objects(alg, pairs) ==
  LET object(class) == [class |-> class, alg |-> alg, pq |-> pairs.pq, trad |-> pairs.trad]
      wrapper == CASE alg.trad \notin Dh       -> "rsa-kem"
                   [] alg.family = "chempat"   -> "dhkem"
                   [] OTHER                    -> "ecdh-kem"
      bare == IF alg.trad \in Dh THEN "ecdh key" ELSE "rsa key"
  IN  {object(class) : class \in {alg.family, "pq", bare}
                                 \cup (IF alg.family = "xwing" THEN {} ELSE {wrapper})}
=============================================================================
