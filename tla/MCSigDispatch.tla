--------------------------- MODULE MCSigDispatch ---------------------------
EXTENDS SigDispatch, TLC

\* One key of each kind, a second RSA key, and composite keys with an elliptic curve, with
\* a registered and an unregistered RSA size, and with a size registered for PSS only.
MCKind ==
  [rsa1 |-> "rsa", rsa2 |-> "rsa", ec |-> "ecdsa", ed |-> "ed25519", dsa |-> "dsa",
   mldsa |-> "pq", slhdsa |-> "pq", falcon |-> "pq", hss |-> "stateful",
   compEc |-> "composite", comp3072 |-> "composite", comp3000 |-> "composite",
   comp87 |-> "composite", mlkem |-> "kem"]
MCKey == DOMAIN MCKind

MCName ==
  [key \in MCKey |->
     CASE key = "mldsa"  -> "ml-dsa-44"
       [] key = "slhdsa" -> "slh-dsa-shake-128f"
       [] key = "falcon" -> "falcon-512"
       [] key = "hss"    -> "hss"
       [] key = "compEc" -> "composite-sig-ml-dsa-44-ecdsa-secp256r1"
       [] key \in {"comp3072", "comp3000"} -> "composite-sig-ml-dsa-65-rsa3072"
       [] key = "comp87" -> "composite-sig-ml-dsa-87-rsa3072"
       [] OTHER          -> MCKind[key]]
MCPublicName == [MCName EXCEPT !["comp3000"] = "composite-sig-ml-dsa-65-rsa3000"]

MCDigestSize ==
  [hash \in {"sha1", "sha256", "sha512", "sha3_256", "shake128"} |->
     CASE hash = "sha1" -> 20 [] hash = "sha512" -> 64 [] OTHER -> 32]
MCHash == DOMAIN MCDigestSize
MCPreHash ==
  [name \in {"ml-dsa-44", "slh-dsa-shake-128f", "falcon-512"} |->
     CASE name = "ml-dsa-44"  -> "sha512"
       [] name = "falcon-512" -> NoHash
       [] OTHER               -> "shake128"]
MCComposite ==
  {<<"composite-sig-ml-dsa-44-ecdsa-secp256r1", FALSE>>,
   <<"composite-sig-ml-dsa-65-rsa3072", FALSE>>, <<"composite-sig-ml-dsa-65-rsa3072", TRUE>>,
   <<"composite-sig-ml-dsa-87-rsa3072", TRUE>>}

\* No argument, one hash of each sort, use_pss with all combinations of hash, salt and
\* second hash.
MCRequest ==
  LET Asked(hash, use_pss, salt, second) ==
        [hash |-> hash, use_pss |-> use_pss, salt |-> salt, second |-> second]
  IN  {Asked(hash, FALSE, NoSalt, NoHash) : hash \in MCHash \cup {NoHash}}
      \cup {Asked(hash, TRUE, salt, second) : hash \in MCHash \cup {NoHash}, salt \in {NoSalt, 0, 20},
                                             second \in {NoHash, "sha256", "sha1"}}

Symmetry == Permutations(Data)
=============================================================================
