------------------------------- MODULE FoKem --------------------------------
(***************************************************************************)
(* The ML-KEM and FrodoKEM key objects of kem_keys.py over the bundled      *)
(* implementations (ml-kem-512 and FrodoKEM where liboqs is missing): keys  *)
(* come from a seed or from stored bytes, find their public half when it is *)
(* asked for, encapsulate and decapsulate, also what was damaged on the way.*)
(***************************************************************************)
EXTENDS MlKem, Frodo

CONSTANTS Schemes, Seeds,
          Expanded(_, _),              \* of each scheme, what keygen draws from a seed
          Coins,                       \* of each scheme, the randomness of encapsulation
          Damaged(_, _),               \* what may arrive for a ciphertext, of any length
          AnswerBound, None

ASSUME FoKemAssumption == Schemes \subseteq {"ml-kem", "frodokem"} /\ AnswerBound \in Nat /\ None \notin Seeds

VARIABLES scheme, keys, sent, answers
vars == <<scheme, keys, sent, answers>>

\* The implementation under each class.
KeyGen(s, d) == IF s = "ml-kem" THEN MlKemKeygen(Expanded(s, d)) ELSE FrodoKeygen(Expanded(s, d))
PublicPart(s, sk) == IF s = "ml-kem" THEN MlKemPublic(sk) ELSE FrodoPublic(sk)
EncapsWith(s, pk, m) == IF s = "ml-kem" THEN MlKemEncaps(pk, m) ELSE FrodoEncaps(pk, m)
DecapsWith(s, sk, ct) == IF s = "ml-kem" THEN MlKemDecaps(sk, ct) ELSE FrodoDecaps(sk, ct)

\* Different seeds differ in each of the parts that keygen takes from them, and the s of FrodoKEM is
\* none of the values that stand for a k.
ASSUME ExpandedAssumption ==
  \A s \in Schemes : \A c, d \in Seeds :
    LET x == Expanded(s, c)
        y == Expanded(s, d)
    IN  IF s = "ml-kem" THEN x.d = y.d \/ x.z = y.z => c = d
        ELSE x.s[1] # "k" /\ (x.z = y.z \/ x.s = y.s => c = d)

\* None stands for private bytes that are not there.
ASSUME PrivateAssumption == \A s \in Schemes, d \in Seeds : KeyGen(s, d).sk # None

\* The pair of each seed, computed once.
Pair == [s \in Schemes |-> [d \in Seeds |-> KeyGen(s, d)]]

\* Mutant of _initialize_key: the bytes of a seed are not computed.
KeepsSeedOnly(s, key) == key

\* _initialize_key: a key without private bytes expands its seed.
InitializeKey(s, key) ==
  IF key.private = None
  THEN [seed |-> key.seed, private |-> Pair[s][key.seed].sk, public |-> Pair[s][key.seed].pk]
  ELSE key

\* public_key: the public half is cut from the private bytes where it is missing.
WithPublic(s, key) ==
  IF key.public = None THEN [key EXCEPT !.public = PublicPart(s, key.private)] ELSE key

FromSeed(s, d) == InitializeKey(s, [seed |-> d, private |-> None, public |-> None])
FromRaw(s, d) == InitializeKey(s, [seed |-> None, private |-> Pair[s][d].sk, public |-> None])
\* Seed and private bytes in a row, which only ML-KEM reads.
FromBoth(s, d) == InitializeKey(s, [seed |-> d, private |-> Pair[s][d].sk, public |-> None])

\* Another length raises: FrodoKEM compares it, fips203.py runs out of bytes where one is missing.
Accepted(s, ct, whole) ==
  IF s = "frodokem" THEN Len(ct) = Len(whole) ELSE Len(ct) >= Len(whole)

-----------------------------------------------------------------------------
Init ==
  /\ scheme \in Schemes
  /\ keys = [d \in Seeds |-> FromSeed(scheme, d)]
  /\ sent = {}
  /\ answers = {}

\* from_private_bytes: the key object is made again from what was stored.
Load(d) ==
  /\ \E key \in {FromSeed(scheme, d), FromRaw(scheme, d)} : keys' = [keys EXCEPT ![d] = key]
  /\ UNCHANGED <<scheme, sent, answers>>

LoadBoth(d) ==
  /\ scheme = "ml-kem"
  /\ keys' = [keys EXCEPT ![d] = FromBoth(scheme, d)]
  /\ UNCHANGED <<scheme, sent, answers>>

\* public_key and its encaps.
Encaps(d) ==
  /\ Cardinality(answers) < AnswerBound
  /\ \E key \in {WithPublic(scheme, keys[d])} :
       /\ keys' = [keys EXCEPT ![d] = key]
       /\ \E m \in Coins[scheme] : \E e \in {EncapsWith(scheme, key.public, m)} :
            /\ sent' = sent \cup {[pair |-> d, ct |-> e.ct]}
            /\ answers' = answers \cup {[pair |-> d, ct |-> e.ct, ss |-> e.ss]}
  /\ UNCHANGED scheme

\* decaps of a ciphertext that was sent to this pair or another, as it was or damaged.
Decaps(d) ==
  /\ Cardinality(answers) < AnswerBound
  /\ \E m \in sent : \E ct \in {m.ct} \cup Damaged(scheme, m.ct) :
       /\ Accepted(scheme, ct, m.ct)
       /\ \E ss \in {DecapsWith(scheme, keys[d].private, ct)} :
            answers' = answers \cup {[pair |-> d, ct |-> ct, ss |-> ss]}
  /\ UNCHANGED <<scheme, keys, sent>>

Next == \E d \in Seeds : Load(d) \/ LoadBoth(d) \/ Encaps(d) \/ Decaps(d)

Spec == Init /\ [][Next]_vars

-----------------------------------------------------------------------------
\* The objects of the two classes: the private bytes are there once the constructor is done.
TypeOK ==
  /\ \A d \in Seeds : keys[d].private # None /\ keys[d].seed \in Seeds \cup {None}
  /\ \A m \in sent : m.pair \in Seeds
  /\ Cardinality(answers) <= AnswerBound

\* A key that was stored without its public half finds the one its pair was generated with: the
\* cut of public_key and _derivate_public_key falls on the bytes keygen put there.
PublicMatches ==
  \A d \in Seeds : WithPublic(scheme, keys[d]).public = Pair[scheme][d].pk

\* Whoever holds the key of the pair recovers what encapsulation handed out, however the key
\* was stored and loaded in between: noise and rounding stay inside what decoding corrects.
SecretsAgree ==
  \A m \in sent : \A a, b \in answers :
    a.pair = m.pair /\ a.ct = m.ct /\ b.pair = m.pair /\ b.ct = m.ct => a.ss = b.ss

\* A damaged ciphertext, or one made for another pair, gets a secret of its own that repeats
\* when it is asked for again: re-encryption in decaps finds every difference.
Ideal == INSTANCE IdealKem
ImplementsIdealKem == Ideal!Spec
=============================================================================
