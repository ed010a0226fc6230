------------------------------- MODULE HssKey -------------------------------
(***************************************************************************)
(* HSSPrivateKey: a live pyhsslms key, the cached serialisation that        *)
(* private_bytes_raw returns, and the list of consumed leaves.  One object  *)
(* signs at a time; it may be replaced by one rebuilt from its raw bytes.   *)
(***************************************************************************)
EXTENDS HssTree, Sequences

CONSTANTS Unasked, Refused   \* answer before the first call of sign, and after a refused one

\* No signature is taken for either of them.
ASSUME AnswerAssumption ==
  Unasked # Refused /\ {Unasked, Refused} \cap Signatures(Message) = {}

VARIABLES
  hss,                \* _hss
  privateKeyBytes,    \* _private_key_bytes: the key state it deserialises to
  usedSignatures,     \* _used_signatures
  fresh,              \* the number of the next tree pyhsslms draws
  answer,             \* outcome of the latest sign: a signature, Unasked or Refused
  issued              \* history: the one-time leaves shown in use by all signatures

vars == <<hss, privateKeyBytes, usedSignatures, fresh, answer, issued>>

TypeOK ==
  /\ hss \in KeyState
  /\ privateKeyBytes \in KeyState
  /\ usedSignatures \in Seq(0 .. LeavesPerTree - 1)
  /\ fresh \in Nat
  /\ answer \in {Unasked, Refused} \cup Signatures(Message)
  /\ issued \subseteq [tree : Nat, leaf : 0 .. LeavesPerTree - 1, signs : Nat \cup Message]

-----------------------------------------------------------------------------
\* _initialize_key without private bytes: a new key, serialised at once.
Init ==
  /\ hss = NewKey(0)
  /\ privateKeyBytes = NewKey(0)
  /\ usedSignatures = <<>>
  /\ fresh = Levels
  /\ answer = Unasked
  /\ issued = {}

\* Mutant of Sign: the cached bytes are not refreshed.
SignKeepsCache(message) ==
  LET key == AfterSign(hss, fresh)
      sig == SignatureOf(key, message)
  IN  /\ CanSign(hss)
      /\ hss' = key
      /\ fresh' = FreshAfterSign(hss, fresh)
      /\ usedSignatures' = Append(usedSignatures, GetLeafIndex(sig))
      /\ answer' = sig
      /\ issued' = issued \cup LeafUses(sig)
      /\ UNCHANGED privateKeyBytes

\* Mutant of Sign: records the counter of the key in place of the signature's leaf.
SignRecordsCounter(message) ==
  LET key == AfterSign(hss, fresh)
      sig == SignatureOf(key, message)
  IN  /\ CanSign(hss)
      /\ hss' = key
      /\ fresh' = FreshAfterSign(hss, fresh)
      /\ privateKeyBytes' = key
      /\ usedSignatures' = Append(usedSignatures, key.q[Levels])
      /\ answer' = sig
      /\ issued' = issued \cup LeafUses(sig)

\* sign: the library signs, the cache is refreshed, the bottom leaf is recorded.
Sign(message) ==
  LET key == AfterSign(hss, fresh)
      sig == SignatureOf(key, message)
  IN  /\ CanSign(hss)
      /\ hss' = key
      /\ fresh' = FreshAfterSign(hss, fresh)
      /\ privateKeyBytes' = key
      /\ usedSignatures' = Append(usedSignatures, GetLeafIndex(sig))
      /\ answer' = sig
      /\ issued' = issued \cup LeafUses(sig)

\* sign on an exhausted key: the library raises before anything is assigned.
SignRefused ==
  /\ ~CanSign(hss)
  /\ answer' = Refused
  /\ UNCHANGED <<hss, privateKeyBytes, usedSignatures, fresh, issued>>

\* HSSPrivateKey(name, private_bytes_raw(), levels): None (0) means one level, and a
\* count other than the serialised one is rejected.  from_private_bytes passes the
\* serialised count.
TargetLevels(requested) == IF requested = 0 THEN 1 ELSE requested

\* Mutant of Rebuild: the private bytes are ignored and a new key is generated.
RebuildGenerates(requested) ==
  /\ TargetLevels(requested) = Levels
  /\ hss' = NewKey(fresh)
  /\ privateKeyBytes' = hss'
  /\ usedSignatures' = <<>>
  /\ fresh' = fresh + Levels
  /\ UNCHANGED <<answer, issued>>

Rebuild(requested) ==
  /\ TargetLevels(requested) = Levels
  /\ hss' = privateKeyBytes
  /\ privateKeyBytes' = hss'
  /\ usedSignatures' = <<>>
  /\ UNCHANGED <<fresh, answer, issued>>

Next == \/ \E message \in Message : Sign(message)
        \/ SignRefused
        \/ \E requested \in 0 .. Levels + 1 : Rebuild(requested)

Spec == Init /\ [][Next]_vars

\* The caller's signing loop keeps signing while it can.
FairSpec == Spec /\ WF_vars(\E message \in Message : Sign(message))

-----------------------------------------------------------------------------
\* No one-time key ever signs two different things, whatever trees were replaced
\* and however often the object was rebuilt from its bytes (sign, from_private_bytes).
LeafSignsOnce == OneTime(issued)

\* The signature indices that compute_hss_signature_index reports are 0, 1, 2, ...
\* up to max_sig_size - 1, each once and in order, and only then is signing refused.
Promise == INSTANCE OneTimeSigner WITH
  Capacity <- MaxSignatures,
  next     <- Consumed(hss),
  answer   <- IF answer \in {Unasked, Refused} THEN answer ELSE SignatureIndex(answer)

ImplementsOneTimeSigner == Promise!Spec

\* The key's root tree, hence its public key, survives every replacement of inner
\* trees, so earlier signatures keep verifying (sign, _initialize_key).
PublicKeyStable == [][hss'.tree[1] = hss.tree[1]]_vars

\* A caller who keeps signing uses the key up: the search for a level with a leaf
\* left neither loops nor revives an exhausted tree.
EventuallyExhausted == <>[](~CanSign(hss))
=============================================================================
