------------------------------ MODULE XmssKey ------------------------------
(***************************************************************************)
(* XMSSPrivateKey and XMSSMTPrivateKey.  Both classes hand every operation  *)
(* to one liboqs object (_sig) whose serialised secret key carries the leaf *)
(* counter; what the counter does at its end is what the repository's tests *)
(* of that object pin down.  export_used_keys yields the serialised key     *)
(* after each signature of this object.                                    *)
(***************************************************************************)
EXTENDS Integers, Sequences

CONSTANTS SigsTotal,         \* max_sig_size, sigs_total(): 2^h - 1
          MultiTree,         \* the key is an XMSSMTPrivateKey
          Unasked, Refused   \* answer before the first call of sign; no verifying signature

ASSUME SigsTotalAssumption == SigsTotal \in Nat \ {0}
ASSUME AnswerAssumption == Unasked # Refused

VARIABLES
  index,       \* the counter inside _sig: the leaf of the next signature
  usedKeys,    \* used_keys: the counter in each exported key state
  madeLeaves,  \* history: the leaf of each verifying signature behind usedKeys
  answer       \* the leaf of the latest signature, Refused when it cannot verify

vars == <<index, usedKeys, madeLeaves, answer>>

\* The repository's tests call sign at most once on a key with nothing left.
OverrunBound == SigsTotal + 1

Leaf == 0 .. SigsTotal - 1
Index == 0 .. OverrunBound

TypeOK ==
  /\ index \in Index
  /\ usedKeys \in Seq(Index)
  /\ madeLeaves \in Seq(Leaf)
  /\ answer \in {Unasked, Refused} \cup Leaf

\* Mutant of Verifies: one leaf too many.
VerifiesOneMore(i) == i <= SigsTotal

\* The signature made with this counter verifies (XMSSPublicKey.verify).
Verifies(i) == i < SigsTotal

-----------------------------------------------------------------------------
\* _initialize_key without private bytes.
Init == index = 0 /\ usedKeys = <<>> /\ madeLeaves = <<>> /\ answer = Unasked

\* Mutant of Sign: the state before the signature is exported.
SignExportsBefore ==
  /\ index < OverrunBound
  /\ index' = index + 1
  /\ usedKeys' = Append(usedKeys, index)
  /\ answer' = IF Verifies(index) THEN index ELSE Refused
  /\ madeLeaves' = IF Verifies(index) THEN Append(madeLeaves, index) ELSE madeLeaves

\* sign: no check of what remains, the library signs and counts on.
Sign ==
  /\ index < OverrunBound
  /\ index' = index + 1
  /\ usedKeys' = Append(usedKeys, index')
  /\ answer' = IF Verifies(index) THEN index ELSE Refused
  /\ madeLeaves' = IF Verifies(index) THEN Append(madeLeaves, index) ELSE madeLeaves

\* A new object on key bytes that carry the counter i; its used list starts empty.
Initialize(i) == index' = i /\ usedKeys' = <<>> /\ madeLeaves' = <<>>

\* Mutant of FromPrivateBytes: the bytes the key was made with are exported.
FromFirstBytes == Initialize(0) /\ UNCHANGED answer

\* from_private_bytes(private_bytes_raw()), and the same through a saved file:
\* private_bytes_raw exports the live object, never the bytes it was built from.
FromPrivateBytes == Initialize(index) /\ UNCHANGED answer

\* modify_pq_stateful_sig_private_key(key, used_index=True, index=slot); without an
\* index the latest state is taken.
RestoreUsed(slot) ==
  /\ slot < Len(usedKeys)
  /\ Initialize(usedKeys[slot + 1])
  /\ UNCHANGED answer

\* _change_index(new): XMSS returns the same object when its counter already holds new.
ChangeIndex(new) ==
  /\ IF index = new /\ ~MultiTree THEN UNCHANGED <<index, usedKeys, madeLeaves>> ELSE Initialize(new)
  /\ UNCHANGED answer

\* modify_pq_stateful_sig_private_key(key, last_index, index): the counter written
\* by _get_index.
None == -1
TargetIndex(lastIndex, new) ==
  IF new = None THEN SigsTotal ELSE IF lastIndex THEN SigsTotal - 1 ELSE new

ModifyIndex(lastIndex, new) ==
  Initialize(TargetIndex(lastIndex, new)) /\ UNCHANGED answer

Next == Sign \/ FromPrivateBytes

Spec == Init /\ [][Next]_vars

\* The negative-test helpers move the counter at will.
RewindNext == \/ Next
              \/ \E slot \in 0 .. Len(usedKeys) : RestoreUsed(slot)
              \/ \E new \in 0 .. SigsTotal : ChangeIndex(new)
              \/ \E lastIndex \in BOOLEAN, new \in None .. SigsTotal : ModifyIndex(lastIndex, new)

RewindSpec == Init /\ [][RewindNext]_vars

-----------------------------------------------------------------------------
\* An XMSS key hands out each leaf once and in order, also when it is rebuilt from
\* its exported bytes between signatures; past the last leaf nothing it returns
\* verifies (sign, from_private_bytes).
Promise == INSTANCE OneTimeSigner WITH
  Capacity <- SigsTotal,
  next     <- IF index < SigsTotal THEN index ELSE SigsTotal

ImplementsOneTimeSigner == Promise!Spec

\* The key state in used_keys[i] goes on right after the leaf of the i-th signature
\* of this object, so restoring it repeats later leaves but never that one
\* (used_keys, modify_pq_stateful_sig_private_key with used_index).
UsedKeysFollowSignatures ==
  \A i \in 1 .. Len(madeLeaves) : usedKeys[i] = madeLeaves[i] + 1
=============================================================================
