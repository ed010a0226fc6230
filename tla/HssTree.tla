------------------------------ MODULE HssTree ------------------------------
(***************************************************************************)
(* The state of an HSS private key and the operations on it: the           *)
(* pyhsslms.HssPrivateKey held in HSSPrivateKey._hss, which that class      *)
(* drives and serialises, and compute_hss_signature_index, which reads the  *)
(* signatures it makes.                                                    *)
(*                                                                         *)
(* An HSS key is a chain of Levels Merkle trees of LeavesPerTree one-time   *)
(* leaves.  The leaf consumed on an inner level signs the public key of the *)
(* tree below it; a leaf of the bottom tree signs a message.  A tree is     *)
(* abstracted to a number: pyhsslms draws every new tree at random, so a    *)
(* new tree gets a number no tree has had.                                 *)
(***************************************************************************)
EXTENDS Integers

CONSTANTS Levels,          \* the number of LMS levels of the key
          LeavesPerTree,   \* details["max_per_tree"]: 2^h leaves in every tree
          Message          \* what a user signs

ASSUME LevelsAssumption == Levels \in Nat \ {0}
ASSUME LeavesAssumption == LeavesPerTree \in Nat \ {0}

Level == 1 .. Levels
InnerLevel == 1 .. Levels - 1

\* q[i]: leaves consumed in the tree of level i (prv[i-1].q); tree[i]: that tree
\* (prv[i-1], pub[i-1]); sigq[i]: the leaf of tree[i] whose signature of tree[i+1]
\* is kept in sig[i-1] and repeated in every signature the key makes.
KeyState == [q    : [Level -> 0 .. LeavesPerTree],
             tree : [Level -> Nat],
             sigq : [InnerLevel -> 0 .. LeavesPerTree - 1]]

\* pyhsslms.HssPrivateKey(levels, ...): every inner tree has signed the one below.
NewKey(fresh) ==
  [q    |-> [i \in Level |-> IF i < Levels THEN 1 ELSE 0],
   tree |-> [i \in Level |-> fresh + i - 1],
   sigq |-> [i \in InnerLevel |-> 0]]

CanSign(key) == \E i \in Level : key.q[i] < LeavesPerTree

\* The lowest level with a leaf left: the levels below it are exhausted and are
\* replaced by new trees before the message is signed.
IsSignLevel(key, d) == /\ key.q[d] < LeavesPerTree
                       /\ \A i \in d + 1 .. Levels : key.q[i] >= LeavesPerTree

SignLevel(key) == CHOOSE d \in Level : IsSignLevel(key, d)

\* The key after one more signature, and how many new trees that took.
AfterSign(key, fresh) ==
  LET d == SignLevel(key)
  IN  [q    |-> [i \in Level |-> IF i < d THEN key.q[i]
                                ELSE IF i = d THEN key.q[i] + 1 ELSE 1],
       tree |-> [i \in Level |-> IF i <= d THEN key.tree[i] ELSE fresh + i - d - 1],
       sigq |-> [i \in InnerLevel |-> IF i < d THEN key.sigq[i]
                                     ELSE IF i = d THEN key.q[i] ELSE 0]]

FreshAfterSign(key, fresh) == fresh + Levels - SignLevel(key)

\* The signature of message made by the call of sign that left the key in this
\* state: the kept signatures of the inner trees, then the bottom leaf's.
SignatureOf(key, message) ==
  [leaf |-> [i \in Level |-> IF i < Levels THEN key.sigq[i] ELSE key.q[i] - 1],
   tree |-> key.tree,
   message |-> message]

Signatures(messages) ==
  [leaf : [Level -> 0 .. LeavesPerTree - 1], tree : [Level -> Nat], message : messages]

\* The one-time keys a signature shows in use, and what each of them signs.
LeafUses(sig) ==
  { [tree |-> sig.tree[i], leaf |-> sig.leaf[i],
     signs |-> IF i < Levels THEN sig.tree[i + 1] ELSE sig.message] : i \in Level }

\* HSSPublicKey.get_leaf_index: only the bottom leaf.
GetLeafIndex(sig) == sig.leaf[Levels]

\* The number in base LeavesPerTree whose digits are high and then those of the
\* levels, the root's first.
Positional(high, digits) ==
  LET total[i \in 0 .. Levels] ==
        IF i = 0 THEN high ELSE total[i - 1] * LeavesPerTree + digits[i]
  IN  total[Levels]

\* Mutant of SignatureIndex: the levels weighted from the bottom up.
SignatureIndexReversed(sig) ==
  Positional(0, [i \in Level |-> sig.leaf[Levels + 1 - i]])

\* compute_hss_signature_index: the leaves of all levels as one number.
SignatureIndex(sig) == Positional(0, sig.leaf)

\* HSSPublicKey.max_sig_size: the leaves of a tree to the power of Levels, one more
\* than the largest index.
MaxSignatures == Positional(1, [i \in Level |-> 0])

\* What sigs_remaining subtracts: an inner leaf counts once the tree below is used up.
Consumed(key) ==
  Positional(0, [i \in Level |-> IF i < Levels THEN key.q[i] - 1 ELSE key.q[i]])

SigsRemaining(key) == MaxSignatures - Consumed(key)
-----------------------------------------------------------------------------
(***************************************************************************)
(* What must hold between a key and the leaves already shown in use.       *)
(***************************************************************************)
\* The trees of the key are distinct and drawn, and the kept signature of every
\* inner tree stems from the leaf it consumed last.
WellFormed(key, fresh) ==
  /\ \A i \in Level : key.tree[i] < fresh
  /\ \A i, j \in Level : key.tree[i] = key.tree[j] => i = j
  /\ \A i \in InnerLevel : key.sigq[i] = key.q[i] - 1

\* The key will not consume the leaf of this use again.
Spent(key, use) ==
  \A i \in Level : use.tree = key.tree[i] => use.leaf < key.q[i]

\* The leaf behind a kept signature was used for the tree that is still below it.
SameChain(key, use) ==
  \A i \in InnerLevel :
    use.tree = key.tree[i] /\ use.leaf = key.sigq[i] => use.signs = key.tree[i + 1]

Covers(key, uses) == \A use \in uses : Spent(key, use) /\ SameChain(key, use)

\* No one-time key has signed two things.
OneTime(uses) ==
  \A a, b \in uses : a.tree = b.tree /\ a.leaf = b.leaf => a.signs = b.signs
=============================================================================
