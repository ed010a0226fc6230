--------------------------- MODULE HssKey_proofs ---------------------------
(***************************************************************************)
(* Theorems about HSS keys for every number of levels, tree size and set of *)
(* messages: first the trees (HssTree), then the live key (HssKey), then    *)
(* the key in a file across any number of crashes (KeyFile).                *)
(***************************************************************************)
EXTENDS HssKey, KeyFile, FiniteSetTheorems, WellFoundedInduction, TLAPS

\* A nonempty set of levels has a largest element.  Otherwise the levels below some
\* element of it would be closed under i -> i + 1, an injection into fewer levels.
LEMMA LargestLevel ==
  ASSUME NEW S \in SUBSET Level, S # {}
  PROVE  \E m \in S : \A n \in S : n <= m
<1> USE LevelsAssumption
<1> SUFFICES ASSUME \A m \in S : \E n \in S : m < n PROVE FALSE
  BY DEF Level
<1> DEFINE Below == {i \in Level : \E n \in S : i < n}
           shift == [i \in Below |-> i + 1]
<1>1. 1 \in Below
  <2>1. PICK m \in S : TRUE
    OBVIOUS
  <2>2. PICK n \in S : m < n
    OBVIOUS
  <2> QED BY <2>1, <2>2 DEF Level
<1>2. IsFiniteSet(Below)
  <2>1. IsFiniteSet(Level)
    BY FS_Interval DEF Level
  <2> QED BY <2>1, FS_Subset
<1>3. /\ IsFiniteSet(Below \ {1})
      /\ Cardinality(Below \ {1}) < Cardinality(Below)
  <2>1. Cardinality(Below) \in Nat
    BY <1>2, FS_CardinalityType
  <2> HIDE DEF Below
  <2>2. /\ IsFiniteSet(Below \ {1})
        /\ Cardinality(Below \ {1}) = Cardinality(Below) - 1
    BY <1>1, <1>2, FS_RemoveElement
  <2> QED BY <2>1, <2>2
<1>4. shift \in [Below -> Below \ {1}]
  <2> SUFFICES ASSUME NEW i \in Below PROVE i + 1 \in Below \ {1}
    OBVIOUS
  <2>1. PICK n \in S : i < n
    OBVIOUS
  <2>2. PICK k \in S : n < k
    OBVIOUS
  <2> QED BY <2>1, <2>2 DEF Level
<1>5. \E x, y \in Below : x # y /\ shift[x] = shift[y]
  <2> HIDE DEF Below, shift
  <2> QED BY <1>2, <1>3, <1>4, FS_PigeonHole
<1> QED BY <1>5 DEF Level

\* While the key can sign, the level that signs exists: sign's search down from the
\* bottom level finds one and stops there.
LEMMA SignLevelExists ==
  ASSUME NEW key \in KeyState, CanSign(key)
  PROVE  SignLevel(key) \in Level /\ IsSignLevel(key, SignLevel(key))
<1> USE LevelsAssumption, LeavesAssumption
<1> DEFINE Left == {i \in Level : key.q[i] < LeavesPerTree}
<1>1. PICK d \in Left : \A i \in Left : i <= d
  BY LargestLevel DEF CanSign
<1>2. IsSignLevel(key, d)
  <2> SUFFICES ASSUME NEW i \in d + 1 .. Levels PROVE key.q[i] >= LeavesPerTree
    BY <1>1 DEF IsSignLevel
  <2>1. i \in Level /\ i \notin Left
    BY <1>1 DEF Level
  <2>2. key.q[i] \in Int
    BY <2>1 DEF KeyState
  <2> QED BY <2>1, <2>2
<1> QED BY <1>1, <1>2 DEF SignLevel
-----------------------------------------------------------------------------
\* The fields of a key state are the functions their names say.
LEMMA KeyFields ==
  ASSUME NEW key \in KeyState
  PROVE  /\ \A i \in Level : key.q[i] \in Nat /\ key.q[i] <= LeavesPerTree /\ key.tree[i] \in Nat
         /\ \A i \in InnerLevel : key.sigq[i] \in Nat /\ key.sigq[i] < LeavesPerTree
BY LeavesAssumption DEF KeyState

\* A new key is a key state whose trees are distinct and newly drawn.
LEMMA NewKeyProperties ==
  ASSUME NEW first \in Nat
  PROVE  /\ NewKey(first) \in KeyState
         /\ WellFormed(NewKey(first), first + Levels)
         /\ \A i \in Level : NewKey(first).tree[i] >= first
<1> USE LevelsAssumption, LeavesAssumption
<1>1. NewKey(first) \in KeyState
  BY DEF NewKey, KeyState, Level, InnerLevel
<1>2. \A i \in Level : /\ NewKey(first).tree[i] = first + i - 1
                      /\ NewKey(first).q[i] = IF i < Levels THEN 1 ELSE 0
  BY DEF NewKey
<1>3. \A i \in InnerLevel : NewKey(first).sigq[i] = 0
  BY DEF NewKey
<1>4. WellFormed(NewKey(first), first + Levels)
  BY <1>2, <1>3 DEF WellFormed, Level, InnerLevel
<1> QED BY <1>1, <1>2, <1>4 DEF Level

\* What signing does level by level: nothing above the level that signs, a leaf
\* consumed on it, new trees below.
LEMMA AfterSignFields ==
  ASSUME NEW key \in KeyState, NEW first \in Nat, NEW d \in Level, d = SignLevel(key)
  PROVE  /\ \A i \in Level : AfterSign(key, first).q[i] =
              IF i < d THEN key.q[i] ELSE IF i = d THEN key.q[i] + 1 ELSE 1
         /\ \A i \in Level : AfterSign(key, first).tree[i] =
              IF i <= d THEN key.tree[i] ELSE first + i - d - 1
         /\ \A i \in InnerLevel : AfterSign(key, first).sigq[i] =
              IF i < d THEN key.sigq[i] ELSE IF i = d THEN key.q[i] ELSE 0
BY DEF AfterSign

\* Signing leaves a key state, and its trees stay distinct.
LEMMA AfterSignProperties ==
  ASSUME NEW key \in KeyState, NEW first \in Nat, CanSign(key), WellFormed(key, first)
  PROVE  /\ AfterSign(key, first) \in KeyState
         /\ FreshAfterSign(key, first) \in Nat
         /\ FreshAfterSign(key, first) >= first
         /\ WellFormed(AfterSign(key, first), FreshAfterSign(key, first))
<1> USE LevelsAssumption, LeavesAssumption
<1> DEFINE d == SignLevel(key)
           new == AfterSign(key, first)
<1>1. d \in Level /\ key.q[d] < LeavesPerTree
  BY SignLevelExists DEF IsSignLevel
<1>2. FreshAfterSign(key, first) = first + Levels - d
  BY DEF FreshAfterSign
<1>3. /\ \A i \in Level : new.q[i] = IF i < d THEN key.q[i] ELSE IF i = d THEN key.q[i] + 1 ELSE 1
      /\ \A i \in Level : new.tree[i] = IF i <= d THEN key.tree[i] ELSE first + i - d - 1
      /\ \A i \in InnerLevel : new.sigq[i] =
           IF i < d THEN key.sigq[i] ELSE IF i = d THEN key.q[i] ELSE 0
  BY <1>1, AfterSignFields
<1>4. new = [q |-> [i \in Level |-> new.q[i]], tree |-> [i \in Level |-> new.tree[i]],
             sigq |-> [i \in InnerLevel |-> new.sigq[i]]]
  BY DEF AfterSign
<1> HIDE DEF d, new
<1>5. new \in KeyState
  <2>1. ASSUME NEW i \in Level PROVE new.q[i] \in 0 .. LeavesPerTree
    BY <1>1, <1>3, KeyFields DEF Level
  <2>2. ASSUME NEW i \in Level PROVE new.tree[i] \in Nat
    BY <1>1, <1>3, KeyFields DEF Level
  <2>3. ASSUME NEW i \in InnerLevel PROVE new.sigq[i] \in 0 .. LeavesPerTree - 1
    BY <1>1, <1>3, KeyFields DEF Level, InnerLevel
  <2> QED BY <1>4, <2>1, <2>2, <2>3 DEF KeyState
<1>6. WellFormed(new, FreshAfterSign(key, first))
  <2>1. ASSUME NEW i \in Level PROVE new.tree[i] < FreshAfterSign(key, first)
    BY <1>1, <1>2, <1>3, KeyFields DEF WellFormed, Level
  <2>2. ASSUME NEW i \in Level, NEW j \in Level, new.tree[i] = new.tree[j]
        PROVE  i = j
    BY <1>1, <1>3, <2>2, KeyFields DEF WellFormed, Level
  <2>3. ASSUME NEW i \in InnerLevel PROVE new.sigq[i] = new.q[i] - 1
    BY <1>1, <1>3, KeyFields DEF WellFormed, Level, InnerLevel
  <2> QED BY <2>1, <2>2, <2>3 DEF WellFormed
<1> QED BY <1>1, <1>2, <1>5, <1>6 DEF Level, new

-----------------------------------------------------------------------------
\* The uses a signature shows: on every level the tree of the new key state, a leaf
\* it has consumed, and below the bottom the tree it keeps signed.  Above the level
\* that signed they repeat earlier ones, on it the leaf was free, below it the trees
\* are new.
LEMMA NewUses ==
  ASSUME NEW key \in KeyState, NEW first \in Nat, CanSign(key), WellFormed(key, first),
         NEW message,
         NEW use \in LeafUses(SignatureOf(AfterSign(key, first), message))
  PROVE  \E i \in Level :
           /\ use.tree = AfterSign(key, first).tree[i]
           /\ use.leaf < AfterSign(key, first).q[i]
           /\ use.leaf \in 0 .. LeavesPerTree - 1
           /\ i \in InnerLevel => /\ use.leaf = AfterSign(key, first).sigq[i]
                                 /\ use.signs = AfterSign(key, first).tree[i + 1]
           /\ i = Levels => use.signs = message
           /\ i < SignLevel(key) => /\ i \in InnerLevel
                                    /\ use.tree = key.tree[i]
                                    /\ use.leaf = key.sigq[i]
                                    /\ use.signs = key.tree[i + 1]
           /\ i = SignLevel(key) => use.tree = key.tree[i] /\ use.leaf = key.q[i]
           /\ i > SignLevel(key) => use.tree >= first
<1> USE LevelsAssumption, LeavesAssumption
<1> DEFINE d == SignLevel(key)
           new == AfterSign(key, first)
           sig == SignatureOf(new, message)
<1>1. d \in Level /\ key.q[d] < LeavesPerTree
  BY SignLevelExists DEF IsSignLevel
<1>2. /\ \A i \in Level : new.q[i] = IF i < d THEN key.q[i] ELSE IF i = d THEN key.q[i] + 1 ELSE 1
      /\ \A i \in Level : new.tree[i] = IF i <= d THEN key.tree[i] ELSE first + i - d - 1
      /\ \A i \in InnerLevel : new.sigq[i] =
           IF i < d THEN key.sigq[i] ELSE IF i = d THEN key.q[i] ELSE 0
  BY <1>1, AfterSignFields
<1>3. new \in KeyState /\ WellFormed(new, FreshAfterSign(key, first))
  BY AfterSignProperties
<1> HIDE DEF new
<1>4. /\ \A i \in Level : sig.leaf[i] = IF i < Levels THEN new.sigq[i] ELSE new.q[i] - 1
      /\ sig.tree = new.tree
      /\ sig.message = message
  BY DEF SignatureOf
<1> HIDE DEF sig
<1>5. PICK i \in Level :
        use = [tree |-> sig.tree[i], leaf |-> sig.leaf[i],
               signs |-> IF i < Levels THEN sig.tree[i + 1] ELSE sig.message]
  BY DEF LeafUses, new, sig
<1>6. /\ use.tree = new.tree[i]
      /\ use.leaf = IF i < Levels THEN new.sigq[i] ELSE new.q[i] - 1
      /\ use.signs = IF i < Levels THEN new.tree[i + 1] ELSE message
  BY <1>4, <1>5
<1>7. i < Levels <=> i \in InnerLevel
  BY DEF Level, InnerLevel
<1>8. use.leaf < new.q[i] /\ use.leaf \in 0 .. LeavesPerTree - 1
  <2>1. CASE i < Levels
    BY <1>3, <1>6, <1>7, <2>1, KeyFields DEF WellFormed
  <2>2. CASE i = Levels
    <3>1. new.q[i] \in Nat /\ new.q[i] <= LeavesPerTree
      BY <1>3, KeyFields
    <3>2. new.q[i] >= 1
      BY <1>1, <1>2, <2>2, KeyFields DEF Level
    <3> QED BY <1>6, <2>2, <3>1, <3>2
  <2> QED BY <2>1, <2>2 DEF Level
<1>9. i < d => /\ i \in InnerLevel
               /\ use.tree = key.tree[i]
               /\ use.leaf = key.sigq[i]
               /\ use.signs = key.tree[i + 1]
  BY <1>1, <1>2, <1>6 DEF Level, InnerLevel
<1>10. i = d => use.tree = key.tree[i] /\ use.leaf = key.q[i]
  <2> SUFFICES ASSUME i = d PROVE use.tree = key.tree[i] /\ use.leaf = key.q[i]
    OBVIOUS
  <2>1. key.q[i] \in Nat
    BY KeyFields
  <2> QED BY <1>1, <1>2, <1>6, <1>7, <2>1 DEF Level, InnerLevel
<1>11. i > d => use.tree >= first
  BY <1>1, <1>2, <1>6 DEF Level
<1> HIDE DEF d
<1> QED BY <1>6, <1>7, <1>8, <1>9, <1>10, <1>11 DEF Level, InnerLevel, d, new

\* The step all reuse proofs rest on.  Let every leaf shown in use so far be spent by
\* the key; then that still holds after one more signature, and if no leaf had two
\* uses before, none has now.
LEMMA SignKeepsOneTime ==
  ASSUME NEW key \in KeyState, NEW first \in Nat, CanSign(key), WellFormed(key, first),
         NEW uses, \A use \in uses : use.tree \in Nat /\ use.tree < first /\ use.leaf \in Nat,
         Covers(key, uses), OneTime(uses),
         NEW message
  PROVE  LET new  == AfterSign(key, first)
             more == LeafUses(SignatureOf(new, message))
         IN  /\ Covers(new, uses \cup more)
             /\ OneTime(uses \cup more)
             /\ \A use \in more : /\ use.tree \in Nat /\ use.tree < FreshAfterSign(key, first)
                                   /\ use.leaf \in 0 .. LeavesPerTree - 1
                                   /\ use.signs \in Nat \cup {message}
<1> USE LevelsAssumption, LeavesAssumption
<1> DEFINE d == SignLevel(key)
           new == AfterSign(key, first)
           more == LeafUses(SignatureOf(new, message))
<1>1. d \in Level
  BY SignLevelExists
<1>2. /\ \A i \in Level : new.q[i] = IF i < d THEN key.q[i] ELSE IF i = d THEN key.q[i] + 1 ELSE 1
      /\ \A i \in Level : new.tree[i] = IF i <= d THEN key.tree[i] ELSE first + i - d - 1
      /\ \A i \in InnerLevel : new.sigq[i] =
           IF i < d THEN key.sigq[i] ELSE IF i = d THEN key.q[i] ELSE 0
  BY <1>1, AfterSignFields
<1>3. new \in KeyState /\ WellFormed(new, FreshAfterSign(key, first))
  BY AfterSignProperties
<1>4. \A use \in more : \E i \in Level :
           /\ use.tree = new.tree[i]
           /\ use.leaf < new.q[i]
           /\ use.leaf \in 0 .. LeavesPerTree - 1
           /\ i \in InnerLevel => use.leaf = new.sigq[i] /\ use.signs = new.tree[i + 1]
           /\ i = Levels => use.signs = message
           /\ i < d => /\ i \in InnerLevel
                       /\ use.tree = key.tree[i]
                       /\ use.leaf = key.sigq[i]
                       /\ use.signs = key.tree[i + 1]
           /\ i = d => use.tree = key.tree[i] /\ use.leaf = key.q[i]
           /\ i > d => use.tree >= first
  BY NewUses
<1> HIDE DEF d, new, more
<1>5. ASSUME NEW use \in uses PROVE Spent(new, use) /\ SameChain(new, use)
  <2>1. Spent(key, use) /\ SameChain(key, use)
    BY DEF Covers
  <2>2. Spent(new, use)
    <3> SUFFICES ASSUME NEW i \in Level, use.tree = new.tree[i] PROVE use.leaf < new.q[i]
      BY DEF Spent
    <3>1. i <= d
      BY <1>1, <1>2 DEF Level
    <3>2. use.tree = key.tree[i] /\ use.leaf < key.q[i]
      BY <1>2, <2>1, <3>1 DEF Spent
    <3> QED BY <1>1, <1>2, <3>1, <3>2, KeyFields DEF Level
  <2>3. SameChain(new, use)
    <3> SUFFICES ASSUME NEW i \in InnerLevel, use.tree = new.tree[i], use.leaf = new.sigq[i]
                 PROVE  use.signs = new.tree[i + 1]
      BY DEF SameChain
    <3>1. i \in Level /\ i + 1 \in Level
      BY DEF Level, InnerLevel
    <3>2. i <= d
      BY <1>1, <1>2, <3>1 DEF Level
    <3>3. use.tree = key.tree[i] /\ use.leaf < key.q[i]
      BY <1>2, <2>1, <3>1, <3>2 DEF Spent
    <3>4. i # d
      BY <1>1, <1>2, <3>1, <3>3, KeyFields DEF Level
    <3>5. i < d /\ use.leaf = key.sigq[i]
      BY <1>1, <1>2, <3>1, <3>2, <3>4 DEF Level
    <3>6. use.signs = key.tree[i + 1]
      BY <2>1, <3>3, <3>5 DEF SameChain
    <3> QED BY <1>1, <1>2, <3>1, <3>5, <3>6 DEF Level
  <2> QED BY <2>2, <2>3
<1>6. ASSUME NEW use \in more PROVE Spent(new, use) /\ SameChain(new, use)
  <2>1. PICK j \in Level : /\ use.tree = new.tree[j]
                           /\ use.leaf < new.q[j]
                           /\ j \in InnerLevel => use.signs = new.tree[j + 1]
    BY <1>4
  <2>2. \A i \in Level : use.tree = new.tree[i] => i = j
    BY <1>3, <2>1 DEF WellFormed
  <2> QED BY <2>1, <2>2 DEF Spent, SameChain, Level, InnerLevel
<1>7. Covers(new, uses \cup more)
  BY <1>5, <1>6 DEF Covers
<1>8. ASSUME NEW a \in uses, NEW b \in more, a.tree = b.tree, a.leaf = b.leaf
      PROVE  a.signs = b.signs
  <2>1. PICK i \in Level :
           /\ i < d => /\ i \in InnerLevel
                       /\ b.tree = key.tree[i]
                       /\ b.leaf = key.sigq[i]
                       /\ b.signs = key.tree[i + 1]
           /\ i = d => b.tree = key.tree[i] /\ b.leaf = key.q[i]
           /\ i > d => b.tree >= first
    BY <1>4
  <2>2. Spent(key, a) /\ SameChain(key, a)
    BY DEF Covers
  <2>3. ~ (i > d)
    BY <1>8, <2>1
  <2>4. i # d
    BY <1>8, <2>1, <2>2, KeyFields DEF Spent
  <2>5. i < d
    BY <1>1, <2>3, <2>4 DEF Level
  <2> QED BY <1>8, <2>1, <2>2, <2>5 DEF SameChain
<1>9. ASSUME NEW a \in more, NEW b \in more, a.tree = b.tree
      PROVE  a.signs = b.signs
  <2>1. PICK i \in Level : /\ a.tree = new.tree[i]
                           /\ i \in InnerLevel => a.signs = new.tree[i + 1]
                           /\ i = Levels => a.signs = message
    BY <1>4
  <2>2. PICK j \in Level : /\ b.tree = new.tree[j]
                           /\ j \in InnerLevel => b.signs = new.tree[j + 1]
                           /\ j = Levels => b.signs = message
    BY <1>4
  <2>3. i = j
    BY <1>3, <1>9, <2>1, <2>2 DEF WellFormed
  <2> QED BY <2>1, <2>2, <2>3 DEF Level, InnerLevel
<1>10. OneTime(uses \cup more)
  BY <1>8, <1>9 DEF OneTime
<1>11. ASSUME NEW use \in more
       PROVE  /\ use.tree \in Nat /\ use.tree < FreshAfterSign(key, first)
              /\ use.leaf \in 0 .. LeavesPerTree - 1
              /\ use.signs \in Nat \cup {message}
  <2>1. PICK i \in Level : /\ use.tree = new.tree[i]
                           /\ use.leaf \in 0 .. LeavesPerTree - 1
                           /\ i \in InnerLevel => use.signs = new.tree[i + 1]
                           /\ i = Levels => use.signs = message
    BY <1>4
  <2>2. use.tree \in Nat /\ use.tree < FreshAfterSign(key, first)
    BY <1>3, <2>1, KeyFields DEF WellFormed
  <2>3. use.signs \in Nat \cup {message}
    <3>1. CASE i \in InnerLevel
      <4>1. i + 1 \in Level
        BY <3>1 DEF Level, InnerLevel
      <4> QED BY <1>3, <2>1, <3>1, <4>1, KeyFields
    <3>2. CASE i = Levels
      BY <2>1, <3>2
    <3> QED BY <3>1, <3>2 DEF Level, InnerLevel
  <2> QED BY <2>1, <2>2, <2>3
<1> QED BY <1>7, <1>10, <1>11 DEF new, more

\* What sign returns is a signature: every leaf number in it lies in its tree.
LEMMA SignatureType ==
  ASSUME NEW key \in KeyState, NEW first \in Nat, CanSign(key), WellFormed(key, first),
         NEW messages, NEW message \in messages
  PROVE  SignatureOf(AfterSign(key, first), message) \in Signatures(messages)
<1> USE LevelsAssumption, LeavesAssumption
<1> DEFINE d == SignLevel(key)
           new == AfterSign(key, first)
<1>1. d \in Level
  BY SignLevelExists
<1>2. \A i \in Level : new.q[i] = IF i < d THEN key.q[i] ELSE IF i = d THEN key.q[i] + 1 ELSE 1
  BY <1>1, AfterSignFields
<1>3. new \in KeyState
  BY AfterSignProperties
<1> HIDE DEF d, new
<1>4. ASSUME NEW i \in Level
      PROVE  (IF i < Levels THEN new.sigq[i] ELSE new.q[i] - 1) \in 0 .. LeavesPerTree - 1
  <2>1. CASE i < Levels
    <3>1. i \in InnerLevel
      BY <2>1 DEF Level, InnerLevel
    <3> QED BY <1>3, <2>1, <3>1, KeyFields
  <2>2. CASE i = Levels
    <3>1. new.q[i] \in Nat /\ new.q[i] <= LeavesPerTree
      BY <1>3, KeyFields
    <3>2. new.q[i] >= 1
      BY <1>1, <1>2, <2>2, KeyFields DEF Level
    <3> QED BY <2>2, <3>1, <3>2
  <2> QED BY <2>1, <2>2 DEF Level
<1>5. new.tree \in [Level -> Nat]
  BY <1>3 DEF KeyState
<1>6. SignatureOf(new, message) \in Signatures(messages)
  BY <1>4, <1>5 DEF SignatureOf, Signatures
<1> QED BY <1>6 DEF new
-----------------------------------------------------------------------------
\* Induction.  The induction theorems of the library are stated for a predicate; here
\* what is to be shown of every number is that it lies in a set.
LEMMA SetInduction ==
  ASSUME NEW S, 0 \in S, \A n \in Nat : n \in S => n + 1 \in S
  PROVE  Nat \subseteq S
<1> SUFFICES ASSUME Nat \ S # {} PROVE FALSE
  OBVIOUS
<1> DEFINE R == OpToRel(<, Nat)
<1>1. \A m, n \in Nat : m < n => <<m, n>> \in R
  BY DEF OpToRel
<1>2. IsWellFoundedOn(R, Nat)
  BY NatLessThanWellFounded
<1> HIDE DEF R
<1>3. PICK n \in Nat \ S : \A m \in Nat \ S : <<m, n>> \notin R
  BY <1>2, WFMin
<1>4. n # 0 /\ n - 1 \in Nat /\ n - 1 < n
  BY <1>3
<1>5. <<n - 1, n>> \in R
  BY <1>1, <1>4
<1>6. n - 1 \in S
  BY <1>3, <1>4, <1>5
<1>7. n - 1 + 1 = n
  BY <1>3
<1> QED BY <1>3, <1>4, <1>6, <1>7

\* The loop of compute_hss_signature_index: the value it has after each level.
Running(high, digits) ==
  CHOOSE total : total = [i \in 0 .. Levels |-> IF i = 0 THEN high
                                               ELSE total[i - 1] * LeavesPerTree + digits[i]]

\* The loop has a value after every level, and the last one is what it returns.
LEMMA PositionalLoop ==
  ASSUME NEW high \in Int, NEW digits, \A i \in Level : digits[i] \in Int
  PROVE  /\ Positional(high, digits) = Running(high, digits)[Levels]
         /\ Running(high, digits)[0] = high
         /\ \A n \in 0 .. Levels - 1 : Running(high, digits)[n + 1] =
                                         Running(high, digits)[n] * LeavesPerTree + digits[n + 1]
         /\ \A n \in 0 .. Levels : Running(high, digits)[n] \in Int
<1> USE LevelsAssumption, LeavesAssumption
<1> DEFINE Loop(n, f) == f = [i \in 0 .. n |-> IF i = 0 THEN high
                                               ELSE f[i - 1] * LeavesPerTree + digits[i]]
           S == {n \in Nat : \E f : Loop(n, f)}
           total == Running(high, digits)
<1>1. 0 \in S
  <2>1. Loop(0, [i \in 0 .. 0 |-> high])
    OBVIOUS
  <2> QED BY <2>1
<1>2. ASSUME NEW n \in Nat, n \in S PROVE n + 1 \in S
  <2>1. PICK f : Loop(n, f)
    BY <1>2
  <2> DEFINE g == [i \in 0 .. n + 1 |-> IF i = n + 1 THEN f[n] * LeavesPerTree + digits[n + 1]
                                        ELSE f[i]]
  <2>2. \A i \in 0 .. n + 1 : g[i] = IF i = 0 THEN high ELSE g[i - 1] * LeavesPerTree + digits[i]
    BY <2>1
  <2>3. Loop(n + 1, g)
    BY <2>2
  <2>4. \E f_1 : Loop(n + 1, f_1)
    BY <2>3
  <2> QED BY <2>4
<1> HIDE DEF S
<1>3. Loop(Levels, total)
  <2>1. Levels \in S
    BY <1>1, <1>2, SetInduction
  <2>2. \E f : Loop(Levels, f)
    BY <2>1 DEF S
  <2> QED BY <2>2 DEF Running
<1>4. Positional(high, digits) = total[Levels]
  BY DEF Positional, Running
<1> HIDE DEF total
<1>5. \A i \in 0 .. Levels :
         total[i] = IF i = 0 THEN high ELSE total[i - 1] * LeavesPerTree + digits[i]
  BY <1>3
<1>6. ASSUME NEW n \in 0 .. Levels - 1
      PROVE  total[n + 1] = total[n] * LeavesPerTree + digits[n + 1]
  <2>1. n + 1 \in 0 .. Levels /\ n + 1 # 0 /\ n + 1 - 1 = n
    OBVIOUS
  <2> QED BY <1>5, <2>1
<1> DEFINE T == {n \in Nat : n <= Levels => total[n] \in Int}
<1>7. 0 \in T
  BY <1>5
<1>8. ASSUME NEW n \in Nat, n \in T PROVE n + 1 \in T
  <2> SUFFICES ASSUME n + 1 <= Levels PROVE total[n + 1] \in Int
    OBVIOUS
  <2>1. n + 1 \in Level /\ n \in 0 .. Levels - 1
    BY DEF Level
  <2>2. total[n] \in Int /\ digits[n + 1] \in Int
    BY <1>8, <2>1
  <2> QED BY <1>6, <2>1, <2>2
<1> HIDE DEF T
<1>9. \A n \in 0 .. Levels : total[n] \in Int
  <2>1. Nat \subseteq T
    BY <1>7, <1>8, SetInduction
  <2> QED BY <2>1 DEF T
<1>10. total[0] = high
  BY <1>5
<1> QED BY <1>4, <1>6, <1>9, <1>10 DEF total

\* Counting one up: a digit grows by one and every digit below it falls from the
\* largest a level shows to the smallest.
LEMMA PositionalNext ==
  ASSUME NEW a, NEW b, \A i \in Level : a[i] \in Int, \A i \in Level : b[i] \in Int,
         NEW d \in Level,
         \A i \in Level : i < d => b[i] = a[i],
         b[d] = a[d] + 1,
         \A i \in Level : i > d => b[i] = a[i] + 1 - LeavesPerTree
  PROVE  /\ Positional(0, b) = Positional(0, a) + 1
         /\ Positional(0, a) \in Int
<1> DEFINE ta == Running(0, a)
           tb == Running(0, b)
<1>0. 0 \in Int /\ Levels \in Nat /\ Levels # 0 /\ LeavesPerTree \in Nat
  BY LevelsAssumption, LeavesAssumption
<1>1. /\ Positional(0, a) = ta[Levels]
      /\ ta[0] = 0
      /\ \A n \in 0 .. Levels - 1 : ta[n + 1] = ta[n] * LeavesPerTree + a[n + 1]
      /\ \A n \in 0 .. Levels : ta[n] \in Int
  BY <1>0, PositionalLoop
<1>2. /\ Positional(0, b) = tb[Levels]
      /\ tb[0] = 0
      /\ \A n \in 0 .. Levels - 1 : tb[n + 1] = tb[n] * LeavesPerTree + b[n + 1]
      /\ \A n \in 0 .. Levels : tb[n] \in Int
  BY <1>0, PositionalLoop
<1> HIDE DEF ta, tb
<1> DEFINE S == {n \in Nat : n <= Levels => tb[n] = IF n < d THEN ta[n] ELSE ta[n] + 1}
<1>3. 0 \in S
  BY <1>1, <1>2 DEF Level
<1>4. ASSUME NEW n \in Nat, n \in S PROVE n + 1 \in S
  <2> SUFFICES ASSUME n + 1 <= Levels
               PROVE  tb[n + 1] = IF n + 1 < d THEN ta[n + 1] ELSE ta[n + 1] + 1
    OBVIOUS
  <2>1. n + 1 \in Level /\ n \in 0 .. Levels - 1 /\ n \in 0 .. Levels /\ d \in Nat
    BY <1>0 DEF Level
  <2>2. tb[n] = IF n < d THEN ta[n] ELSE ta[n] + 1
    BY <1>4, <2>1
  <2> HIDE DEF S
  <2>3. /\ ta[n + 1] = ta[n] * LeavesPerTree + a[n + 1]
        /\ tb[n + 1] = tb[n] * LeavesPerTree + b[n + 1]
        /\ ta[n] \in Int /\ a[n + 1] \in Int
    BY <1>1, <1>2, <2>1
  <2>4. ta[n] * LeavesPerTree \in Int
    BY <1>0, <2>3
  <2>5. CASE n + 1 < d
    <3>1. tb[n] = ta[n] /\ b[n + 1] = a[n + 1]
      BY <2>1, <2>2, <2>5
    <3> QED BY <2>3, <2>5, <3>1
  <2>6. CASE n + 1 = d
    <3>1. tb[n] = ta[n] /\ b[n + 1] = a[n + 1] + 1
      BY <2>1, <2>2, <2>6
    <3>2. tb[n + 1] = ta[n + 1] + 1
      BY <2>3, <2>4, <3>1
    <3> QED BY <2>6, <3>2
  <2>7. CASE n + 1 > d
    <3>1. tb[n] = ta[n] + 1 /\ b[n + 1] = a[n + 1] + 1 - LeavesPerTree
      BY <2>1, <2>2, <2>7
    <3>2. (ta[n] + 1) * LeavesPerTree = ta[n] * LeavesPerTree + LeavesPerTree
      BY <1>0, <2>3
    <3>3. tb[n + 1] = ta[n + 1] + 1
      BY <1>0, <2>3, <2>4, <3>1, <3>2
    <3> QED BY <2>1, <2>7, <3>3
  <2> QED BY <2>1, <2>5, <2>6, <2>7
<1> HIDE DEF S
<1>5. Levels \in S
  BY <1>0, <1>3, <1>4, SetInduction
<1>6. tb[Levels] = ta[Levels] + 1
  BY <1>5 DEF S, Level
<1> QED BY <1>0, <1>1, <1>2, <1>6

\* Zero counts zero.
LEMMA PositionalZero ==
  ASSUME NEW digits, \A i \in Level : digits[i] = 0
  PROVE  Positional(0, digits) = 0
<1> DEFINE t == Running(0, digits)
           S == {n \in Nat : n <= Levels => t[n] = 0}
<1>0. 0 \in Int /\ Levels \in Nat /\ Levels # 0 /\ LeavesPerTree \in Nat
  BY LevelsAssumption, LeavesAssumption
<1>1. \A i \in Level : digits[i] \in Int
  BY <1>0
<1>2. /\ Positional(0, digits) = t[Levels]
      /\ t[0] = 0
      /\ \A n \in 0 .. Levels - 1 : t[n + 1] = t[n] * LeavesPerTree + digits[n + 1]
  BY <1>0, <1>1, PositionalLoop
<1> HIDE DEF t
<1>3. 0 \in S
  BY <1>2
<1>4. ASSUME NEW n \in Nat, n \in S PROVE n + 1 \in S
  <2> SUFFICES ASSUME n + 1 <= Levels PROVE t[n + 1] = 0
    OBVIOUS
  <2>1. n + 1 \in Level /\ n \in 0 .. Levels - 1 /\ t[n] = 0
    BY <1>0, <1>4 DEF Level
  <2>2. digits[n + 1] = 0
    BY <2>1
  <2> QED BY <1>0, <1>2, <2>1, <2>2
<1> HIDE DEF S
<1>5. Levels \in S
  BY <1>0, <1>3, <1>4, SetInduction
<1> QED BY <1>0, <1>2, <1>5 DEF S

\* The solver is told once that a product by a leaf count is monotone.
LEMMA TimesMonotone ==
  ASSUME NEW x \in Int, NEW y \in Int, NEW m \in Nat, x <= y
  PROVE  x * m <= y * m
<1>1. (y - x) * m >= 0
  OBVIOUS
<1>2. (y - x) * m = y * m - x * m
  OBVIOUS
<1>3. x * m \in Int /\ y * m \in Int
  OBVIOUS
<1> QED BY <1>1, <1>2, <1>3

\* The digit of a level without a leaf left.
Limit(i) == IF i < Levels THEN LeavesPerTree - 1 ELSE LeavesPerTree

\* No numeral of a key exceeds the capacity, and only the full one reaches it.
LEMMA PositionalLimit ==
  ASSUME NEW digits, \A i \in Level : digits[i] \in Int,
         \A i \in Level : digits[i] <= Limit(i)
  PROVE  /\ (\A i \in Level : digits[i] = Limit(i)) => Positional(0, digits) = MaxSignatures
         /\ (\E i \in Level : digits[i] < Limit(i)) => Positional(0, digits) < MaxSignatures
         /\ MaxSignatures \in Int
<1> DEFINE zeros == [i \in Level |-> 0]
           p == Running(1, zeros)
           t == Running(0, digits)
<1>0. /\ 0 \in Int /\ 1 \in Int
      /\ Levels \in Nat /\ Levels # 0 /\ LeavesPerTree \in Nat /\ LeavesPerTree # 0
  BY LevelsAssumption, LeavesAssumption
<1>1. /\ MaxSignatures = p[Levels]
      /\ p[0] = 1
      /\ \A n \in 0 .. Levels - 1 : p[n + 1] = p[n] * LeavesPerTree + zeros[n + 1]
      /\ \A n \in 0 .. Levels : p[n] \in Int
  <2>1. \A i \in Level : zeros[i] \in Int
    OBVIOUS
  <2> QED BY <1>0, <2>1, PositionalLoop DEF MaxSignatures
<1>2. /\ Positional(0, digits) = t[Levels]
      /\ t[0] = 0
      /\ \A n \in 0 .. Levels - 1 : t[n + 1] = t[n] * LeavesPerTree + digits[n + 1]
      /\ \A n \in 0 .. Levels : t[n] \in Int
  BY <1>0, PositionalLoop
<1>3. \A n \in 0 .. Levels - 1 : p[n + 1] = p[n] * LeavesPerTree
  <2> TAKE n \in 0 .. Levels - 1
  <2>1. n + 1 \in Level /\ n \in 0 .. Levels
    BY <1>0 DEF Level
  <2>2. zeros[n + 1] = 0 /\ p[n] * LeavesPerTree \in Int
    BY <1>0, <1>1, <2>1
  <2> QED BY <1>1, <2>2
<1> HIDE DEF p, t
<1>4. ASSUME \A i \in Level : digits[i] = Limit(i)
      PROVE  t[Levels] = p[Levels]
  <2> DEFINE S == {n \in Nat : n <= Levels => t[n] = IF n < Levels THEN p[n] - 1 ELSE p[n]}
  <2>1. 0 \in S
    BY <1>0, <1>1, <1>2
  <2>2. ASSUME NEW n \in Nat, n \in S PROVE n + 1 \in S
    <3> SUFFICES ASSUME n + 1 <= Levels
                 PROVE  t[n + 1] = IF n + 1 < Levels THEN p[n + 1] - 1 ELSE p[n + 1]
      OBVIOUS
    <3>1. n + 1 \in Level /\ n \in 0 .. Levels - 1 /\ n \in 0 .. Levels /\ n < Levels
      BY <1>0 DEF Level
    <3>2. t[n] = p[n] - 1 /\ p[n] \in Int /\ p[n] * LeavesPerTree \in Int
      BY <1>0, <1>1, <2>2, <3>1
    <3>3. (p[n] - 1) * LeavesPerTree = p[n] * LeavesPerTree - LeavesPerTree
      BY <1>0, <3>2
    <3>4. digits[n + 1] = Limit(n + 1)
      BY <1>4, <3>1
    <3>5. t[n + 1] = p[n + 1] - LeavesPerTree + Limit(n + 1)
      BY <1>0, <1>2, <1>3, <3>1, <3>2, <3>3, <3>4 DEF Limit
    <3> QED BY <1>0, <1>3, <3>1, <3>2, <3>5 DEF Limit
  <2> HIDE DEF S
  <2>3. Levels \in S
    BY <1>0, <2>1, <2>2, SetInduction
  <2> QED BY <1>0, <2>3 DEF S
<1>5. ASSUME NEW d \in Level, digits[d] < Limit(d)
      PROVE  t[Levels] < p[Levels]
  <2> DEFINE Gap(n) == IF n = Levels \/ n < d THEN 1 ELSE 2
             S == {n \in Nat : n <= Levels => t[n] <= p[n] - Gap(n)}
  <2>1. 0 \in S
    BY <1>0, <1>1, <1>2 DEF Level
  <2>2. ASSUME NEW n \in Nat, n \in S PROVE n + 1 \in S
    <3> SUFFICES ASSUME n + 1 <= Levels PROVE t[n + 1] <= p[n + 1] - Gap(n + 1)
      OBVIOUS
    <3>1. /\ n + 1 \in Level /\ n \in 0 .. Levels - 1 /\ n \in 0 .. Levels /\ n < Levels
          /\ d \in Nat /\ d <= Levels
      BY <1>0 DEF Level
    <3>2. /\ t[n] <= p[n] - Gap(n) /\ t[n] \in Int /\ p[n] \in Int
          /\ t[n] * LeavesPerTree \in Int /\ p[n] * LeavesPerTree \in Int
      <4>1. t[n] <= p[n] - Gap(n)
        BY <2>2, <3>1
      <4>2. t[n] \in Int /\ p[n] \in Int
        BY <1>1, <1>2, <3>1
      <4> QED BY <1>0, <4>1, <4>2
    <3>3. t[n] * LeavesPerTree <= p[n] * LeavesPerTree - Gap(n) * LeavesPerTree
      <4>1. p[n] - Gap(n) \in Int /\ Gap(n) \in Int
        BY <3>2
      <4>2. t[n] * LeavesPerTree <= (p[n] - Gap(n)) * LeavesPerTree
        BY <1>0, <3>2, <4>1, TimesMonotone
      <4>3. (p[n] - Gap(n)) * LeavesPerTree = p[n] * LeavesPerTree - Gap(n) * LeavesPerTree
        BY <1>0, <3>2, <4>1
      <4> QED BY <4>2, <4>3
    <3>4. t[n + 1] <= p[n + 1] - Gap(n) * LeavesPerTree + digits[n + 1]
      <4>1. digits[n + 1] \in Int /\ Gap(n) * LeavesPerTree \in Int
        BY <1>0, <3>1
      <4> QED BY <1>0, <1>2, <1>3, <3>1, <3>2, <3>3, <4>1
    <3>5. /\ t[n + 1] \in Int /\ p[n + 1] \in Int /\ digits[n + 1] \in Int
          /\ digits[n + 1] <= Limit(n + 1)
      BY <1>0, <1>1, <1>2, <3>1
    <3>6. CASE n < d
      <4>1. Gap(n) = 1
        BY <3>6
      <4>2. t[n + 1] <= p[n + 1] - LeavesPerTree + digits[n + 1]
        BY <1>0, <3>4, <3>5, <4>1
      <4>3. n + 1 = d => digits[n + 1] < Limit(n + 1)
        BY <1>5
      <4> QED BY <1>0, <3>1, <3>5, <3>6, <4>2, <4>3 DEF Limit
    <3>7. CASE n >= d
      <4>1. Gap(n) = 2
        BY <3>1, <3>7
      <4>2. t[n + 1] <= p[n + 1] - 2 * LeavesPerTree + digits[n + 1]
        BY <1>0, <3>4, <3>5, <4>1
      <4> QED BY <1>0, <3>1, <3>5, <3>7, <4>2 DEF Limit
    <3> QED BY <3>1, <3>6, <3>7
  <2> HIDE DEF S
  <2>3. Levels \in S
    BY <1>0, <2>1, <2>2, SetInduction
  <2>4. Levels \in 0 .. Levels
    BY <1>0
  <2> QED BY <1>0, <1>1, <1>2, <2>3, <2>4 DEF S
<1>6. MaxSignatures \in Int
  BY <1>0, <1>1
<1> QED BY <1>1, <1>2, <1>4, <1>5, <1>6
-----------------------------------------------------------------------------
\* The key can sign exactly while it has counted less than max_sig_size.
LEMMA CapacityProperties ==
  ASSUME NEW key \in KeyState
  PROVE  /\ CanSign(key) => Consumed(key) < MaxSignatures
         /\ ~CanSign(key) => Consumed(key) = MaxSignatures
<1> USE LevelsAssumption, LeavesAssumption
<1> DEFINE digits == [i \in Level |-> IF i < Levels THEN key.q[i] - 1 ELSE key.q[i]]
<1>1. \A i \in Level : /\ digits[i] \in Int /\ digits[i] <= Limit(i)
                       /\ digits[i] = Limit(i) <=> key.q[i] = LeavesPerTree
  BY KeyFields DEF Limit
<1>2. Consumed(key) = Positional(0, digits)
  BY DEF Consumed
<1> HIDE DEF digits
<1>3. /\ (\A i \in Level : digits[i] = Limit(i)) => Positional(0, digits) = MaxSignatures
      /\ (\E i \in Level : digits[i] < Limit(i)) => Positional(0, digits) < MaxSignatures
  BY <1>1, PositionalLimit
<1>4. CanSign(key) => \E i \in Level : digits[i] < Limit(i)
  BY <1>1, KeyFields DEF CanSign, Limit
<1>5. ~CanSign(key) => \A i \in Level : digits[i] = Limit(i)
  BY <1>1, KeyFields DEF CanSign
<1> QED BY <1>2, <1>3, <1>4, <1>5

\* A new key has consumed nothing.
LEMMA NewKeyConsumed ==
  ASSUME NEW first \in Nat
  PROVE  Consumed(NewKey(first)) = 0
<1> DEFINE key == NewKey(first)
           digits == [i \in Level |-> IF i < Levels THEN key.q[i] - 1 ELSE key.q[i]]
<1>1. \A i \in Level : digits[i] = 0
  BY DEF NewKey
<1> HIDE DEF digits
<1>2. Positional(0, digits) = 0
  BY <1>1, PositionalZero
<1> QED BY <1>2 DEF Consumed, digits

\* One signature counts as one, whichever level signs, and carries the count before it
\* as its index.
LEMMA SigningCounts ==
  ASSUME NEW key \in KeyState, NEW first \in Nat, CanSign(key), WellFormed(key, first),
         NEW message
  PROVE  /\ Consumed(AfterSign(key, first)) = Consumed(key) + 1
         /\ SignatureIndex(SignatureOf(AfterSign(key, first), message)) = Consumed(key)
<1> USE LevelsAssumption, LeavesAssumption
<1> DEFINE d == SignLevel(key)
           new == AfterSign(key, first)
           before == [i \in Level |-> IF i < Levels THEN key.q[i] - 1 ELSE key.q[i]]
           after == [i \in Level |-> IF i < Levels THEN new.q[i] - 1 ELSE new.q[i]]
           shown == [i \in Level |-> IF i < Levels THEN new.sigq[i] ELSE new.q[i] - 1]
<1>1. /\ d \in Level /\ key.q[d] < LeavesPerTree
      /\ \A i \in d + 1 .. Levels : key.q[i] >= LeavesPerTree
  BY SignLevelExists DEF IsSignLevel
<1>2. \A i \in Level : new.q[i] = IF i < d THEN key.q[i] ELSE IF i = d THEN key.q[i] + 1 ELSE 1
  BY <1>1, AfterSignFields
<1>3. new \in KeyState /\ \A i \in InnerLevel : new.sigq[i] = new.q[i] - 1
  BY AfterSignProperties DEF WellFormed
<1>4. /\ Consumed(key) = Positional(0, before)
      /\ Consumed(new) = Positional(0, after)
      /\ SignatureIndex(SignatureOf(new, message)) = Positional(0, shown)
  BY DEF Consumed, SignatureIndex, SignatureOf
<1> HIDE DEF d, new
<1>5. /\ \A i \in Level : before[i] \in Int
      /\ \A i \in Level : after[i] \in Int
      /\ \A i \in Level : i < d => after[i] = before[i]
      /\ after[d] = before[d] + 1
      /\ \A i \in Level : i > d => after[i] = before[i] + 1 - LeavesPerTree
  <2>1. ASSUME NEW i \in Level, i > d PROVE key.q[i] = LeavesPerTree /\ new.q[i] = 1
    <3>1. i \in d + 1 .. Levels /\ d \in Int /\ i \in Int /\ ~(i < d) /\ i # d
      BY <1>1, <2>1 DEF Level
    <3>2. key.q[i] >= LeavesPerTree /\ key.q[i] <= LeavesPerTree /\ key.q[i] \in Nat
      BY <1>1, <3>1, KeyFields
    <3>3. key.q[i] = LeavesPerTree
      BY <3>2
    <3>4. new.q[i] = 1
      BY <1>2, <3>1
    <3> QED BY <3>3, <3>4
  <2> QED BY <1>1, <1>2, <1>3, <2>1, KeyFields DEF Level
<1>6. /\ Levels \in Level
      /\ \A i \in Level : shown[i] \in Int
      /\ \A i \in Level : i < Levels => after[i] = shown[i]
      /\ after[Levels] = shown[Levels] + 1
      /\ \A i \in Level : i > Levels => after[i] = shown[i] + 1 - LeavesPerTree
  BY <1>3, KeyFields DEF Level, InnerLevel
<1> HIDE DEF before, after, shown
<1>7. Positional(0, after) = Positional(0, before) + 1 /\ Positional(0, before) \in Int
  BY <1>1, <1>5, PositionalNext
<1>8. Positional(0, after) = Positional(0, shown) + 1 /\ Positional(0, shown) \in Int
  BY <1>5, <1>6, PositionalNext
<1> QED BY <1>4, <1>7, <1>8 DEF new

-----------------------------------------------------------------------------
(* The live key.                                                            *)
\* The cached bytes are the live key, and the live key has spent every leaf that any
\* signature showed: what LeafSignsOnce needs to survive the next signature.
HssKeyInv ==
  /\ TypeOK
  /\ privateKeyBytes = hss
  /\ WellFormed(hss, fresh)
  /\ \A use \in issued : use.tree < fresh
  /\ Covers(hss, issued)
  /\ LeafSignsOnce

LEMMA HssKeyInitInv == Init => HssKeyInv
<1> SUFFICES ASSUME Init PROVE HssKeyInv
  OBVIOUS
<1> USE LevelsAssumption
<1>1. NewKey(0) \in KeyState /\ WellFormed(NewKey(0), Levels)
  BY NewKeyProperties
<1>2. TypeOK
  BY <1>1 DEF Init, TypeOK
<1> QED BY <1>1, <1>2 DEF Init, HssKeyInv, Covers, LeafSignsOnce, OneTime

\* Signing spends exactly one new leaf on the level that signs and starts new trees
\* below it.
LEMMA SignPreservesInv ==
  ASSUME HssKeyInv, NEW message \in Message, Sign(message)
  PROVE  HssKeyInv'
<1> USE LeavesAssumption
<1> DEFINE key == AfterSign(hss, fresh)
           sig == SignatureOf(key, message)
<1>1. /\ hss \in KeyState /\ fresh \in Nat /\ CanSign(hss) /\ WellFormed(hss, fresh)
      /\ Covers(hss, issued) /\ OneTime(issued)
      /\ \A use \in issued : use.tree \in Nat /\ use.tree < fresh /\ use.leaf \in Nat
  BY DEF HssKeyInv, TypeOK, Sign, LeafSignsOnce
<1>2. /\ key \in KeyState /\ FreshAfterSign(hss, fresh) \in Nat
      /\ FreshAfterSign(hss, fresh) >= fresh
      /\ WellFormed(key, FreshAfterSign(hss, fresh))
  BY <1>1, AfterSignProperties
<1>3. /\ Covers(key, issued \cup LeafUses(sig))
      /\ OneTime(issued \cup LeafUses(sig))
      /\ \A use \in LeafUses(sig) : /\ use.tree \in Nat /\ use.tree < FreshAfterSign(hss, fresh)
                                    /\ use.leaf \in 0 .. LeavesPerTree - 1
                                    /\ use.signs \in Nat \cup {message}
  BY <1>1, SignKeepsOneTime
<1>4. sig \in Signatures(Message)
  BY <1>1, SignatureType
<1>5. /\ hss' = key /\ privateKeyBytes' = key /\ fresh' = FreshAfterSign(hss, fresh)
      /\ answer' = sig /\ issued' = issued \cup LeafUses(sig)
      /\ usedSignatures' = Append(usedSignatures, GetLeafIndex(sig))
  BY DEF Sign
<1>6. GetLeafIndex(sig) \in 0 .. LeavesPerTree - 1
  BY <1>4, LevelsAssumption DEF Signatures, GetLeafIndex, Level
<1>7. LeafUses(sig) \subseteq [tree : Nat, leaf : 0 .. LeavesPerTree - 1, signs : Nat \cup Message]
  <2> SUFFICES ASSUME NEW use \in LeafUses(sig)
               PROVE  use \in [tree : Nat, leaf : 0 .. LeavesPerTree - 1, signs : Nat \cup Message]
    OBVIOUS
  <2>1. use = [tree |-> use.tree, leaf |-> use.leaf, signs |-> use.signs]
    BY DEF LeafUses
  <2> QED BY <1>3, <2>1
<1> HIDE DEF key, sig
<1>8. TypeOK'
  <2>1. usedSignatures' \in Seq(0 .. LeavesPerTree - 1)
    BY <1>5, <1>6 DEF HssKeyInv, TypeOK
  <2> QED BY <1>2, <1>4, <1>5, <1>7, <2>1 DEF HssKeyInv, TypeOK
<1>9. (\A use \in issued : use.tree < fresh)'
  <2> SUFFICES ASSUME NEW use \in issued' PROVE use.tree < fresh'
    OBVIOUS
  <2>1. CASE use \in issued
    BY <1>1, <1>2, <1>5, <2>1
  <2>2. CASE use \in LeafUses(sig)
    BY <1>3, <1>5, <2>2
  <2> QED BY <1>5, <2>1, <2>2
<1> QED BY <1>2, <1>3, <1>5, <1>8, <1>9 DEF HssKeyInv, LeafSignsOnce

LEMMA HssKeyNextInv == HssKeyInv /\ [Next]_vars => HssKeyInv'
<1> SUFFICES ASSUME HssKeyInv, [Next]_vars PROVE HssKeyInv'
  OBVIOUS
<1>1. CASE \E message \in Message : Sign(message)
  BY <1>1, SignPreservesInv
<1>2. CASE SignRefused
  BY <1>2 DEF HssKeyInv, TypeOK, SignRefused, LeafSignsOnce
<1>3. ASSUME NEW requested \in 0 .. Levels + 1, Rebuild(requested) PROVE HssKeyInv'
  <2>1. hss' = hss /\ privateKeyBytes' = hss /\ usedSignatures' = <<>>
    BY <1>3 DEF HssKeyInv, Rebuild
  <2> QED BY <1>3, <2>1 DEF HssKeyInv, TypeOK, Rebuild, LeafSignsOnce
<1>4. CASE UNCHANGED vars
  BY <1>4 DEF HssKeyInv, TypeOK, vars, LeafSignsOnce
<1> QED BY <1>1, <1>2, <1>3, <1>4 DEF Next

LEMMA HssKeyInvariance == Spec => []HssKeyInv
BY HssKeyInitInv, HssKeyNextInv, PTL DEF Spec

-----------------------------------------------------------------------------
\* The types of HSSPrivateKey's fields and of everything sign returns.
THEOREM HssKeyTypeOK == Spec => []TypeOK
<1>1. HssKeyInv => TypeOK
  BY DEF HssKeyInv
<1> QED BY <1>1, HssKeyInvariance, PTL

\* HSSPrivateKey.sign never lets a one-time leaf sign two things, for any number of
\* levels, any tree size, and any rebuilds from private_bytes_raw in between.
THEOREM HssLeafSignsOnce == Spec => []LeafSignsOnce
<1>1. HssKeyInv => LeafSignsOnce
  BY DEF HssKeyInv
<1> QED BY <1>1, HssKeyInvariance, PTL

\* Neither signing nor rebuilding ever replaces the root tree: the public key stays.
THEOREM HssPublicKeyStable == Spec => PublicKeyStable
<1> USE LevelsAssumption
<1>1. HssKeyInv /\ [Next]_vars => [hss'.tree[1] = hss.tree[1]]_vars
  <2> SUFFICES ASSUME HssKeyInv, Next PROVE hss'.tree[1] = hss.tree[1]
    BY DEF vars
  <2>1. ASSUME NEW message \in Message, Sign(message) PROVE hss'.tree[1] = hss.tree[1]
    <3>1. SignLevel(hss) \in Level
      BY <2>1, SignLevelExists DEF HssKeyInv, TypeOK, Sign
    <3>2. 1 \in Level /\ 1 <= SignLevel(hss)
      BY <3>1 DEF Level
    <3> QED BY <2>1, <3>1, <3>2, AfterSignFields DEF HssKeyInv, TypeOK, Sign
  <2>2. CASE SignRefused
    BY <2>2 DEF SignRefused
  <2>3. ASSUME NEW requested \in 0 .. Levels + 1, Rebuild(requested)
        PROVE  hss'.tree[1] = hss.tree[1]
    BY <2>3 DEF HssKeyInv, Rebuild
  <2> QED BY <2>1, <2>2, <2>3 DEF Next
<1> QED BY <1>1, HssKeyInvariance, PTL DEF Spec, PublicKeyStable

\* HSSPrivateKey keeps the promise of a one-time signer: compute_hss_signature_index
\* reports 0, 1, 2, ... one after the other whichever trees are replaced and however
\* often the object is rebuilt, and sign refuses exactly after max_sig_size of them.
THEOREM HssImplementsOneTimeSigner == Spec => ImplementsOneTimeSigner
<1> USE LevelsAssumption
<1>1. Init => Promise!Init
  BY NewKeyConsumed DEF Init, Promise!Init
<1>2. HssKeyInv /\ [Next]_vars => [Promise!Next]_(Promise!vars)
  <2> SUFFICES ASSUME HssKeyInv, [Next]_vars PROVE [Promise!Next]_(Promise!vars)
    OBVIOUS
  <2>1. ASSUME NEW message \in Message, Sign(message) PROVE Promise!Issue
    <3> DEFINE sig == SignatureOf(AfterSign(hss, fresh), message)
    <3>1. /\ hss \in KeyState /\ fresh \in Nat /\ CanSign(hss) /\ WellFormed(hss, fresh)
          /\ hss' = AfterSign(hss, fresh) /\ answer' = sig
      BY <2>1 DEF HssKeyInv, TypeOK, Sign
    <3>2. Consumed(hss') = Consumed(hss) + 1 /\ SignatureIndex(sig) = Consumed(hss)
      BY <3>1, SigningCounts
    <3>3. Consumed(hss) < MaxSignatures
      BY <3>1, CapacityProperties
    <3>4. sig \in Signatures(Message)
      BY <3>1, SignatureType
    <3>5. answer' \notin {Unasked, Refused}
      BY <3>1, <3>4, AnswerAssumption
    <3> HIDE DEF sig
    <3> QED BY <3>1, <3>2, <3>3, <3>5 DEF Promise!Issue
  <2>2. ASSUME SignRefused PROVE Promise!Refuse
    <3>1. hss \in KeyState /\ ~CanSign(hss) /\ hss' = hss /\ answer' = Refused
      BY <2>2 DEF HssKeyInv, TypeOK, SignRefused
    <3>2. Consumed(hss) = MaxSignatures
      BY <3>1, CapacityProperties
    <3> QED BY <3>1, <3>2 DEF Promise!Refuse
  <2>3. ASSUME NEW requested \in 0 .. Levels + 1, Rebuild(requested)
        PROVE  UNCHANGED Promise!vars
    BY <2>3 DEF HssKeyInv, Rebuild, Promise!vars
  <2>4. CASE UNCHANGED vars
    BY <2>4 DEF vars, Promise!vars
  <2> QED BY <2>1, <2>2, <2>3, <2>4 DEF Next, Promise!Next
<1> QED BY <1>1, <1>2, HssKeyInvariance, PTL DEF Spec, ImplementsOneTimeSigner, Promise!Spec

-----------------------------------------------------------------------------
(* The key in a file.                                                       *)
UsesOf(signatures) == UNION {LeafUses(sig) : sig \in signatures}
SavedUses == released \cup UsesOf(saved)
AllUses == released \cup UsesOf(saved \cup unsaved)

\* The live key has spent every leaf of every signature that still exists, the file
\* every leaf of those it was saved after; without a process only the file is left.
LiveInv == /\ live = NoKey => unsaved = {} /\ saved = {} /\ image = NoKey
           /\ live # NoKey => WellFormed(live, nextTree) /\ Covers(live, AllUses)
           /\ image # NoKey => image = live
FileInv == file \in KeyState => WellFormed(file, nextTree) /\ Covers(file, SavedUses)
UsesInv == OneTime(AllUses) /\ \A use \in AllUses : use.tree < nextTree

KeyFileInv == FileTypeOK /\ LiveInv /\ FileInv /\ UsesInv

LEMMA UsesOfUnion ==
  ASSUME NEW A, NEW B
  PROVE  UsesOf(A \cup B) = UsesOf(A) \cup UsesOf(B)
BY DEF UsesOf

\* Leaf uses of typed signatures are typed.
LEMMA UsesType ==
  ASSUME FileTypeOK
  PROVE  /\ SavedUses \subseteq AllUses
         /\ released \subseteq SavedUses
         /\ \A use \in AllUses : use.tree \in Nat /\ use.leaf \in Nat
<1> USE LevelsAssumption, LeavesAssumption
<1>1. ASSUME NEW sig \in saved \cup unsaved, NEW use \in LeafUses(sig)
      PROVE  use.tree \in Nat /\ use.leaf \in Nat
  <2>1. sig \in Signatures(Message)
    BY DEF FileTypeOK
  <2>2. PICK i \in Level : use.tree = sig.tree[i] /\ use.leaf = sig.leaf[i]
    BY DEF LeafUses
  <2>3. sig.tree[i] \in Nat /\ sig.leaf[i] \in 0 .. LeavesPerTree - 1
    BY <2>1 DEF Signatures
  <2> QED BY <2>2, <2>3
<1>2. \A use \in released : use.tree \in Nat /\ use.leaf \in Nat
  BY DEF FileTypeOK
<1> QED BY <1>1, <1>2 DEF SavedUses, AllUses, UsesOf

\* What a smaller set of uses inherits, and what a later draw of trees leaves true.
LEMMA Inherited ==
  ASSUME NEW key, NEW A, NEW B \in SUBSET A
  PROVE  /\ Covers(key, A) => Covers(key, B)
         /\ OneTime(A) => OneTime(B)
BY DEF Covers, OneTime

LEMMA LaterFresh ==
  ASSUME NEW key \in KeyState, NEW f \in Nat, NEW g \in Nat, f <= g, WellFormed(key, f)
  PROVE  WellFormed(key, g)
BY KeyFields DEF WellFormed

LEMMA KeyFileInitInv == FileInit => KeyFileInv
<1> SUFFICES ASSUME FileInit PROVE KeyFileInv
  OBVIOUS
<1>1. FileTypeOK
  BY DEF FileInit, FileTypeOK
<1>2. AllUses = {} /\ SavedUses = {}
  BY DEF FileInit, AllUses, SavedUses, UsesOf
<1>3. file \notin KeyState
  BY FileAssumption DEF FileInit
<1> QED BY <1>1, <1>2, <1>3 DEF FileInit, KeyFileInv, LiveInv, FileInv, UsesInv, OneTime

\* A new key uses trees nobody has seen.
LEMMA GeneratePreservesInv ==
  ASSUME KeyFileInv, Generate
  PROVE  KeyFileInv'
<1> USE LevelsAssumption
<1>1. FileTypeOK /\ nextTree \in Nat
  BY DEF KeyFileInv, FileTypeOK
<1>2. /\ NewKey(nextTree) \in KeyState
      /\ WellFormed(NewKey(nextTree), nextTree + Levels)
      /\ \A i \in Level : NewKey(nextTree).tree[i] >= nextTree
  BY <1>1, NewKeyProperties
<1>3. /\ live' = NewKey(nextTree) /\ nextTree' = nextTree + Levels
      /\ UNCHANGED <<file, image, unsaved, saved, released, crashes>>
  BY DEF Generate
<1>4. AllUses' = AllUses
  BY <1>3 DEF AllUses, UsesOf
<1>5. Covers(NewKey(nextTree), AllUses)
  <2>1. \A use \in AllUses, i \in Level : use.tree # NewKey(nextTree).tree[i]
    BY <1>1, <1>2, UsesType, KeyFields DEF KeyFileInv, UsesInv
  <2> QED BY <2>1 DEF Covers, Spent, SameChain, Level, InnerLevel
<1>6. FileTypeOK'
  BY <1>1, <1>2, <1>3 DEF FileTypeOK
<1>7. LiveInv'
  BY <1>2, <1>3, <1>4, <1>5 DEF KeyFileInv, LiveInv, Generate
<1>8. FileInv'
  BY <1>3, FileAssumption DEF FileInv, Generate
<1>9. UsesInv'
  BY <1>1, <1>3, <1>4, UsesType DEF KeyFileInv, UsesInv
<1> QED BY <1>6, <1>7, <1>8, <1>9 DEF KeyFileInv

\* The process resumes where the file is, and nothing unsaved survived.
LEMMA LoadPreservesInv ==
  ASSUME KeyFileInv, Load
  PROVE  KeyFileInv'
<1>1. live = NoKey /\ live' = file /\ file \in KeyState
  BY DEF Load, KeyFileInv, FileTypeOK
<1>2. UNCHANGED <<file, image, unsaved, saved, released, nextTree, crashes>>
  BY DEF Load
<1>3. unsaved = {} /\ saved = {} /\ image = NoKey
  BY <1>1 DEF KeyFileInv, LiveInv
<1>4. AllUses' = SavedUses /\ SavedUses' = SavedUses /\ AllUses' = AllUses
  BY <1>2, <1>3 DEF AllUses, SavedUses, UsesOf
<1>5. FileTypeOK'
  BY <1>1, <1>2 DEF KeyFileInv, FileTypeOK
<1>6. LiveInv'
  BY <1>1, <1>2, <1>3, <1>4, FileAssumption DEF KeyFileInv, LiveInv, FileInv
<1>7. FileInv'
  BY <1>2, <1>4 DEF KeyFileInv, FileInv
<1>8. UsesInv'
  BY <1>2, <1>4 DEF KeyFileInv, UsesInv
<1> QED BY <1>5, <1>6, <1>7, <1>8 DEF KeyFileInv

LEMMA SignPreservesKeyFileInv ==
  ASSUME KeyFileInv, NEW message \in Message, SignLive(message)
  PROVE  KeyFileInv'
<1> DEFINE key == AfterSign(live, nextTree)
           sig == SignatureOf(key, message)
<1>1. FileTypeOK /\ live \in KeyState /\ nextTree \in Nat /\ CanSign(live) /\ image = NoKey /\ live # NoKey
  BY DEF KeyFileInv, FileTypeOK, SignLive
<1>2. /\ WellFormed(live, nextTree) /\ Covers(live, AllUses) /\ OneTime(AllUses)
      /\ \A use \in AllUses : use.tree \in Nat /\ use.tree < nextTree /\ use.leaf \in Nat
  BY <1>1, UsesType DEF KeyFileInv, LiveInv, UsesInv
<1>3. /\ key \in KeyState /\ FreshAfterSign(live, nextTree) \in Nat
      /\ FreshAfterSign(live, nextTree) >= nextTree
      /\ WellFormed(key, FreshAfterSign(live, nextTree))
  BY <1>1, <1>2, AfterSignProperties
<1>4. /\ Covers(key, AllUses \cup LeafUses(sig))
      /\ OneTime(AllUses \cup LeafUses(sig))
      /\ \A use \in LeafUses(sig) : use.tree \in Nat /\ use.tree < FreshAfterSign(live, nextTree)
  <2> HIDE DEF AllUses
  <2> QED BY <1>1, <1>2, SignKeepsOneTime
<1>5. sig \in Signatures(Message)
  BY <1>1, <1>2, SignatureType
<1>6. /\ live' = key /\ nextTree' = FreshAfterSign(live, nextTree)
      /\ unsaved' = unsaved \cup {sig}
      /\ UNCHANGED <<file, image, saved, released, crashes>>
  BY DEF SignLive
<1> HIDE DEF key, sig
<1>7. AllUses' = AllUses \cup LeafUses(sig) /\ SavedUses' = SavedUses
  BY <1>6 DEF AllUses, SavedUses, UsesOf
<1>8. FileTypeOK'
  BY <1>1, <1>3, <1>5, <1>6 DEF FileTypeOK
<1>9. LiveInv'
  BY <1>1, <1>3, <1>4, <1>6, <1>7, FileAssumption DEF LiveInv
<1>10. FileInv'
  BY <1>1, <1>3, <1>6, <1>7, LaterFresh DEF KeyFileInv, FileInv
<1>11. UsesInv'
  <2> SUFFICES ASSUME NEW use \in AllUses \cup LeafUses(sig) PROVE use.tree < nextTree'
    BY <1>4, <1>7 DEF UsesInv
  <2>1. CASE use \in AllUses
    BY <1>1, <1>2, <1>3, <1>6, <2>1
  <2>2. CASE use \in LeafUses(sig)
    BY <1>4, <1>6, <2>2
  <2> QED BY <2>1, <2>2
<1> QED BY <1>8, <1>9, <1>10, <1>11 DEF KeyFileInv

\* save_key empties the file before it writes: no loadable state is left to lag.
LEMMA SavePreservesInv ==
  ASSUME KeyFileInv, SaveOpen \/ SaveWrite \/ SaveFails
  PROVE  KeyFileInv'
<1>1. CASE SaveOpen
  <2>1. AllUses' = AllUses
    BY <1>1 DEF SaveOpen, AllUses, UsesOf
  <2>2. FileTypeOK'
    BY <1>1 DEF KeyFileInv, FileTypeOK, SaveOpen
  <2>3. LiveInv'
    BY <1>1, <2>1 DEF KeyFileInv, LiveInv, SaveOpen
  <2>4. FileInv'
    BY <1>1, FileAssumption DEF FileInv, SaveOpen
  <2>5. UsesInv'
    BY <1>1, <2>1 DEF KeyFileInv, UsesInv, SaveOpen
  <2> QED BY <2>2, <2>3, <2>4, <2>5 DEF KeyFileInv
<1>2. CASE SaveWrite
  <2>1. image = live /\ live # NoKey /\ live' = live /\ file' = live /\ nextTree' = nextTree
    BY <1>2 DEF KeyFileInv, LiveInv, SaveWrite
  <2>2. AllUses' = AllUses /\ SavedUses' = AllUses
    BY <1>2 DEF SaveWrite, AllUses, SavedUses, UsesOf
  <2>3. FileTypeOK'
    BY <1>2 DEF KeyFileInv, FileTypeOK, SaveWrite
  <2>4. LiveInv'
    BY <1>2, <2>1, <2>2 DEF KeyFileInv, LiveInv, SaveWrite
  <2>5. FileInv'
    BY <2>1, <2>2 DEF KeyFileInv, LiveInv, FileInv
  <2>6. UsesInv'
    BY <2>1, <2>2 DEF KeyFileInv, UsesInv
  <2> QED BY <2>3, <2>4, <2>5, <2>6 DEF KeyFileInv
<1>3. CASE SaveFails
  <2>1. AllUses' = AllUses /\ SavedUses' = SavedUses
    BY <1>3 DEF SaveFails, AllUses, SavedUses, UsesOf
  <2>2. FileTypeOK'
    BY <1>3 DEF KeyFileInv, FileTypeOK, SaveFails
  <2> QED BY <1>3, <2>1, <2>2 DEF KeyFileInv, LiveInv, FileInv, UsesInv, SaveFails
<1> QED BY <1>1, <1>2, <1>3

\* Handing a signature out moves its leaves from the saved to the released ones.
LEMMA ReleasePreservesInv ==
  ASSUME KeyFileInv, NEW sig \in saved, Release(sig)
  PROVE  KeyFileInv'
<1>1. /\ released' = released \cup LeafUses(sig) /\ saved' = saved \ {sig}
      /\ UNCHANGED <<file, live, image, unsaved, nextTree, crashes>>
  BY DEF Release
<1>2. AllUses' = AllUses /\ SavedUses' = SavedUses
  BY <1>1 DEF AllUses, SavedUses, UsesOf
<1>3. LeafUses(sig) \subseteq [tree : Nat, leaf : 0 .. LeavesPerTree - 1, signs : Nat \cup Message]
  <2> USE LevelsAssumption, LeavesAssumption
  <2>1. sig \in Signatures(Message)
    BY DEF KeyFileInv, FileTypeOK
  <2>2. /\ \A i \in Level : sig.tree[i] \in Nat /\ sig.leaf[i] \in 0 .. LeavesPerTree - 1
        /\ sig.message \in Message
    BY <2>1 DEF Signatures
  <2>3. ASSUME NEW i \in Level
        PROVE  (IF i < Levels THEN sig.tree[i + 1] ELSE sig.message) \in Nat \cup Message
    BY <2>2 DEF Level
  <2> QED BY <2>2, <2>3 DEF LeafUses
<1>4. FileTypeOK'
  BY <1>1, <1>3 DEF KeyFileInv, FileTypeOK
<1>5. LiveInv'
  BY <1>1, <1>2 DEF KeyFileInv, LiveInv
<1>6. FileInv'
  BY <1>1, <1>2 DEF KeyFileInv, FileInv
<1>7. UsesInv'
  BY <1>1, <1>2 DEF KeyFileInv, UsesInv
<1> QED BY <1>4, <1>5, <1>6, <1>7 DEF KeyFileInv

\* A crash forgets signatures and never a leaf the file has to know of.
LEMMA CrashPreservesInv ==
  ASSUME KeyFileInv, Crash
  PROVE  KeyFileInv'
<1>1. /\ live' = NoKey /\ image' = NoKey /\ unsaved' = {} /\ saved' = {}
      /\ UNCHANGED <<file, released, nextTree>>
  BY DEF Crash
<1>2. AllUses' \subseteq AllUses /\ SavedUses' \subseteq SavedUses
  BY <1>1 DEF AllUses, SavedUses, UsesOf
<1>3. FileTypeOK'
  BY <1>1 DEF KeyFileInv, FileTypeOK, Crash
<1>4. LiveInv'
  BY <1>1 DEF LiveInv
<1>5. FileInv'
  BY <1>1, <1>2, Inherited DEF KeyFileInv, FileInv
<1>6. UsesInv'
  BY <1>1, <1>2, Inherited DEF KeyFileInv, UsesInv
<1> QED BY <1>3, <1>4, <1>5, <1>6 DEF KeyFileInv

LEMMA KeyFileNextInv == KeyFileInv /\ [FileNext]_fileVars => KeyFileInv'
<1> SUFFICES ASSUME KeyFileInv, [FileNext]_fileVars PROVE KeyFileInv'
  OBVIOUS
<1>1. CASE UNCHANGED fileVars
  <2>1. AllUses' = AllUses /\ SavedUses' = SavedUses
    BY <1>1 DEF fileVars, AllUses, SavedUses, UsesOf
  <2> QED BY <1>1, <2>1 DEF fileVars, KeyFileInv, FileTypeOK, LiveInv, FileInv, UsesInv
<1> QED BY <1>1, GeneratePreservesInv, LoadPreservesInv, SignPreservesKeyFileInv,
           SavePreservesInv, ReleasePreservesInv, CrashPreservesInv DEF FileNext

LEMMA KeyFileInvariance == FileSpec => []KeyFileInv
BY KeyFileInitInv, KeyFileNextInv, PTL DEF FileSpec

-----------------------------------------------------------------------------
\* The types of the key file, of the live key and of everything handed out.
THEOREM KeyFileTypeOK == FileSpec => []FileTypeOK
<1>1. KeyFileInv => FileTypeOK
  BY DEF KeyFileInv
<1> QED BY <1>1, KeyFileInvariance, PTL

\* With save_key before every release, no crash between serialising, opening and
\* writing the file makes a one-time leaf sign two released things.
THEOREM KeyFileReleasedOnce == FileSpec => []ReleasedLeafSignsOnce
<1>1. KeyFileInv => ReleasedLeafSignsOnce
  <2> SUFFICES ASSUME KeyFileInv PROVE OneTime(released)
    BY DEF ReleasedLeafSignsOnce
  <2>1. released \subseteq AllUses
    BY DEF AllUses
  <2> QED BY <2>1, Inherited DEF KeyFileInv, UsesInv
<1> QED BY <1>1, KeyFileInvariance, PTL

\* Whatever load_private_key_from_file can load has spent every released leaf.
THEOREM KeyFileCoversReleased == FileSpec => []FileCoversReleased
<1>1. KeyFileInv => FileCoversReleased
  BY DEF KeyFileInv, FileInv, FileCoversReleased, SavedUses, Covers
<1> QED BY <1>1, KeyFileInvariance, PTL
=============================================================================
