--------------------------- MODULE XmssKey_proofs ---------------------------
(***************************************************************************)
(* Theorems about XmssKey for every number of leaves.                      *)
(***************************************************************************)
EXTENDS XmssKey, TLAPS

\* A used key without a verifying signature behind it exists only past the last leaf.
Aligned ==
  /\ Len(madeLeaves) <= Len(usedKeys)
  /\ Len(madeLeaves) = Len(usedKeys) \/ index >= SigsTotal

XmssInv == TypeOK /\ Aligned /\ UsedKeysFollowSignatures

LEMMA XmssInitInv == Init => XmssInv
BY SigsTotalAssumption
   DEF Init, XmssInv, TypeOK, Aligned, UsedKeysFollowSignatures, Index, OverrunBound

LEMMA SignPreservesXmssInv ==
  ASSUME XmssInv, Sign
  PROVE  XmssInv'
<1> USE SigsTotalAssumption
<1>1. /\ index \in Nat /\ index <= SigsTotal /\ index' = index + 1
      /\ usedKeys \in Seq(Index) /\ madeLeaves \in Seq(Leaf)
      /\ usedKeys' = Append(usedKeys, index')
  BY DEF XmssInv, TypeOK, Sign, Index, OverrunBound
<1>2. index' \in Index
  BY <1>1 DEF Index, OverrunBound
<1>3. CASE Verifies(index)
  <2>1. /\ madeLeaves' = Append(madeLeaves, index) /\ answer' = index /\ index \in Leaf
        /\ Len(madeLeaves) = Len(usedKeys)
    BY <1>1, <1>3 DEF Sign, Verifies, Leaf, XmssInv, Aligned
  <2>2. TypeOK'
    BY <1>1, <1>2, <2>1 DEF TypeOK
  <2>3. Aligned'
    BY <1>1, <1>2, <2>1 DEF Aligned
  <2>4. UsedKeysFollowSignatures'
    <3> SUFFICES ASSUME NEW i \in 1 .. Len(madeLeaves) + 1
                 PROVE  usedKeys'[i] = madeLeaves'[i] + 1
      BY <1>1, <2>1 DEF UsedKeysFollowSignatures
    <3>1. CASE i = Len(madeLeaves) + 1
      <4>1. usedKeys'[i] = index + 1
        BY <1>1, <1>2, <2>1, <3>1
      <4>2. madeLeaves'[i] = index
        BY <1>1, <2>1, <3>1
      <4> QED BY <4>1, <4>2
    <3>2. CASE i \in 1 .. Len(madeLeaves)
      <4>1. usedKeys'[i] = usedKeys[i] /\ madeLeaves'[i] = madeLeaves[i]
        BY <1>1, <1>2, <2>1, <3>2
      <4> QED BY <3>2, <4>1 DEF XmssInv, UsedKeysFollowSignatures
    <3>3. Len(madeLeaves) \in Nat
      BY <1>1
    <3> QED BY <3>1, <3>2, <3>3
  <2> QED BY <2>2, <2>3, <2>4 DEF XmssInv
<1>4. CASE ~Verifies(index)
  <2>1. madeLeaves' = madeLeaves /\ answer' = Refused /\ index >= SigsTotal
    BY <1>1, <1>4 DEF Sign, Verifies
  <2>2. TypeOK'
    BY <1>1, <1>2, <2>1 DEF XmssInv, TypeOK
  <2>3. Aligned'
    BY <1>1, <1>2, <2>1 DEF XmssInv, Aligned
  <2>4. UsedKeysFollowSignatures'
    BY <1>1, <1>2, <2>1 DEF XmssInv, Aligned, UsedKeysFollowSignatures
  <2> QED BY <2>2, <2>3, <2>4 DEF XmssInv
<1> QED BY <1>3, <1>4

\* Every way to get a new object on other key bytes starts its lists afresh.
LEMMA InitializePreservesXmssInv ==
  ASSUME XmssInv, NEW i \in Index, Initialize(i), UNCHANGED answer
  PROVE  XmssInv'
BY DEF XmssInv, TypeOK, Aligned, UsedKeysFollowSignatures, Initialize

LEMMA RewindNextInv == XmssInv /\ [RewindNext]_vars => XmssInv'
<1> USE SigsTotalAssumption
<1> SUFFICES ASSUME XmssInv, [RewindNext]_vars PROVE XmssInv'
  OBVIOUS
<1>1. CASE Sign
  BY <1>1, SignPreservesXmssInv
<1>2. CASE FromPrivateBytes
  BY <1>2, InitializePreservesXmssInv DEF FromPrivateBytes, XmssInv, TypeOK
<1>3. ASSUME NEW slot \in 0 .. Len(usedKeys), RestoreUsed(slot) PROVE XmssInv'
  <2>1. usedKeys[slot + 1] \in Index
    BY <1>3 DEF RestoreUsed, XmssInv, TypeOK
  <2> QED BY <1>3, <2>1, InitializePreservesXmssInv DEF RestoreUsed
<1>4. ASSUME NEW new \in 0 .. SigsTotal, ChangeIndex(new) PROVE XmssInv'
  <2>1. CASE index = new /\ ~MultiTree
    BY <1>4, <2>1 DEF ChangeIndex, XmssInv, TypeOK, Aligned, UsedKeysFollowSignatures
  <2>2. CASE ~(index = new /\ ~MultiTree)
    <3>1. new \in Index
      BY DEF Index, OverrunBound
    <3> QED BY <1>4, <2>2, <3>1, InitializePreservesXmssInv DEF ChangeIndex
  <2> QED BY <2>1, <2>2
<1>5. ASSUME NEW lastIndex \in BOOLEAN, NEW new \in None .. SigsTotal, ModifyIndex(lastIndex, new)
      PROVE  XmssInv'
  <2>1. TargetIndex(lastIndex, new) \in Index
    BY DEF TargetIndex, None, Index, OverrunBound
  <2> QED BY <1>5, <2>1, InitializePreservesXmssInv DEF ModifyIndex
<1>6. CASE UNCHANGED vars
  BY <1>6 DEF vars, XmssInv, TypeOK, Aligned, UsedKeysFollowSignatures
<1> QED BY <1>1, <1>2, <1>3, <1>4, <1>5, <1>6 DEF RewindNext, Next

LEMMA XmssRewindInvariance == RewindSpec => []XmssInv
BY XmssInitInv, RewindNextInv, PTL DEF RewindSpec

LEMMA XmssInvariance == Spec => []XmssInv
<1>1. [Next]_vars => [RewindNext]_vars
  BY DEF RewindNext
<1> QED BY <1>1, XmssInitInv, RewindNextInv, PTL DEF Spec
-----------------------------------------------------------------------------
\* The types of the counter, of used_keys and of what sign returns.
THEOREM XmssTypeOK == RewindSpec => []TypeOK
<1>1. XmssInv => TypeOK
  BY DEF XmssInv
<1> QED BY <1>1, XmssRewindInvariance, PTL

\* However the helpers move the counter, the i-th entry of used_keys continues right
\* after the leaf of the i-th signature.
THEOREM XmssUsedKeysFollow == RewindSpec => []UsedKeysFollowSignatures
<1>1. XmssInv => UsedKeysFollowSignatures
  BY DEF XmssInv
<1> QED BY <1>1, XmssRewindInvariance, PTL

\* sign and from_private_bytes(private_bytes_raw()) implement the one-time signer.
THEOREM XmssImplementsOneTimeSigner == Spec => ImplementsOneTimeSigner
<1> USE SigsTotalAssumption
<1>1. Init => Promise!Init
  BY DEF Init, Promise!Init
<1>2. XmssInv /\ [Next]_vars => [Promise!Next]_(Promise!vars)
  <2> SUFFICES ASSUME XmssInv, [Next]_vars PROVE [Promise!Next]_(Promise!vars)
    OBVIOUS
  <2>0. index \in Nat
    BY DEF XmssInv, TypeOK, Index
  <2>1. CASE Sign
    <3>1. CASE Verifies(index)
      <4>1. Promise!Issue
        BY <2>0, <2>1, <3>1 DEF Sign, Verifies, Promise!Issue
      <4> QED BY <4>1 DEF Promise!Next
    <3>2. CASE ~Verifies(index)
      <4>1. Promise!Refuse
        BY <2>0, <2>1, <3>2 DEF Sign, Verifies, Promise!Refuse
      <4> QED BY <4>1 DEF Promise!Next
    <3> QED BY <3>1, <3>2
  <2>2. CASE FromPrivateBytes
    BY <2>2 DEF FromPrivateBytes, Initialize, Promise!vars
  <2>3. CASE UNCHANGED vars
    BY <2>3 DEF vars, Promise!vars
  <2> QED BY <2>1, <2>2, <2>3 DEF Next
<1> QED BY <1>1, <1>2, XmssInvariance, PTL DEF Spec, ImplementsOneTimeSigner, Promise!Spec
=============================================================================
