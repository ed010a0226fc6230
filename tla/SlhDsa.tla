------------------------------- MODULE SlhDsa -------------------------------
(***************************************************************************)
(* The SLH_DSA class of fips205.py: FORS, WOTS+ chains, XMSS trees and the  *)
(* hypertree above them, signing and verifying layer by layer.  Hashing is  *)
(* free: a hash value is its address and its input, so that two values are  *)
(* equal exactly when they were computed alike.  The n bytes of a value     *)
(* that a WOTS key signs are drawn from an oracle when they are first read. *)
(* No caller reaches the ranges where chain, xmss_node and fors_node return *)
(* None; here their functions are not defined there.                       *)
(***************************************************************************)
EXTENDS Integers, Sequences, FiniteSets, Functions

CONSTANTS N, H, D, HP, A, K, LgW,  \* n, h, d, hp, a, k, lg_w of a parameter set
          Digests,                 \* values of h_msg: sequences of bytes
          Oracles,                 \* sequences of distinct n-byte strings
          SignBound,               \* signatures made
          None

ASSUME SizeAssumption == {N, H, D, HP, A, K, LgW, SignBound} \subseteq Nat \ {0}
ASSUME HeightAssumption == H = D * HP
\* A string is cut into whole digits: lg_w is 4 in every parameter set.
ASSUME DigitAssumption == (8 * N) % LgW = 0
\* h_msg returns as many bytes as split_digest takes (m in SLH_DSA_PARAMS).
ASSUME DigestAssumption ==
  /\ \A digest \in Digests :
       /\ digest \in Seq(0 .. 255)
       /\ Len(digest) = (K * A + 7) \div 8 + (H - HP + 7) \div 8 + (HP + 7) \div 8
  /\ None \notin Digests
\* n bytes tell two hash values apart.
ASSUME OracleAssumption ==
  Oracles \subseteq Seq([1 .. N -> 0 .. 255]) /\ \A bytestrings \in Oracles : IsInjective(bytestrings)

\* 1 << e
Pow2(e) == LET power[k \in 0 .. e] == IF k = 0 THEN 1 ELSE 2 * power[k - 1] IN power[e]

W == Pow2(LgW)
BitLength(x) == CHOOSE b \in 0 .. x : Pow2(b) > x /\ (b = 0 \/ Pow2(b - 1) <= x)
Len1 == (8 * N + LgW - 1) \div LgW
Len2 == BitLength(Len1 * (W - 1)) \div LgW + 1
WotsLen == Len1 + Len2
SigSize == 1 + K * (1 + A) + H + D * WotsLen

-----------------------------------------------------------------------------
(* Addresses.  The last two words hold a height or a chain, and an index or *)
(* a step of a chain.                                                       *)
ADRS(layer, tree) ==
  [layer |-> layer, tree |-> tree, type |-> "WOTS_HASH", pair |-> 0, height |-> 0, index |-> 0]

\* set_type_and_clear, then set_key_pair_address.
SetType(adrs, type, pair) ==
  [adrs EXCEPT !.type = type, !.pair = pair, !.height = 0, !.index = 0]
SetNode(adrs, height, index) == [adrs EXCEPT !.height = height, !.index = index]

\* h_f, h_h, h_t on one, two, many values; prf on the secret seed.
Hash(adrs, input) == [adrs |-> adrs, input |-> input]
Prf(adrs) == Hash(adrs, <<>>)
Randomizer == Hash([ADRS(0, 0) EXCEPT !.type = "PRF_MSG"], <<>>)

ToInt(s) ==
  LET total[i \in 0 .. Len(s)] == IF i = 0 THEN 0 ELSE 256 * total[i - 1] + s[i]
  IN  total[Len(s)]
ToByte(x, n) == [i \in 1 .. n |-> (x \div Pow2(8 * (n - i))) % 256]
Base2b(s, b, out) == [j \in 1 .. out |-> (ToInt(s) \div Pow2(8 * Len(s) - j * b)) % Pow2(b)]

-----------------------------------------------------------------------------
(* WOTS+ one-time signatures.                                               *)
Chain(x, i, s, adrs) ==
  LET t[j \in i .. i + s] ==
        IF j = i THEN x ELSE Hash([adrs EXCEPT !.index = j - 1], <<t[j - 1]>>)
  IN  t[i + s]

\* Mutant of Checksum: it counts the digits up, not down.
ChecksumUp(msg) ==
  LET csum[i \in 0 .. Len1] == IF i = 0 THEN 0 ELSE csum[i - 1] + msg[i]
  IN  csum[Len1]

Checksum(msg) ==
  LET csum[i \in 0 .. Len1] == IF i = 0 THEN 0 ELSE csum[i - 1] + W - 1 - msg[i]
  IN  csum[Len1]

\* The digits of an n-byte string, then those of its checksum, moved up against the
\* end of its bytes.
ChecksumShift == (8 - ((Len2 * LgW) % 8)) % 8
WotsDigits(m) ==
  LET msg  == Base2b(m, LgW, Len1)
      csum == ToByte(Checksum(msg) * Pow2(ChecksumShift), (Len2 * LgW + 7) \div 8)
  IN  msg \o Base2b(csum, LgW, Len2)

WotsSk(adrs, i) == Prf([SetType(adrs, "WOTS_PRF", adrs.pair) EXCEPT !.height = i - 1])
ChainAdrs(adrs, i) == [adrs EXCEPT !.height = i - 1]

WotsPkgen(adrs) ==
  Hash(SetType(adrs, "WOTS_PK", adrs.pair),
       [i \in 1 .. WotsLen |-> Chain(WotsSk(adrs, i), 0, W - 1, ChainAdrs(adrs, i))])

WotsSign(m, adrs) ==
  [i \in 1 .. WotsLen |-> Chain(WotsSk(adrs, i), 0, WotsDigits(m)[i], ChainAdrs(adrs, i))]

WotsPkFromSig(sig, m, adrs) ==
  LET msg == WotsDigits(m)
  IN  Hash(SetType(adrs, "WOTS_PK", adrs.pair),
           [i \in 1 .. WotsLen |-> Chain(sig[i], msg[i], W - 1 - msg[i], ChainAdrs(adrs, i))])

-----------------------------------------------------------------------------
(* XMSS trees.  adrs carries the layer and the tree.                        *)
\* The recursion of xmss_node and fors_node, level by level: count trees of this height
\* side by side.
Merkle(leaves, height, count, adrs) ==
  LET level[z \in 0 .. height] ==
        IF z = 0 THEN leaves
        ELSE [i \in 0 .. count * Pow2(height - z) - 1 |->
                Hash(SetNode(adrs, z, i), <<level[z - 1][2 * i], level[z - 1][2 * i + 1]>>)]
  IN  level

XmssNode(i, z, adrs) ==
  Merkle([leaf \in 0 .. Pow2(HP) - 1 |-> WotsPkgen(SetType(adrs, "WOTS_HASH", leaf))],
         HP, 1, SetType(adrs, "TREE", 0))[z][i]

Bit(x, j) == (x \div Pow2(j)) % 2
Sibling(x, j) == LET k == x \div Pow2(j) IN IF k % 2 = 0 THEN k + 1 ELSE k - 1

XmssSign(m, idx, adrs) ==
  WotsSign(m, SetType(adrs, "WOTS_HASH", idx))
    \o [j \in 1 .. HP |-> XmssNode(Sibling(idx, j - 1), j - 1, adrs)]

\* Mutant of Climb: the index stays that of the leaf.
ClimbSameIndex(idx, start, leaf, auth, adrs) ==
  LET up[k \in 0 .. Len(auth)] ==
        IF k = 0 THEN leaf
        ELSE Hash(SetNode(adrs, k, start),
                  IF Bit(idx, k - 1) = 0 THEN <<up[k - 1], auth[k]>> ELSE <<auth[k], up[k - 1]>>)
  IN  up[Len(auth)]

\* From a leaf along its authentication path; idx says on which side the path comes in,
\* start is the index the leaf has in its layer of nodes.
Climb(idx, start, leaf, auth, adrs) ==
  LET index[k \in 0 .. Len(auth)] ==
        IF k = 0 THEN start
        ELSE IF Bit(idx, k - 1) = 0 THEN index[k - 1] \div 2 ELSE (index[k - 1] - 1) \div 2
      up[k \in 0 .. Len(auth)] ==
        IF k = 0 THEN leaf
        ELSE Hash(SetNode(adrs, k, index[k]),
                  IF Bit(idx, k - 1) = 0 THEN <<up[k - 1], auth[k]>> ELSE <<auth[k], up[k - 1]>>)
  IN  up[Len(auth)]

XmssPkFromSig(idx, sig, m, adrs) ==
  Climb(idx, idx,
        WotsPkFromSig(SubSeq(sig, 1, WotsLen), m, SetType(adrs, "WOTS_HASH", idx)),
        SubSeq(sig, WotsLen + 1, Len(sig)), SetType(adrs, "TREE", 0))

-----------------------------------------------------------------------------
(* FORS few-time signatures.  adrs carries the tree and the key pair.       *)
\* Mutant of ForsSkGen: the address keeps its type.
ForsSkSameType(adrs, idx) == Prf(SetNode(adrs, 0, idx))

ForsSkGen(adrs, idx) == Prf(SetNode(SetType(adrs, "FORS_PRF", adrs.pair), 0, idx))

ForsNode(i, z, adrs) ==
  Merkle([leaf \in 0 .. K * Pow2(A) - 1 |-> Hash(SetNode(adrs, 0, leaf), <<ForsSkGen(adrs, leaf)>>)],
         A, K, adrs)[z][i]

\* A + 1 values of every tree in a row: the secret one, then its path.
ForsSign(md, adrs) ==
  LET indices == Base2b(md, A, K)
  IN  [p \in 1 .. K * (A + 1) |->
         LET i == (p - 1) \div (A + 1)
             j == (p - 1) % (A + 1)
         IN  IF j = 0 THEN ForsSkGen(adrs, i * Pow2(A) + indices[i + 1])
             ELSE ForsNode(i * Pow2(A - (j - 1)) + Sibling(indices[i + 1], j - 1), j - 1, adrs)]

\* Mutant of ForsPkFromSig: the roots overwrite one another.
ForsPkLastRoot(sig, md, adrs) ==
  LET index == Base2b(md, A, K)[K]
      start == (K - 1) * Pow2(A) + index
      root  == Climb(index, start, Hash(SetNode(adrs, 0, start), <<sig[(K - 1) * (A + 1) + 1]>>),
                     SubSeq(sig, (K - 1) * (A + 1) + 2, K * (A + 1)), adrs)
  IN  Hash(SetType(adrs, "FORS_ROOTS", adrs.pair), <<root>>)

ForsPkFromSig(sig, md, adrs) ==
  LET indices == Base2b(md, A, K)
      Root(i) ==
        LET sk    == sig[(i - 1) * (A + 1) + 1]
            auth  == SubSeq(sig, (i - 1) * (A + 1) + 2, i * (A + 1))
            start == (i - 1) * Pow2(A) + indices[i]
        IN  Climb(indices[i], start, Hash(SetNode(adrs, 0, start), <<sk>>), auth, adrs)
  IN  Hash(SetType(adrs, "FORS_ROOTS", adrs.pair), [i \in 1 .. K |-> Root(i)])

-----------------------------------------------------------------------------
PkRoot == XmssNode(0, HP, ADRS(D - 1, 0))

\* Mutant of SplitDigest: the surplus bits of a field stay.
SplitDigestUnmasked(digest) ==
  LET ka1 == (K * A + 7) \div 8
      hd  == H \div D
      ka2 == ka1 + (H - hd + 7) \div 8
      ka3 == ka2 + (hd + 7) \div 8
  IN  [md     |-> SubSeq(digest, 1, ka1),
       i_tree |-> ToInt(SubSeq(digest, ka1 + 1, ka2)),
       i_leaf |-> ToInt(SubSeq(digest, ka2 + 1, ka3))]

SplitDigest(digest) ==
  LET ka1 == (K * A + 7) \div 8
      hd  == H \div D
      hhd == H - hd
      ka2 == ka1 + (hhd + 7) \div 8
      ka3 == ka2 + (hd + 7) \div 8
  IN  [md     |-> SubSeq(digest, 1, ka1),
       i_tree |-> ToInt(SubSeq(digest, ka1 + 1, ka2)) % Pow2(hhd),
       i_leaf |-> ToInt(SubSeq(digest, ka2 + 1, ka3)) % Pow2(hd)]

ForsAdrs(split) == SetType(ADRS(0, split.i_tree), "FORS_TREE", split.i_leaf)

VARIABLES
  sig,      \* the signature, n-byte values in a row; while signing what there is of it
  signed,   \* digest it was made for
  job,      \* loop of ht_sign or ht_verify: operation, its digest, layer, tree, leaf, node
  verdict,  \* digest and answer of slh_verify_internal on sig, None before
  bytes,    \* n bytes of each value read so far
  oracle,   \* bytes of the values to come
  wots,     \* history: every value signed, with the WOTS key that signed it
  made      \* signatures begun

vars == <<sig, signed, job, verdict, bytes, oracle, wots, made>>

Idle == [op |-> "idle"]
HashValue(v) == DOMAIN v = {"adrs", "input"} /\ v.adrs.layer \in 0 .. D - 1

TypeOK ==
  /\ Len(sig) <= SigSize /\ \A i \in 1 .. Len(sig) : HashValue(sig[i])
  /\ signed \in Digests \cup {None}
  /\ \/ job = Idle
     \/ /\ job.op \in {"sign", "verify"} /\ job.digest \in Digests
        /\ job.layer \in 0 .. D - 1 /\ job.tree \in 0 .. Pow2(H - HP) - 1
        /\ job.leaf \in 0 .. Pow2(HP) - 1 /\ HashValue(job.node)
  /\ verdict = None \/ verdict \in [digest : Digests, accepted : BOOLEAN]
  /\ \A v \in DOMAIN bytes : HashValue(v) /\ Len(bytes[v]) = N
  /\ made \in 0 .. SignBound

Init ==
  /\ sig = <<>> /\ signed = None /\ job = Idle /\ verdict = None
  /\ bytes = <<>> /\ oracle \in Oracles /\ wots = {} /\ made = 0

\* The bytes of a hash value are the same whenever it is read.
Read(node) ==
  IF node \in DOMAIN bytes THEN UNCHANGED <<bytes, oracle>>
  ELSE /\ oracle # <<>>
       /\ bytes' = [v \in DOMAIN bytes \cup {node} |-> IF v = node THEN Head(oracle) ELSE bytes[v]]
       /\ oracle' = Tail(oracle)

\* The loop variables for the first layer.
Begin(op, digest, node) ==
  LET split == SplitDigest(digest)
  IN  [op |-> op, digest |-> digest, layer |-> 0, tree |-> split.i_tree, leaf |-> split.i_leaf,
       node |-> node]

\* Mutant of Above: the leaf stays.
AboveSameLeaf(node) == [job EXCEPT !.layer = @ + 1, !.tree = @ \div Pow2(HP), !.node = node]

\* The head of the loops of ht_sign and ht_verify.
Above(node) ==
  [job EXCEPT !.layer = @ + 1, !.leaf = job.tree % Pow2(HP), !.tree = @ \div Pow2(HP), !.node = node]

\* slh_sign_internal down to fors_sign.
SlhSign(digest) ==
  LET split == SplitDigest(digest)
      fors  == ForsSign(split.md, ForsAdrs(split))
  IN  /\ job = Idle /\ made < SignBound
      /\ sig' = <<Randomizer>> \o fors
      /\ job' = Begin("sign", digest, ForsPkFromSig(fors, split.md, ForsAdrs(split)))
      /\ signed' = digest /\ verdict' = None /\ made' = made + 1
      /\ UNCHANGED <<bytes, oracle, wots>>

\* One layer of ht_sign: sign the root below, then compute the root of this layer from
\* the signature; the last layer's root is not needed.
HtSign ==
  LET adrs == ADRS(job.layer, job.tree)
      part == XmssSign(bytes'[job.node], job.leaf, adrs)
  IN  /\ job.op = "sign"
      /\ Read(job.node)
      /\ sig' = sig \o part
      /\ wots' = wots \cup {[layer |-> job.layer, tree |-> job.tree, leaf |-> job.leaf, value |-> job.node]}
      /\ job' = IF job.layer = D - 1 THEN Idle
                ELSE Above(XmssPkFromSig(job.leaf, part, bytes'[job.node], adrs))
      /\ UNCHANGED <<signed, verdict, made>>

\* slh_verify_internal down to fors_pk_from_sig, on a message with this digest.
SlhVerify(digest) ==
  LET split == SplitDigest(digest)
      fors  == SubSeq(sig, 2, 1 + K * (1 + A))
  IN  /\ job = Idle /\ signed # None /\ verdict = None
      /\ IF Len(sig) # SigSize THEN verdict' = [digest |-> digest, accepted |-> FALSE] /\ job' = Idle
         ELSE /\ job' = Begin("verify", digest, ForsPkFromSig(fors, split.md, ForsAdrs(split)))
              /\ UNCHANGED verdict
      /\ UNCHANGED <<sig, signed, bytes, oracle, wots, made>>

\* One layer of ht_verify, the comparison with the public root after the last.
HtVerify ==
  LET ht   == SubSeq(sig, 2 + K * (1 + A), Len(sig))
      part == SubSeq(ht, job.layer * (HP + WotsLen) + 1, (job.layer + 1) * (HP + WotsLen))
      root == XmssPkFromSig(job.leaf, part, bytes'[job.node], ADRS(job.layer, job.tree))
  IN  /\ job.op = "verify"
      /\ Read(job.node)
      /\ IF job.layer < D - 1 THEN job' = Above(root) /\ UNCHANGED verdict
         ELSE verdict' = [digest |-> job.digest, accepted |-> root = PkRoot] /\ job' = Idle
      /\ UNCHANGED <<sig, signed, wots, made>>

Next == (\E digest \in Digests : SlhSign(digest) \/ SlhVerify(digest)) \/ HtSign \/ HtVerify

Spec == Init /\ [][Next]_vars

-----------------------------------------------------------------------------
\* A message whose digest selects the same FORS values and the same leaf.
Selects(digest) ==
  LET split == SplitDigest(digest)
  IN  [split EXCEPT !.md = Base2b(split.md, A, K)]

\* Whatever tree, leaf and FORS values the digest selects and whatever bytes the roots
\* hash to, what slh_sign_internal returns passes slh_verify_internal: the offsets at
\* which it is cut up, the sides and indices of every path and the addresses agree.
OwnMessageVerifies ==
  verdict # None /\ Selects(verdict.digest) = Selects(signed) => verdict.accepted

\* A signature is accepted for nothing else: another digest leads to another FORS root,
\* other digits or another leaf, and from there to another public root (ht_verify).
OtherMessageFails ==
  verdict # None /\ verdict.accepted => Selects(verdict.digest) = Selects(signed)

\* No WOTS key of the hypertree signs two values, however many signatures are made: the
\* key on layer j + 1 belongs to one tree of layer j only, and that has one root
\* (ht_sign, split_digest).
WotsKeySignsOnce ==
  \A v, w \in wots :
    v.layer = w.layer /\ v.tree = w.tree /\ v.leaf = w.leaf => v.value = w.value

\* The WOTS signature of a value cannot be carried on to any other n-byte string: one
\* of its digits, those of the checksum included, lies before the digit signed
\* (wots_sign: the checksum falls when the digits rise, and fits its len2 digits).
DigitStrings == {WotsDigits(m) : m \in [1 .. N -> 0 .. 255]}
NoOtherStringReachable ==
  \A v \in wots :
    LET digits == WotsDigits(bytes[v.value])
    IN  \A other \in DigitStrings \ {digits} : \E i \in 1 .. WotsLen : other[i] < digits[i]

\* Every hash call behind the signatures and the public root has an address of its own:
\* one address is never hashed with two inputs (set_type_and_clear and the words set
\* after it in each function).
HashDepth == W + HP + A + 1
Computed(values) ==
  LET upto[k \in 0 .. HashDepth] ==
        IF k = 0 THEN values
        ELSE LET below == upto[k - 1] IN below \cup UNION {Range(v.input) : v \in below}
  IN  upto[HashDepth]
OneInputPerAddress ==
  job = Idle /\ verdict = None =>
    LET values == Computed(Range(sig) \cup {v.value : v \in wots} \cup {PkRoot})
    IN  Cardinality({v.adrs : v \in values}) = Cardinality(values)
=============================================================================
