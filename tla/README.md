# A verification project for keyutils-py

TLA+ models of the parts of keyutils-py that keep state or have to agree with one
another, the TLC runs that check them on small instances, and TLAPS proofs of what
matters most for every instance. Paths are relative to the repository root; `ST`
stands for `src/keyutils_py/keys/stateful_sig_keys.py`, `KU` for
`src/keyutils_py/keyutils.py`, `PF` for `src/keyutils_py/factories/pq_factory.py`.

Run a check with `tlc -config MCHssKey.cfg MCHssKey`, a proof with
`tlapm HssKey_proofs.tla`. `PROJECT.json` lists the runs, the theorems, the source
lines of every definition and the hazards that the properties are for.

## 1. Inventory

keyutils-py is a single-threaded library: it makes, stores, loads and uses
post-quantum, stateful hash-based, hybrid and traditional keys. There are no
threads, no network and no callbacks. What is hard in it is the *state of a
stateful key*, which has to survive rebuilding, files and crashes without ever
going back, and the *agreement of writers and readers* of the many key formats.

| Component | State | Operations | Talks to | Hard behaviour | Correct when |
|---|---|---|---|---|---|
| HSS keys (`ST` 905-1270) | `_hss` (counters and trees of each level), `_private_key_bytes` cache, `_used_signatures` | `sign`, `from_private_bytes`, `private_bytes_raw`, `sigs_remaining`, `compute_hss_signature_index` | pyhsslms | replacement of lower trees in the middle of a signature; a cache next to a live object | no leaf signs twice; indices are 0, 1, 2, ...; public key fixed |
| XMSS, XMSSMT keys (`ST` 363-903) | one liboqs object | the same, `_change_index`, `used_keys` | liboqs | no check of exhaustion; unsigned counter | each leaf once, in order; exported states resume |
| Counter rewriting (`KU` 871-937) | none of its own | `modify_pq_stateful_sig_private_key` | both of the above | boundary values; several levels | does what its options say |
| Key files (`KU` 365-450) | the file | `save_key`, `load_private_key_from_file` | every key class, factories | in-place write, crash between signing and saving | what was handed out is covered by the file |
| PQ keys and PQ factory (`PF`, `keys/kem_keys.py`, `keys/sig_keys.py`) | seed, raw bytes, public bytes, backend object | generate, `save_private_key_one_asym_key`, `private_bytes`, `from_one_asym_key`, `from_private_bytes` | liboqs, cryptography, fips/ | options x families; optional halves; mixed parts | a key is one key pair, its file gives it back |
| Stateful and traditional factories | none | load, save, generate | key classes | version and public key rules | round trip |
| Hybrid keys and factory (`factories/hybrid_factory.py`, `keys/composite_*`, `chempat_key`, `xwing`) | a post-quantum and a traditional key, the seed of an X-Wing key | generate, put together from keys, save, `private_bytes`, `from_one_asym_key`, public key octets | PQ factory, cryptography | halves found again by length alone, tables of combinations, a public half taken from the file | both halves come back, a file of several keys is refused |
| Signature dispatch (`compute.py` 90-573, builders in `KU` 143-250) | none | `sign_data`, `verify_signature`, `sign_with_alg_id`, `verify_signature_with_alg_id`, `prepare_*_alg_id` | key classes, OID tables | key family x OID family x parameters x defaults | what signs verifies, what is accepted is what the identifier names |
| KEM, key transport and ECDH dispatch (`compute.py` 581-860) | none | encaps, decaps, OAEP, ECDH | key classes | two chains of class tests that have to mirror each other | what is encapsulated opens |
| HSS validation (`keys/hss_validation.py`) | none | `validate_hss_key_levels` | HSS keys | option sense | RFC 8554 level rules |
| Hybrid KEMs (`composite_kem`, `chempat_key`, `xwing`, `trad_kem_keys`, `kem_mechanism`) and composite signatures | pairs of keys | encaps, decaps, sign, verify | PQ and traditional keys | split by length, two encodings of a point, combiner inputs | one ciphertext one secret, both parts count |
| FIPS 203, 204, 205 and FrodoKEM (`fips/`) | none | key generation, sign, verify, encaps, decaps | the fallback backend of the PQ keys | modular arithmetic, rounding, rejection, hints, tree indices | what it signs verifies and nothing else, what it encapsulates opens, damage gives another secret |
| Tables and encodings (`oids`, `types`, `enums`, `security`, `asn1utils`, `utils`, `key_pyasn1_utils`, `data_objects`) | constants | look-ups, DER, PEM, encryption | pyasn1, cryptography | - | - |
| Data, scripts, command line | - | - | - | - | - |

## 2. Plan

Done, in this order: (1) the stateful keys, `OneTimeSigner`, `HssTree`, `HssKey`,
`XmssKey`; (2) what rewrites and stores them, `HssModify`, `KeyFile`; (3) the PQ key
store, `PqKeyStore`; (4) signing and verifying by identifier and by arguments,
`SigDispatch`; with their proofs; (5) the hash-based signature algorithm, `SlhDsa`;
(6) the lattice algorithms on small rings, `MlDsa`, `MlKem` and `Frodo`, the latter two
inside the key objects of `FoKem`, which implement `IdealKem`; (7) the hybrid keys,
`HybridKem`, `KemDispatch` and `HybridKeyStore`, composed with `PqKeyStore`.

Proofs cover all seven, except `HssModify`, whose run shows a violation. Left to model: the
stateful key factory and the HSS level rules, which keep no state; RSA key transport and
`compute_ecdh`, which pass their arguments on. Left to prove: a bound on
the noise of ML-KEM and FrodoKEM under which the hypothesis of two theorems of `FoKem` holds
(end of section 5).

## 3. Modules

`OneTimeSigner` is the abstract promise of a stateful key: `Capacity` leaves, handed
out in order, then refusal. `HssKey` and `XmssKey` are shown to implement it.

`HssTree` holds the state of a pyhsslms private key and the pure operations on it.
A tree is a number, drawn afresh by each tree pyhsslms generates; `q` are the leaf
counters of `prv[i].q`, `sigq` the leaf behind each kept signature in `sig[i]`. What
pyhsslms does inside `sign` is outside the repository and modelled from how the code
and its tests use it: `test_hss_*` fix that remaining goes down by one, that
`get_leaf_index` is the index modulo the tree size and that
`compute_hss_signature_index` counts 0, 1, 2, ....

`HssKey` adds what `HSSPrivateKey` keeps around that object. `Sign` is the whole of
`sign` (`ST` 1217): library, cache, used list. `Rebuild` is
`HSSPrivateKey(name, private_bytes_raw(), levels)` and `from_private_bytes`, with
the check of the level count. `issued` is a history variable, the pairs of a leaf
and what it signed that all signatures so far show.

`XmssKey` models `XMSSPrivateKey` and `XMSSMTPrivateKey` (constant `MultiTree`: the
second rebuilds the object in `_change_index` in every case). The liboqs object is a
counter; a signature past the last leaf does not verify, as the repository's XMSS
tests assert. Two specifications: `Spec` (sign and rebuild), `RewindSpec` (also the test helpers).

`HssModify` extends `HssKey` with `modify_pq_stateful_sig_private_key`; the XMSS half
of that function is `ModifyIndex` and `RestoreUsed` of `XmssKey`.

`KeyFile` puts one stateful key, one file and a crashing process together. `save_key`
is two steps, the truncating open and the write; a crash or a failed write between
them leaves the file torn. The library leaves the order of signing, saving and
handing out to its caller, so the module states the caller it assumes: one process,
and a signature is released only after a save that completed since it was made.

`PqKeyStore` is a PQ private key, the file it is kept in and every way between them.
Bytes are abstracted to the key pair they come from, so two fields are equal exactly
when they belong to one pair; `used` is the pair inside the backend object. `Save`
ranges over save type, version, `include_public_key` and `unsafe`, also in the
combinations `save_key` never passes. `Replace` puts any well-typed file in place,
parts of different pairs included. `Restore` is `from_private_bytes` on bare raw bytes;
it loses the public half of a Falcon or McEliece key (`Unrestored`), whose `owner`
becomes `Foreign` with it.

`SigDispatch` is a signer and a verifier who meet in one signature. The signer builds
or receives an identifier (`PrepareSigAlgId`, `PrepareRsaPssAlgId`, `PrepareAlgId`) and
signs by it, or signs with keyword arguments; the verifier tries any key, data and
identifier or arguments. An OID is its table and its name there; a signature is the
key, the data and the *scheme*: padding or mode, hash, mask generation hash, salt
length. `SignScheme`, `VerifyScheme` and `DataScheme` are what the two directions of
the code compute from an identifier and from arguments, each with its own defaults;
`NamedScheme` is what the identifier stands for by its registration. A composite key
has a private and a public name, because only the private half rounds its RSA size.
That a stateful key counts on when it signs is the subject of the modules above.

`SlhDsa` is the `SLH_DSA` class of `fips/fips205.py`, function by function: each
operator has the name of its method, an address is a record of the words of `ADRS`,
and the signature is one row of n-byte values cut up at the code's offsets. Hashing is
free: a value *is* its address and input, which makes equal values those computed
alike. The one place where the code looks into a hash value is the n bytes a WOTS key
signs: those come from an oracle, all different, drawn when first read. `SlhSign` and
`HtSign` are `slh_sign_internal` and the turns of the loop of `ht_sign`, `SlhVerify`
and `HtVerify` their counterparts; a message is the digest `h_msg` gives for it.

`MlDsa` is the `ML_DSA` class of `fips/fips204.py` on a ring of small degree: a byte has
`B` bits and a polynomial `2^B` coefficients, so that every encoding, offset and count of
the code keeps its meaning. All arithmetic, rounding, NTT, hint and packing functions are
there under their names. A key is made in `Init`; `Sign`, `Turn` (one turn of the
rejection loop) and `Verify` are the actions; a hash value is what was hashed, and what the code expands from
one to a mask or a challenge is any member of a set.

`MlKem` and `Frodo` are `fips/fips203.py` and `fips/frodokem.py` as operators, the first
with the modulus 3329 on a ring of degree 8, the second with a matrix of 8 by 2. `FoKem`
is what `keys/kem_keys.py` builds on them: keys made from a seed, from raw bytes or from
both, with the public half cut out of the private bytes when asked for, that encapsulate
and decapsulate what arrives, damaged ciphertexts included. `IdealKem` is the promise: one
secret for each pair and ciphertext, different for different ones. `FoKem` implements it,
implicit rejection included.

`HybridKem` has the composite, Chempat and X-Wing KEMs: ciphertexts as pieces with their
lengths in bytes, cut apart again by length, points in their two encodings, and each
combiner as the tuple of what it hashes. A post-quantum half is an ideal KEM, which
`FoKem` is shown to be. `KemDispatch` adds `compute_encaps` and `compute_decaps` over every
class of key object.

`HybridKeyStore` is a hybrid private key and its file. `Make` ranges over what
`generate_hybrid_key` and `from_keys` accept, X-Wing keys come from a seed of either
length. Octets are sequences of pieces with real lengths, and every reader cuts them by
length as the code does, so that a cut in the wrong place loses the key. The post-quantum
half is a key of `PqKeyStore` (an instance), its octets those that module writes. `Replace`
puts in place a private key of parts of several and a public key of any two pairs, in any
encoding, cut short or too long. `from_keys` looks up one half only, so the combination may
have no OID: `Registered` and `PublicRegistered` are the two `get_oid`, and what writes or
loads an identifier is guarded by them.

## 4. Runs

| Run | Checks | Shows |
|---|---|---|
| `hss_key` (`MCHssKey.cfg`: 2 levels of 3 leaves, 2 messages) | `TypeOK`, `LeafSignsOnce`, `ImplementsOneTimeSigner`, `PublicKeyStable`, `EventuallyExhausted` | the nine signatures of a key, with two replacements of the lower tree and rebuilding at any point |
| `xmss_key` (15 leaves) | `TypeOK`, `ImplementsOneTimeSigner` | one leaf after the other, one call past the end included |
| `xmss_rewind` (7 leaves) | `UsedKeysFollowSignatures` | the exported states under arbitrary movement of the counter |
| `key_file` (2 levels of 2 leaves, 1 crash) | `FileTypeOK`, `ReleasedLeafSignsOnce`, `FileCoversReleased` | crashes between any two steps of sign, open, write, release |
| `pq_key_store` (7 families, 3 pairs) | `TypeOK`, `OwnFileLoads`, `KeyIsOnePair`, `SeedSurvives` | all options, all families, foreign files, bare bytes |
| `sig_dispatch` (14 keys, 5 hashes, 2 messages) | `TypeOK`, `SignedVerifies`, `AcceptedAsNamed`, `PreparedSigns`, `DirectVerifies` | every kind of key with every OID family, parameter form, PSS parameter and keyword argument |
| `slh_dsa` (3 layers of 4 leaves, 2 FORS trees of 4, w = 4, 6 digests) | `TypeOK`, `OwnMessageVerifies`, `OtherMessageFails`, `WotsKeySignsOnce`, `NoOtherStringReachable`, `OneInputPerAddress` | two signatures of one key, each verified with each digest |
| `ml_dsa` (degree 4, modulus 193, 2 x 2 matrix, 2 keys, 3 masks, 20 challenges, 2 turns) | `TypeOK`, `SignedVerifies`, `AcceptedAsSigned`, `MasksFresh`, `NttMultiplies` | signatures after any number of rejections up to the bound, verified with every message, context, mode and with other hint bytes |
| `lattice_kem` (ML-KEM of degree 8, FrodoKEM 8 x 2, 2 pairs, 3 answers) | `TypeOK`, `PublicMatches`, `SecretsAgree`, `ImplementsIdealKem` | keys stored and loaded between encapsulation and decapsulation, ciphertexts whole, damaged or meant for another pair |
| `hybrid_key` (4 families, 5 post-quantum algorithms, 2 pairs) | `TypeOK`, `OwnFileLoads`, `AcceptedIsOnePair`, `OwnCiphertextOpens`, `CiphertextBound` | every combination and option, own and foreign files, every class through the dispatch |
| `hss_modify_last` | `LastIndexLeavesOne` fails | `last_index=True` alone exhausts the key |
| `chempat_foreign_public` | `ForeignPublicRefused` fails | a Chempat file whose public key has somebody else's post-quantum half is accepted |

Bounds. Two levels with three leaves are the least with an inner tree replaced more
than once and a leaf that is neither first nor last. `OverrunBound` (one call of an
exhausted XMSS key) is as far as the repository's tests say what liboqs does.
`TreeBound` stops a rewound HSS key, which may replace trees for ever, after a few.
`CrashBound = 1` in `key_file` is enough for every order of one crash with the other
steps, and the theorems cover any number. Three key pairs let a key, its file and a foreign part all
differ; pairs and messages are symmetric. `HssModify` keeps the root counter inside
its tree: what pyhsslms does with a larger one is not fixed by this repository.
`sig_dispatch` has one key of each kind the code tells apart, a second RSA key to
verify with, composite keys with an elliptic curve, with a registered, an unregistered
and a PSS-only RSA size, and a hash of each sort: with an OID and without (SHA-3), the
pre-hash of ML-DSA, a SHAKE, and SHA-1. The code compares hashes only with each other
and with its tables, so more of one sort add nothing. No SHAKE occurs inside PSS
parameters: what OpenSSL makes of one is not fixed by this repository.
`slh_dsa` has a middle layer, left and right sides on every path and, with w = 4 and
n = 1, a checksum whose three digits do not fill their byte; one digest for each way
in which two can differ (unused bits, a FORS value, leaf, sibling tree, distant tree,
surplus bits), and two orders of bytes with the smallest and the largest early.
`SignBound = 2` lets two signatures meet in a tree.
`ml_dsa`: the parameters keep the relations of the real ones (`2 * Gam2` divides `Q - 1`,
`Beta = Tau * Eta`, `Omega` below the number of coefficients), the masks are the ends of
their range, zero and values between, so that each of the four rejections happens; two
turns are a rejection and what follows it. Messages are chosen such that one continues
where a context ends and one looks like a hash with its OID.
`lattice_kem`: the modulus and the compression widths of ML-KEM are the real ones, so the
noise is as close to the bound as in the program for this degree; three answers are an
encapsulation, and two decapsulations to compare. `hybrid_key` has one parameter set of
each algorithm with its real lengths, because only these tell apart what the code cuts,
an unregistered RSA size, and two pairs: one half of another key makes all the difference
there is.

Fairness. Only `hss_key` has a liveness property, under weak fairness of `Sign`:
the caller's loop goes on signing while it can. Nothing in the library runs by
itself, so no other fairness is assumed. All runs but `sig_dispatch`, whose one
signature is verified at most once and then done, and `slh_dsa`, done after
`SignBound` signatures, and `ml_dsa`, done after one verdict, check for deadlock; every other system
can always take a step (an exhausted key refuses and stays as it is), only
`xmss_*` relies on rebuilding for that once `OverrunBound` is reached.

## 5. Proofs

| Module | Theorems |
|---|---|
| `HssKey_proofs`, the live key | `HssKeyTypeOK`, `HssLeafSignsOnce`, `HssPublicKeyStable`, `HssImplementsOneTimeSigner` |
| `XmssKey_proofs` | `XmssTypeOK`, `XmssUsedKeysFollow`, `XmssImplementsOneTimeSigner` |
| `HssKey_proofs`, the key file | `KeyFileTypeOK`, `KeyFileReleasedOnce`, `KeyFileCoversReleased` |
| `SigDispatch_proofs` | `DispatchTypeOK`, `DispatchSignedVerifies`, `DispatchAcceptedAsNamed`, `DispatchPreparedSigns`, `DispatchDirectVerifies` |
| `PqKeyStore_proofs` | `KeyStoreTypeOK`, `KeyStoreOnePair`, `KeyStoreSeedSurvives`, `KeyStoreOwnFileLoads` |
| `SlhDsa_proofs` | `TypeCorrect`, `OwnMessageAccepted`, `OtherMessagesRefused`, `WotsKeysOneTime`, `ChecksumGuards`, `AddressesTell` |
| `MlDsa_proofs` | `MlDsaTypes`, `MlDsaSignedVerifies`, `MlDsaAcceptedAsSigned`, `MlDsaMasksFresh`, `MlDsaNttMultiplies` |
| `FoKem_proofs` | `FoKemTypes`, `FoKemPublicMatches`, `FoKemSecretsAgree`, `FoKemImplementsIdealKem`, `MlKemPublicIsPacked`, `FrodoPublicIsPacked` |
| `HybridKeyStore_proofs` | `HybridTypeOK`, `HybridAcceptedIsOnePair`, `HybridOwnFileLoads`, `HybridOwnCiphertextOpens`, `HybridCiphertextBound` |

Assumptions are those the modules name: positive sizes, a counter modulus beyond the
last leaf, and that the markers for "nothing" differ from real values
(`AnswerAssumption`, `AbsenceAssumption` and others). Some say more:

- `DigitAssumption` (`SlhDsa`): `8 n` is a multiple of `lg_w`; every parameter set has
  `lg_w = 4`.
- `DigestAssumption` (`SlhDsa`): a digest has the bytes that `split_digest` takes; that is
  the `m` of the parameter set, which `h_msg` is asked for.
- `OracleAssumption` (`SlhDsa`): the bytes of different hash values differ. Only
  `OtherMessageFails` needs it; with a collision of the hash function it would be false.
- `HalvesAssumption` (`HybridKeyStore`): the families of the post-quantum halves are among
  those of `PqKeyStore`.
- `ParamAssumption`, `RootAssumption` (`MlDsa`): the relations that the rows of
  `ML_DSA_PARAM` have (`2 * Gam2` divides `Q - 1`, `Beta = Tau * Eta`, ...), and that the
  root's `N`-th power is -1 modulo `Q` and `N` has an inverse. That `Q` is prime is not
  needed.
- `NonceAssumption` (`MlDsa`): the turns of a signing loop draw no more nonces than two
  bytes can number; with more, `expand_mask` repeats masks. Only `MasksFresh` is about it.
- `RequestAssumption` (`MlDsa`): an OID followed by a digest tells which hash made it from
  which message. A collision of a pre-hash would make `AcceptedAsSigned` false.
- `DrawAssumption`, `CoinAssumption` (`MlDsa`): what is read from SHAKE suffices for the
  coefficients it is read for. The code reads on until it does.
- `ExpandedAssumption` (`FoKem`): different seeds differ in each part keygen takes from them.
  Two ML-KEM seeds with the same `d` have the same public key, and ciphertexts open to the
  same secret with both.
- `FinitenessAssumption` (`HybridKeyStore`): finitely many pairs and coins, any number, for
  `CiphertextBound` counts secrets.

*HSS.* `LeafSignsOnce` is not inductive. `HssKeyInv` adds that the cached bytes are
the live key, that the key's trees are distinct and older than the next one, that
every leaf seen belongs to such a tree, and `Covers`: each leaf seen is behind its
tree's counter (`Spent`), and the leaf behind a kept inner signature was used for the
tree still below it (`SameChain`). One lemma shows that `AfterSign`
keeps this, for any number of levels. That a level to sign on exists
(`CHOOSE` in `SignLevel`) is shown from the maximum of a finite set of levels in
place of an induction.

*HSS implements the one-time signer.* The abstract index is `Positional`, a number whose
digits are the leaves of the levels. That `AfterSign` adds one to it (the lowest level
that is not used up goes up by one, those below start again) and that it stays below the
capacity go by induction on the level, from the invariant's link between the kept inner
signatures and the counters.

*Key file.* `KeyFileInv` says the live key covers all signatures made, the file's
key, when it can be loaded, those saved or released, and that an image being written
is the live key. Crashing only forgets signatures nobody has seen.

*XMSS.* Past the last leaf the abstract counter stays at `Capacity` and every call is
a `Refuse`, so the concrete step maps to `Issue`, `Refuse` or a stutter.
`UsedKeysFollowSignatures` needs that the used list and the signatures made have equal
length while the key is not exhausted.

*PQ key store.* `KeyStoreInv` adds that the program's own file holds parts of one
pair only, with its public half where the loader cannot derive it, and that the
Choice form is used exactly for the ML families outside `private_bytes`. It covers keys
restored from bare bytes: those of the two families that lose their public half count as
foreign from then on.

*Dispatch.* `DispatchInv` says that the signature, if there is one, came from a key
that signs by that identifier or with those arguments, that an acceptance passed the
verifier's checks, and that a prepared identifier is the one of its key. The agreement
itself is four lemmas about the operators, by the families of keys and OIDs. They rest
on the assumption that the table of composite names holds no RSA size the private half
does not round to, which is where the exception of `SignedVerifies` comes from.

*SLH-DSA.* The invariant says that what there is of a signature is, value by value and at
the offset where verification looks, what the trees of each layer yield for the value
below (`MadeBelow`), and that the job is at the tree and leaf its digest selects (`Stage`).
Under it the parts are proved one after another: a chain stopped and carried on ends where
the whole chain ends; a climb along the path of a leaf ends at the root (`ClimbReachesRoot`,
with the index computed from shifts and the side from bits); so do the FORS trees; and the
root of a layer is the value that the layer above signs, because the digest's tree number
is cut into the leaf numbers of the layers (`LayersUp`). That gives `OwnMessageVerifies`.
The converse needs that hashing is free: two chains meet only at the same step from the
same value, two climbs only from the same leaf with the same path (`ChainMeets`,
`ClimbTells`), so the job holds the value of its place *exactly when* it verifies what was
signed (`Meets`). This equivalence is what makes `OtherMessageFails` inductive; from one
layer to the next it uses that the bytes of a value tell the value, and that a string's
digits tell the string. `WotsKeySignsOnce` holds because what is signed at a place is a
function of the place (`NodeOf`). `NoOtherStringReachable` is arithmetic: the checksum
falls when the digits rise, and `len2` digits hold every checksum (`ChecksumFits`), so that
the digits of another string cannot all be at or above those signed. For
`OneInputPerAddress` the values of a signature belong to a set closed under inputs
(`Genuine`) in which the address determines the value (`ValueAt`).

*ML-DSA.* Five parts, of which only the last is about states. *Encodings*: each `*_pack`
is read back by its `*_unpack` on the values it is used for, hence `pk_decode`,
`sk_decode` and `sig_decode` find what was encoded, at their offsets; and a hint has one
encoding (`HintUnique`: the positions rise, so two strings that decode alike are equal).
*Transform*: by induction on the layers, a butterfly and its inverse undo each other up to
a factor 2, `Scale` takes all of these away (`InverseOfNtt`), and `Ntt` turns the shift of a
polynomial into a product with the roots (`NttShift`). A product in the ring is a sum of
shifts, so it goes through the transform summand by summand (`ProductIs`); this is
`NttMultiplies`, for all polynomials. *Rounding*: `Decompose` cuts a number in two parts of
bounded size, and a change smaller than a half-interval moves the high part by one step at
most (`CutMove`); hence the challenge times a secret, at most `Beta`, does not touch the high
bits that the loop let through (`HighLeft`, `ProductSmall`), and a hint recovers them from
what the verifier computes with the rounded `t` (`HintsGive`). *Requests*: mode, context and
message are told by the string that is hashed (`PreparedTells`), by the lengths in front.
*Invariant*: the keys are those of one seed; a finished signature is what one turn made
with them, for masks and coins that passed all four tests (`KeysOf`); the nonces drawn are
0, 1, 2, ... up to `kappa` (`Counted`), without which `MasksFresh` is not inductive; and a
verdict is TRUE exactly for the request and the hint octets that were signed (`Answered`).

*ML-KEM and FrodoKEM key objects.* Of a key the invariant says that its private bytes are
those of its pair, and its public half, if there, is too (`KeyOf`). That cutting finds it
is a count of lengths: `byte_encode` yields the same number of bytes for every polynomial,
`pack` the bits of each entry, whatever the coefficients are (`MlKemKeyIs`, `FrodoKeyIs`).
`FoKemSecretsAgree` and `FoKemImplementsIdealKem` have a hypothesis, `Decrypts`: decapsulation
with a pair as generated undoes encapsulation. Then every answer is what the private bytes
of the pair make of the ciphertext (`Opened`), however the key was stored, loaded and
completed. That such answers differ for different questions needs no hypothesis about noise
(`SecretsTell`): the regular secret tells the message, the message and the public key tell
the only ciphertext that re-encryption lets through, and the implicit secret tells the
ciphertext and the pair.

*Hybrid keys.* The invariant knows all shapes a key and a file can have: private parts of
one pair each, a seed only where it is that of the pair (`KeyGood`), the octets the program
writes for its own key (`OwnPrivate`), anything in a foreign file (`AnyPrivate`), and a file
only of a combination with an OID (`Registered`), without which no public key is read. Each
reader is then shown to cut such octets where they were joined, or to refuse them
(`CompositeLoads`, `XWingLoads`, `ChempatLoads`), by the lengths of the pieces. For the
ciphertexts, whole ones are cut apart into what was joined (`ReadWhole`), short and long
ones fail. The post-quantum half is the ideal KEM that
`FoKem` is shown to implement, its secret that of the pair and the ciphertext
(`PqSecret`). Combining then tells both parts of the ciphertext (`CombiningBinds`), so
secrets and accepted ciphertexts map one to one, and as both are finitely many their
numbers agree.

*Induction.* Recursive functions and loops are reasoned about by a lemma on sets (a set
of numbers with 0 and closed under successor has all of them), which follows from the
library's theorem on minimal elements; a loop is first shown to have a result, then that
every step of it is the step of the definition.

Only model-checked: the liveness property `EventuallyExhausted`, because the prover does
not reason about `WF_`; and the hypothesis `Decrypts`, for the parameters of `lattice_kem`,
whose run decapsulates every ciphertext it makes. That ML-KEM and FrodoKEM decrypt what was
encrypted depends on the noise of one set of parameters: for other parameters it is false,
for the real ones it fails with a tiny probability, and that is a computation and no
deduction. The two runs with an expected violation state what the code does not do.

## 6. Not modelled

Hash functions: a hash value is what was hashed, and what is expanded from it a number
from a congruential generator or any of a set. DER, PEM and password encryption: an
encoding is read back as what was written or not at all. `invalid_key`,
`invalid_private_key` and the other options that make broken test vectors on purpose.
Context strings and `use_pre_hash` in `SigDispatch` (`MlDsa` has both). The liboqs backends,
which are external, and liboqs missing at run time. In `PqKeyStore` what a key derives on
first use is derived at once, which no caller can tell; `must_be_version_2` and a caller's
own public key argument stay at their defaults. Two processes sharing one key file: the
library takes no lock, and the caller in `KeyFile` is the only one. The tables of roots in
`fips/` are given by the powers they hold, for the small degree. Of an X-Wing ciphertext
nothing after its 1120 bytes is read. RSA key transport and `compute_ecdh` pass their
arguments on. Everything else in the inventory without a module is listed with its reason
in `PROJECT.json`.

What the models show the code to do and a reader should know, beside the two findings.
The invariants state these as exceptions, or the hazards in `PROJECT.json` name them:

- `modify_pq_stateful_sig_private_key` with an index moves the root counter of an HSS key
  of several levels only (`KU` 934).
- A seed and an expanded ML key of different pairs are accepted in one file, because
  private keys compare by class (`PF` 232); the seed wins.
- A Falcon key restored from its private bytes signs with a new pair
  (`keys/abstract_pq.py` 109).
- Composite, PQ and stateful keys sign under the identifier of any other family but
  RSASSA-PSS (`compute.py` 471, against 432).
- `compute_decaps` refuses the bare private keys to whose public halves `compute_encaps`
  encapsulates (`compute.py` 652, against 636).
- A composite key with an RSA size that is not registered signs and never verifies, and as
  a KEM has no label to encapsulate with.
- A combination without an OID that `from_keys` assembles (`factories/hybrid_factory.py` 262)
  can be used, but neither it nor its public key can be written or loaded
  (`keys/chempat_key.py` 109, `keys/abstract_wrapper_keys.py` 107); of an RSA size that is not registered the private
  key can. `OwnCiphertextOpens` asks for a public key read back where there is an OID, and
  takes the object itself for all.
- Composite keys saved raw or with both parts, ML-KEM Chempat keys from `private_bytes`,
  FrodoKEM keys with both parts and X-Wing keys of 2528 bytes do not load again.
