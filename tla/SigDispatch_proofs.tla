------------------------ MODULE SigDispatch_proofs ------------------------
(***************************************************************************)
(* Theorems about SigDispatch for any keys, hashes, tables, messages and    *)
(* requests: the type invariant, and that what signs verifies and what is   *)
(* accepted was computed as the identifier says.                            *)
(***************************************************************************)
EXTENDS SigDispatch, TLAPS

USE DEF NoSalt

-----------------------------------------------------------------------------
\* A signing step's outcome, whichever way it was asked for.
MadeWithAlgId(made, key, data, id) ==
  /\ SignsWithAlgId(key, id)
  /\ made = [signature |-> Signature(key, data, SignScheme(key, id)),
             with |-> "alg_id", algId |-> id, options |-> NoOptions]
MadeWithOptions(made, key, data, options) ==
  /\ SignsData(key, options)
  /\ made = [signature |-> Signature(key, data, DataScheme(key, Name[key], options)),
             with |-> "options", algId |-> NoAlgId, options |-> options]

\* How signed and accepted came about: signing and verifying happen once, in that order.
SignedInv ==
  \/ signed = Nothing
  \/ \E key \in Key, data \in Data, id \in AlgIdType : MadeWithAlgId(signed, key, data, id)
  \/ \E key \in Key, data \in Data, options \in Request : MadeWithOptions(signed, key, data, options)
AcceptedInv ==
  accepted # Nothing /\ accepted.with = "alg_id" =>
    /\ signed # Nothing
    /\ \E key \in Key, data \in Data, id \in ForeignAlgId :
         /\ AcceptsWithAlgId(key, id, data, signed.signature)
         /\ accepted = [key |-> key, data |-> data, with |-> "alg_id", algId |-> id]
AcceptedAfter == accepted # Nothing => signed # Nothing
PreparedInv ==
  prepared # NoKey =>
    \E key \in Key, hash \in Hash, use_pss \in BOOLEAN :
      /\ Preparable(key, hash, use_pss)
      /\ prepared = key /\ algId = SigAlgId(key, hash, use_pss)

-----------------------------------------------------------------------------
\* A signing key and identifier whose verification is not excepted verify, and only those.
LEMMA SignsThenVerifies ==
  ASSUME NEW key \in Key, NEW id \in AlgIdType, NEW data, SignsWithAlgId(key, id)
  PROVE  AcceptsWithAlgId(key, id, data, Signature(key, data, SignScheme(key, id)))
           <=> /\ Kind[key] = "rsa" => id.oid # RsaSha1
               /\ UsablePss(id)
               /\ Kind[key] = "composite" => PublicName[key] = Name[key]
<1> DEFINE Allowed == /\ Kind[key] = "rsa" => id.oid # RsaSha1
                      /\ UsablePss(id)
                      /\ Kind[key] = "composite" => PublicName[key] = Name[key]
<1>1. ValidSigAlgId(id) /\ Kind[key] \in SignKind \ {"dsa"}
  BY DEF SignsWithAlgId
<1>2. CASE IsPss(id)
  <2>1. Kind[key] = "rsa" /\ id.oid # RsaSha1
    BY <1>2 DEF SignsWithAlgId, IsPss, RsaSha1, Oid
  <2>2. VerifiesWithAlgId(key, id) <=> Allowed
    BY <1>1, <1>2, <2>1 DEF VerifiesWithAlgId, UsablePss
  <2>3. UsablePss(id) => SignScheme(key, id) = VerifyScheme(key, id)
    BY <2>1 DEF UsablePss, SignScheme, VerifyScheme, PlainScheme
  <2> QED
    BY <2>2, <2>3 DEF AcceptsWithAlgId, Signature
<1>3. CASE ~IsPss(id)
  <2>1. id.oid # PssOid
    BY <1>3 DEF IsPss, PssOid, Oid
  <2>2. UsablePss(id)
    BY <2>1 DEF UsablePss
  <2>3. ASSUME Kind[key] = "composite"
        PROVE  Registered(PublicName[key], FALSE) <=> PublicName[key] = Name[key]
    BY <1>3, <2>3, CompositeAssumption DEF SignsWithAlgId, Registered, UsesPss
  <2>4. VerifiesWithAlgId(key, id) <=> Allowed
    BY <1>1, <1>3, <2>2, <2>3 DEF VerifiesWithAlgId, SignsWithAlgId
  <2>5. Allowed => PlainScheme(key, Name[key], id) = PlainScheme(key, PublicName[key], id)
    <3>1. CASE Kind[key] = "composite"
      BY <3>1
    <3>2. CASE Kind[key] # "composite"
      BY <3>2 DEF PlainScheme
    <3> QED
      BY <3>1, <3>2
  <2>6. Allowed => SignScheme(key, id) = VerifyScheme(key, id)
    BY <2>1, <2>5 DEF SignScheme, VerifyScheme
  <2> QED
    BY <2>4, <2>6 DEF AcceptsWithAlgId, Signature
<1> QED
  BY <1>2, <1>3

\* For a traditional key the verifier's scheme is the one its identifier names.
LEMMA VerifiesAsNamed ==
  ASSUME NEW key \in Key, NEW id, VerifiesWithAlgId(key, id), Kind[key] \in TradKind
  PROVE  VerifyScheme(key, id) = NamedScheme(id)
<1>1. Kind[key] \in {"rsa", "ecdsa"} \cup EdKind
  BY DEF VerifiesWithAlgId, TradKind
<1>2. CASE id.oid = PssOid
  <2>1. /\ id.params.hash = id.params.mgfHash
        /\ IsPss(id)
    BY <1>2 DEF VerifiesWithAlgId, IsPss, PssOid, Oid
  <2> QED
    BY <1>2, <2>1 DEF VerifyScheme, NamedScheme, PssScheme, PssOid, Oid
<1>3. CASE id.oid # PssOid /\ id.oid.family = "pss_shake"
  BY <1>1, <1>3 DEF VerifyScheme, NamedScheme, PlainScheme, IsPss, EdKind
<1>4. CASE id.oid # PssOid /\ id.oid.family # "pss_shake"
  <2>1. ~IsPss(id)
    <3>1. id.oid \in SupportedOid
      BY DEF VerifiesWithAlgId, ValidSigAlgId
    <3>2. id.oid.family # "pss"
      BY <3>1, <1>4 DEF SupportedOid, Oid, PssOid
    <3> QED
      BY <3>2, <1>4 DEF IsPss
  <2>2. id.oid.family = Kind[key]
    BY <1>1, <2>1 DEF VerifiesWithAlgId
  <2> QED
    BY <1>1, <1>4, <2>1, <2>2 DEF VerifyScheme, NamedScheme, PlainScheme, Scheme, EdKind
<1> QED
  BY <1>2, <1>3, <1>4

-----------------------------------------------------------------------------
\* The schemes and identifiers the operators build are well typed.
LEMMA PssSchemeType ==
  ASSUME NEW hash \in Hash, NEW salt \in Nat \cup {NoSalt}, NEW second \in Hash
  PROVE  PssScheme(hash, salt, second) \in SchemeType /\ PssShakeScheme(hash, salt) \in SchemeType
<1>1. DigestSize[hash] \in Nat
  BY SizeAssumption
<1>2. EffectiveSalt(hash, salt) \in Nat
  BY <1>1 DEF EffectiveSalt
<1>3. (IF salt = NoSalt THEN DigestSize[hash] ELSE salt) \in Nat
  BY <1>1
<1> QED
  BY <1>2, <1>3 DEF PssScheme, PssShakeScheme, SchemeType, SchemeName

LEMMA PlainSchemeType ==
  ASSUME NEW name \in SchemeName, NEW hash \in Hash \cup {NoHash}
  PROVE  Scheme(name, hash) \in SchemeType
BY DEF Scheme, SchemeType

LEMMA SignSchemeType ==
  ASSUME NEW key \in Key, NEW id \in AlgIdType, SignsWithAlgId(key, id)
  PROVE  SignScheme(key, id) \in SchemeType
<1>1. id.oid \in SupportedOid /\ Kind[key] \in SchemeName
  BY DEF SignsWithAlgId, ValidSigAlgId, SchemeName, SignKind
<1>2. CASE id.oid = PssOid
  <2>1. id.params.form = "pss"
    BY <1>2 DEF SignsWithAlgId, ValidSigAlgId, PssOid, Oid
  <2>2. id.params \in PssParams
    BY <2>1 DEF AlgIdType, Absent, Null, Other
  <2>3. id.params.salt \in Nat
    BY <2>2 DEF PssParams
  <2> DEFINE hash == IF id.params.hash \in HashOid THEN id.params.hash ELSE "sha256"
  <2>4. hash \in Hash
    BY HashAssumption
  <2>5. SignScheme(key, id) = PssScheme(hash, id.params.salt, hash)
    BY <1>2 DEF SignScheme
  <2> QED
    BY <2>3, <2>4, <2>5, PssSchemeType
<1>3. CASE id.oid # PssOid
  <2>1. id.oid.family = "pss_shake" => id.oid.name \in Hash
    BY <1>1, HashAssumption DEF SupportedOid, Oid, PssOid
  <2>2. Kind[key] \in {"rsa", "ecdsa"} /\ ~IsPss(id) => id.oid.name \in Hash
    <3>1. Kind[key] \in {"rsa", "ecdsa"} /\ ~IsPss(id) => id.oid.family = Kind[key]
      BY DEF SignsWithAlgId
    <3> QED
      BY <1>1, <3>1, HashAssumption DEF SupportedOid, Oid, PssOid
  <2>3. CompositeScheme(Name[key], FALSE) \in SchemeType
    BY PlainSchemeType DEF CompositeScheme, UsesPss, SchemeName, SignKind
  <2>4. SignScheme(key, id) = PlainScheme(key, Name[key], id)
    BY <1>3 DEF SignScheme
  <2>5. CASE id.oid.family = "pss_shake"
    <3>1. Kind[key] = "rsa"
      BY <2>5 DEF SignsWithAlgId, IsPss
    <3>2. PlainScheme(key, Name[key], id) = PssShakeScheme(id.oid.name, NoSalt)
      BY <2>5, <3>1 DEF PlainScheme, IsPss
    <3> QED
      BY <2>1, <2>4, <2>5, <3>2, PssSchemeType
  <2>6. CASE id.oid.family # "pss_shake"
    BY <1>1, <2>2, <2>3, <2>4, <2>6, PlainSchemeType DEF PlainScheme
  <2> QED
    BY <2>5, <2>6
<1> QED
  BY <1>2, <1>3

LEMMA DataSchemeType ==
  ASSUME NEW key \in Key, NEW options \in Options, SignsData(key, options)
  PROVE  DataScheme(key, Name[key], options) \in SchemeType
<1>1. /\ options.hash \in Hash \cup {NoHash}
      /\ options.salt \in Nat \cup {NoSalt}
      /\ options.second \in Hash \cup {NoHash}
  BY SizeAssumption DEF Options
<1>2. HashOr256(options.hash) \in Hash
  BY <1>1, HashAssumption DEF HashOr256
<1>3. RsaPssScheme(options) \in SchemeType
  <2>1. CASE options.hash \in Shake
    BY <1>1, <2>1, PssSchemeType, HashAssumption DEF RsaPssScheme
  <2>2. CASE options.hash \notin Shake
    <3> DEFINE second == IF options.second = NoHash THEN HashOr256(options.hash) ELSE options.second
    <3>1. second \in Hash
      BY <1>1, <1>2
    <3> QED
      BY <1>1, <1>2, <2>2, <3>1, PssSchemeType DEF RsaPssScheme
  <2> QED
    BY <2>1, <2>2
<1>4. CompositeScheme(Name[key], options.use_pss) \in SchemeType
  BY PlainSchemeType DEF CompositeScheme, SchemeName, SignKind
<1>5. Kind[key] = "pq" => SupportedHash(Name[key], options.hash) \in Hash \cup {NoHash}
  BY <1>1 DEF SupportedHash
<1>6. Kind[key] \in SchemeName
  BY DEF SignsData, SchemeName, SignKind, TradKind
<1> QED
  BY <1>2, <1>3, <1>4, <1>5, <1>6, PlainSchemeType DEF DataScheme

LEMMA RsaPssAlgIdType ==
  ASSUME NEW hash \in Hash, NEW salt \in Nat \cup {NoSalt}, NEW mgfHash \in ParamHash \cup {NoHash},
         PssPreparable(hash, mgfHash)
  PROVE  RsaPssAlgId(hash, salt, mgfHash) \in AlgIdType
<1>1. CASE hash \in Shake
  BY <1>1 DEF RsaPssAlgId, AlgId, AlgIdType, AnyOid, SupportedOid
<1>2. CASE hash \notin Shake
  <2>1. hash \in ParamHash
    BY <1>2 DEF ParamHash
  <2>2. DigestSize[hash] \in Nat
    BY SizeAssumption
  <2>3. PssOid \in AnyOid
    BY DEF AnyOid, SupportedOid
  <2> DEFINE params == [form |-> "pss", hash |-> hash, mgf |-> "mgf1",
                        mgfHash |-> IF mgfHash = NoHash THEN hash ELSE mgfHash,
                        salt |-> IF salt = NoSalt THEN DigestSize[hash] ELSE salt]
  <2>4. params \in PssParams
    BY <2>1, <2>2 DEF PssParams
  <2>5. RsaPssAlgId(hash, salt, mgfHash) = AlgId(PssOid, params)
    BY <1>2 DEF RsaPssAlgId
  <2> QED
    BY <2>3, <2>4, <2>5 DEF AlgId, AlgIdType
<1> QED
  BY <1>1, <1>2

LEMMA SigAlgIdType ==
  ASSUME NEW key \in Key, NEW hash \in Hash, NEW use_pss \in BOOLEAN, Preparable(key, hash, use_pss)
  PROVE  SigAlgId(key, hash, use_pss) \in AlgIdType
<1>1. CASE Kind[key] = "rsa" /\ use_pss
  <2>1. PssPreparable(hash, NoHash)
    BY <1>1 DEF Preparable, EdKind
  <2>2. RsaPssAlgId(hash, NoSalt, NoHash) \in AlgIdType
    BY <2>1, RsaPssAlgIdType
  <2> QED
    BY <1>1, <2>2 DEF SigAlgId, EdKind
<1>2. CASE Kind[key] = "rsa" /\ ~use_pss
  <2>1. hash \in RsaHash
    BY <1>2 DEF Preparable, EdKind
  <2>2. Oid("rsa", hash) \in AnyOid
    BY <2>1 DEF AnyOid, SupportedOid
  <2> QED
    BY <1>2, <2>2 DEF SigAlgId, EdKind, AlgId, AlgIdType
<1>3. CASE Kind[key] \in EdKind
  BY <1>3 DEF SigAlgId, EdKind, AlgId, AlgIdType, AnyOid, SupportedOid
<1>4. CASE Kind[key] \notin EdKind \cup {"rsa"}
  <2>1. \/ Kind[key] = "ecdsa" /\ hash \in EcdsaHash
        \/ Kind[key] = "dsa" /\ hash = "sha256"
    BY <1>4 DEF Preparable
  <2>2. Oid(Kind[key], hash) \in AnyOid
    BY <2>1 DEF AnyOid, SupportedOid
  <2> QED
    BY <1>4, <2>2 DEF SigAlgId, AlgId, AlgIdType
<1> QED
  BY <1>1, <1>2, <1>3, <1>4

LEMMA ForeignAlgIdType == ForeignAlgId \subseteq AlgIdType
<1>1. [form : {"pss"}, hash : ParamHash, mgf : {"mgf1", "other"}, mgfHash : ParamHash, salt : Salt]
        \subseteq PssParams
  BY SizeAssumption DEF PssParams
<1>2. PssOid \in AnyOid
  BY DEF AnyOid, SupportedOid
<1> QED
  BY <1>1, <1>2 DEF ForeignAlgId, AlgId, AlgIdType
\* prepare_sig_alg_id builds identifiers that are valid and name what its key signs with.
LEMMA PreparedForKey ==
  ASSUME NEW key \in Key, NEW hash \in Hash, NEW use_pss \in BOOLEAN, Preparable(key, hash, use_pss)
  PROVE  LET id == SigAlgId(key, hash, use_pss)
         IN  /\ ValidSigAlgId(id)
             /\ SignsWithAlgId(key, id) <=> Kind[key] # "dsa"
             /\ Kind[key] # "dsa" => SignScheme(key, id) = NamedScheme(id)
<1> DEFINE id == SigAlgId(key, hash, use_pss)
<1>1. CASE Kind[key] = "rsa" /\ use_pss
  <2>1. PssPreparable(hash, NoHash) /\ id = RsaPssAlgId(hash, NoSalt, NoHash)
    BY <1>1 DEF Preparable, SigAlgId, EdKind
  <2>2. CASE hash \in Shake
    <3>1. id = [oid |-> [family |-> "pss_shake", name |-> hash], params |-> Absent]
      BY <2>1, <2>2 DEF RsaPssAlgId, AlgId, Oid
    <3> HIDE DEF id
    <3>2. ValidSigAlgId(id)
      BY <2>2, <3>1 DEF ValidSigAlgId, SupportedOid, Absent, Oid
    <3>3. IsPss(id) /\ id.oid # PssOid
      BY <3>1 DEF IsPss, PssOid, Oid
    <3>4. SignScheme(key, id) = PssShakeScheme(hash, NoSalt)
      BY <1>1, <3>1, <3>3 DEF SignScheme, PlainScheme
    <3>5. NamedScheme(id) = PssShakeScheme(hash, NoSalt)
      BY <3>1, <3>3 DEF NamedScheme
    <3> QED
      BY <1>1, <3>2, <3>3, <3>4, <3>5 DEF SignsWithAlgId, SignKind, TradKind, id
  <2>3. CASE hash \notin Shake
    <3> DEFINE params == [form |-> "pss", hash |-> hash, mgf |-> "mgf1", mgfHash |-> hash,
                          salt |-> DigestSize[hash]]
    <3>1. hash \in HashOid /\ id.oid = PssOid /\ id.params = params
      BY <2>1, <2>3 DEF RsaPssAlgId, PssPreparable, AlgId
    <3>2. id.params.form = "pss" /\ id.params.hash = hash /\ id.params.mgfHash = hash
          /\ id.params.salt = DigestSize[hash]
      BY <3>1
    <3> HIDE DEF id, params
    <3>3. ValidSigAlgId(id) /\ IsPss(id)
      BY <3>1, <3>2 DEF ValidSigAlgId, SupportedOid, PssOid, Oid, IsPss
    <3>4. SignScheme(key, id) = NamedScheme(id)
      BY <3>1, <3>2 DEF SignScheme, NamedScheme, PssScheme, PssOid, Oid
    <3> QED
      BY <1>1, <3>3, <3>4 DEF SignsWithAlgId, SignKind, TradKind, id
  <2> QED
    BY <2>2, <2>3
<1>2. CASE ~(Kind[key] = "rsa" /\ use_pss)
  <2> DEFINE name == IF Kind[key] \in EdKind THEN NoHash ELSE hash
  <2>1. id.oid = [family |-> Kind[key], name |-> name]
    BY <1>2 DEF SigAlgId, AlgId, Oid, EdKind
  <2>2. id.params.form = IF Kind[key] = "rsa" THEN "null" ELSE "absent"
    BY <1>2 DEF SigAlgId, AlgId, Null, Absent, EdKind
  <2>3. Kind[key] \in TradKind
    BY DEF Preparable, TradKind, EdKind
  <2>4. id.oid \in SupportedOid
    BY <1>2, <2>1 DEF Preparable, SupportedOid, Oid, EdKind
  <2> HIDE DEF id
  <2>5. id.oid.family = Kind[key] /\ id.oid.name = name
    BY <2>1
  <2>6. ValidSigAlgId(id)
    BY <2>2, <2>3, <2>4, <2>5 DEF ValidSigAlgId, TradKind, EdKind
  <2>7. ~IsPss(id) /\ id.oid # PssOid
    BY <2>3, <2>5 DEF IsPss, PssOid, Oid, TradKind, EdKind
  <2>8. SignsWithAlgId(key, id) <=> Kind[key] # "dsa"
    BY <2>3, <2>5, <2>6, <2>7 DEF SignsWithAlgId, SignKind, TradKind, EdKind
  <2>9. Kind[key] # "dsa" => SignScheme(key, id) = NamedScheme(id)
    BY <2>3, <2>5, <2>7 DEF SignScheme, NamedScheme, PlainScheme, TradKind, EdKind, Scheme
  <2> QED
    BY <2>6, <2>8, <2>9 DEF id
<1> QED
  BY <1>1, <1>2

\* What sign_data signs, verify_signature accepts with the same arguments.
LEMMA SignsThenVerifiesData ==
  ASSUME NEW key \in Key, NEW data, NEW options \in Options, SignsData(key, options),
         Kind[key] \in SignKind \ {"rsa", "dsa"}, PublicName[key] = Name[key]
  PROVE  AcceptsData(key, options, data, Signature(key, data, DataScheme(key, Name[key], options)))
<1>1. VerifiesData(key, options)
  <2>1. CASE Kind[key] = "composite"
    BY <2>1 DEF SignsData, VerifiesData
  <2>2. CASE Kind[key] # "composite"
    BY <2>2 DEF VerifiesData, SignKind, TradKind
  <2> QED
    BY <2>1, <2>2
<1> QED
  BY <1>1 DEF AcceptsData

\* A direct ECDSA or RSA-PSS signature verifies by the identifier of its key and hash.
LEMMA DirectThenAlgId ==
  ASSUME NEW key \in Key, NEW data, NEW options \in Options, SignsData(key, options),
         NEW hash, hash = HashOr256(options.hash),
         \/ Kind[key] = "ecdsa" /\ hash \in EcdsaHash
         \/ /\ Kind[key] = "rsa" /\ hash \in HashOid \cup Shake
            /\ options.salt \in {NoSalt, DigestSize[hash]}
            /\ hash \in Shake \/ options.second \in {NoHash, hash}
  PROVE  AcceptsWithAlgId(key, SigAlgId(key, hash, Kind[key] = "rsa"), data,
                          Signature(key, data, DataScheme(key, Name[key], options)))
<1> DEFINE id == SigAlgId(key, hash, Kind[key] = "rsa")
           scheme == DataScheme(key, Name[key], options)
<1>1. SUFFICES VerifiesWithAlgId(key, id) /\ VerifyScheme(key, id) = scheme
  BY DEF AcceptsWithAlgId
<1>2. hash \in Hash /\ Kind[key] \in {"rsa", "ecdsa"}
  BY HashAssumption
<1>3. CASE Kind[key] = "ecdsa"
  <2>1. Preparable(key, hash, Kind[key] = "rsa")
    BY <1>3 DEF Preparable
  <2>2. SignsWithAlgId(key, id)
    BY <1>2, <1>3, <2>1, PreparedForKey
  <2>3. id.oid = [family |-> "ecdsa", name |-> hash]
    BY <1>3 DEF SigAlgId, AlgId, Oid, EdKind
  <2> HIDE DEF id
  <2>4. id.oid # PssOid /\ ~IsPss(id) /\ id.oid.family = "ecdsa" /\ id.oid.name = hash
    BY <2>3 DEF IsPss, PssOid, Oid
  <2>5. VerifiesWithAlgId(key, id)
    BY <1>3, <2>2, <2>4 DEF VerifiesWithAlgId, SignsWithAlgId
  <2>6. VerifyScheme(key, id) = scheme
    BY <1>3, <2>4 DEF VerifyScheme, PlainScheme, DataScheme, Scheme
  <2> QED
    BY <2>5, <2>6 DEF id
<1>4. CASE Kind[key] = "rsa"
  <2>1. PssPreparable(hash, NoHash) /\ id = RsaPssAlgId(hash, NoSalt, NoHash)
    BY <1>4 DEF PssPreparable, SigAlgId, EdKind
  <2>2. SignsWithAlgId(key, id)
    BY <1>2, <1>4, <2>1, PreparedForKey DEF Preparable
  <2>3. scheme = RsaPssScheme(options)
    BY <1>4 DEF DataScheme
  <2>4. CASE hash \in Shake
    <3>1. options.hash = hash
      BY <2>4, HashAssumption DEF HashOr256
    <3>2. id.oid = [family |-> "pss_shake", name |-> hash]
      BY <2>1, <2>4 DEF RsaPssAlgId, AlgId, Oid
    <3> HIDE DEF id
    <3>3. id.oid # PssOid /\ IsPss(id) /\ id.oid.family = "pss_shake" /\ id.oid.name = hash
      BY <3>2 DEF IsPss, PssOid, Oid
    <3>4. VerifiesWithAlgId(key, id)
      BY <1>4, <2>2, <3>3 DEF VerifiesWithAlgId, SignsWithAlgId
    <3>5. VerifyScheme(key, id) = PssShakeScheme(hash, NoSalt)
      BY <1>4, <3>3 DEF VerifyScheme, PlainScheme
    <3>6. scheme = PssShakeScheme(hash, options.salt)
      BY <2>3, <2>4, <3>1 DEF RsaPssScheme
    <3>7. PssShakeScheme(hash, options.salt) = PssShakeScheme(hash, NoSalt)
      BY <1>4 DEF PssShakeScheme
    <3> QED
      BY <3>4, <3>5, <3>6, <3>7 DEF id
  <2>5. CASE hash \notin Shake
    <3>1. hash \in HashOid /\ options.hash \notin Shake
      BY <1>4, <2>5, HashAssumption DEF HashOr256
    <3>2. /\ id.oid = PssOid /\ id.params.hash = hash /\ id.params.mgf = "mgf1"
          /\ id.params.mgfHash = hash /\ id.params.salt = DigestSize[hash]
      BY <2>1, <2>5 DEF RsaPssAlgId, AlgId
    <3> HIDE DEF id
    <3>3. VerifiesWithAlgId(key, id)
      BY <1>4, <2>2, <3>1, <3>2 DEF VerifiesWithAlgId, SignsWithAlgId, IsPss, PssOid, Oid
    <3>4. VerifyScheme(key, id) = PssScheme(hash, DigestSize[hash], hash)
      BY <3>2 DEF VerifyScheme
    <3>5. scheme = PssScheme(hash, options.salt, hash)
      BY <1>4, <2>3, <2>5, <3>1 DEF RsaPssScheme
    <3>6. EffectiveSalt(hash, DigestSize[hash]) = EffectiveSalt(hash, options.salt)
      BY <1>4 DEF EffectiveSalt
    <3> QED
      BY <3>3, <3>4, <3>5, <3>6 DEF id, PssScheme
  <2> QED
    BY <2>4, <2>5
<1> QED
  BY <1>2, <1>3, <1>4

-----------------------------------------------------------------------------
\* What a signing and a verifying step assign.
LEMMA SignWithAlgIdStep ==
  ASSUME TypeOK, NEW key \in Key, NEW data \in Data, SignWithAlgId(key, data)
  PROVE  signed' \in Signed /\ MadeWithAlgId(signed', key, data, algId)
<1>1. algId \in AlgIdType
  BY DEF TypeOK
<1>2. SignScheme(key, algId) \in SchemeType
  BY <1>1, SignSchemeType DEF SignWithAlgId
<1>3. NoOptions \in Options
  BY DEF NoOptions, Options
<1>4. /\ SignsWithAlgId(key, algId)
      /\ signed' = [signature |-> Signature(key, data, SignScheme(key, algId)),
                    with |-> "alg_id", algId |-> algId, options |-> NoOptions]
  BY DEF SignWithAlgId
<1> QED
  BY <1>1, <1>2, <1>3, <1>4 DEF Signature, Signed, With, MadeWithAlgId

LEMMA NoAlgIdType == NoAlgId \in AlgIdType
BY DEF NoAlgId, AlgId, AlgIdType, AnyOid

LEMMA SignDataStep ==
  ASSUME NEW key \in Key, NEW data \in Data, NEW options \in Request, SignData(key, data, options)
  PROVE  signed' \in Signed /\ MadeWithOptions(signed', key, data, options)
<1>1. options \in Options
  BY RequestAssumption
<1>2. DataScheme(key, Name[key], options) \in SchemeType
  BY <1>1, DataSchemeType DEF SignData
<1>3. /\ SignsData(key, options)
      /\ signed' = [signature |-> Signature(key, data, DataScheme(key, Name[key], options)),
                    with |-> "options", algId |-> NoAlgId, options |-> options]
  BY DEF SignData
<1> QED
  BY <1>1, <1>2, <1>3, NoAlgIdType DEF Signature, Signed, With, MadeWithOptions

LEMMA VerifyStepType ==
  ASSUME NEW key \in Key, NEW data \in Data, NEW with \in With, NEW id \in AlgIdType
  PROVE  [key |-> key, data |-> data, with |-> with, algId |-> id] \in Accepted
BY DEF Accepted

-----------------------------------------------------------------------------
DispatchInv ==
  /\ TypeOK
  /\ SignedInv
  /\ AcceptedInv
  /\ AcceptedAfter
  /\ PreparedInv

LEMMA InitInv == Init => DispatchInv
BY NoAlgIdType DEF Init, DispatchInv, TypeOK, SignedInv, AcceptedInv, AcceptedAfter, PreparedInv

\* The steps before the signature only touch the identifier.
LEMMA PrepareInv ==
  ASSUME DispatchInv, signed = Nothing, UNCHANGED <<signed, accepted>>,
         algId' \in AlgIdType, prepared' \in Key \cup {NoKey}, PreparedInv'
  PROVE  DispatchInv'
BY DEF DispatchInv, TypeOK, SignedInv, AcceptedInv, AcceptedAfter

LEMMA StepInv == DispatchInv /\ [Next]_vars => DispatchInv'
<1> SUFFICES ASSUME DispatchInv, [Next]_vars PROVE DispatchInv'
  OBVIOUS
<1>1. NoKey \notin Key /\ Nothing \notin Signed /\ Nothing \notin Accepted
  BY KeyAssumption, NothingAssumption
<1>2. ASSUME NEW key \in Key, NEW hash \in Hash, NEW use_pss \in BOOLEAN,
             signed = Nothing, PrepareSigAlgId(key, hash, use_pss)
      PROVE  DispatchInv'
  <2>1. Preparable(key, hash, use_pss) /\ algId' = SigAlgId(key, hash, use_pss) /\ prepared' = key
    BY <1>2 DEF PrepareSigAlgId
  <2>2. algId' \in AlgIdType
    BY <2>1, SigAlgIdType
  <2>3. PreparedInv'
    BY <2>1 DEF PreparedInv
  <2> QED
    BY <1>2, <2>1, <2>2, <2>3, PrepareInv DEF PrepareSigAlgId
<1>3. ASSUME NEW hash \in Hash, NEW salt \in Salt \cup {NoSalt}, NEW mgfHash \in ParamHash \cup {NoHash},
             signed = Nothing, PrepareRsaPssAlgId(hash, salt, mgfHash)
      PROVE  DispatchInv'
  <2>1. salt \in Nat \cup {NoSalt}
    BY SizeAssumption
  <2>2. algId' \in AlgIdType
    BY <1>3, <2>1, RsaPssAlgIdType DEF PrepareRsaPssAlgId
  <2>3. PreparedInv'
    BY <1>3 DEF PreparedInv, PrepareRsaPssAlgId
  <2> QED
    BY <1>3, <2>2, <2>3, PrepareInv DEF PrepareRsaPssAlgId
<1>4. ASSUME NEW id \in ForeignAlgId, signed = Nothing, PrepareAlgId(id)
      PROVE  DispatchInv'
  <2>1. PreparedInv'
    BY <1>4 DEF PreparedInv, PrepareAlgId
  <2> QED
    BY <1>4, <2>1, ForeignAlgIdType, PrepareInv DEF PrepareAlgId
<1>5. ASSUME NEW key \in Key, NEW data \in Data, signed = Nothing, SignWithAlgId(key, data)
      PROVE  DispatchInv'
  <2>1. signed' \in Signed /\ MadeWithAlgId(signed', key, data, algId)
    BY <1>5, SignWithAlgIdStep DEF DispatchInv
  <2>2. accepted = Nothing
    BY <1>5 DEF DispatchInv, AcceptedAfter
  <2>3. algId' = NoAlgId /\ prepared' = NoKey /\ accepted' = accepted
    BY <1>5 DEF SignWithAlgId
  <2>4. TypeOK'
    BY <2>1, <2>3, NoAlgIdType DEF DispatchInv, TypeOK
  <2>5. SignedInv'
    BY <2>1 DEF SignedInv, DispatchInv, TypeOK
  <2> QED
    BY <2>2, <2>3, <2>4, <2>5 DEF DispatchInv, AcceptedInv, AcceptedAfter, PreparedInv
<1>6. ASSUME NEW key \in Key, NEW data \in Data, NEW options \in Request,
             signed = Nothing, SignData(key, data, options)
      PROVE  DispatchInv'
  <2>1. signed' \in Signed /\ MadeWithOptions(signed', key, data, options)
    BY <1>6, SignDataStep
  <2>2. accepted = Nothing
    BY <1>6 DEF DispatchInv, AcceptedAfter
  <2>3. algId' = NoAlgId /\ prepared' = NoKey /\ accepted' = accepted
    BY <1>6 DEF SignData
  <2>4. TypeOK'
    BY <2>1, <2>3, NoAlgIdType DEF DispatchInv, TypeOK
  <2>5. SignedInv'
    BY <2>1 DEF SignedInv
  <2> QED
    BY <2>2, <2>3, <2>4, <2>5 DEF DispatchInv, AcceptedInv, AcceptedAfter, PreparedInv
<1>7. ASSUME NEW key \in Key, NEW data \in Data, NEW id \in ForeignAlgId,
             signed # Nothing, VerifySignatureWithAlgId(key, id, data)
      PROVE  DispatchInv'
  <2>1. /\ AcceptsWithAlgId(key, id, data, signed.signature)
        /\ accepted' = [key |-> key, data |-> data, with |-> "alg_id", algId |-> id]
        /\ UNCHANGED <<algId, prepared, signed>>
    BY <1>7 DEF VerifySignatureWithAlgId
  <2>2. accepted' \in Accepted
    BY <2>1, ForeignAlgIdType, VerifyStepType DEF With
  <2>3. TypeOK' /\ SignedInv' /\ PreparedInv' /\ AcceptedAfter'
    BY <1>7, <2>1, <2>2 DEF DispatchInv, TypeOK, SignedInv, PreparedInv, AcceptedAfter
  <2>4. AcceptedInv'
    BY <1>7, <2>1 DEF AcceptedInv
  <2> QED
    BY <2>3, <2>4 DEF DispatchInv
<1>8. ASSUME NEW key \in Key, NEW data \in Data, NEW options \in Request,
             signed # Nothing, VerifySignature(key, data, options)
      PROVE  DispatchInv'
  <2>1. /\ accepted' = [key |-> key, data |-> data, with |-> "options", algId |-> NoAlgId]
        /\ UNCHANGED <<algId, prepared, signed>>
    BY <1>8 DEF VerifySignature
  <2>2. accepted' \in Accepted /\ accepted'.with = "options"
    BY <2>1, NoAlgIdType, VerifyStepType DEF With
  <2>3. TypeOK' /\ SignedInv' /\ PreparedInv' /\ AcceptedAfter'
    BY <1>8, <2>1, <2>2 DEF DispatchInv, TypeOK, SignedInv, PreparedInv, AcceptedAfter
  <2>4. AcceptedInv'
    BY <2>2 DEF AcceptedInv
  <2> QED
    BY <2>3, <2>4 DEF DispatchInv
<1>9. CASE UNCHANGED vars
  BY <1>9 DEF vars, DispatchInv, TypeOK, SignedInv, AcceptedInv, AcceptedAfter, PreparedInv
<1> QED
  BY <1>2, <1>3, <1>4, <1>5, <1>6, <1>7, <1>8, <1>9 DEF Next

LEMMA AlwaysInv == Spec => []DispatchInv
BY InitInv, StepInv, PTL DEF Spec

\* Identifiers, signatures and acceptances are well formed, for every table and key.
THEOREM DispatchTypeOK == Spec => []TypeOK
<1>1. DispatchInv => TypeOK
  BY DEF DispatchInv
<1> QED
  BY <1>1, AlwaysInv, PTL

\* What sign_with_alg_id signs, verify_signature_with_alg_id accepts with the three
\* named exceptions, for every table, key, identifier and message.
THEOREM DispatchSignedVerifies == Spec => []SignedVerifies
<1>1. DispatchInv => SignedVerifies
  <2> SUFFICES ASSUME DispatchInv, signed # Nothing, signed.with = "alg_id"
               PROVE  SignedVerifies
    BY DEF SignedVerifies
  <2>1. PICK key \in Key, data \in Data, id \in AlgIdType : MadeWithAlgId(signed, key, data, id)
    BY DEF DispatchInv, SignedInv, MadeWithOptions
  <2>2. /\ SignsWithAlgId(key, id)
        /\ signed.signature = Signature(key, data, SignScheme(key, id))
        /\ signed.algId = id
        /\ signed.signature.key = key
        /\ signed.signature.data = data
    BY <2>1 DEF MadeWithAlgId, Signature
  <2> QED
    BY <2>2, SignsThenVerifies DEF SignedVerifies
<1> QED
  BY <1>1, AlwaysInv, PTL

\* An accepted signature is the verifier's key over the verifier's data, computed by a
\* traditional key as the verifier's identifier says, for every table and identifier.
THEOREM DispatchAcceptedAsNamed == Spec => []AcceptedAsNamed
<1>1. DispatchInv => AcceptedAsNamed
  <2> SUFFICES ASSUME DispatchInv, accepted # Nothing, accepted.with = "alg_id"
               PROVE  AcceptedAsNamed
    BY DEF AcceptedAsNamed
  <2>1. PICK key \in Key, data \in Data, id \in ForeignAlgId :
          /\ AcceptsWithAlgId(key, id, data, signed.signature)
          /\ accepted = [key |-> key, data |-> data, with |-> "alg_id", algId |-> id]
    BY DEF DispatchInv, AcceptedInv
  <2>2. /\ accepted.key = key /\ accepted.data = data /\ accepted.algId = id
        /\ VerifiesWithAlgId(key, id)
        /\ signed.signature.key = key
        /\ signed.signature.data = data
        /\ signed.signature.scheme = VerifyScheme(key, id)
    BY <2>1 DEF AcceptsWithAlgId, Signature
  <2> QED
    BY <2>2, VerifiesAsNamed DEF AcceptedAsNamed
<1> QED
  BY <1>1, AlwaysInv, PTL
\* An identifier from prepare_sig_alg_id is valid and its key signs as it says, for
\* every table and key.
THEOREM DispatchPreparedSigns == Spec => []PreparedSigns
<1>1. DispatchInv => PreparedSigns
  <2> SUFFICES ASSUME DispatchInv, prepared # NoKey PROVE PreparedSigns
    BY DEF PreparedSigns
  <2>1. PICK key \in Key, hash \in Hash, use_pss \in BOOLEAN :
          /\ Preparable(key, hash, use_pss)
          /\ prepared = key /\ algId = SigAlgId(key, hash, use_pss)
    BY DEF DispatchInv, PreparedInv
  <2> QED
    BY <2>1, PreparedForKey DEF PreparedSigns
<1> QED
  BY <1>1, AlwaysInv, PTL
\* What sign_data signs, verify_signature accepts, and an ECDSA or RSA-PSS signature
\* verifies by identifier too, for every table, key, arguments and message.
THEOREM DispatchDirectVerifies == Spec => []DirectVerifies
<1>1. DispatchInv => DirectVerifies
  <2> SUFFICES ASSUME DispatchInv, signed # Nothing, signed.with = "options"
               PROVE  DirectVerifies
    BY DEF DirectVerifies
  <2>1. PICK key \in Key, data \in Data, options \in Request :
          MadeWithOptions(signed, key, data, options)
    BY DEF DispatchInv, SignedInv, MadeWithAlgId
  <2>2. /\ SignsData(key, options)
        /\ signed.signature = Signature(key, data, DataScheme(key, Name[key], options))
        /\ signed.options = options
        /\ signed.signature.key = key
        /\ signed.signature.data = data
    BY <2>1 DEF MadeWithOptions, Signature
  <2>3. options \in Options
    BY RequestAssumption
  <2> QED
    BY <2>2, <2>3, SignsThenVerifiesData, DirectThenAlgId DEF DirectVerifies
<1> QED
  BY <1>1, AlwaysInv, PTL
=============================================================================
