---------------------------- MODULE SigDispatch ----------------------------
(***************************************************************************)
(* Signing and verifying by algorithm identifier (sign_with_alg_id,         *)
(* verify_signature_with_alg_id), by key type (sign_data, verify_signature) *)
(* and the builders of the identifiers (prepare_sig_alg_id and others).     *)
(* An OID is a record of its table and its name in that table.  A signature *)
(* is the key, the data and the scheme it was computed with; it verifies    *)
(* when all three are the verifier's.  ctx and use_pre_hash keep their      *)
(* defaults, liboqs is installed.  A key stands for both of its halves.     *)
(***************************************************************************)
EXTENDS Integers

CONSTANTS
  Key,           \* key pairs in use
  Kind,          \* [Key -> KindName]: the class of a key
  Name,          \* [Key -> STRING]: the name property of the private key
  PublicName,    \* [Key -> STRING]: that of the public key; differs for composite
                 \* keys whose RSA size is not one of the registered ones
  Hash,          \* the names hash_name_to_instance knows
  DigestSize,    \* [Hash -> Nat]: digest_size
  Shake,         \* the SHAKE variants of Hash
  HashOid,       \* hashes get_hash_from_oid finds by OID, SHAKE aside
  RsaHash, EcdsaHash,  \* hashes of RSA_OID_2_NAME and of ECDSA_OID_2_NAME
  PqName,        \* names of PQ_SIG_OID_2_NAME without a pre-hash
  PreHash,       \* [PqName -> Hash \cup {NoHash}]: the one pre-hash of an algorithm
  StatefulName,  \* names of PQ_STATEFUL_HASH_SIG_OID_2_NAME
  Composite,     \* <<name, use_pss>> of COMPOSITE_SIG_NAME_TO_OID
  RsaComposite,  \* the composite names with an RSA part
  Data,          \* messages
  Request,       \* the keyword arguments callers give to sign_data and verify_signature
  Salt,          \* salt lengths callers ask for
  NoHash, NoKey, Nothing

NoSalt == -1

EdKind   == {"ed25519", "ed448"}
TradKind == {"rsa", "ecdsa", "dsa"} \cup EdKind
SignKind == TradKind \cup {"pq", "stateful", "composite"}
KindName == SignKind \cup {"kem"}

ASSUME KeyAssumption ==
  /\ Kind \in [Key -> KindName]
  /\ \A key \in Key : Kind[key] = "pq" => Name[key] \in PqName /\ PublicName[key] = Name[key]
  /\ NoKey \notin Key
\* The table of composite names has no RSA size but those the private half rounds to.
ASSUME CompositeAssumption ==
  \A key \in Key, pss \in BOOLEAN :
    Kind[key] = "composite" /\ PublicName[key] # Name[key]
      => <<PublicName[key], pss>> \notin Composite
ASSUME HashAssumption ==
  /\ Shake \subseteq {"shake128", "shake256"}
  /\ {"sha1", "sha256"} \subseteq HashOid
  /\ HashOid \cup Shake \cup RsaHash \cup EcdsaHash \subseteq Hash
  /\ HashOid \cap Shake = {} /\ NoHash \notin Hash
  /\ RsaHash \cap Shake = {}
ASSUME SizeAssumption ==
  /\ DigestSize \in [Hash -> Nat \ {0}]
  /\ PreHash \in [PqName -> Hash \cup {NoHash}]
  /\ Salt \subseteq Nat

-----------------------------------------------------------------------------
\* Object identifiers.
Oid(family, name) == [family |-> family, name |-> name]
RsaSha1      == Oid("rsa", "sha1")
PssOid       == Oid("pss", NoHash)
PreHashName  == {name \in PqName : PreHash[name] # NoHash}
SupportedOid ==
       {Oid("rsa", hash) : hash \in RsaHash}
  \cup {Oid("ecdsa", hash) : hash \in EcdsaHash}
  \cup {Oid("pss_shake", hash) : hash \in Shake}
  \cup {PssOid, Oid("dsa", "sha256"), Oid("ed25519", NoHash), Oid("ed448", NoHash)}
  \cup {Oid("pq", name) : name \in PqName}
  \cup {Oid("prehash", name) : name \in PreHashName}
  \cup {Oid("stateful", name) : name \in StatefulName}
  \cup {Oid(IF pair[2] THEN "composite_pss" ELSE "composite", pair[1]) : pair \in Composite}

\* The parameters field.  What OpenSSL makes of a SHAKE inside PSS parameters is not
\* fixed by this repository, so none occurs.  Other is a value that is neither NULL nor PSS parameters.
Absent == [form |-> "absent"]
Null   == [form |-> "null"]
Other  == [form |-> "other"]
ParamHash == Hash \ Shake
PssParams ==
  [form : {"pss"}, hash : ParamHash, mgf : {"mgf1", "other"}, mgfHash : ParamHash, salt : Nat]
AlgId(oid, params) == [oid |-> oid, params |-> params]

NoAlgId == AlgId(Oid("unknown", NoHash), Absent)

\* _validate_sig_alg_id: a known OID with the parameters its table entry asks for.
ValidSigAlgId(algId) ==
  /\ algId.oid \in SupportedOid
  /\ algId.params.form = CASE algId.oid.family = "rsa" -> "null"
                           [] algId.oid.family = "pss" -> "pss"
                           [] OTHER                    -> "absent"

IsPss(algId) == algId.oid.family \in {"pss", "pss_shake"}

-----------------------------------------------------------------------------
\* What a signature is computed with.  For a composite key name tells which of its
\* names the domain and the inner padding come from.
Scheme(name, hash) == [name |-> name, hash |-> hash, mgf |-> hash, salt |-> 0]

\* Mutant of EffectiveSalt: only a zero salt length is replaced.
ZeroSaltOnly(hash, salt) == IF salt = 0 THEN DigestSize[hash] ELSE salt

\* sign_data_rsa_pss: an unset or zero salt length is the digest size, except that
\* the SHAKE path keeps a zero.
EffectiveSalt(hash, salt) == IF salt \in {NoSalt, 0} THEN DigestSize[hash] ELSE salt
PssScheme(hash, salt, second) ==
  [name |-> "pss", hash |-> second, mgf |-> hash, salt |-> EffectiveSalt(hash, salt)]
PssShakeScheme(hash, salt) ==
  [name |-> "pss_shake", hash |-> hash, mgf |-> hash,
   salt |-> IF salt = NoSalt THEN DigestSize[hash] ELSE salt]

\* get_oid: use_pss only matters for an RSA part; an unknown combination raises.
UsesPss(name, pss)    == pss /\ name \in RsaComposite
Registered(name, pss) == <<name, UsesPss(name, pss)>> \in Composite
CompositeScheme(name, pss) ==
  Scheme(IF UsesPss(name, pss) THEN "composite_pss" ELSE "composite", NoHash)

\* check_hash_alg: a hash the algorithm does not support is dropped.
SupportedHash(name, hash) == IF PreHash[name] = hash THEN hash ELSE NoHash

HashOr256(hash) == IF hash = NoHash THEN "sha256" ELSE hash
Signature(key, data, scheme) == [key |-> key, data |-> data, scheme |-> scheme]

-----------------------------------------------------------------------------
\* sign_with_alg_id: the keys and identifiers it signs with.  The families of PQ,
\* stateful and composite keys are not compared with the OID.
SignsWithAlgId(key, algId) ==
  /\ ValidSigAlgId(algId)
  /\ Kind[key] \in SignKind \ {"dsa"}
  /\ IF IsPss(algId)
     THEN Kind[key] = "rsa"
     ELSE /\ Kind[key] \in {"rsa", "ecdsa"} \cup EdKind => algId.oid.family = Kind[key]
          /\ Kind[key] = "composite" => Registered(Name[key], FALSE)

\* Mutant of VerifiesWithAlgId: the MGF hash is not compared.
VerifiesAnyMgf(key, algId) ==
  /\ ValidSigAlgId(algId)
  /\ Kind[key] \in SignKind \ {"dsa"}
  /\ IF IsPss(algId)
     THEN /\ Kind[key] = "rsa"
          /\ algId.oid = PssOid => algId.params.hash \in HashOid
     ELSE /\ Kind[key] \in {"rsa", "ecdsa"} \cup EdKind => algId.oid.family = Kind[key]
          /\ Kind[key] = "rsa" => algId.oid # RsaSha1
          /\ Kind[key] = "composite" => Registered(PublicName[key], FALSE)

\* verify_signature_with_alg_id up to the verification itself: PSS needs a hash it
\* knows and MGF1 over the same hash, and RSA-SHA1 is refused.
VerifiesWithAlgId(key, algId) ==
  /\ ValidSigAlgId(algId)
  /\ Kind[key] \in SignKind \ {"dsa"}
  /\ IF IsPss(algId)
     THEN /\ Kind[key] = "rsa"
          /\ algId.oid = PssOid => /\ algId.params.hash \in HashOid
                                  /\ algId.params.mgf = "mgf1"
                                  /\ algId.params.mgfHash = algId.params.hash
     ELSE /\ Kind[key] \in {"rsa", "ecdsa"} \cup EdKind => algId.oid.family = Kind[key]
          /\ Kind[key] = "rsa" => algId.oid # RsaSha1
          /\ Kind[key] = "composite" => Registered(PublicName[key], FALSE)

\* The scheme of either direction outside id-RSASSA-PSS; name is that of the half in use.
PlainScheme(key, name, algId) ==
  CASE algId.oid.family = "pss_shake"         -> PssShakeScheme(algId.oid.name, NoSalt)
    [] Kind[key] = "composite"                -> CompositeScheme(name, FALSE)
    [] Kind[key] \in {"rsa", "ecdsa"} /\ ~IsPss(algId) -> Scheme(Kind[key], algId.oid.name)
    [] OTHER                                  -> Scheme(Kind[key], NoHash)

\* sign_with_alg_id: an unknown hash in PSS parameters signs as SHA-256, and the hash
\* of the mask generation is not read.
SignScheme(key, algId) ==
  IF algId.oid = PssOid
  THEN LET hash == IF algId.params.hash \in HashOid THEN algId.params.hash ELSE "sha256"
       IN  PssScheme(hash, algId.params.salt, hash)
  ELSE PlainScheme(key, Name[key], algId)

\* Mutant of VerifyScheme: a zero salt length is taken as it is.
VerifyZeroSalt(key, algId) ==
  IF algId.oid = PssOid
  THEN [name |-> "pss", hash |-> algId.params.hash, mgf |-> algId.params.hash,
        salt |-> algId.params.salt]
  ELSE PlainScheme(key, PublicName[key], algId)

VerifyScheme(key, algId) ==
  IF algId.oid = PssOid
  THEN PssScheme(algId.params.hash, algId.params.salt, algId.params.hash)
  ELSE PlainScheme(key, PublicName[key], algId)

AcceptsWithAlgId(key, algId, data, signature) ==
  /\ VerifiesWithAlgId(key, algId)
  /\ signature = Signature(key, data, VerifyScheme(key, algId))

-----------------------------------------------------------------------------
\* Keyword arguments of sign_data and verify_signature; NoHash and NoSalt when not given.
\* use_pss stands for use_rsa_pss of an RSA key and use_pss of a composite key.
Options ==
  [hash : Hash \cup {NoHash}, use_pss : BOOLEAN, salt : Salt \cup {NoSalt},
   second : (Hash \ Shake) \cup {NoHash}]
ASSUME RequestAssumption == Request \subseteq Options

\* CompositeSigPrivateKey.sign takes ctx and use_pss and no other argument.
CompositeArguments(options) ==
  options.hash = NoHash /\ options.salt = NoSalt /\ options.second = NoHash

SignsData(key, options) ==
  CASE Kind[key] = "composite" -> /\ CompositeArguments(options)
                                  /\ Registered(Name[key], options.use_pss)
    [] Kind[key] = "rsa"       -> options.use_pss
    [] OTHER                   -> Kind[key] \in SignKind

VerifiesData(key, options) ==
  CASE Kind[key] = "composite" -> /\ CompositeArguments(options)
                                  /\ Registered(PublicName[key], options.use_pss)
    [] OTHER                   -> Kind[key] \in {"pq", "stateful", "ecdsa"} \cup EdKind

\* Mutant of RsaPssScheme: an unset second hash is SHA-256.
RsaPssSecond256(options) ==
  IF options.hash \in Shake
  THEN PssShakeScheme(options.hash, options.salt)
  ELSE PssScheme(HashOr256(options.hash), options.salt, HashOr256(options.second))

RsaPssScheme(options) ==
  IF options.hash \in Shake
  THEN PssShakeScheme(options.hash, options.salt)
  ELSE LET hash == HashOr256(options.hash)
       IN  PssScheme(hash, options.salt,
                     IF options.second = NoHash THEN hash ELSE options.second)

DataScheme(key, name, options) ==
  CASE Kind[key] = "composite"        -> CompositeScheme(name, options.use_pss)
    [] Kind[key] = "rsa"              -> RsaPssScheme(options)
    [] Kind[key] = "pq"               -> Scheme("pq", SupportedHash(name, options.hash))
    [] Kind[key] \in {"ecdsa", "dsa"} -> Scheme(Kind[key], HashOr256(options.hash))
    [] OTHER                          -> Scheme(Kind[key], NoHash)

AcceptsData(key, options, data, signature) ==
  /\ VerifiesData(key, options)
  /\ signature = Signature(key, data, DataScheme(key, PublicName[key], options))

-----------------------------------------------------------------------------
\* prepare_rsa_pss_alg_id; raises for a hash without an OID.
PssPreparable(hash, mgfHash) ==
  hash \in Shake \/ (hash \in HashOid /\ mgfHash \in HashOid \cup {NoHash})

RsaPssAlgId(hash, salt, mgfHash) ==
  IF hash \in Shake
  THEN AlgId(Oid("pss_shake", hash), Absent)
  ELSE AlgId(PssOid, [form |-> "pss", hash |-> hash, mgf |-> "mgf1",
                      mgfHash |-> IF mgfHash = NoHash THEN hash ELSE mgfHash,
                      salt |-> IF salt = NoSalt THEN DigestSize[hash] ELSE salt])

\* prepare_sig_alg_id; raises BadAlg when no OID has the name of the key and the hash.
Preparable(key, hash, use_pss) ==
  \/ Kind[key] \in EdKind
  \/ Kind[key] = "rsa" /\ use_pss /\ PssPreparable(hash, NoHash)
  \/ Kind[key] = "rsa" /\ ~use_pss /\ hash \in RsaHash
  \/ Kind[key] = "ecdsa" /\ hash \in EcdsaHash
  \/ Kind[key] = "dsa" /\ hash = "sha256"

\* Mutant of SigAlgId: the NULL of RSA PKCS#1 v1.5 is left out.
SigAlgIdNoNull(key, hash, use_pss) ==
  CASE Kind[key] \in EdKind           -> AlgId(Oid(Kind[key], NoHash), Absent)
    [] Kind[key] = "rsa" /\ use_pss   -> RsaPssAlgId(hash, NoSalt, NoHash)
    [] OTHER                          -> AlgId(Oid(Kind[key], hash), Absent)

SigAlgId(key, hash, use_pss) ==
  CASE Kind[key] \in EdKind           -> AlgId(Oid(Kind[key], NoHash), Absent)
    [] Kind[key] = "rsa" /\ use_pss   -> RsaPssAlgId(hash, NoSalt, NoHash)
    [] Kind[key] = "rsa" /\ ~use_pss  -> AlgId(Oid("rsa", hash), Null)
    [] OTHER                          -> AlgId(Oid(Kind[key], hash), Absent)

-----------------------------------------------------------------------------
VARIABLES
  algId,     \* the signer's algorithm identifier; once signed it is in signed
  prepared,  \* the key prepare_sig_alg_id made it for, if it did
  signed,    \* the signature and how it was asked for
  accepted   \* the verification that accepted it, if one did

vars == <<algId, prepared, signed, accepted>>

SchemeName == SignKind \cup {"pss", "pss_shake", "composite_pss"}
SchemeType == [name : SchemeName, hash : Hash \cup {NoHash}, mgf : Hash \cup {NoHash}, salt : Nat]
AnyOid     == SupportedOid \cup {NoAlgId.oid}
AlgIdType  == [oid : AnyOid, params : {Absent, Null, Other} \cup PssParams]
With       == {"alg_id", "options"}
Signed ==
  [signature : [key : Key, data : Data, scheme : SchemeType], with : With,
   algId : AlgIdType, options : Options]
Accepted == [key : Key, data : Data, with : With, algId : AlgIdType]
NoOptions == [hash |-> NoHash, use_pss |-> FALSE, salt |-> NoSalt, second |-> NoHash]

ASSUME NothingAssumption == Nothing \notin Signed \cup Accepted

TypeOK ==
  /\ algId \in AlgIdType
  /\ prepared \in Key \cup {NoKey}
  /\ signed \in Signed \cup {Nothing}
  /\ accepted \in Accepted \cup {Nothing}

\* Identifiers decoded from a message or a certificate, or put together by prepare_alg_id.
ForeignAlgId ==
  {AlgId(oid, params) : oid \in AnyOid, params \in {Absent, Null, Other}} \cup
  {AlgId(PssOid, params) : params \in [form : {"pss"}, hash : ParamHash, mgf : {"mgf1", "other"},
                                       mgfHash : ParamHash, salt : Salt]}

Init == algId = NoAlgId /\ prepared = NoKey /\ signed = Nothing /\ accepted = Nothing

PrepareSigAlgId(key, hash, use_pss) ==
  /\ Preparable(key, hash, use_pss)
  /\ algId' = SigAlgId(key, hash, use_pss)
  /\ prepared' = key
  /\ UNCHANGED <<signed, accepted>>

PrepareRsaPssAlgId(hash, salt, mgfHash) ==
  /\ PssPreparable(hash, mgfHash)
  /\ algId' = RsaPssAlgId(hash, salt, mgfHash)
  /\ prepared' = NoKey
  /\ UNCHANGED <<signed, accepted>>

PrepareAlgId(id) ==
  /\ algId' = id
  /\ prepared' = NoKey
  /\ UNCHANGED <<signed, accepted>>

SignWithAlgId(key, data) ==
  /\ SignsWithAlgId(key, algId)
  /\ signed' = [signature |-> Signature(key, data, SignScheme(key, algId)),
                with |-> "alg_id", algId |-> algId, options |-> NoOptions]
  /\ algId' = NoAlgId /\ prepared' = NoKey
  /\ UNCHANGED accepted

SignData(key, data, options) ==
  /\ SignsData(key, options)
  /\ signed' = [signature |-> Signature(key, data, DataScheme(key, Name[key], options)),
                with |-> "options", algId |-> NoAlgId, options |-> options]
  /\ algId' = NoAlgId /\ prepared' = NoKey
  /\ UNCHANGED accepted

VerifySignatureWithAlgId(key, id, data) ==
  /\ AcceptsWithAlgId(key, id, data, signed.signature)
  /\ accepted' = [key |-> key, data |-> data, with |-> "alg_id", algId |-> id]
  /\ UNCHANGED <<algId, prepared, signed>>

VerifySignature(key, data, options) ==
  /\ AcceptsData(key, options, data, signed.signature)
  /\ accepted' = [key |-> key, data |-> data, with |-> "options", algId |-> NoAlgId]
  /\ UNCHANGED <<algId, prepared, signed>>

\* The signer chooses an identifier or arguments and signs; the verifier, who may hold
\* another key, other data and another identifier, tries the signature.
Next ==
  \/ /\ signed = Nothing
     /\ \/ \E key \in Key, hash \in Hash, use_pss \in BOOLEAN :
             PrepareSigAlgId(key, hash, use_pss)
        \/ \E hash \in Hash, salt \in Salt \cup {NoSalt}, mgfHash \in ParamHash \cup {NoHash} :
             PrepareRsaPssAlgId(hash, salt, mgfHash)
        \/ \E id \in ForeignAlgId : PrepareAlgId(id)
        \/ \E key \in Key, data \in Data : SignWithAlgId(key, data)
        \/ \E key \in Key, data \in Data, options \in Request : SignData(key, data, options)
  \/ /\ signed # Nothing /\ accepted = Nothing
     /\ \/ \E key \in Key, data \in Data, id \in ForeignAlgId :
             VerifySignatureWithAlgId(key, id, data)
        \/ \E key \in Key, data \in Data, options \in Request :
             VerifySignature(key, data, options)

Spec == Init /\ [][Next]_vars

-----------------------------------------------------------------------------
\* The parameters verify_rsassa_pss_from_alg_id can use.
UsablePss(id) ==
  id.oid = PssOid => /\ id.params.hash \in HashOid
                     /\ id.params.mgf = "mgf1"
                     /\ id.params.mgfHash = id.params.hash

\* What sign_with_alg_id signs, verify_signature_with_alg_id accepts under the same
\* identifier, for every kind of key, with exactly three exceptions: RSA-SHA1, PSS
\* parameters the verifier refuses, and composite keys whose RSA part has no
\* registered size, which only the private half rounds to one.
SignedVerifies ==
  signed # Nothing /\ signed.with = "alg_id" =>
    LET key == signed.signature.key
    IN  AcceptsWithAlgId(key, signed.algId, signed.signature.data, signed.signature)
          <=> /\ Kind[key] = "rsa" => signed.algId.oid # RsaSha1
              /\ UsablePss(signed.algId)
              /\ Kind[key] = "composite" => PublicName[key] = Name[key]

\* The scheme an identifier stands for by its registration, whoever uses it.
NamedScheme(id) ==
  CASE id.oid = PssOid ->
         [name |-> "pss", hash |-> id.params.hash, mgf |-> id.params.mgfHash,
          salt |-> EffectiveSalt(id.params.hash, id.params.salt)]
    [] id.oid.family = "pss_shake" -> PssShakeScheme(id.oid.name, NoSalt)
    [] id.oid.family = "prehash"   -> Scheme("pq", PreHash[id.oid.name])
    [] id.oid.family \in {"rsa", "ecdsa"} -> Scheme(id.oid.family, id.oid.name)
    [] OTHER                       -> Scheme(id.oid.family, NoHash)

\* A signature accepted by identifier was made by that key over that data, whatever
\* identifiers signer and verifier used; with a traditional key it was computed with
\* the scheme the verifier's identifier names: no identifier stands in for another.
AcceptedAsNamed ==
  accepted # Nothing /\ accepted.with = "alg_id" =>
    /\ signed.signature.key = accepted.key
    /\ signed.signature.data = accepted.data
    /\ Kind[accepted.key] \in TradKind => signed.signature.scheme = NamedScheme(accepted.algId)

\* An identifier from prepare_sig_alg_id is valid, and its key signs under it with the
\* scheme it names; only a DSA key, which sign_with_alg_id refuses, does not.
PreparedSigns ==
  prepared # NoKey =>
    /\ ValidSigAlgId(algId)
    /\ SignsWithAlgId(prepared, algId) <=> Kind[prepared] # "dsa"
    /\ Kind[prepared] # "dsa" => SignScheme(prepared, algId) = NamedScheme(algId)

\* What sign_data signs, verify_signature accepts with the same arguments, where it
\* has a case for the key (none for RSA and DSA); and an ECDSA or RSA-PSS signature verifies by the identifier
\* prepare_sig_alg_id builds for its hash, when it has the default salt and one hash.
DirectVerifies ==
  signed # Nothing /\ signed.with = "options" =>
    LET key  == signed.signature.key
        data == signed.signature.data
        asked == signed.options
        hash == HashOr256(asked.hash)
    IN  /\ Kind[key] \in SignKind \ {"rsa", "dsa"} /\ PublicName[key] = Name[key]
             => AcceptsData(key, asked, data, signed.signature)
        /\ \/ Kind[key] = "ecdsa" /\ hash \in EcdsaHash
           \/ /\ Kind[key] = "rsa" /\ hash \in HashOid \cup Shake
              /\ asked.salt \in {NoSalt, DigestSize[hash]}
              /\ hash \in Shake \/ asked.second \in {NoHash, hash}
           => AcceptsWithAlgId(key, SigAlgId(key, hash, Kind[key] = "rsa"), data, signed.signature)
=============================================================================
