----------------------------- MODULE PqKeyStore -----------------------------
(***************************************************************************)
(* A post-quantum private key object and the OneAsymmetricKey it is kept    *)
(* in: generate_key, save_private_key_one_asym_key, private_bytes,          *)
(* from_one_asym_key and from_private_bytes, for every family of            *)
(* PQKeyFactory.  Bytes are abstracted to the key pair they belong to: a    *)
(* seed, an expanded private key and a public key are equal exactly when    *)
(* they come from one pair.  What a key derives on first use (the expanded  *)
(* bytes of a seed, the public half of raw bytes) is derived at once here.  *)
(* liboqs is installed.  The file may be replaced by one put together       *)
(* elsewhere out of parts of different pairs.                               *)
(***************************************************************************)
EXTENDS Naturals

CONSTANTS Family,       \* the algorithm families in use
          Pair,         \* the key pairs there are
          None,         \* an absent field
          NoKey, NoFile,
          Foreign       \* the origin of bytes this process did not write

MlFamily    == {"ml-dsa", "ml-kem"}                  \* the Choice encoded ones
SeedFamily  == MlFamily \cup {"slh-dsa", "frodokem"} \* the ones that keep a seed
Derivable   == MlFamily \cup {"slh-dsa"}             \* saved without a public key on request
KnownFamily == SeedFamily \cup {"sntrup761", "mceliece", "falcon"}

ASSUME FamilyAssumption == Family \subseteq KnownFamily
ASSUME PairAssumption   == None \notin Pair /\ Foreign \notin Pair

SaveType == {"seed", "raw", "seed_and_raw"}
Half     == Pair \cup {None}

\* A key object: its fields, and the pair that its backend signs or decapsulates with.
Key == [family : Family, seed : Half, raw : Pair, pub : Half, used : Pair]

\* A OneAsymmetricKey: choice tells the Choice structure from bare bytes.
Blob == {blob \in [family : Family, version : 0 .. 1, choice : BOOLEAN,
                   seed : Half, raw : Half, pub : Half] :
           /\ blob.seed # None \/ blob.raw # None
           /\ blob.choice => blob.family \in MlFamily}

ASSUME NothingAssumption == NoKey \notin Key /\ NoFile \notin Blob

VARIABLES
  key,        \* the key object in use
  file,       \* the file it is saved to and loaded from
  owner,      \* history: the pair key was generated as; Foreign after a foreign file,
              \* or once raw bytes alone have lost the pair (Restore)
  fileOwner,  \* history: the owner of the key the file was written from
  exported    \* history: the file was written by private_bytes

vars == <<key, file, owner, fileOwner, exported>>

TypeOK ==
  /\ key \in Key \cup {NoKey}
  /\ file \in Blob \cup {NoFile}
  /\ owner \in Pair \cup {Foreign}
  /\ fileOwner \in Pair \cup {Foreign}
  /\ exported \in BOOLEAN

-----------------------------------------------------------------------------
\* The key that seed and secret bytes of one pair initialise.
KeyOf(family, seed, pair) ==
  [family |-> family, seed |-> seed, raw |-> pair, pub |-> pair, used |-> pair]

\* The constructor without bytes: the families that keep a seed draw one.
NewKey(family, pair) ==
  KeyOf(family, IF family \in SeedFamily THEN pair ELSE None, pair)

\* Mutant of FalconKeys: the key that checks the length of the bytes is returned.
FalconKeysOfRaw(raw, pub) ==
  {[KeyOf("falcon", None, raw) EXCEPT !.pub = new, !.used = new] : new \in Pair \ {raw}}

\* PQSignaturePrivateKey cannot derive the public half.  Given none, a Falcon key is
\* handed a newly generated pair to sign with, and keeps its private bytes.
FalconKeys(raw, pub) ==
  IF pub # None
  THEN {[KeyOf("falcon", None, raw) EXCEPT !.pub = pub]}
  ELSE {[KeyOf("falcon", None, raw) EXCEPT !.pub = new, !.used = new] : new \in Pair \ {raw}}

McElieceKey(raw, pub) == [KeyOf("mceliece", None, raw) EXCEPT !.pub = pub]

\* The keys that a class's from_private_bytes makes of bare raw bytes.
FromRaw(family, raw) ==
  CASE family = "falcon"   -> FalconKeys(raw, None)
    [] family = "mceliece" -> {McElieceKey(raw, None)}
    [] OTHER               -> {KeyOf(family, None, raw)}

-----------------------------------------------------------------------------
\* Whether save_keys_with_support_seed writes the seed for this save type.
WritesSeed(family, saveType) ==
  \/ family \in SeedFamily /\ saveType = "seed"
  \/ family \in SeedFamily \ {"slh-dsa"} /\ saveType = "seed_and_raw"

\* _may_get_pub_key refuses a liboqs key whose public half would be left out.
KeepsPublic(family, version, include, unsafe) ==
  family \in Derivable \/ (version = 1 /\ (include \/ unsafe))

\* Mutant of CanSave: private_numbers does not raise for a key without a seed.
CanSaveSeedless(k, saveType, version, include, unsafe) ==
  KeepsPublic(k.family, version, include, unsafe)

CanSave(k, saveType, version, include, unsafe) ==
  /\ WritesSeed(k.family, saveType) => k.seed # None
  /\ KeepsPublic(k.family, version, include, unsafe)

\* Whether _prepare_ml_private_key encodes the private part as a Choice.
InChoice(family) == family \in MlFamily

SavedBlob(k, saveType, version, include) ==
  [family  |-> k.family,
   version |-> version,
   choice  |-> InChoice(k.family),
   seed    |-> IF WritesSeed(k.family, saveType) THEN k.seed ELSE None,
   raw     |-> IF WritesSeed(k.family, saveType) /\ saveType = "seed" THEN None ELSE k.raw,
   pub     |-> IF include \/ version = 1 THEN k.pub ELSE None]

\* _to_one_asym_key: bare bytes, the seed if there is one, and the public key.
ExportedBlob(k) ==
  [family |-> k.family, version |-> 1, choice |-> FALSE,
   seed |-> k.seed, raw |-> IF k.seed = None THEN k.raw ELSE None, pub |-> k.pub]

-----------------------------------------------------------------------------
\* What from_one_asym_key accepts as private key of a family: the Choice structure for
\* ML-DSA and ML-KEM and only for them, raw bytes or a seed by their length, and both
\* parts from one pair for SLH-DSA.  The comparison of the two parts of an ML key
\* compares their classes and never rejects.
WellFormed(blob) ==
  /\ blob.choice = (blob.family \in MlFamily)
  /\ blob.seed # None => blob.family \in SeedFamily
  /\ blob.seed # None /\ blob.raw # None =>
       \/ blob.family \in MlFamily
       \/ blob.family = "slh-dsa" /\ blob.seed = blob.raw

Secret(blob) == IF blob.seed # None THEN blob.seed ELSE blob.raw

\* Mutant of DerivedKeys: the public key in the file is taken over unchecked.
DerivedUnchecked(blob) ==
  LET k == KeyOf(blob.family, blob.seed, Secret(blob))
  IN  {[k EXCEPT !.pub = IF blob.pub = None THEN @ ELSE blob.pub]}

\* Mutant of DerivedKeys: of the two parts of a private key the raw one is used.
DerivedFromRaw(blob) ==
  LET pair == IF blob.raw # None THEN blob.raw ELSE blob.seed
  IN  {k \in {KeyOf(blob.family, IF blob.raw # None THEN None ELSE blob.seed, pair)} :
         blob.pub \in {None, k.pub}}

\* The families whose public half follows from the private one: a public key in the
\* file has to be that half.
DerivedKeys(blob) ==
  {k \in {KeyOf(blob.family, blob.seed, Secret(blob))} : blob.pub \in {None, k.pub}}

\* The keys from_one_asym_key may return; empty when it raises.
Loaded(blob) ==
  IF ~WellFormed(blob) THEN {}
  ELSE CASE blob.family = "falcon"   -> FalconKeys(blob.raw, blob.pub)
         [] blob.family = "mceliece" -> {McElieceKey(blob.raw, blob.pub)}
         [] OTHER                    -> DerivedKeys(blob)

-----------------------------------------------------------------------------
Init ==
  /\ key = NoKey
  /\ file = NoFile
  /\ owner = Foreign
  /\ fileOwner = Foreign
  /\ exported = FALSE

\* generate_key
Generate(family, pair) ==
  /\ key' = NewKey(family, pair)
  /\ owner' = pair
  /\ UNCHANGED <<file, fileOwner, exported>>

\* save_private_key_one_asym_key.  save_key passes version 1 and the public key.
Save(saveType, version, include, unsafe) ==
  /\ key # NoKey
  /\ CanSave(key, saveType, version, include, unsafe)
  /\ file' = SavedBlob(key, saveType, version, include)
  /\ fileOwner' = owner
  /\ exported' = FALSE
  /\ UNCHANGED <<key, owner>>

\* private_bytes: a McEliece key without its public half raises.
Export ==
  /\ key # NoKey
  /\ key.pub # None
  /\ file' = ExportedBlob(key)
  /\ fileOwner' = owner
  /\ exported' = TRUE
  /\ UNCHANGED <<key, owner>>

\* load_private_key_from_file, whose PQ keys from_one_asym_key makes.
Load ==
  /\ file # NoFile
  /\ key' \in Loaded(file)
  /\ owner' = fileOwner
  /\ UNCHANGED <<file, fileOwner, exported>>

\* Somebody puts another file in place.
Replace(blob) ==
  /\ file' = blob
  /\ fileOwner' = Foreign
  /\ exported' = FALSE
  /\ UNCHANGED <<key, owner>>

\* The families whose public half from_private_bytes does not restore: a Falcon key goes
\* on with another pair (FalconKeys), a McEliece key without a public half.
Unrestored == {"falcon", "mceliece"}

\* PQKeyFactory.from_private_bytes on what private_bytes_raw returned.
Restore ==
  /\ key # NoKey
  /\ key' \in FromRaw(key.family, key.raw)
  /\ owner' = IF key.family \in Unrestored THEN Foreign ELSE owner
  /\ UNCHANGED <<file, fileOwner, exported>>

Next ==
  \/ \E family \in Family, pair \in Pair : Generate(family, pair)
  \/ \E saveType \in SaveType, version \in 0 .. 1, include, unsafe \in BOOLEAN :
       Save(saveType, version, include, unsafe)
  \/ Export
  \/ Load
  \/ \E blob \in Blob : Replace(blob)
  \/ Restore

Spec == Init /\ [][Next]_vars

-----------------------------------------------------------------------------
\* All parts that k has come from one key pair.
OnePair(k) == {k.seed, k.raw, k.pub, k.used} \subseteq {k.raw, None}

\* What the library writes and does not read back: the bare ML key of private_bytes and
\* both parts of a FrodoKEM key.
Unreadable(blob) ==
  \/ blob.family \in MlFamily /\ exported
  \/ blob.family = "frodokem" /\ blob.seed # None /\ blob.raw # None

\* Whatever sequence of options, saves, exports and loads a key went through, its file
\* loads, and gives back the one key pair that was generated
\* (save_private_key_one_asym_key, private_bytes, from_one_asym_key).
OwnFileLoads ==
  file # NoFile /\ fileOwner # Foreign /\ ~Unreadable(file) =>
    /\ Loaded(file) # {}
    /\ \A k \in Loaded(file) : OnePair(k) /\ k.used = fileOwner

\* A key in use is one key pair, also when its file was put together from parts of
\* several or the key was restored from raw bytes, for every family whose public key is
\* checked on loading (from_one_asym_key, from_private_bytes); Falcon and McEliece only
\* in the program's own files.
KeyIsOnePair ==
  key # NoKey /\ (owner # Foreign \/ key.family \notin Unrestored) => OnePair(key)

\* A seed in the program's own file is not lost by loading it: the loaded key saves
\* again with the default options of save_key.
SeedSurvives ==
  file # NoFile /\ fileOwner # Foreign /\ file.seed # None =>
    \A k \in Loaded(file) : CanSave(k, "seed", 1, TRUE, FALSE)
=============================================================================
