-------------------------- MODULE PqKeyStore_proofs --------------------------
(***************************************************************************)
(* Proofs about PqKeyStore for every set of families and of key pairs: its  *)
(* type invariant and that keys and files never mix key pairs.             *)
(***************************************************************************)
EXTENDS PqKeyStore, TLAPS

\* A key that is one pair, its public half included.
WholeKey(k) ==
  /\ k.seed \in {None, k.raw}
  /\ k.pub = k.raw
  /\ k.used = k.raw
  /\ k.seed # None => k.family \in SeedFamily

\* The file holds parts of one pair only, and the public half where it cannot be derived.
WholeFile(blob, pair, bare) ==
  /\ blob.seed \in {None, pair}
  /\ blob.raw \in {None, pair}
  /\ blob.pub \in {None, pair}
  /\ blob.seed # None => blob.family \in SeedFamily
  /\ blob.family \notin Derivable => blob.pub = pair
  /\ blob.family \in MlFamily /\ ~bare <=> blob.choice

\* The inductive invariant.
KeyStoreInv ==
  /\ TypeOK
  /\ key # NoKey /\ owner # Foreign => WholeKey(key) /\ key.raw = owner
  /\ key # NoKey /\ key.family \notin {"falcon", "mceliece"} => WholeKey(key)
  /\ file # NoFile /\ fileOwner # Foreign => WholeFile(file, fileOwner, exported)

-----------------------------------------------------------------------------
\* What the constructors build is a key (KeyOf, FalconKeys, McElieceKey).
LEMMA KeyOfIsKey ==
  ASSUME NEW family \in Family, NEW seed \in Half, NEW pair \in Pair
  PROVE  KeyOf(family, seed, pair) \in Key
BY DEF KeyOf, Key, Half

LEMMA FalconKeysAreKeys ==
  ASSUME NEW raw \in Pair, NEW pub \in Half, "falcon" \in Family
  PROVE  FalconKeys(raw, pub) \subseteq Key
<1>1. KeyOf("falcon", None, raw) \in Key
  BY KeyOfIsKey DEF Half
<1> QED
  BY <1>1 DEF FalconKeys, Key, Half

LEMMA McElieceKeyIsKey ==
  ASSUME NEW raw \in Pair, NEW pub \in Half, "mceliece" \in Family
  PROVE  McElieceKey(raw, pub) \in Key
BY DEF McElieceKey, KeyOf, Key, Half

\* The pair that from_one_asym_key uses is in the file: well-formed files of the families
\* without a seed hold raw bytes.
LEMMA SecretInPair ==
  ASSUME NEW blob \in Blob
  PROVE  Secret(blob) \in Pair
BY DEF Secret, Blob, Half

LEMMA RawOfSeedless ==
  ASSUME NEW blob \in Blob, WellFormed(blob), blob.family \notin SeedFamily
  PROVE  /\ blob.seed = None
         /\ blob.raw \in Pair
         /\ Secret(blob) = blob.raw
BY DEF Secret, Blob, Half, WellFormed

\* from_one_asym_key returns keys.
LEMMA LoadedAreKeys ==
  ASSUME NEW blob \in Blob
  PROVE  Loaded(blob) \subseteq Key
<1> SUFFICES ASSUME WellFormed(blob) PROVE Loaded(blob) \subseteq Key
  BY DEF Loaded
<1>0. blob.family \in Family /\ blob.seed \in Half /\ blob.pub \in Half
  BY DEF Blob
<1>1. CASE blob.family = "falcon"
  <2>1. blob.raw \in Pair
    BY <1>1, RawOfSeedless DEF SeedFamily, MlFamily
  <2> QED
    BY <1>0, <1>1, <2>1, FalconKeysAreKeys DEF Loaded
<1>2. CASE blob.family = "mceliece"
  <2>1. blob.raw \in Pair
    BY <1>2, RawOfSeedless DEF SeedFamily, MlFamily
  <2> QED
    BY <1>0, <1>2, <2>1, McElieceKeyIsKey DEF Loaded
<1>3. CASE blob.family \notin {"falcon", "mceliece"}
  <2>1. KeyOf(blob.family, blob.seed, Secret(blob)) \in Key
    BY <1>0, SecretInPair, KeyOfIsKey
  <2> QED
    BY <1>3, <2>1 DEF Loaded, DerivedKeys
<1> QED
  BY <1>1, <1>2, <1>3

\* A key of a family whose public half is checked is one pair, whoever wrote the file.
LEMMA DerivedIsWhole ==
  ASSUME NEW blob \in Blob, blob.family \notin {"falcon", "mceliece"},
         NEW k \in Loaded(blob)
  PROVE  WholeKey(k) /\ k.family = blob.family
<1>1. WellFormed(blob) /\ k = KeyOf(blob.family, blob.seed, Secret(blob))
  BY DEF Loaded, DerivedKeys
<1>2. blob.seed # None => blob.family \in SeedFamily /\ blob.seed = Secret(blob)
  BY <1>1 DEF WellFormed, Secret
<1> QED
  BY <1>1, <1>2 DEF KeyOf, WholeKey

\* The program's own file, unless it is unreadable, loads as the pair it was saved from.
LEMMA WholeFileLoads ==
  ASSUME NEW blob \in Blob, NEW pair \in Pair, NEW bare \in BOOLEAN,
         WholeFile(blob, pair, bare)
  PROVE  /\ \A k \in Loaded(blob) : WholeKey(k) /\ k.raw = pair
         /\ \/ bare /\ blob.family \in MlFamily
            \/ blob.family = "frodokem" /\ blob.seed # None /\ blob.raw # None
            \/ Loaded(blob) # {}
<1>0. Secret(blob) = pair
  BY PairAssumption, SecretInPair DEF Secret, WholeFile
<1>1. CASE blob.family = "falcon"
  <2>1. blob.seed = None /\ blob.raw = pair /\ blob.pub = pair /\ blob.choice = FALSE
    BY <1>1 DEF WholeFile, SeedFamily, MlFamily, Derivable, Blob
  <2>2. WellFormed(blob)
    <3>1. (blob.family \in MlFamily) = FALSE
      BY <1>1 DEF MlFamily
    <3> QED
      BY <2>1, <3>1 DEF WellFormed
  <2>3. Loaded(blob) = {[KeyOf("falcon", None, pair) EXCEPT !.pub = pair]}
    BY <1>1, <2>1, <2>2, PairAssumption DEF Loaded, FalconKeys
  <2> QED
    BY <2>3 DEF KeyOf, WholeKey
<1>2. CASE blob.family = "mceliece"
  <2>1. blob.seed = None /\ blob.raw = pair /\ blob.pub = pair /\ blob.choice = FALSE
    BY <1>2 DEF WholeFile, SeedFamily, MlFamily, Derivable, Blob
  <2>2. WellFormed(blob)
    <3>1. (blob.family \in MlFamily) = FALSE
      BY <1>2 DEF MlFamily
    <3> QED
      BY <2>1, <3>1 DEF WellFormed
  <2>3. Loaded(blob) = {McElieceKey(pair, pair)}
    BY <1>2, <2>1, <2>2 DEF Loaded
  <2> QED
    BY <2>3 DEF KeyOf, WholeKey, McElieceKey
<1>3. CASE blob.family \notin {"falcon", "mceliece"}
  <2>1. \A k \in Loaded(blob) : WholeKey(k)
    BY <1>3, DerivedIsWhole
  <2>2. \A k \in Loaded(blob) : k.raw = pair
    BY <1>0, <1>3 DEF Loaded, DerivedKeys, KeyOf
  <2>3. ASSUME ~(bare /\ blob.family \in MlFamily),
               ~(blob.family = "frodokem" /\ blob.seed # None /\ blob.raw # None)
        PROVE  Loaded(blob) # {}
    <3>1. blob.choice = (blob.family \in MlFamily)
      BY <2>3 DEF WholeFile, Blob
    <3>2. blob.seed # None /\ blob.raw # None =>
            \/ blob.family \in MlFamily
            \/ blob.family = "slh-dsa" /\ blob.seed = blob.raw
      BY <2>3 DEF WholeFile, SeedFamily
    <3>3. WellFormed(blob)
      BY <3>1, <3>2 DEF WellFormed, WholeFile
    <3>4. blob.pub \in {None, KeyOf(blob.family, blob.seed, Secret(blob)).pub}
      BY <1>0 DEF WholeFile, KeyOf
    <3> QED
      BY <1>3, <3>3, <3>4 DEF Loaded, DerivedKeys
  <2> QED
    BY <2>1, <2>2, <2>3
<1> QED
  BY <1>1, <1>2, <1>3

-----------------------------------------------------------------------------
LEMMA InitInv == Init => KeyStoreInv
BY DEF Init, KeyStoreInv, TypeOK

\* generate_key makes one pair.
LEMMA GenerateInv ==
  ASSUME KeyStoreInv, NEW family \in Family, NEW pair \in Pair, Generate(family, pair)
  PROVE  KeyStoreInv'
<1>1. key' \in Key
  BY KeyOfIsKey DEF Generate, NewKey, Half
<1>2. WholeKey(key') /\ key'.raw = pair
  BY DEF Generate, NewKey, KeyOf, WholeKey
<1>3. UNCHANGED <<file, fileOwner, exported>> /\ owner' = pair
  BY DEF Generate
<1> QED
  BY <1>1, <1>2, <1>3 DEF KeyStoreInv, TypeOK

\* What save_private_key_one_asym_key writes is a file, and whole if the key is.
LEMMA SavedIsFile ==
  ASSUME NEW k \in Key, NEW saveType \in SaveType, NEW version \in 0 .. 1,
         NEW include \in BOOLEAN, NEW unsafe \in BOOLEAN,
         CanSave(k, saveType, version, include, unsafe)
  PROVE  /\ SavedBlob(k, saveType, version, include) \in Blob
         /\ WholeKey(k) => WholeFile(SavedBlob(k, saveType, version, include), k.raw, FALSE)
<1> DEFINE blob == SavedBlob(k, saveType, version, include)
<1>0. /\ k.family \in Family /\ k.seed \in Half /\ k.raw \in Pair /\ k.pub \in Half
      /\ None \notin Pair
  BY PairAssumption DEF Key
<1>1. /\ blob.family = k.family
      /\ blob.version = version
      /\ blob.choice = (k.family \in MlFamily)
      /\ blob.seed = IF WritesSeed(k.family, saveType) THEN k.seed ELSE None
      /\ blob.raw = IF WritesSeed(k.family, saveType) /\ saveType = "seed" THEN None ELSE k.raw
      /\ blob.pub = IF include \/ version = 1 THEN k.pub ELSE None
  BY DEF SavedBlob, InChoice
<1>2. blob \in [family : Family, version : 0 .. 1, choice : BOOLEAN,
                seed : Half, raw : Half, pub : Half]
  BY <1>0 DEF SavedBlob, InChoice, Half
<1>3. blob.seed # None \/ blob.raw # None
  BY <1>0, <1>1 DEF CanSave
<1>4. blob.choice => blob.family \in MlFamily
  BY <1>1
<1>5. blob \in Blob
  BY <1>2, <1>3, <1>4 DEF Blob
<1>6. ASSUME WholeKey(k) PROVE WholeFile(blob, k.raw, FALSE)
  <2>1. blob.seed \in {None, k.raw} /\ blob.raw \in {None, k.raw} /\ blob.pub \in {None, k.raw}
    BY <1>1, <1>6 DEF WholeKey
  <2>2. blob.seed # None => blob.family \in SeedFamily
    BY <1>1, <1>6 DEF WholeKey
  <2>3. blob.family \notin Derivable => blob.pub = k.raw
    BY <1>1, <1>6 DEF WholeKey, CanSave, KeepsPublic
  <2>4. blob.family \in MlFamily /\ ~FALSE <=> blob.choice
    BY <1>1
  <2> HIDE DEF blob
  <2> QED
    BY <2>1, <2>2, <2>3, <2>4 DEF WholeFile
<1> QED
  BY <1>5, <1>6

LEMMA SaveInv ==
  ASSUME KeyStoreInv, NEW saveType \in SaveType, NEW version \in 0 .. 1,
         NEW include \in BOOLEAN, NEW unsafe \in BOOLEAN,
         Save(saveType, version, include, unsafe)
  PROVE  KeyStoreInv'
<1>1. key \in Key /\ CanSave(key, saveType, version, include, unsafe)
  BY DEF Save, KeyStoreInv, TypeOK
<1>2. /\ file' = SavedBlob(key, saveType, version, include)
      /\ fileOwner' = owner /\ exported' = FALSE /\ UNCHANGED <<key, owner>>
  BY DEF Save
<1>3. file' \in Blob /\ (WholeKey(key) => WholeFile(file', key.raw, FALSE))
  BY <1>1, <1>2, SavedIsFile
<1> QED
  BY <1>1, <1>2, <1>3, NothingAssumption DEF KeyStoreInv, TypeOK

\* private_bytes keeps the parts together too.
LEMMA ExportInv ==
  ASSUME KeyStoreInv, Export
  PROVE  KeyStoreInv'
<1>1. key \in Key /\ key.pub # None
  BY DEF Export, KeyStoreInv, TypeOK
<1>2. /\ file' = ExportedBlob(key)
      /\ fileOwner' = owner /\ exported' = TRUE /\ UNCHANGED <<key, owner>>
  BY DEF Export
<1>3. file' \in Blob
  BY <1>1, <1>2, PairAssumption DEF ExportedBlob, Key, Blob, Half
<1>4. ASSUME WholeKey(key) PROVE WholeFile(file', key.raw, TRUE)
  BY <1>2, <1>4 DEF ExportedBlob, WholeKey, WholeFile
<1> QED
  BY <1>1, <1>2, <1>3, <1>4, NothingAssumption DEF KeyStoreInv, TypeOK

\* from_one_asym_key: a whole file gives a whole key, any file one whose public key is
\* checked.
LEMMA LoadInv ==
  ASSUME KeyStoreInv, Load
  PROVE  KeyStoreInv'
<1>1. file \in Blob /\ file # NoFile /\ key' \in Loaded(file)
  BY DEF Load, KeyStoreInv, TypeOK
<1>2. owner' = fileOwner /\ UNCHANGED <<file, fileOwner, exported>>
  BY DEF Load
<1>3. key' \in Key
  BY <1>1, LoadedAreKeys
<1>4. ASSUME fileOwner # Foreign PROVE WholeKey(key') /\ key'.raw = fileOwner
  <2>1. fileOwner \in Pair /\ exported \in BOOLEAN /\ WholeFile(file, fileOwner, exported)
    BY <1>1, <1>4 DEF KeyStoreInv, TypeOK
  <2> QED
    BY <1>1, <2>1, WholeFileLoads
<1>5. ASSUME key'.family \notin {"falcon", "mceliece"} PROVE WholeKey(key')
  <2>1. file.family \notin {"falcon", "mceliece"}
    <3>1. ASSUME file.family = "falcon" PROVE key'.family = "falcon"
      BY <1>1, <3>1 DEF Loaded, FalconKeys, KeyOf
    <3>2. ASSUME file.family = "mceliece" PROVE key'.family = "mceliece"
      BY <1>1, <3>2 DEF Loaded, McElieceKey, KeyOf
    <3> QED
      BY <1>5, <3>1, <3>2
  <2> QED
    BY <1>1, <2>1, DerivedIsWhole
<1> QED
  BY <1>1, <1>2, <1>3, <1>4, <1>5 DEF KeyStoreInv, TypeOK

LEMMA ReplaceInv ==
  ASSUME KeyStoreInv, NEW blob \in Blob, Replace(blob)
  PROVE  KeyStoreInv'
BY DEF KeyStoreInv, TypeOK, Replace

\* from_private_bytes: a key of a family with a derivable public half stays the pair it is.
LEMMA RestoreInv ==
  ASSUME KeyStoreInv, Restore
  PROVE  KeyStoreInv'
<1>1. key \in Key /\ key # NoKey /\ key' \in FromRaw(key.family, key.raw)
  BY DEF Restore, KeyStoreInv, TypeOK
<1>2. /\ owner' = IF key.family \in Unrestored THEN Foreign ELSE owner
      /\ UNCHANGED <<file, fileOwner, exported>>
  BY DEF Restore
<1>3. key.family \in Family /\ key.raw \in Pair /\ None \in Half
  BY <1>1 DEF Key, Half
<1>4. CASE key.family = "falcon"
  <2>1. key' \in FalconKeys(key.raw, None)
    BY <1>1, <1>4 DEF FromRaw
  <2>2. key' \in Key
    BY <1>3, <1>4, <2>1, FalconKeysAreKeys
  <2>3. key'.family = "falcon"
    BY <2>1 DEF FalconKeys, KeyOf
  <2> QED
    BY <1>2, <1>4, <2>2, <2>3 DEF KeyStoreInv, TypeOK, Unrestored
<1>5. CASE key.family = "mceliece"
  <2>1. key' = McElieceKey(key.raw, None)
    BY <1>1, <1>5 DEF FromRaw
  <2>2. key' \in Key
    BY <1>3, <1>5, <2>1, McElieceKeyIsKey
  <2>3. key'.family = "mceliece"
    BY <2>1 DEF McElieceKey, KeyOf
  <2> QED
    BY <1>2, <1>5, <2>2, <2>3 DEF KeyStoreInv, TypeOK, Unrestored
<1>6. CASE key.family \notin Unrestored
  <2>1. key' = KeyOf(key.family, None, key.raw)
    BY <1>1, <1>6 DEF FromRaw, Unrestored
  <2>2. key' \in Key
    BY <1>3, <2>1, KeyOfIsKey
  <2>3. WholeKey(key') /\ key'.raw = key.raw
    BY <2>1 DEF KeyOf, WholeKey
  <2>4. owner' = owner
    BY <1>2, <1>6
  <2> QED
    BY <1>1, <1>2, <2>2, <2>3, <2>4 DEF KeyStoreInv, TypeOK
<1> QED
  BY <1>4, <1>5, <1>6 DEF Unrestored

THEOREM KeyStoreInductive == Spec => []KeyStoreInv
<1>1. KeyStoreInv /\ [Next]_vars => KeyStoreInv'
  <2> SUFFICES ASSUME KeyStoreInv, [Next]_vars PROVE KeyStoreInv'
    OBVIOUS
  <2>1. CASE UNCHANGED vars
    BY <2>1 DEF vars, KeyStoreInv, TypeOK
  <2>2. CASE Next
    BY <2>2, GenerateInv, SaveInv, ExportInv, LoadInv, ReplaceInv, RestoreInv DEF Next
  <2> QED
    BY <2>1, <2>2
<1> QED
  BY <1>1, InitInv, PTL DEF Spec

-----------------------------------------------------------------------------
\* Keys and files keep their shape through every save, export, load and replacement.
THEOREM KeyStoreTypeOK == Spec => []TypeOK
<1>1. KeyStoreInv => TypeOK
  BY DEF KeyStoreInv
<1> QED
  BY <1>1, KeyStoreInductive, PTL

\* A key in use is one key pair, whatever the file it came from was put together from.
THEOREM KeyStoreOnePair == Spec => []KeyIsOnePair
<1>1. KeyStoreInv => KeyIsOnePair
  <2>1. \A k : WholeKey(k) => OnePair(k)
    BY DEF WholeKey, OnePair
  <2> QED
    BY <2>1 DEF KeyStoreInv, KeyIsOnePair, Unrestored
<1> QED
  BY <1>1, KeyStoreInductive, PTL

\* Loading a file of the program's own does not lose the seed in it.
THEOREM KeyStoreSeedSurvives == Spec => []SeedSurvives
<1>1. KeyStoreInv => SeedSurvives
  <2> SUFFICES ASSUME KeyStoreInv, file # NoFile, fileOwner # Foreign, file.seed # None,
                      NEW k \in Loaded(file)
               PROVE  CanSave(k, "seed", 1, TRUE, FALSE)
    BY DEF SeedSurvives
  <2>1. file \in Blob /\ WholeFile(file, fileOwner, exported)
    BY DEF KeyStoreInv, TypeOK
  <2>2. file.family \notin {"falcon", "mceliece"}
    BY <2>1 DEF WholeFile, SeedFamily, MlFamily
  <2>3. k.seed = file.seed
    BY <2>1, <2>2 DEF Loaded, DerivedKeys, KeyOf
  <2> QED
    BY <2>3 DEF CanSave, KeepsPublic
<1> QED
  BY <1>1, KeyStoreInductive, PTL

\* The program's own files load, and give the generated pair back.
THEOREM KeyStoreOwnFileLoads == Spec => []OwnFileLoads
<1>1. KeyStoreInv => OwnFileLoads
  <2> SUFFICES ASSUME KeyStoreInv, file # NoFile, fileOwner # Foreign, ~Unreadable(file)
               PROVE  Loaded(file) # {} /\ \A k \in Loaded(file) : OnePair(k) /\ k.used = fileOwner
    BY DEF OwnFileLoads
  <2>1. /\ file \in Blob /\ fileOwner \in Pair /\ exported \in BOOLEAN
        /\ WholeFile(file, fileOwner, exported)
    BY DEF KeyStoreInv, TypeOK
  <2>2. Loaded(file) # {}
    BY <2>1, WholeFileLoads DEF Unreadable
  <2>3. \A k \in Loaded(file) : WholeKey(k) /\ k.raw = fileOwner
    BY <2>1, WholeFileLoads
  <2>4. \A k : WholeKey(k) => OnePair(k) /\ k.used = k.raw
    BY DEF WholeKey, OnePair
  <2> QED
    BY <2>2, <2>3, <2>4
<1> QED
  BY <1>1, KeyStoreInductive, PTL
=============================================================================
