--------------------------- MODULE HybridKeyStore ---------------------------
(***************************************************************************)
(* A hybrid private key object and its OneAsymmetricKey (hybrid_factory.py):*)
(* the combinations that can be generated or put together, the octets each  *)
(* family saves and exports, and what from_one_asym_key makes of octets,    *)
(* the program's own or put together elsewhere out of several keys.  The    *)
(* post-quantum half is a key of PqKeyStore.                               *)
(***************************************************************************)
EXTENDS KemDispatch, FiniteSets

CONSTANTS Family, NoKey, NoFile, Foreign   \* as in PqKeyStore; Family holds the families of the halves

ASSUME HalvesAssumption == {"ml-dsa", "ml-kem", "frodokem", "sntrup761", "mceliece"} \subseteq Family
ASSUME AbsenceAssumption == None \notin Pair
ASSUME FinitenessAssumption == IsFiniteSet(Pair) /\ IsFiniteSet(Coin)

VARIABLES
  alg,        \* the algorithm the caller works with
  key,        \* the private key object in use
  file,       \* the file it is saved to and loaded from
  owner,      \* history: the pairs of the two halves of key; Foreign after a foreign file
  fileOwner,  \* history: the owner of the key the file was written from
  exported    \* history: the file was written by private_bytes

vars == <<alg, key, file, owner, fileOwner, exported>>

Pq == INSTANCE PqKeyStore

SaveType == {"seed", "raw", "seed_and_raw"}
Composite == {"composite-sig", "composite-kem"}

-----------------------------------------------------------------------------
\* The combinations in the order of the tables, one parameter set of each algorithm.
Combinations == [family \in Composite \cup {"chempat"} |->
  CASE family = "composite-sig" ->
         << <<"ml-dsa", "rsa">>, <<"ml-dsa", "ed25519">>, <<"ml-dsa", "ecdsa">> >>
    [] family = "composite-kem" ->
         << <<"ml-kem", "ecdh">>, <<"ml-kem", "rsa">>, <<"ml-kem", "x25519">> >>
    [] OTHER ->
         << <<"sntrup761", "x25519">>, <<"mceliece", "x25519">>, <<"ml-kem", "x25519">>,
            <<"ml-kem", "ecdh">>, <<"frodokem", "x25519">>, <<"frodokem", "ecdh">> >>]

\* default_comb
Default(family) ==
  CASE family = "composite-sig" -> <<"ml-dsa", "rsa">>
    [] OTHER                    -> <<"ml-kem", "x25519">>

\* allowed_keys of from_keys.
AllowedTrad(family) ==
  CASE family = "composite-sig" -> {"rsa", "rsa-odd", "ecdsa", "ed25519"}
    [] family = "composite-kem" -> {"rsa", "rsa-odd", "ecdh", "x25519"}
    [] OTHER                    -> {"ecdh", "x25519"}

\* The size of an RSA key is rounded to a registered one.
Rounded(trad) == IF trad = "rsa-odd" THEN "rsa" ELSE trad

\* _get_valid_hybrid_combination: the first entry that fits, or none.
ValidCombination(family, pq, trad) ==
  LET table == Combinations[family]
      fits  == {i \in DOMAIN table : pq \in {None, table[i][1]} /\ trad \in {None, table[i][2]}}
  IN  {table[i] : i \in {i \in fits : \A j \in fits : i <= j}}

\* generate_hybrid_key by the names of its halves.
Generated(family, pq, trad) ==
  {[family |-> family, pq |-> c[1], trad |-> c[2]] :
     c \in IF pq = None /\ trad = None THEN {Default(family)} ELSE ValidCombination(family, pq, trad)}

\* from_keys: of two halves only the name of the post-quantum one is looked up.
Assembled(family, pq, trad) ==
  {[family |-> family, pq   |-> IF pq = None THEN c[1] ELSE pq,
                       trad |-> IF trad = None THEN c[2] ELSE trad] :
     c \in ValidCombination(family, pq, IF pq = None THEN Rounded(trad) ELSE None)}

\* The algorithms a key can have; X-Wing has one.
Algorithms ==
  {[family |-> "xwing", pq |-> "ml-kem", trad |-> "x25519"]} \cup
  UNION {UNION {Generated(family, pq, Rounded(trad)) \cup
                (IF pq = None /\ trad = None THEN {} ELSE Assembled(family, pq, trad)) :
                  pq \in Family \cup {None}, trad \in AllowedTrad(family) \cup {None}} :
         family \in DOMAIN Combinations}

\* get_oid of the private key and of the public key, which does not round.
Registered(a) ==
  a.family # "xwing" => <<a.pq, Rounded(a.trad)>> \in ToSet(Combinations[a.family])
PublicRegistered(a) == Registered(a) /\ a.trad = Rounded(a.trad)

-----------------------------------------------------------------------------
\* The octets of a key, in pieces.
SeedBytes(pq) == CASE pq = "ml-dsa" -> 32 [] OTHER -> 64
RawBytes(pq)  ==
  CASE pq = "ml-dsa" -> 2560 [] pq = "ml-kem" -> 2400 [] pq = "frodokem" -> 31296
    [] pq = "sntrup761" -> 1763 [] OTHER -> 6492
TradKeyBytes(trad) == IF trad \in {"x25519", "ed25519"} THEN 32 ELSE 256

Seed(pair)   == [kind |-> "seed", of |-> pair, bytes |-> SeedBytes(alg.pq)]
Raw(pair)    == [kind |-> "raw", of |-> pair, bytes |-> RawBytes(alg.pq)]
Choice(s, r) == [kind |-> "choice", of |-> <<s, r>>, bytes |-> RawBytes(alg.pq) + 100]
Trad(pair)   == [kind |-> "trad", of |-> pair, bytes |-> TradKeyBytes(alg.trad)]
XSeed(pair)  == [kind |-> "xseed", of |-> pair, bytes |-> 32]
Size(octets) == [kind |-> "size", of |-> Bytes(octets), bytes |-> 4]

\* A key object: its halves, and the octets an X-Wing key keeps as its seed.
KeyOf(pq, trad, xseed) == [pq |-> pq, trad |-> trad, xseed |-> xseed]

\* public_key; None for a McEliece half without its public part, which raises.
PublicOf(k) == IF k.pq.pub = None THEN None ELSE [pq |-> k.pq.pub, trad |-> k.trad]
UsedBy(k) == [pq |-> k.pq.used, trad |-> k.trad]

\* The octets of a public key, whose traditional half a curve encodes in either form.
PqPublicBytes(pq) ==
  CASE pq = "ml-dsa" -> 1312 [] pq = "ml-kem" -> 1184 [] pq = "frodokem" -> 15632
    [] pq = "sntrup761" -> 1158 [] OTHER -> 261120
PublicForms(trad) ==
  CASE trad \in Dh    -> Forms(trad)
    [] trad = "ecdsa" -> Forms("ecdh")
    [] OTHER          -> {"plain"}
OwnForm(trad) == SentForm(IF trad \in {"ecdsa", "ecdh"} THEN "ecdh" ELSE "x25519")

PublicOctets(pub, form) ==
  << [kind |-> "pqpub", of |-> pub.pq, bytes |-> PqPublicBytes(alg.pq)],
     [kind |-> "tradpub", of |-> [pair |-> pub.trad, form |-> form],
      bytes |-> IF alg.trad \in {"rsa", "rsa-odd"} THEN 270 ELSE PointBytes[form]] >>

\* XWingPrivateKey.expand: both halves follow from 32 bytes.
Expanded(pair) == KeyOf(Pq!KeyOf("ml-kem", pair, pair), pair, <<XSeed(pair)>>)

-----------------------------------------------------------------------------
\* save_keys_with_support_seed of the post-quantum half, as PqKeyStore has it.
PqOctets(k, saveType) ==
  LET writesSeed == Pq!WritesSeed(alg.pq, saveType)
      blob == Pq!SavedBlob(k.pq, saveType, 0, FALSE)
  IN  IF blob.choice THEN <<Choice(blob.seed, blob.raw)>>
      ELSE (IF writesSeed THEN <<Seed(k.pq.seed)>> ELSE <<>>)
           \o (IF writesSeed /\ saveType = "seed" THEN <<>> ELSE <<Raw(k.pq.raw)>>)

Chempat(pqOctets, pair) == <<Size(pqOctets)>> \o pqOctets \o <<Trad(pair)>>

\* Mutant of SavedOctets: the size of a Chempat key counts the traditional half too.
SavedOctetsSizeOfBoth(k, saveType) ==
  <<Size(PqOctets(k, saveType) \o <<Trad(k.trad)>>)>> \o PqOctets(k, saveType) \o <<Trad(k.trad)>>

\* _save_keys_with_support_seed.  With seed_and_raw a composite key is written a second time
\* where its post-quantum half should be.
SavedOctets(k, saveType) ==
  LET seed == <<Seed(k.pq.seed)>>
      raw  == <<Raw(k.pq.raw)>>
      trad == <<Trad(k.trad)>>
  IN  CASE alg.family = "chempat"  -> Chempat(PqOctets(k, saveType), k.trad)
        [] alg.family = "xwing"    -> (IF saveType = "raw" THEN <<>> ELSE k.xseed)
                                      \o (IF saveType = "seed" THEN <<>> ELSE raw \o trad)
        [] OTHER                   -> IF saveType = "seed_and_raw" THEN seed \o seed \o trad \o trad
                                      ELSE (IF saveType = "seed" THEN seed ELSE raw) \o trad

\* A seed that is asked for has to be there, a composite signature key has no
\* private_bytes_raw, and a public key that is written needs its identifier.
CanSave(k, saveType, version, include) ==
  /\ Registered(alg)
  /\ Pq!WritesSeed(alg.pq, saveType) => k.pq.seed # None
  /\ alg.family = "composite-sig" => saveType # "seed_and_raw"
  /\ alg.family = "xwing" /\ saveType # "raw" => k.xseed # <<>>
  /\ version = 1 \/ include => PublicOf(k) # None /\ PublicRegistered(alg)

\* _export_private_key: Chempat writes the raw bytes bare, without the Choice of ML-KEM.
CanExport(k) == Registered(alg) /\ (alg.family \in Composite => k.pq.seed # None)
ExportedOctets(k) ==
  CASE alg.family = "chempat" -> Chempat(<<Raw(k.pq.raw)>>, k.trad)
    [] alg.family = "xwing"   -> IF k.xseed # <<>> THEN k.xseed ELSE <<Raw(k.pq.raw), Trad(k.trad)>>
    [] OTHER                  -> <<Seed(k.pq.seed), Trad(k.trad)>>

-----------------------------------------------------------------------------
Matches(octets, kinds) == Len(octets) = Len(kinds) /\ \A i \in DOMAIN octets : octets[i].kind = kinds[i]

\* _load_composite_sig_from_private_bytes and _load_composite_kem_from_private_bytes: the seed
\* of a generated key measures the first half.
LoadedComposite(octets) ==
  {KeyOf(Pq!KeyOf(alg.pq, s[1][1].of, s[1][1].of), s[2][1].of, <<>>) :
     s \in {s \in Split(octets, SeedBytes(alg.pq)) :
              Matches(s[1], <<"seed">>) /\ Matches(s[2], <<"trad">>)}}

\* Mutant of LoadedXWing: the key that was stored beside the seed is not compared with it.
LoadedXWingUncompared(octets) ==
  IF Bytes(octets) = 2464
  THEN {KeyOf(Pq!KeyOf("ml-kem", None, octets[2].of), octets[3].of, <<octets[1]>>)}
  ELSE {}

\* XWingPrivateKey.from_private_bytes: the length tells the form.
LoadedXWing(octets) ==
  CASE Bytes(octets) = 96   -> {KeyOf(Pq!KeyOf("ml-kem", octets[1].of, octets[1].of), octets[2].of, <<>>)}
    [] Bytes(octets) = 32   -> {Expanded(octets[1].of)}
    [] Bytes(octets) = 2432 -> {KeyOf(Pq!KeyOf("ml-kem", None, octets[1].of), octets[2].of, <<>>)}
    [] Bytes(octets) = 2464 -> {k \in {Expanded(octets[1].of)} :
                                  k.pq.raw = octets[2].of /\ k.trad = octets[3].of}
    [] OTHER                -> {}

\* The OneAsymmetricKey that _load_pq_key makes of the octets of the first half.
PqBlob(octets) ==
  LET of(kind) == IF \E i \in DOMAIN octets : octets[i].kind = kind
                  THEN octets[CHOOSE i \in DOMAIN octets : octets[i].kind = kind].of ELSE None
      choice == Matches(octets, <<"choice">>)
  IN  [family |-> alg.pq, version |-> 0, choice |-> choice, pub |-> None,
       seed |-> IF choice THEN octets[1].of[1] ELSE of("seed"),
       raw  |-> IF choice THEN octets[1].of[2] ELSE of("raw")]

\* _load_chempat_private_key
LoadedChempat(octets) ==
  UNION {{KeyOf(pq, s[2][1].of, <<>>) : pq \in Pq!Loaded(PqBlob(s[1]))} :
         s \in {s \in Split(Tail(octets), octets[1].of) : s[1] # <<>> /\ Matches(s[2], <<"trad">>)}}

LoadedPrivate(octets) ==
  CASE alg.family = "chempat" -> LoadedChempat(octets)
    [] alg.family = "xwing"   -> LoadedXWing(octets)
    [] OTHER                  -> LoadedComposite(octets)

\* load_hybrid_public_key_from_spki: only a combination with an identifier can be read, and
\* from_public_bytes of Chempat asks for it once more.  The size of the post-quantum half cuts,
\* and what follows has to be one traditional key without a rest.  A point is read from either
\* form; the highest bit of an X25519 key stays in the key.
LoadedPublic(octets) ==
  {[pq   |-> s[1][1].of,
    trad |-> IF s[2][1].of.form = "high bit" THEN s[2][1].of ELSE s[2][1].of.pair] :
     s \in {s \in Split(octets, PqPublicBytes(alg.pq)) :
              Registered(alg) /\ Matches(s[1], <<"pqpub">>) /\ Matches(s[2], <<"tradpub">>)}}

\* The public key of k once it was written, for which _to_spki asks it for its identifier, and
\* loaded.
HandedOut(k) ==
  IF PublicRegistered(alg) THEN LoadedPublic(PublicOctets(PublicOf(k), OwnForm(alg.trad))) ELSE {}

\* The public key in the file is compared with the key's own, after a Chempat key was handed
\* the post-quantum half of it.
TakesPublic(k, pub) == IF alg.family = "chempat" THEN [k EXCEPT !.pq.pub = pub.pq] ELSE k

\* Mutant of Loaded: a public key in the file is not compared.
LoadedUnchecked(blob) ==
  IF blob.public = None THEN LoadedPrivate(blob.private)
  ELSE {TakesPublic(k, pub) : k \in LoadedPrivate(blob.private), pub \in LoadedPublic(blob.public)}

\* from_one_asym_key
Loaded(blob) ==
  IF blob.public = None THEN LoadedPrivate(blob.private)
  ELSE UNION {{k \in {TakesPublic(k, pub) : k \in LoadedPrivate(blob.private)} : PublicOf(k) = pub} :
                pub \in LoadedPublic(blob.public)}

-----------------------------------------------------------------------------
Init ==
  /\ alg \in Algorithms
  /\ key = NoKey
  /\ file = NoFile
  /\ owner = Foreign
  /\ fileOwner = Foreign
  /\ exported = FALSE

Owned(k, pairs) == key' = k /\ owner' = pairs /\ UNCHANGED <<alg, file, fileOwner, exported>>

\* A generated or assembled key: the halves are keys as their factories make and load them.
Make(pqPair, tradPair, seeded) ==
  LET pq == Pq!NewKey(alg.pq, pqPair)
  IN  Owned(KeyOf(IF seeded THEN pq ELSE [pq EXCEPT !.seed = None], tradPair, <<>>),
            [pq |-> pqPair, trad |-> tradPair])

\* XWingPrivateKey.generate from 32 bytes, and from_seed with 96, which it keeps.
MakeXWing(pair) ==
  /\ alg.family = "xwing"
  /\ Owned(Expanded(pair), [pq |-> pair, trad |-> pair])

MakeXWingExpanded(pqPair, tradPair) ==
  /\ alg.family = "xwing"
  /\ Owned(KeyOf(Pq!NewKey("ml-kem", pqPair), tradPair, <<Seed(pqPair), Trad(tradPair)>>),
           [pq |-> pqPair, trad |-> tradPair])

Written(octets, public, byExport) ==
  /\ file' = [private |-> octets, public |-> public]
  /\ fileOwner' = owner
  /\ exported' = byExport
  /\ UNCHANGED <<alg, key, owner>>

\* save_private_key_one_asym_key.  save_key passes version 1.
Save(saveType, version, include) ==
  /\ key # NoKey
  /\ CanSave(key, saveType, version, include)
  /\ Written(SavedOctets(key, saveType),
             IF version = 1 \/ include THEN PublicOctets(PublicOf(key), OwnForm(alg.trad)) ELSE None,
             FALSE)

\* private_bytes
Export ==
  /\ key # NoKey
  /\ CanExport(key)
  /\ Written(ExportedOctets(key), None, TRUE)

\* load_private_key_from_file, whose hybrid keys from_one_asym_key makes.
Load ==
  /\ file # NoFile
  /\ \E k \in Loaded(file) : key' = k
  /\ owner' = fileOwner
  /\ UNCHANGED <<alg, file, fileOwner, exported>>

\* ChempatPrivateKey.from_private_bytes on the octets of _export_private_key.
RestoreChempat ==
  /\ key # NoKey
  /\ alg.family = "chempat"
  /\ \E pq \in Pq!FromRaw(alg.pq, key.pq.raw) : key' = KeyOf(pq, key.trad, <<>>)
  /\ UNCHANGED <<alg, file, owner, fileOwner, exported>>

\* Private keys put together out of parts of several, in every form that is read.
ForeignPrivate ==
  CASE alg.family = "chempat" ->
         {Chempat(octets, t) : t \in Pair, octets \in
            {<<Raw(p)>> : p \in Pair} \cup {<<Seed(p)>> : p \in Pair}
            \cup {<<Choice(p, r)>> : p \in Pair \cup {None}, r \in Pair}}
    [] alg.family = "xwing" ->
         {<<XSeed(p)>> : p \in Pair}
         \cup {<<half, Trad(t)>> : half \in {Seed(p) : p \in Pair} \cup {Raw(p) : p \in Pair}, t \in Pair}
         \cup {<<XSeed(s), Raw(p), Trad(t)>> : s \in Pair, p \in Pair, t \in Pair}
    [] OTHER -> {<<Seed(p), Trad(t)>> : p \in Pair, t \in Pair}

\* Public keys of any two pairs in any form, one that was cut short and one with a rest.
ForeignPublic ==
  LET whole == {PublicOctets(pub, form) : pub \in [pq : Pair, trad : Pair], form \in PublicForms(alg.trad)}
      rest  == [kind |-> "rest", of |-> None, bytes |-> 1]
  IN  whole \cup {Front(octets) : octets \in whole} \cup {Append(octets, rest) : octets \in whole}

Replace(private, public) ==
  /\ Registered(alg)
  /\ file' = [private |-> private, public |-> public]
  /\ fileOwner' = Foreign
  /\ exported' = FALSE
  /\ UNCHANGED <<alg, key, owner>>

Next ==
  \/ \E p \in Pair, t \in Pair, seeded \in BOOLEAN : Make(p, t, seeded)
  \/ \E p \in Pair : MakeXWing(p)
  \/ \E p \in Pair, t \in Pair : MakeXWingExpanded(p, t)
  \/ \E saveType \in SaveType, version \in 0 .. 1, include \in BOOLEAN : Save(saveType, version, include)
  \/ Export
  \/ Load
  \/ RestoreChempat
  \/ \E private \in ForeignPrivate, public \in ForeignPublic \cup {None} :
       Replace(private, public)

Spec == Init /\ [][Next]_vars

-----------------------------------------------------------------------------
\* The fields of a key object: the seed an X-Wing key keeps is the one both halves expand from,
\* whichever of the four lengths it was read from (XWingPrivateKey.from_private_bytes, from_seed).
TypeOK ==
  /\ alg \in Algorithms
  /\ key # NoKey =>
       /\ key.pq \in Pq!Key /\ key.pq.family = alg.pq
       /\ key.trad \in Pair
       /\ \A piece \in ToSet(key.xseed) :
            /\ alg.family = "xwing"
            /\ piece.kind # "trad" => piece.of = key.pq.used
            /\ piece.kind # "seed" => piece.of = key.trad
  /\ file # NoFile => file.public \in ForeignPublic \cup {None}

\* What the library writes and does not read back: composite keys without the seed alone in
\* front, both parts of a FrodoKEM half, the bare ML-KEM half of private_bytes, and X-Wing's
\* 96 bytes with the raw key after them.
Unreadable(f) ==
  \/ alg.family \in Composite /\ ~Matches(f.private, <<"seed", "trad">>)
  \/ alg.family = "chempat" /\ alg.pq = "frodokem" /\ Len(f.private) = 4
  \/ alg.family = "chempat" /\ alg.pq = "ml-kem" /\ exported
  \/ alg.family = "xwing" /\ Bytes(f.private) = 2528

\* However a hybrid key was made, saved, exported, restored and loaded before, its own file
\* loads and gives back its two halves and its public key (save_private_key_one_asym_key,
\* private_bytes, from_one_asym_key): the cuts fall where the writer put the parts.
OwnFileLoads ==
  file # NoFile /\ fileOwner # Foreign /\ ~Unreadable(file) =>
    /\ Loaded(file) # {}
    /\ \A k \in Loaded(file) :
         UsedBy(k) = fileOwner /\ (file.public # None => PublicOf(k) = fileOwner)

\* A file that was put together elsewhere is refused unless its public key belongs to the
\* private halves in it (from_one_asym_key); of Chempat only the traditional half is compared.
AcceptedIsOnePair ==
  file # NoFile /\ file.public # None =>
    \A k \in Loaded(file) : \E pub \in LoadedPublic(file.public) :
      /\ k.trad = pub.trad
      /\ alg.family # "chempat" => k.pq.used = pub.pq

\* The same for both halves of every family.
ForeignPublicRefused ==
  file # NoFile /\ file.public # None => \A k \in Loaded(file) : UsedBy(k) \in LoadedPublic(file.public)

Opened(k, ct) == IF PublicOf(k) = None THEN {} ELSE Decaps(alg, UsedBy(k), PublicOf(k), ct)

\* A public key can be written and loaded exactly when its combination has an identifier:
\* from_keys looks up one half only and assembles others, and an RSA key of odd size has one for
\* the private key alone.  A key in use, and each half of it used on its own, opens what is
\* encapsulated to its public key, whether that was kept or was written and loaded, through
\* whatever files the private key went and whatever their parts were
\* (load_hybrid_public_key_from_spki, compute_encaps, compute_decaps); of Chempat keys those that
\* did not come from somebody else's file.  Only a bare DH key cannot be given back to
\* compute_decaps, and only a key without a label cannot be encapsulated to.
OwnCiphertextOpens ==
  key # NoKey /\ alg.family # "composite-sig" /\ PublicOf(key) # None
    /\ (owner # Foreign \/ alg.family # "chempat") =>
      /\ PublicRegistered(alg) => HandedOut(key) # {}
      /\ \A pub \in HandedOut(key) \cup {PublicOf(key)}, private \in Objects(alg, UsedBy(key)),
           length \in KeyLength, other \in Pair \cup {None}, coin \in Coin, drawn \in Pair :
           LET made == ComputeEncaps([private EXCEPT !.pq = pub.pq, !.trad = pub.trad],
                                     other, length, coin, drawn)
           IN  /\ other = None /\ made = {} => private.class = "composite-kem" /\ ~HasLabel(alg)
               /\ \A e \in made : ComputeDecaps(private, PublicOf(key), e.ct, length)
                                   = IF private.class \in BareDh THEN {} ELSE {e.ss}

\* No two ciphertexts that a key opens have one secret, although one point has two encodings and
\* parts of several ciphertexts may be put together (kem_combiner): each combiner hashes what
\* tells them apart.  X-Wing does not read what follows its 1120 bytes.
CiphertextBound ==
  key # NoKey /\ alg.family # "composite-sig" =>
    LET opened == {ct \in Arriving(alg) : Opened(key, ct) # {}}
    IN  Cardinality(UNION {Opened(key, ct) : ct \in opened}) = Cardinality({Read(alg, ct) : ct \in opened})
=============================================================================
