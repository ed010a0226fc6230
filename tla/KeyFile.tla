------------------------------ MODULE KeyFile ------------------------------
(***************************************************************************)
(* One stateful private key kept in one PEM file across process crashes:    *)
(* save_key, load_private_key_from_file and the live key object.  save_key  *)
(* serialises the live key, then opens the file for writing in place, which *)
(* empties it, then writes; a crash or a failed write between leaves a file *)
(* that does not decode.                                                   *)
(*                                                                         *)
(* The library leaves the order of signing and saving to its caller.  The   *)
(* caller modelled here is the careful one: a signature leaves the process  *)
(* only after a save that completed since it was made.                     *)
(***************************************************************************)
EXTENDS HssTree

CONSTANTS Absent, Torn,     \* a file that does not exist, and one that does not decode
          NoKey,            \* no live key, and no serialised image in hand
          CrashBound        \* the number of crashes explored

ASSUME FileAssumption == {Absent, Torn, NoKey} \cap KeyState = {} /\ Absent # Torn

VARIABLES
  file,        \* the key file: Absent, Torn or the key state it holds
  live,        \* the live key object of the process
  image,       \* the bytes save_key holds between open and write
  unsaved,     \* signatures made since the last completed save
  saved,       \* signatures covered by a completed save, not yet released
  released,    \* history: the leaves shown in use by every released signature
  nextTree,    \* the number of the next tree pyhsslms draws
  crashes

fileVars == <<file, live, image, unsaved, saved, released, nextTree, crashes>>

FileTypeOK ==
  /\ file \in {Absent, Torn} \cup KeyState
  /\ live \in {NoKey} \cup KeyState
  /\ image \in {NoKey} \cup KeyState
  /\ unsaved \subseteq Signatures(Message)
  /\ saved \subseteq Signatures(Message)
  /\ released \subseteq [tree : Nat, leaf : 0 .. LeavesPerTree - 1, signs : Nat \cup Message]
  /\ nextTree \in Nat
  /\ crashes \in Nat

-----------------------------------------------------------------------------
FileInit ==
  /\ file = Absent
  /\ live = NoKey
  /\ image = NoKey
  /\ unsaved = {}
  /\ saved = {}
  /\ released = {}
  /\ nextTree = 0
  /\ crashes = 0

\* generate_key: when there is no key to load.
Generate ==
  /\ live = NoKey
  /\ file \in {Absent, Torn}
  /\ live' = NewKey(nextTree)
  /\ nextTree' = nextTree + Levels
  /\ UNCHANGED <<file, image, unsaved, saved, released, crashes>>

\* Mutant of Load: the content is not checked.
LoadUnchecked ==
  /\ live = NoKey
  /\ file # Absent
  /\ live' = file
  /\ UNCHANGED <<file, image, unsaved, saved, released, nextTree, crashes>>

\* load_private_key_from_file: the live key resumes at the state in the file.  A torn
\* file raises and nothing changes.
Load ==
  /\ live = NoKey
  /\ file \notin {Absent, Torn}
  /\ live' = file
  /\ UNCHANGED <<file, image, unsaved, saved, released, nextTree, crashes>>

SignLive(message) ==
  /\ live # NoKey
  /\ image = NoKey
  /\ CanSign(live)
  /\ live' = AfterSign(live, nextTree)
  /\ nextTree' = FreshAfterSign(live, nextTree)
  /\ unsaved' = unsaved \cup {SignatureOf(live', message)}
  /\ UNCHANGED <<file, image, saved, released, crashes>>

\* Mutant of SaveOpen: serialises the bytes the key was loaded from.
SaveOpenStale ==
  /\ live # NoKey
  /\ image = NoKey
  /\ image' = IF file \in KeyState THEN file ELSE live
  /\ file' = Torn
  /\ UNCHANGED <<live, unsaved, saved, released, nextTree, crashes>>

\* save_key up to open(path, "wb"): _export_private_key serialises the live key.
SaveOpen ==
  /\ live # NoKey
  /\ image = NoKey
  /\ image' = live
  /\ file' = Torn
  /\ UNCHANGED <<live, unsaved, saved, released, nextTree, crashes>>

\* save_key: the write and the close.
SaveWrite ==
  /\ image # NoKey
  /\ file' = image
  /\ image' = NoKey
  /\ saved' = saved \cup unsaved
  /\ unsaved' = {}
  /\ UNCHANGED <<live, released, nextTree, crashes>>

\* The write raises, a full disk say: save_key does not restore the file.
SaveFails ==
  /\ image # NoKey
  /\ image' = NoKey
  /\ UNCHANGED <<file, live, unsaved, saved, released, nextTree, crashes>>

\* The caller hands a saved signature out.
Release(sig) ==
  /\ released' = released \cup LeafUses(sig)
  /\ saved' = saved \ {sig}
  /\ UNCHANGED <<file, live, image, unsaved, nextTree, crashes>>

\* The process dies; only the file and what was handed out remain.
Crash ==
  /\ crashes < CrashBound
  /\ live # NoKey
  /\ live' = NoKey
  /\ image' = NoKey
  /\ unsaved' = {}
  /\ saved' = {}
  /\ crashes' = crashes + 1
  /\ UNCHANGED <<file, released, nextTree>>

FileNext ==
  \/ Generate
  \/ Load
  \/ \E message \in Message : SignLive(message)
  \/ SaveOpen
  \/ SaveWrite
  \/ SaveFails
  \/ \E sig \in saved : Release(sig)
  \/ Crash

FileSpec == FileInit /\ [][FileNext]_fileVars

-----------------------------------------------------------------------------
\* Whatever crashes between signing, opening, writing and releasing: no two released
\* signatures use one leaf for two different things, on any level (save_key,
\* load_private_key_from_file, HSSPrivateKey.sign).
ReleasedLeafSignsOnce == OneTime(released)

\* A loadable file never lags behind what was released: none of the leaves its key
\* would use next has been shown in use.
FileCoversReleased ==
  file \in KeyState => \A use \in released : Spent(file, use)
=============================================================================
