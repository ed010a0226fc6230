----------------------------- MODULE HssModify -----------------------------
(***************************************************************************)
(* modify_pq_stateful_sig_private_key on an HSS key: the helper that        *)
(* rewrites a key's counters for negative and exhaustion tests.            *)
(***************************************************************************)
EXTENDS HssKey

CONSTANT TreeBound    \* a rewound key replaces trees for ever: no signature past this many

VARIABLE call       \* the latest call: its arguments and whether it raised

mvars == <<vars, call>>

None == -1
Idle == [lastIndex |-> FALSE, index |-> None, usedIndex |-> FALSE, raised |-> FALSE, modify |-> FALSE]

\* The library's counter of an inner tree is only driven within its tree: what
\* pyhsslms makes of a larger one is not pinned by this repository.
Target(lastIndex, index) ==
  IF index = None THEN MaxSignatures ELSE IF lastIndex THEN MaxSignatures - 1 ELSE index

Modified(key, target) ==
  [key EXCEPT !.q = IF target >= MaxSignatures
                    THEN [i \in Level |-> LeavesPerTree]
                    ELSE [@ EXCEPT ![1] = target]]

ModifyIndex(lastIndex, index) ==
  LET target == Target(lastIndex, index)
  IN  /\ target <= LeavesPerTree \/ target >= MaxSignatures
      /\ hss' = Modified(privateKeyBytes, target)
      /\ privateKeyBytes' = hss'
      /\ usedSignatures' = <<>>
      /\ call' = [lastIndex |-> lastIndex, index |-> index, usedIndex |-> FALSE,
                  raised |-> FALSE, modify |-> TRUE]
      /\ UNCHANGED <<fresh, answer, issued>>

\* used_index: the entry of used_keys at index, the last one without an index, goes
\* to from_private_bytes.  An HSS entry is the four bytes of a leaf number: it holds
\* no tree, so from_private_bytes raises and no key comes back.
ModifyUsed(index) ==
  /\ usedSignatures # <<>>
  /\ index < Len(usedSignatures)
  /\ call' = [lastIndex |-> FALSE, index |-> index, usedIndex |-> TRUE,
              raised |-> TRUE, modify |-> TRUE]
  /\ UNCHANGED vars

ModifyInit == Init /\ call = Idle

ModifyNext ==
  \/ \E message \in Message : fresh < TreeBound /\ Sign(message) /\ call' = Idle
  \/ \E lastIndex \in BOOLEAN, index \in None .. MaxSignatures : ModifyIndex(lastIndex, index)
  \/ \E index \in None .. Len(usedSignatures) : ModifyUsed(index)

ModifySpec == ModifyInit /\ [][ModifyNext]_mvars

-----------------------------------------------------------------------------
\* "last_index: Set the counter to max_sig_size - 1 (one sign left)."
LastIndexLeavesOne ==
  call.modify /\ call.lastIndex => SigsRemaining(hss) = 1
=============================================================================
