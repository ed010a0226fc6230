--------------------------- MODULE OneTimeSigner ---------------------------
(***************************************************************************)
(* What a stateful hash-based signing key promises to its user, whatever   *)
(* the family (HSS, XMSS, XMSS^MT): it owns Capacity one-time leaves, hands *)
(* them out in order, each at most once, and refuses when none is left.    *)
(* HssKey and XmssKey are shown to implement it.                           *)
(***************************************************************************)
EXTENDS Naturals

CONSTANTS Capacity,          \* the number of signatures the key can make: positive
          Unasked, Refused   \* what answer holds before the first call, and after a refusal

VARIABLES
  next,                 \* the leaf the next signature will consume
  answer                \* the outcome of the latest call of sign

vars == <<next, answer>>

Init == next = 0 /\ answer = Unasked

\* A signature consumes the next leaf and carries its index.
Issue == /\ next < Capacity
         /\ next' = next + 1
         /\ answer' = next

\* With all leaves consumed a call of sign yields no valid signature.
Refuse == /\ next = Capacity
          /\ answer' = Refused
          /\ UNCHANGED next

Next == Issue \/ Refuse

Spec == Init /\ [][Next]_vars
=============================================================================
