------------------------------ MODULE IdealKem ------------------------------
(***************************************************************************)
(* What encapsulation and decapsulation promise together: every ciphertext  *)
(* given to a key pair has one answer, and the secrets of two questions are *)
(* equal only if the questions are.  An answer is what encapsulation hands  *)
(* out or what decapsulation returns.                                      *)
(***************************************************************************)
EXTENDS FiniteSets

VARIABLE answers    \* records with fields pair, ct and ss

SameQuestion(a, b) == a.pair = b.pair /\ a.ct = b.ct

Init == answers = {}

\* A question is answered with its own secret, whoever asks and however often.
Answer(a) ==
  /\ \A b \in answers : SameQuestion(a, b) <=> a.ss = b.ss
  /\ answers' = answers \cup {a}

Next == \E a \in answers' : Answer(a)

Spec == Init /\ [][Next]_answers
=============================================================================
