----------------------------- MODULE MCKeyFile -----------------------------
EXTENDS KeyFile, TLC

Symmetry == Permutations(Message)
=============================================================================
