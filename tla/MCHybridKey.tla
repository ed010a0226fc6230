---------------------------- MODULE MCHybridKey -----------------------------
EXTENDS HybridKeyStore, TLC
Symmetry == Permutations(Pair)
=============================================================================
