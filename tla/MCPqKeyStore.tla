---------------------------- MODULE MCPqKeyStore ----------------------------
EXTENDS PqKeyStore, TLC

Symmetry == Permutations(Pair)
=============================================================================
