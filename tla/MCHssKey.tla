------------------------------ MODULE MCHssKey ------------------------------
EXTENDS HssKey
=============================================================================
