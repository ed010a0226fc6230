---------------------------- MODULE MCHssModify ----------------------------
EXTENDS HssModify
=============================================================================
