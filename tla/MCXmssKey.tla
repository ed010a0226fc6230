----------------------------- MODULE MCXmssKey -----------------------------
EXTENDS XmssKey
=============================================================================
