----------------------------- MODULE MCFirstFit -----------------------------
EXTENDS FirstFit
=============================================================================
