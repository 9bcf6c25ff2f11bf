----------------------------- MODULE MCServer -----------------------------
EXTENDS Server
=============================================================================
