----------------------------- MODULE MCVirtMem -----------------------------
EXTENDS VirtMem
=============================================================================
