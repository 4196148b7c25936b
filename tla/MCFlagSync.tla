----------------------------- MODULE MCFlagSync -----------------------------
EXTENDS FlagSync
=============================================================================
