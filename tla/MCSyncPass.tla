----------------------------- MODULE MCSyncPass -----------------------------
EXTENDS SyncPass
=============================================================================
