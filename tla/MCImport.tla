------------------------------ MODULE MCImport ------------------------------
EXTENDS ImportJob
=============================================================================
