------------------------------ MODULE MCReload ------------------------------
EXTENDS Runtime
=============================================================================
