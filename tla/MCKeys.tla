------------------------------- MODULE MCKeys -------------------------------
EXTENDS VapidKeys
=============================================================================
