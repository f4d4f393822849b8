---------------------------- MODULE MCConnection ----------------------------
EXTENDS ConnectionInv
=============================================================================
