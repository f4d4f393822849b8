----------------------------- MODULE MCSnapshots -----------------------------
EXTENDS Snapshots
=============================================================================
