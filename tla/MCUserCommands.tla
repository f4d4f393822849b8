--------------------------- MODULE MCUserCommands ---------------------------
EXTENDS UserCommands
=============================================================================
