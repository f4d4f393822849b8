------------------------- MODULE MCReliableCommands -------------------------
EXTENDS ReliableCommands, TLC
MCMaxAdded == "client" :> 3 @@ "server" :> 3
=============================================================================
