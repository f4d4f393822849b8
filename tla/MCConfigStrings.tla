--------------------------- MODULE MCConfigStrings ---------------------------
EXTENDS ConfigStrings, TLC
\* Several changes fit into one command, as in the code.
ShortAndLong == "short" :> 1 @@ "long" :> 2 @@ "" :> 1
Names == {"short", "long"}
=============================================================================
