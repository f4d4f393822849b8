----------------------------- MODULE MCNetChan -----------------------------
(***************************************************************************)
(* NetChan with fragments of two bytes and messages that fit in a packet,  *)
(* that need a fragment and a rest, and that are a multiple of the         *)
(* fragment size.                                                          *)
(***************************************************************************)
EXTENDS NetChan, TLC

CONSTANTS small, odd, even

MCMsg == {small, odd, even}
MCLength == small :> 1 @@ odd :> 3 @@ even :> 4
MCCompressed == small :> FALSE @@ odd :> TRUE @@ even :> FALSE
MCMaxSent == "client" :> 1 @@ "server" :> 2
=============================================================================
