---------------------------- MODULE MCClientSlots ----------------------------
EXTENDS ClientSlots, TLC

\* Everyone plays from one host, so that players are interchangeable.
OneHost == [p \in Player |-> 1]
Interchangeable == Permutations(Player)
=============================================================================
