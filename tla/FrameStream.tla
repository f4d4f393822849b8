---------------------------- MODULE FrameStream ----------------------------
(***************************************************************************)
(* What snapshots promise the player: the client shows frames that the     *)
(* server built, and never goes back to an earlier one.  Frames may be     *)
(* left out; how many is not promised.  A frame is shown exactly as it was *)
(* built, unless it was damaged when it was built.                         *)
(***************************************************************************)
EXTENDS Integers

VARIABLES built,   \* the number of frames the server has built
          damaged, \* those that the client cannot get as they were built
          shown    \* the frame the client shows, and the one whose contents it has

Garbage == -1

Init ==
    /\ built = 0
    /\ damaged = {}
    /\ shown = [num |-> 0, contents |-> 0]

Build ==
    /\ built' = built + 1
    /\ damaged' \in {damaged, damaged \cup {built + 1}}
    /\ UNCHANGED shown

Show ==
    /\ \E n \in shown.num+1..built :
          \E c \in IF n \in damaged THEN {n, Garbage} ELSE {n} :
             shown' = [num |-> n, contents |-> c]
    /\ UNCHANGED <<built, damaged>>

Next == Build \/ Show

Spec == Init /\ [][Next]_<<built, damaged, shown>>
=============================================================================
