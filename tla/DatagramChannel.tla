-------------------------- MODULE DatagramChannel --------------------------
(***************************************************************************)
(* What a netchan promises to the code above it (CL_ParseServerMessage,    *)
(* SV_ParseClientMessage): a message is handed over whole and unchanged or *)
(* not at all, at most once, and never after a message sent later.         *)
(* Nothing is promised about how many messages get through.                *)
(***************************************************************************)
EXTENDS Integers, Sequences

CONSTANTS End,        \* the two ends of the connection
          Msg,        \* the messages the ends transmit
          Content(_), \* what the receiver of a message reads from it
          Peer(_)     \* the other end

VARIABLES sent,      \* sent[e][s]: the s-th message e handed to its netchan
          received   \* received[e]: what e got, each with its place in sent

chanVars == <<sent, received>>

LastReceived(e) ==
    IF received[e] = <<>> THEN 0 ELSE received[e][Len(received[e])].seq

Init ==
    /\ sent = [e \in End |-> <<>>]
    /\ received = [e \in End |-> <<>>]

Send(e) ==
    /\ \E m \in Msg : sent' = [sent EXCEPT ![e] = Append(@, m)]
    /\ UNCHANGED received

Deliver(e) ==
    /\ \E s \in 1..Len(sent[Peer(e)]) :
          /\ s > LastReceived(e)
          /\ received' = [received EXCEPT ![e] =
                Append(@, [seq |-> s, content |-> Content(sent[Peer(e)][s])])]
    /\ UNCHANGED sent

Next == \E e \in End : Send(e) \/ Deliver(e)

Spec == Init /\ [][Next]_chanVars
=============================================================================
