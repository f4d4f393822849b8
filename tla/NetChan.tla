------------------------------ MODULE NetChan ------------------------------
(***************************************************************************)
(* qcommon/net_chan.c: the sequenced, fragmenting datagram channel between *)
(* a client and a server, over a network that loses, duplicates and        *)
(* reorders packets and a socket whose sends may fail.                     *)
(*                                                                         *)
(* net is the set of all packets ever sent: a packet may be processed at   *)
(* any later time, any number of times, or never.  Each end is single      *)
(* threaded; pushing[e] is the message whose Netchan_Transmit waits until  *)
(* Netchan_PushAllFragments has sent what was left of the previous one.    *)
(***************************************************************************)
EXTENDS Integers, Sequences

CONSTANTS Msg,          \* messages the code above the channel transmits
          Length,       \* Length[m]: msg->cursize
          Compressed,   \* Compressed[m]: msg->compressed
          FragmentSize, \* FRAGMENT_SIZE
          MaxMsgLen,    \* MAX_MSGLEN
          MaxSent,      \* bound: MaxSent[e] messages are transmitted by e
          NoMsg,        \* no message is waiting
          NoByte        \* a byte of a freshly cleared netchan_t

End == {"client", "server"}
Peer(e) == IF e = "client" THEN "server" ELSE "client"

ASSUME SizesAssumption ==
    /\ FragmentSize \in Nat \ {0}
    /\ MaxMsgLen \in Nat \ {0}
    /\ Length \in [Msg -> 0..MaxMsgLen]
    /\ Compressed \in [Msg -> BOOLEAN]
    /\ MaxSent \in [End -> Nat]
ASSUME NoneAssumption == NoMsg \notin Msg /\ NoByte \notin (Msg \X Nat)

VARIABLES
    outgoingSequence, incomingSequence, incoming_acknowledged,
    fragmentSequence, fragmentLength, fragmentBuffer,
    unsentFragments, unsentFragmentStart, unsentBuffer,
    pushing,
    net,
    sent,      \* history: the messages transmitted, by sequence
    received,  \* history: what Netchan_Process handed over
    aborted    \* history: the sequences some packet of which could not be sent

inVars     == <<incomingSequence, incoming_acknowledged, fragmentSequence,
                fragmentLength, fragmentBuffer, received>>
outVars    == <<outgoingSequence, unsentFragments, unsentFragmentStart,
                unsentBuffer, pushing, sent, aborted>>
vars       == <<inVars, outVars, net>>

Byte == (Msg \X Nat) \cup {NoByte}
Position == 0..MaxMsgLen-1
CeilDiv(a, b) == (a + b - 1) \div b

\* The bytes of a message, and what its receiver should read.
Data(m) == [i \in 0..Length[m]-1 |-> <<m, i>>]
Content(m) == [data |-> Data(m), compressed |-> Compressed[m]]

\* What Netchan_Process hands over.
Delivery == [seq : Nat, content : {Content(m) : m \in Msg}]

Packet == [from : End, seq : Nat, ack : Nat, fragmented : BOOLEAN,
           msg : Msg, start : Nat, length : Nat, last : BOOLEAN,
           compressed : BOOLEAN]

-----------------------------------------------------------------------------
\* Netchan_Setup
Init ==
    /\ outgoingSequence = [e \in End |-> 1]
    /\ incomingSequence = [e \in End |-> 0]
    /\ incoming_acknowledged = [e \in End |-> 0]
    /\ fragmentSequence = [e \in End |-> 0]
    /\ fragmentLength = [e \in End |-> 0]
    /\ fragmentBuffer = [e \in End |-> [i \in Position |-> NoByte]]
    /\ unsentFragments = [e \in End |-> FALSE]
    /\ unsentFragmentStart = [e \in End |-> 0]
    /\ unsentBuffer = [e \in End |-> NoMsg]
    /\ pushing = [e \in End |-> NoMsg]
    /\ net = {}
    /\ sent = [e \in End |-> <<>>]
    /\ received = [e \in End |-> <<>>]
    /\ aborted = [e \in End |-> {}]

-----------------------------------------------------------------------------
\* The fragment of m that starts at start: every fragment before the last one
\* takes an equal share of what is left; the last one is marked.
IsLastFragment(m, start) == start + FragmentSize > Length[m]
FragmentLen(m, start) ==
    LET left == Length[m] - start
    IN  IF IsLastFragment(m, start) THEN left
        ELSE CeilDiv(left, CeilDiv(left, FragmentSize))

FragmentPacket(e, m, start) ==
    [from |-> e, seq |-> outgoingSequence[e], ack |-> incomingSequence[e],
     fragmented |-> TRUE, msg |-> m, start |-> start,
     length |-> FragmentLen(m, start), last |-> IsLastFragment(m, start),
     compressed |-> Compressed[m]]

\* (Mutant: a message that is being assembled is acknowledged.)
WholePacketEarlyAck(e, m) ==
    [from |-> e, seq |-> outgoingSequence[e], ack |-> fragmentSequence[e],
     fragmented |-> FALSE, msg |-> m, start |-> 0, length |-> Length[m],
     last |-> FALSE, compressed |-> Compressed[m]]

WholePacket(e, m) ==
    [from |-> e, seq |-> outgoingSequence[e], ack |-> incomingSequence[e],
     fragmented |-> FALSE, msg |-> m, start |-> 0, length |-> Length[m],
     last |-> FALSE, compressed |-> Compressed[m]]

\* (Mutant: the test without its tricky half.)
AllSentByLength(m, start, length) == start + length = Length[m]

\* A message that ends with a full fragment still needs an empty last one.
AllSent(m, start, length) ==
    start + length = Length[m] /\ length # FragmentSize

\* Netchan_TransmitNextFragment(e), called with the fragment of m at start,
\* when NET_SendPacket succeeds ...
FragmentSent(e, m, start) ==
    LET length == FragmentLen(m, start)
        done   == AllSent(m, start, length)
    IN  /\ net' = net \cup {FragmentPacket(e, m, start)}
        /\ unsentFragmentStart' = [unsentFragmentStart EXCEPT ![e] = start + length]
        /\ unsentFragments' = [unsentFragments EXCEPT ![e] = ~done]
        /\ outgoingSequence' =
              [outgoingSequence EXCEPT ![e] = IF done THEN @ + 1 ELSE @]
        /\ UNCHANGED aborted

\* (Mutant: the sequence is used again.)
DropFragmentsOnly(e) ==
    /\ unsentFragments' = [unsentFragments EXCEPT ![e] = FALSE]
    /\ aborted' = [aborted EXCEPT ![e] = @ \cup {outgoingSequence[e]}]
    /\ UNCHANGED outgoingSequence

\* ... and when it fails: Netchan_DropAllFragments gives the message up, and
\* its sequence with it.
DropAllFragments(e) ==
    /\ unsentFragments' = [unsentFragments EXCEPT ![e] = FALSE]
    /\ outgoingSequence' = [outgoingSequence EXCEPT ![e] = @ + 1]
    /\ aborted' = [aborted EXCEPT ![e] = @ \cup {outgoingSequence[e]}]

FragmentFailed(e, start) ==
    /\ DropAllFragments(e)
    /\ unsentFragmentStart' = [unsentFragmentStart EXCEPT ![e] = start]
    /\ UNCHANGED net

TransmitNextFragment(e, m, start) ==
    FragmentSent(e, m, start) \/ FragmentFailed(e, start)

\* Netchan_Transmit(e, m).  The caller has no fragments left to send.
Transmit(e, m) ==
    /\ sent' = [sent EXCEPT ![e] = Append(@, m)]
    /\ pushing' = [pushing EXCEPT ![e] = NoMsg]
    /\ IF Length[m] >= FragmentSize
       THEN /\ unsentBuffer' = [unsentBuffer EXCEPT ![e] = m]
            /\ TransmitNextFragment(e, m, 0)
       ELSE /\ outgoingSequence' = [outgoingSequence EXCEPT ![e] = @ + 1]
            /\ unsentFragmentStart' = [unsentFragmentStart EXCEPT ![e] = 0]
            /\ \/ net' = net \cup {WholePacket(e, m)} /\ UNCHANGED aborted
               \/ /\ aborted' = [aborted EXCEPT ![e] = @ \cup {outgoingSequence[e]}]
                  /\ UNCHANGED net
            /\ UNCHANGED <<unsentBuffer, unsentFragments>>

\* SV_Netchan_Transmit and CL_Netchan_Transmit, called with the message m
\* while e does nothing else: with fragments left of the previous message they
\* first push those.
NetchanTransmit(e, m) ==
    /\ pushing[e] = NoMsg
    /\ Len(sent[e]) < MaxSent[e]
    /\ IF unsentFragments[e]
       THEN /\ pushing' = [pushing EXCEPT ![e] = m]
            /\ UNCHANGED <<outgoingSequence, unsentFragments, unsentFragmentStart,
                           unsentBuffer, sent, aborted, net>>
       ELSE Transmit(e, m)
    /\ UNCHANGED inVars

\* One round of Netchan_PushAllFragments.  When a send fails the server gives
\* up the new message too; the client ignores the result.
PushFragment(e) ==
    /\ pushing[e] # NoMsg
    /\ unsentFragments[e]
    /\ \/ /\ FragmentSent(e, unsentBuffer[e], unsentFragmentStart[e])
          /\ UNCHANGED pushing
       \/ /\ FragmentFailed(e, unsentFragmentStart[e])
          /\ pushing' = IF e = "server" THEN [pushing EXCEPT ![e] = NoMsg] ELSE pushing
    /\ UNCHANGED <<unsentBuffer, sent, inVars>>

TransmitPushed(e) ==
    /\ pushing[e] # NoMsg
    /\ ~unsentFragments[e]
    /\ Transmit(e, pushing[e])
    /\ UNCHANGED inVars

\* (Mutant: the server's frames forget the fragments.)
SendFragmentOfClient(e) ==
    /\ e = "client"
    /\ pushing[e] = NoMsg
    /\ unsentFragments[e]
    /\ TransmitNextFragment(e, unsentBuffer[e], unsentFragmentStart[e])
    /\ UNCHANGED <<unsentBuffer, pushing, sent, inVars>>

\* SV_SendClientsFragments and CL_NetFrame: one fragment each frame.
SendFragment(e) ==
    /\ pushing[e] = NoMsg
    /\ unsentFragments[e]
    /\ TransmitNextFragment(e, unsentBuffer[e], unsentFragmentStart[e])
    /\ UNCHANGED <<unsentBuffer, pushing, sent, inVars>>

-----------------------------------------------------------------------------
\* The end of Netchan_Process: the message can be read.
Accept(e, p, content) ==
    /\ incomingSequence' = [incomingSequence EXCEPT ![e] = p.seq]
    /\ incoming_acknowledged' = [incoming_acknowledged EXCEPT ![e] = p.ack]
    /\ received' = [received EXCEPT ![e] =
                       Append(@, [seq |-> p.seq, content |-> content])]

\* (Mutant: only the repeated ones are.)
NotRepeated(e, p) == p.seq # incomingSequence[e]
\* Packets of old or repeated sequences are discarded.
Fresh(e, p) == p.seq > incomingSequence[e]

ProcessWhole(e, p) ==
    /\ Fresh(e, p)
    /\ ~p.fragmented
    /\ Accept(e, p, [data |-> Data(p.msg), compressed |-> p.compressed])
    /\ UNCHANGED <<fragmentSequence, fragmentLength, fragmentBuffer>>

\* What of p's message has been assembled when p arrives.
Assembled(e, p) == IF p.seq = fragmentSequence[e] THEN fragmentLength[e] ELSE 0

Fits(e, p) == p.start = Assembled(e, p) /\ p.start + p.length <= MaxMsgLen

CopyFragment(e, p) ==
    [i \in Position |-> IF i \in p.start..p.start + p.length - 1
                        THEN <<p.msg, i>> ELSE fragmentBuffer[e][i]]

\* A fragment that does not continue what has been assembled is dropped; the
\* one that does is appended, and the last one completes the message.
ProcessFragment(e, p) ==
    /\ Fresh(e, p)
    /\ p.fragmented
    /\ fragmentSequence' = [fragmentSequence EXCEPT ![e] = p.seq]
    /\ IF ~Fits(e, p)
       THEN /\ fragmentLength' = [fragmentLength EXCEPT ![e] = Assembled(e, p)]
            /\ UNCHANGED <<fragmentBuffer, incomingSequence,
                           incoming_acknowledged, received>>
       ELSE LET length == p.start + p.length
                buffer == CopyFragment(e, p)
            IN  /\ fragmentBuffer' = [fragmentBuffer EXCEPT ![e] = buffer]
                /\ IF p.last
                   THEN /\ fragmentLength' = [fragmentLength EXCEPT ![e] = 0]
                        /\ Accept(e, p, [data |-> [i \in 0..length-1 |-> buffer[i]],
                                         compressed |-> p.compressed])
                   ELSE /\ fragmentLength' = [fragmentLength EXCEPT ![e] = length]
                        /\ UNCHANGED <<incomingSequence, incoming_acknowledged, received>>

Process(e) ==
    /\ pushing[e] = NoMsg
    /\ \E p \in net :
          /\ p.from = Peer(e)
          /\ ProcessWhole(e, p) \/ ProcessFragment(e, p)
    /\ UNCHANGED <<outVars, net>>

-----------------------------------------------------------------------------
Next ==
    \E e \in End :
        \/ \E m \in Msg : NetchanTransmit(e, m)
        \/ PushFragment(e)
        \/ TransmitPushed(e)
        \/ SendFragment(e)
        \/ Process(e)

Spec == Init /\ [][Next]_vars

\* Every frame sends a fragment, and the push loop runs to its end.
Sending(e) == PushFragment(e) \/ TransmitPushed(e) \/ SendFragment(e)
FairSpec == Spec /\ \A e \in End : WF_vars(Sending(e))

-----------------------------------------------------------------------------
TypeOK ==
    /\ outgoingSequence \in [End -> Nat \ {0}]
    /\ incomingSequence \in [End -> Nat]
    /\ incoming_acknowledged \in [End -> Nat]
    /\ fragmentSequence \in [End -> Nat]
    /\ fragmentLength \in [End -> 0..MaxMsgLen]
    /\ fragmentBuffer \in [End -> [Position -> Byte]]
    /\ unsentFragments \in [End -> BOOLEAN]
    /\ unsentFragmentStart \in [End -> 0..MaxMsgLen]
    /\ unsentBuffer \in [End -> Msg \cup {NoMsg}]
    /\ pushing \in [End -> Msg \cup {NoMsg}]
    /\ net \subseteq Packet
    /\ sent \in [End -> Seq(Msg)]
    /\ received \in [End -> Seq(Delivery)]
    /\ aborted \in [End -> SUBSET Nat]

\* The channel keeps the promise of DatagramChannel: whatever the network does
\* to the packets and whichever sends fail, Netchan_Process hands over only
\* whole messages, unchanged, each at most once and in the order sent.
Datagrams == INSTANCE DatagramChannel
ImplementsDatagrams == Datagrams!Spec

\* An end believes acknowledged only what the peer really took: the sequence
\* it last read is 0 or that of a whole message the peer was handed (the ack
\* of a fragmented message comes with its last fragment).
AckedWasReceived ==
    \A e \in End :
        \/ incoming_acknowledged[e] = 0
        \/ \E i \in 1..Len(received[Peer(e)]) :
              received[Peer(e)][i].seq = incoming_acknowledged[e]

\* Acknowledgements never go back, though packets arrive in any order.
AckNeverGoesBack ==
    [][\A e \in End : incoming_acknowledged'[e] >= incoming_acknowledged[e]]_vars

\* The fragments of a message that was sent without an error are enough to
\* rebuild it: from 0 on each starts where the one before ends, exactly one is
\* marked last and it ends the message, also when the length is a multiple of
\* FRAGMENT_SIZE ("this exit condition is a little tricky").
Fragments(e, s) == {p \in net : p.from = e /\ p.seq = s}
Reassemblable ==
    \A e \in End : \A s \in 1..outgoingSequence[e]-1 :
        LET F == Fragments(e, s) IN
        (s \notin aborted[e] /\ Length[sent[e][s]] >= FragmentSize) =>
            /\ \E p \in F : p.start = 0
            /\ \A p \in F : ~p.last => \E q \in F : q.start = p.start + p.length
            /\ \E p \in F : /\ p.last
                            /\ p.start + p.length = Length[sent[e][s]]
                            /\ \A q \in F : q.last => q = p

-----------------------------------------------------------------------------
\* Why it works.  Every packet is a piece of the message its sequence names,
SentCount ==
    \A e \in End :
        Len(sent[e]) = outgoingSequence[e] - (IF unsentFragments[e] THEN 0 ELSE 1)
UnsentIsLastSent ==
    \A e \in End : unsentFragments[e] =>
        /\ unsentBuffer[e] = sent[e][outgoingSequence[e]]
        /\ unsentFragmentStart[e] <= Length[unsentBuffer[e]]
PacketsMatchSent ==
    \A p \in net :
        /\ p.seq \in 1..Len(sent[p.from])
        /\ p.seq <= outgoingSequence[p.from]
        /\ p.msg = sent[p.from][p.seq]
        /\ p.compressed = Compressed[p.msg]
        /\ p.fragmented => p.start + p.length <= Length[p.msg]
        /\ p.fragmented /\ p.last => p.start + p.length = Length[p.msg]
\* and what is assembled is the beginning of that message.
BufferMatchesSent ==
    \A e \in End : fragmentLength[e] > 0 =>
        /\ fragmentSequence[e] \in 1..Len(sent[Peer(e)])
        /\ \A i \in 0..fragmentLength[e]-1 :
              fragmentBuffer[e][i] = <<sent[Peer(e)][fragmentSequence[e]], i>>
IncomingIsLastReceived ==
    \A e \in End :
        incomingSequence[e] = IF received[e] = <<>> THEN 0
                              ELSE received[e][Len(received[e])].seq
\* Acknowledgements grow with the sequence of the packet that carries them.
AcksOrdered ==
    /\ \A e \in End : incoming_acknowledged[e] <= incomingSequence[Peer(e)]
    /\ \A p \in net : p.ack <= incomingSequence[p.from]
    /\ \A p, q \in net : p.from = q.from /\ p.seq < q.seq => p.ack <= q.ack
    /\ \A p \in net : Fresh(Peer(p.from), p) =>
                          p.ack >= incoming_acknowledged[Peer(p.from)]
ReceivedSeqs(e) == {0} \cup {received[e][i].seq : i \in 1..Len(received[e])}
AcksReceived ==
    /\ \A e \in End : incoming_acknowledged[e] \in ReceivedSeqs(Peer(e))
    /\ \A p \in net : p.ack \in ReceivedSeqs(p.from)

IInv ==
    /\ TypeOK
    /\ SentCount /\ UnsentIsLastSent /\ PacketsMatchSent
    /\ BufferMatchesSent /\ IncomingIsLastReceived
    /\ AcksOrdered /\ AcksReceived

-----------------------------------------------------------------------------
\* Sending a fragmented message comes to an end.
FragmentsDrain == \A e \in End : unsentFragments[e] ~> ~unsentFragments[e]
=============================================================================
