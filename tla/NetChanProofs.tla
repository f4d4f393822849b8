---------------------------- MODULE NetChanProofs ----------------------------
(***************************************************************************)
(* For any messages, any fragment size and any number of transmissions:    *)
(* IInv is an invariant of NetChan, NetChan implements DatagramChannel,    *)
(* what an end believes acknowledged was received, acknowledgements never  *)
(* go back, and the fragments of a message sent suffice to rebuild it.     *)
(***************************************************************************)
EXTENDS NetChan, TLAPS

USE SizesAssumption, NoneAssumption

(***************************************************************************)
(* The sizes of fragments.                                                 *)
(***************************************************************************)

\* A share of a, when a is divided into b parts rounded up, is at most a and
\* positive when a is.
LEMMA CeilDivBounds ==
    ASSUME NEW a \in Nat, NEW b \in Nat \ {0}
    PROVE  /\ CeilDiv(a, b) \in 0..a
           /\ a > 0 => CeilDiv(a, b) > 0
<1> DEFINE q == (a + b - 1) \div b
<1>1. q \in Int /\ b * q <= a + b - 1 /\ a + b - 1 < b * q + b
  <2>1. \A n \in Int, d \in Int : d > 0 =>
           /\ n \div d \in Int /\ d * (n \div d) <= n /\ n < d * (n \div d) + d
    BY Z3
  <2> QED BY <2>1
<1> HIDE DEF q
<1>2. q >= 0
  <2>1. q <= -1 => b * q <= -b BY <1>1
  <2> QED BY <1>1, <2>1
<1>3. q <= a
  <2>1. q >= a + 1 => b * q >= b * (a + 1) BY <1>1
  <2>2. b * (a + 1) = b * a + b  BY SMT
  <2>3. b * a >= a BY SMT
  <2> QED BY <1>1, <2>1, <2>2, <2>3
<1>4. a > 0 => q > 0
  <2>1. q = 0 => b * q = 0 BY <1>1
  <2> QED BY <1>1, <1>2, <2>1
<1> QED BY <1>1, <1>2, <1>3, <1>4 DEF CeilDiv, q

\* Dividing a into b shares rounded up makes enough of them, and not too many.
LEMMA ShareOf ==
    ASSUME NEW a \in Nat, NEW b \in Nat \ {0}
    PROVE  a <= b * CeilDiv(a, b) /\ b * CeilDiv(a, b) <= a + b - 1
<1> DEFINE q == (a + b - 1) \div b
<1>1. q \in Int /\ b * q <= a + b - 1 /\ a + b - 1 < b * q + b
  <2>1. \A n \in Int, d \in Int : d > 0 =>
           /\ n \div d \in Int /\ d * (n \div d) <= n /\ n < d * (n \div d) + d
    BY Z3
  <2> QED BY <2>1
<1> HIDE DEF q
<1>2. b * q \in Int
  BY <1>1
<1> QED BY <1>1, <1>2 DEF CeilDiv, q

\* No fragment reaches beyond its message, and the last one ends it.
LEMMA FragmentLenBounds ==
    ASSUME NEW m \in Msg, NEW start \in Nat, start <= Length[m]
    PROVE  /\ FragmentLen(m, start) \in Nat
           /\ start + FragmentLen(m, start) <= Length[m]
           /\ IsLastFragment(m, start) => start + FragmentLen(m, start) = Length[m]
<1> DEFINE left == Length[m] - start
<1>1. Length[m] \in Nat /\ Length[m] <= MaxMsgLen
  OBVIOUS
<1>2. left \in Nat
  BY <1>1
<1>3. CASE IsLastFragment(m, start)
  BY <1>1, <1>3 DEF FragmentLen
<1>4. CASE ~IsLastFragment(m, start)
  <2>1. left > 0
    BY <1>1, <1>4 DEF IsLastFragment
  <2> HIDE DEF left
  <2>2. CeilDiv(left, FragmentSize) \in Nat \ {0}
    BY <1>2, <2>1, CeilDivBounds
  <2>3. CeilDiv(left, CeilDiv(left, FragmentSize)) \in 0..left
    BY <1>2, <2>2, CeilDivBounds
  <2>4. FragmentLen(m, start) = CeilDiv(left, CeilDiv(left, FragmentSize))
    BY <1>4 DEF FragmentLen, left
  <2>5. start + left = Length[m]
    BY <1>1 DEF left
  <2> QED BY <1>1, <1>2, <1>4, <2>3, <2>4, <2>5
<1> QED BY <1>3, <1>4

\* The two ends are each other's peer.
LEMMA PeerEnd == \A e \in End : Peer(e) \in End /\ Peer(e) # e /\ Peer(Peer(e)) = e
BY DEF End, Peer

-----------------------------------------------------------------------------
\* The invariant holds when Netchan_Setup has returned at both ends.
LEMMA InitIInv == Init => IInv
<1> SUFFICES ASSUME Init PROVE IInv
  OBVIOUS
<1> USE DEF Init
<1>1. TypeOK
  BY DEF TypeOK, Byte
<1>2. SentCount /\ UnsentIsLastSent /\ PacketsMatchSent /\ BufferMatchesSent
  BY DEF SentCount, UnsentIsLastSent, PacketsMatchSent, BufferMatchesSent
<1>3. IncomingIsLastReceived /\ AcksOrdered /\ AcksReceived
  BY PeerEnd DEF IncomingIsLastReceived, AcksOrdered, AcksReceived, ReceivedSeqs
<1> QED BY <1>1, <1>2, <1>3 DEF IInv

(***************************************************************************)
(* Sending.  However a send goes, it transmits the message m whose         *)
(* sequence is outgoingSequence[e] and puts at most one packet on the      *)
(* network, a piece of m with that sequence.                               *)
(***************************************************************************)
PieceOf(e, m, p) ==
    /\ p \in Packet
    /\ p.from = e /\ p.seq = outgoingSequence[e] /\ p.ack = incomingSequence[e]
    /\ p.msg = m /\ p.compressed = Compressed[m]
    /\ p.fragmented => p.start + p.length <= Length[m]
    /\ p.fragmented /\ p.last => p.start + p.length = Length[m]

SentBecomes(e, m) ==
    /\ sent' \in [End -> Seq(Msg)]
    /\ Len(sent'[e]) = outgoingSequence[e]
    /\ sent'[e][outgoingSequence[e]] = m
    /\ Len(sent[e]) <= Len(sent'[e])
    /\ \A i \in 1..Len(sent[e]) : sent'[e][i] = sent[e][i]
    /\ \A d \in End \ {e} : sent'[d] = sent[d]

UnsentBecomes(e, m) ==
    /\ outgoingSequence' \in [End -> Nat \ {0}]
    /\ unsentFragments' \in [End -> BOOLEAN]
    /\ unsentFragmentStart' \in [End -> 0..MaxMsgLen]
    /\ unsentBuffer' \in [End -> Msg \cup {NoMsg}]
    /\ pushing' \in [End -> Msg \cup {NoMsg}]
    /\ aborted' \in [End -> SUBSET Nat]
    /\ outgoingSequence'[e] =
          outgoingSequence[e] + (IF unsentFragments'[e] THEN 0 ELSE 1)
    /\ unsentFragments'[e] => /\ unsentBuffer'[e] = m
                              /\ unsentFragmentStart'[e] <= Length[m]
    /\ \A d \in End \ {e} :
          /\ outgoingSequence'[d] = outgoingSequence[d]
          /\ unsentFragments'[d] = unsentFragments[d]
          /\ unsentFragmentStart'[d] = unsentFragmentStart[d]
          /\ unsentBuffer'[d] = unsentBuffer[d]

SenderStep(e, m) ==
    /\ SentBecomes(e, m)
    /\ UnsentBecomes(e, m)
    /\ net' = net \/ \E p : PieceOf(e, m, p) /\ net' = net \cup {p}
    /\ UNCHANGED inVars

\* Any such step keeps the invariant.
LEMMA SenderStepIInv ==
    ASSUME IInv, NEW e \in End, NEW m \in Msg, SenderStep(e, m)
    PROVE  IInv'
<1> USE DEF IInv, SenderStep
<1>1. TypeOK'
  <2>1. net' \subseteq Packet
    BY DEF TypeOK, PieceOf
  <2> QED BY <2>1 DEF TypeOK, SentBecomes, UnsentBecomes, inVars
<1>t. /\ sent \in [End -> Seq(Msg)] /\ sent' \in [End -> Seq(Msg)]
      /\ outgoingSequence \in [End -> Nat \ {0}] /\ outgoingSequence' \in [End -> Nat \ {0}]
      /\ unsentFragments \in [End -> BOOLEAN] /\ unsentFragments' \in [End -> BOOLEAN]
      /\ fragmentSequence \in [End -> Nat] /\ fragmentLength \in [End -> 0..MaxMsgLen]
      /\ incomingSequence \in [End -> Nat] /\ incoming_acknowledged \in [End -> Nat]
  BY DEF TypeOK, SentBecomes, UnsentBecomes
<1>2. \A d \in End : /\ Len(sent[d]) \in Nat /\ Len(sent'[d]) \in Nat
                     /\ Len(sent[d]) <= Len(sent'[d])
                     /\ \A i \in 1..Len(sent[d]) : sent'[d][i] = sent[d][i]
  <2> SUFFICES ASSUME NEW d \in End
               PROVE  /\ Len(sent[d]) \in Nat /\ Len(sent'[d]) \in Nat
                      /\ Len(sent[d]) <= Len(sent'[d])
                      /\ \A i \in 1..Len(sent[d]) : sent'[d][i] = sent[d][i]
    OBVIOUS
  <2>1. sent[d] \in Seq(Msg) /\ sent'[d] \in Seq(Msg)
    BY <1>t
  <2>2. Len(sent[d]) \in Nat /\ Len(sent'[d]) \in Nat
    BY <2>1
  <2>3. CASE d = e
    BY <2>2, <2>3 DEF SentBecomes
  <2>4. CASE d # e
    BY <2>2, <2>4 DEF SentBecomes
  <2> QED BY <2>2, <2>3, <2>4
<1>3. /\ UNCHANGED <<incomingSequence, incoming_acknowledged, received,
                      fragmentSequence, fragmentLength, fragmentBuffer>>
      /\ \A d \in End : outgoingSequence[d] <= outgoingSequence'[d]
  <2>1. outgoingSequence[e] <= outgoingSequence'[e]
    BY <1>t DEF UnsentBecomes
  <2>2. \A d \in End \ {e} : outgoingSequence[d] = outgoingSequence'[d]
    BY DEF UnsentBecomes
  <2>3. \A d \in End : outgoingSequence[d] <= outgoingSequence'[d]
    <3> SUFFICES ASSUME NEW d \in End PROVE outgoingSequence[d] <= outgoingSequence'[d]
      OBVIOUS
    <3>1. outgoingSequence[d] \in Nat
      BY <1>t
    <3> QED BY <2>1, <2>2, <3>1
  <2> QED BY <2>3 DEF inVars
<1>4. SentCount'
  <2> SUFFICES ASSUME NEW d \in End
               PROVE  Len(sent'[d]) = outgoingSequence'[d]
                                         - (IF unsentFragments'[d] THEN 0 ELSE 1)
    BY DEF SentCount
  <2>1. CASE d = e
    BY <1>t, <2>1 DEF SentBecomes, UnsentBecomes
  <2>2. CASE d # e
    BY <2>2 DEF SentCount, SentBecomes, UnsentBecomes
  <2> QED BY <2>1, <2>2
<1>5. UnsentIsLastSent'
  <2> SUFFICES ASSUME NEW d \in End, unsentFragments'[d]
               PROVE  /\ unsentBuffer'[d] = sent'[d][outgoingSequence'[d]]
                      /\ unsentFragmentStart'[d] <= Length[unsentBuffer'[d]]
    BY DEF UnsentIsLastSent
  <2>1. CASE d = e
    <3>1. outgoingSequence'[e] = outgoingSequence[e]
      BY <1>t, <2>1 DEF UnsentBecomes
    <3> QED BY <2>1, <3>1 DEF SentBecomes, UnsentBecomes
  <2>2. CASE d # e
    BY <2>2 DEF UnsentIsLastSent, SentBecomes, UnsentBecomes
  <2> QED BY <2>1, <2>2
<1>6. PacketsMatchSent'
  <2> SUFFICES ASSUME NEW p \in net'
               PROVE  /\ p.seq \in 1..Len(sent'[p.from])
                      /\ p.seq <= outgoingSequence'[p.from]
                      /\ p.msg = sent'[p.from][p.seq]
                      /\ p.compressed = Compressed[p.msg]
                      /\ p.fragmented => p.start + p.length <= Length[p.msg]
                      /\ p.fragmented /\ p.last => p.start + p.length = Length[p.msg]
    BY DEF PacketsMatchSent
  <2>1. p \in Packet /\ p.from \in End /\ p.seq \in Nat
    BY <1>1 DEF TypeOK, Packet
  <2>2. CASE p \in net
    <3>1. /\ p.seq \in 1..Len(sent[p.from]) /\ p.seq <= outgoingSequence[p.from]
          /\ p.msg = sent[p.from][p.seq]
          /\ p.compressed = Compressed[p.msg]
          /\ p.fragmented => p.start + p.length <= Length[p.msg]
          /\ p.fragmented /\ p.last => p.start + p.length = Length[p.msg]
      BY <2>2 DEF PacketsMatchSent
    <3>2. p.seq \in 1..Len(sent'[p.from]) /\ p.seq <= outgoingSequence'[p.from]
      <4>1. /\ Len(sent[p.from]) \in Nat /\ Len(sent'[p.from]) \in Nat
            /\ Len(sent[p.from]) <= Len(sent'[p.from])
        BY <1>2, <2>1
      <4>2. /\ outgoingSequence[p.from] \in Nat /\ outgoingSequence'[p.from] \in Nat
            /\ outgoingSequence[p.from] <= outgoingSequence'[p.from]
        BY <1>t, <1>3, <2>1
      <4> QED BY <2>1, <3>1, <4>1, <4>2
    <3>3. sent'[p.from][p.seq] = sent[p.from][p.seq]
      BY <1>2, <2>1, <3>1
    <3> QED BY <3>1, <3>2, <3>3
  <2>3. CASE PieceOf(e, m, p)
    <3>1. outgoingSequence[e] \in 1..Len(sent'[e])
      BY <1>t DEF SentBecomes
    <3>2. outgoingSequence[e] <= outgoingSequence'[e]
      BY <1>3
    <3> QED BY <2>3, <3>1, <3>2 DEF PieceOf, SentBecomes
  <2> QED BY <2>2, <2>3
<1>7. BufferMatchesSent'
  <2> SUFFICES ASSUME NEW d \in End, fragmentLength[d] > 0
               PROVE  /\ fragmentSequence[d] \in 1..Len(sent'[Peer(d)])
                      /\ \A i \in 0..fragmentLength[d]-1 :
                            fragmentBuffer[d][i] = <<sent'[Peer(d)][fragmentSequence[d]], i>>
    BY <1>3 DEF BufferMatchesSent
  <2>1. /\ fragmentSequence[d] \in 1..Len(sent[Peer(d)])
        /\ \A i \in 0..fragmentLength[d]-1 :
              fragmentBuffer[d][i] = <<sent[Peer(d)][fragmentSequence[d]], i>>
    BY DEF BufferMatchesSent
  <2>2. sent'[Peer(d)][fragmentSequence[d]] = sent[Peer(d)][fragmentSequence[d]]
    BY <1>2, <2>1, PeerEnd
  <2>3. fragmentSequence[d] \in 1..Len(sent'[Peer(d)])
    BY <1>2, <2>1, PeerEnd
  <2> QED BY <2>1, <2>2, <2>3
<1>8. IncomingIsLastReceived'
  BY <1>3 DEF IncomingIsLastReceived
<1>9. AcksOrdered'
  <2>1. \A p \in net' : p \in net \/ PieceOf(e, m, p)
    OBVIOUS
  <2>2. \A p \in net : p \in Packet
    BY DEF TypeOK
  <2>n. \A p \in net : /\ p.seq \in Nat /\ p.ack \in Nat /\ p.from \in End
                         /\ incomingSequence[p.from] \in Nat
                         /\ outgoingSequence[p.from] \in Nat
                         /\ p.seq <= outgoingSequence[p.from]
                         /\ p.ack <= incomingSequence[p.from]
    <3> SUFFICES ASSUME NEW p \in net
                 PROVE  /\ p.seq \in Nat /\ p.ack \in Nat /\ p.from \in End
                        /\ incomingSequence[p.from] \in Nat
                        /\ outgoingSequence[p.from] \in Nat
                        /\ p.seq <= outgoingSequence[p.from]
                        /\ p.ack <= incomingSequence[p.from]
      OBVIOUS
    <3>1. p.seq \in Nat /\ p.ack \in Nat /\ p.from \in End
      BY <2>2 DEF Packet
    <3>2. p.seq <= outgoingSequence[p.from] /\ p.ack <= incomingSequence[p.from]
      BY DEF PacketsMatchSent, AcksOrdered
    <3> QED BY <1>t, <3>1, <3>2
  <2>m. /\ incomingSequence[e] \in Nat /\ outgoingSequence[e] \in Nat
        /\ incomingSequence' = incomingSequence
    BY <1>t, <1>3
  <2>3. \A p \in net' : p.ack <= incomingSequence'[p.from]
    <3> SUFFICES ASSUME NEW p \in net' PROVE p.ack <= incomingSequence[p.from]
      BY <2>m
    <3>1. CASE p \in net
      BY <2>n, <3>1
    <3>2. CASE PieceOf(e, m, p)
      BY <2>m, <3>2 DEF PieceOf
    <3> QED BY <2>1, <3>1, <3>2
  <2>4. \A p, q \in net' : p.from = q.from /\ p.seq < q.seq => p.ack <= q.ack
    <3> SUFFICES ASSUME NEW p \in net', NEW q \in net', p.from = q.from, p.seq < q.seq
                 PROVE  p.ack <= q.ack
      OBVIOUS
    <3>1. CASE p \in net /\ q \in net
      BY <3>1 DEF AcksOrdered
    <3>2. CASE p \in net /\ PieceOf(e, m, q)
      BY <3>2, <2>n, <2>m DEF PieceOf
    <3>3. CASE PieceOf(e, m, p) /\ q \in net
      <4>1. p.from = e /\ p.seq = outgoingSequence[e]
        BY <3>3 DEF PieceOf
      <4>2. q.from = e /\ q.seq \in Nat /\ q.seq <= outgoingSequence[e]
        BY <3>3, <4>1, <2>n
      <4> QED BY <4>1, <4>2, <2>m
    <3>4. CASE PieceOf(e, m, p) /\ PieceOf(e, m, q)
      BY <3>4, <2>m DEF PieceOf
    <3> QED BY <2>1, <3>1, <3>2, <3>3, <3>4
  <2>5. \A p \in net' : Fresh(Peer(p.from), p) =>
                           p.ack >= incoming_acknowledged[Peer(p.from)]
    <3> SUFFICES ASSUME NEW p \in net', Fresh(Peer(p.from), p)
                 PROVE  p.ack >= incoming_acknowledged[Peer(p.from)]
      OBVIOUS
    <3>1. CASE p \in net
      BY <3>1 DEF AcksOrdered
    <3>2. CASE PieceOf(e, m, p)
      <4>1. incoming_acknowledged[Peer(e)] <= incomingSequence[Peer(Peer(e))]
        BY PeerEnd DEF AcksOrdered
      <4> QED BY <3>2, <4>1, <2>m, <1>t, PeerEnd DEF PieceOf
    <3> QED BY <2>1, <3>1, <3>2
  <2> QED BY <1>3, <2>3, <2>4, <2>5, PeerEnd DEF AcksOrdered, Fresh
<1>10. AcksReceived'
  <2>1. \A d \in End : incomingSequence[d] \in ReceivedSeqs(d)
    <3> SUFFICES ASSUME NEW d \in End PROVE incomingSequence[d] \in ReceivedSeqs(d)
      OBVIOUS
    <3>1. received[d] \in Seq(Delivery)
      BY DEF TypeOK
    <3>2. received[d] # <<>> => Len(received[d]) \in 1..Len(received[d])
      BY <3>1
    <3> QED BY <3>2 DEF IncomingIsLastReceived, ReceivedSeqs
  <2>2. \A d : ReceivedSeqs(d)' = ReceivedSeqs(d)
    BY <1>3 DEF ReceivedSeqs
  <2> QED BY <1>3, <2>1, <2>2 DEF AcksReceived, PieceOf
<1> QED BY <1>1, <1>4, <1>5, <1>6, <1>7, <1>8, <1>9, <1>10

\* Netchan_TransmitNextFragment, whether the send fails or not, makes the
\* sender part of such a step.
LEMMA FragmentBecomes ==
    ASSUME IInv, NEW e \in End, NEW m \in Msg,
           NEW start \in Nat, start <= Length[m],
           TransmitNextFragment(e, m, start),
           unsentBuffer' = [unsentBuffer EXCEPT ![e] = m],
           pushing' \in [End -> Msg \cup {NoMsg}]
    PROVE  /\ UnsentBecomes(e, m)
           /\ net' = net \/ \E p : PieceOf(e, m, p) /\ net' = net \cup {p}
<1> DEFINE length == FragmentLen(m, start)
<1>t. /\ outgoingSequence \in [End -> Nat \ {0}] /\ incomingSequence \in [End -> Nat]
      /\ unsentFragments \in [End -> BOOLEAN]
      /\ unsentFragmentStart \in [End -> 0..MaxMsgLen]
      /\ unsentBuffer \in [End -> Msg \cup {NoMsg}]
      /\ aborted \in [End -> SUBSET Nat]
      /\ Length[m] \in 0..MaxMsgLen
  BY DEF IInv, TypeOK
<1>l. /\ length \in Nat /\ start + length <= Length[m]
      /\ IsLastFragment(m, start) => start + length = Length[m]
  BY FragmentLenBounds
<1> HIDE DEF length
<1>1. CASE FragmentSent(e, m, start)
  <2>1. UnsentBecomes(e, m)
    <3> DEFINE done == AllSent(m, start, length)
    <3>1. /\ unsentFragmentStart' = [unsentFragmentStart EXCEPT ![e] = start + length]
          /\ unsentFragments' = [unsentFragments EXCEPT ![e] = ~done]
          /\ outgoingSequence' =
                [outgoingSequence EXCEPT ![e] = IF done THEN @ + 1 ELSE @]
          /\ UNCHANGED aborted
      BY <1>1 DEF FragmentSent, length
    <3>2. done \in BOOLEAN
      BY DEF AllSent
    <3> HIDE DEF done
    <3>3. start + length \in 0..MaxMsgLen
      BY <1>t, <1>l
    <3>4. /\ unsentFragmentStart' \in [End -> 0..MaxMsgLen]
          /\ unsentFragments' \in [End -> BOOLEAN]
          /\ outgoingSequence' \in [End -> Nat \ {0}]
          /\ unsentBuffer' \in [End -> Msg \cup {NoMsg}]
          /\ aborted' \in [End -> SUBSET Nat]
      BY <1>t, <3>1, <3>2, <3>3
    <3>5. outgoingSequence'[e] =
             outgoingSequence[e] + (IF unsentFragments'[e] THEN 0 ELSE 1)
      <4>1. CASE done
        <5>1. outgoingSequence'[e] = outgoingSequence[e] + 1 /\ ~unsentFragments'[e]
          BY <1>t, <3>1, <4>1
        <5> QED BY <5>1
      <4>2. CASE ~done
        <5>1. outgoingSequence'[e] = outgoingSequence[e] /\ unsentFragments'[e]
          BY <1>t, <3>1, <4>2
        <5> QED BY <1>t, <5>1
      <4> QED BY <4>1, <4>2
    <3>6. unsentBuffer'[e] = m /\ unsentFragmentStart'[e] <= Length[m]
      BY <1>t, <1>l, <3>1
    <3> QED BY <1>t, <3>1, <3>4, <3>5, <3>6 DEF UnsentBecomes
  <2>2. PieceOf(e, m, FragmentPacket(e, m, start))
    <3> DEFINE last == IsLastFragment(m, start)
    <3>1. last \in BOOLEAN /\ Compressed[m] \in BOOLEAN
      BY DEF IsLastFragment
    <3>2. last => start + length = Length[m]
      BY <1>l
    <3> HIDE DEF last
    <3>3. FragmentPacket(e, m, start) =
            [from |-> e, seq |-> outgoingSequence[e], ack |-> incomingSequence[e],
             fragmented |-> TRUE, msg |-> m, start |-> start,
             length |-> length, last |-> last, compressed |-> Compressed[m]]
      BY DEF FragmentPacket, length, last
    <3>4. FragmentPacket(e, m, start) \in Packet
      BY <1>t, <1>l, <3>1, <3>3 DEF Packet
    <3> QED BY <1>l, <3>2, <3>3, <3>4 DEF PieceOf
  <2> QED BY <1>1, <2>1, <2>2 DEF FragmentSent
<1>2. CASE FragmentFailed(e, start)
  <2>1. /\ unsentFragments' = [unsentFragments EXCEPT ![e] = FALSE]
        /\ outgoingSequence' = [outgoingSequence EXCEPT ![e] = @ + 1]
        /\ aborted' = [aborted EXCEPT ![e] = @ \cup {outgoingSequence[e]}]
        /\ unsentFragmentStart' = [unsentFragmentStart EXCEPT ![e] = start]
        /\ net' = net
    BY <1>2 DEF FragmentFailed, DropAllFragments
  <2>2. start \in 0..MaxMsgLen
    BY <1>t
  <2> QED BY <1>t, <2>1, <2>2 DEF UnsentBecomes
<1> QED BY <1>1, <1>2 DEF TransmitNextFragment

\* Netchan_Transmit, called with nothing left to send.
LEMMA TransmitIsSenderStep ==
    ASSUME IInv, NEW e \in End, NEW m \in Msg,
           ~unsentFragments[e], Transmit(e, m), UNCHANGED inVars
    PROVE  SenderStep(e, m)
<1>t. /\ outgoingSequence \in [End -> Nat \ {0}] /\ incomingSequence \in [End -> Nat]
      /\ unsentFragments \in [End -> BOOLEAN]
      /\ unsentFragmentStart \in [End -> 0..MaxMsgLen]
      /\ unsentBuffer \in [End -> Msg \cup {NoMsg}]
      /\ pushing \in [End -> Msg \cup {NoMsg}]
      /\ aborted \in [End -> SUBSET Nat]
      /\ sent \in [End -> Seq(Msg)]
      /\ Length[m] \in 0..MaxMsgLen
  BY DEF IInv, TypeOK
<1>1. /\ sent' = [sent EXCEPT ![e] = Append(@, m)]
      /\ pushing' = [pushing EXCEPT ![e] = NoMsg]
  BY DEF Transmit
<1>2. SentBecomes(e, m)
  <2>1. sent[e] \in Seq(Msg) /\ Len(sent[e]) = outgoingSequence[e] - 1
    BY <1>t DEF IInv, SentCount
  <2>2. sent' \in [End -> Seq(Msg)] /\ sent'[e] = Append(sent[e], m)
    BY <1>t, <1>1, <2>1
  <2>3. \A d \in End \ {e} : sent'[d] = sent[d]
    BY <1>t, <1>1
  <2>4. Len(sent'[e]) = outgoingSequence[e] /\ sent'[e][outgoingSequence[e]] = m
    BY <1>t, <2>1, <2>2
  <2>5. \A i \in 1..Len(sent[e]) : sent'[e][i] = sent[e][i]
    BY <2>1, <2>2
  <2>6. Len(sent[e]) <= Len(sent'[e])
    BY <1>t, <2>1, <2>4
  <2> QED BY <2>2, <2>3, <2>4, <2>5, <2>6 DEF SentBecomes
<1>3. pushing' \in [End -> Msg \cup {NoMsg}]
  BY <1>t, <1>1
<1>4. CASE Length[m] >= FragmentSize
  <2>0. /\ unsentBuffer' = [unsentBuffer EXCEPT ![e] = m]
        /\ TransmitNextFragment(e, m, 0)
        /\ 0 <= Length[m]
    BY <1>t, <1>4 DEF Transmit
  <2>1. UnsentBecomes(e, m) /\
        (net' = net \/ \E p : PieceOf(e, m, p) /\ net' = net \cup {p})
    BY <1>3, <2>0, FragmentBecomes
  <2> QED BY <1>2, <2>1 DEF SenderStep
<1>5. CASE ~(Length[m] >= FragmentSize)
  <2>1. /\ outgoingSequence' = [outgoingSequence EXCEPT ![e] = @ + 1]
        /\ unsentFragmentStart' = [unsentFragmentStart EXCEPT ![e] = 0]
        /\ unsentBuffer' = unsentBuffer /\ unsentFragments' = unsentFragments
    BY <1>5 DEF Transmit
  <2>2. CASE net' = net \cup {WholePacket(e, m)} /\ UNCHANGED aborted
    <3>1. PieceOf(e, m, WholePacket(e, m))
      BY <1>t DEF PieceOf, WholePacket, Packet
    <3>2. UnsentBecomes(e, m)
      BY <1>t, <1>3, <2>1, <2>2 DEF UnsentBecomes
    <3> QED BY <1>2, <2>2, <3>1, <3>2 DEF SenderStep
  <2>3. CASE /\ aborted' = [aborted EXCEPT ![e] = @ \cup {outgoingSequence[e]}]
             /\ UNCHANGED net
    <3>1. UnsentBecomes(e, m)
      BY <1>t, <1>3, <2>1, <2>3 DEF UnsentBecomes
    <3> QED BY <1>2, <2>3, <3>1 DEF SenderStep
  <2> QED BY <1>5, <2>2, <2>3 DEF Transmit
<1> QED BY <1>4, <1>5

\* One more fragment of the message being sent.
LEMMA FragmentIsSenderStep ==
    ASSUME IInv, NEW e \in End, unsentFragments[e],
           TransmitNextFragment(e, unsentBuffer[e], unsentFragmentStart[e]),
           pushing' \in [End -> Msg \cup {NoMsg}],
           UNCHANGED <<unsentBuffer, sent, inVars>>
    PROVE  unsentBuffer[e] \in Msg /\ SenderStep(e, unsentBuffer[e])
<1> DEFINE m == unsentBuffer[e]
<1>t. /\ outgoingSequence \in [End -> Nat \ {0}]
      /\ unsentFragmentStart \in [End -> 0..MaxMsgLen]
      /\ unsentBuffer \in [End -> Msg \cup {NoMsg}]
      /\ sent \in [End -> Seq(Msg)] /\ sent[e] \in Seq(Msg)
  BY DEF IInv, TypeOK
<1>1. /\ Len(sent[e]) = outgoingSequence[e]
      /\ m = sent[e][outgoingSequence[e]] /\ unsentFragmentStart[e] <= Length[m]
  BY <1>t DEF IInv, SentCount, UnsentIsLastSent
<1>2. m \in Msg
  BY <1>t, <1>1
<1>3. unsentBuffer' = [unsentBuffer EXCEPT ![e] = m]
  BY <1>t
<1>4. SentBecomes(e, m)
  BY <1>t, <1>1 DEF SentBecomes
<1>5. UnsentBecomes(e, m) /\
      (net' = net \/ \E p : PieceOf(e, m, p) /\ net' = net \cup {p})
  <2>1. unsentFragmentStart[e] \in Nat
    BY <1>t
  <2> HIDE DEF m
  <2> QED BY <1>1, <1>2, <1>3, <2>1, FragmentBecomes DEF m
<1> QED BY <1>2, <1>4, <1>5 DEF SenderStep

(***************************************************************************)
(* Receiving.                                                              *)
(***************************************************************************)
ProcessPacket(e, p) ==
    /\ p \in net /\ p.from = Peer(e) /\ Fresh(e, p)
    /\ ProcessWhole(e, p) \/ ProcessFragment(e, p)
    /\ UNCHANGED <<outVars, net>>

\* Whatever Netchan_Process hands over is the content of the message sent with
\* that sequence, and the assembly buffer keeps matching a message sent.
LEMMA ProcessEffect ==
    ASSUME IInv, NEW e \in End, NEW p, ProcessPacket(e, p)
    PROVE  /\ p.seq \in 1..Len(sent[Peer(e)]) /\ p.ack \in Nat
           /\ p.msg \in Msg /\ p.msg = sent[Peer(e)][p.seq]
           /\ \/ Accept(e, p, Content(p.msg))
              \/ UNCHANGED <<incomingSequence, incoming_acknowledged, received>>
           /\ fragmentSequence' \in [End -> Nat]
           /\ fragmentLength' \in [End -> 0..MaxMsgLen]
           /\ fragmentBuffer' \in [End -> [Position -> Byte]]
           /\ BufferMatchesSent'
<1> DEFINE m == p.msg
<1> USE DEF ProcessPacket
<1>t. /\ fragmentSequence \in [End -> Nat]
      /\ fragmentLength \in [End -> 0..MaxMsgLen]
      /\ fragmentBuffer \in [End -> [Position -> Byte]]
      /\ sent' = sent
      /\ Peer(e) \in End /\ sent[Peer(e)] \in Seq(Msg) /\ Len(sent[Peer(e)]) \in Nat
  <2>1. TypeOK /\ Peer(e) \in End /\ sent' = sent
    BY PeerEnd DEF IInv, outVars
  <2>2. sent \in [End -> Seq(Msg)]
    BY <2>1 DEF TypeOK
  <2>3. sent[Peer(e)] \in Seq(Msg)
    BY <2>1, <2>2
  <2>4. Len(sent[Peer(e)]) \in Nat
    BY <2>3
  <2> QED BY <2>1, <2>3, <2>4 DEF TypeOK
<1>p. /\ p.seq \in Nat /\ p.ack \in Nat /\ p.msg \in Msg
      /\ p.fragmented \in BOOLEAN /\ p.last \in BOOLEAN
      /\ p.start \in Nat /\ p.length \in Nat
      /\ Length[m] \in 0..MaxMsgLen
  <2>1. p \in Packet
    BY DEF IInv, TypeOK
  <2> QED BY <2>1 DEF Packet
<1>s. /\ p.seq \in 1..Len(sent[Peer(e)]) /\ m = sent[Peer(e)][p.seq]
      /\ p.compressed = Compressed[m]
      /\ p.fragmented => p.start + p.length <= Length[m]
      /\ p.fragmented /\ p.last => p.start + p.length = Length[m]
  BY DEF IInv, PacketsMatchSent
<1>b. ASSUME NEW d \in End, fragmentLength[d] > 0
      PROVE  /\ fragmentSequence[d] \in 1..Len(sent[Peer(d)])
             /\ \A i \in 0..fragmentLength[d]-1 :
                   fragmentBuffer[d][i] = <<sent[Peer(d)][fragmentSequence[d]], i>>
  BY <1>b DEF IInv, BufferMatchesSent
<1>1. CASE ProcessWhole(e, p)
  <2>1. Accept(e, p, Content(m))
    BY <1>1, <1>s DEF ProcessWhole, Content
  <2>2. UNCHANGED <<fragmentSequence, fragmentLength, fragmentBuffer>>
    BY <1>1 DEF ProcessWhole
  <2>3. BufferMatchesSent'
    BY <1>t, <2>2 DEF IInv, BufferMatchesSent
  <2> QED BY <1>t, <1>p, <1>s, <2>1, <2>2, <2>3
<1>2. CASE ProcessFragment(e, p)
  <2> DEFINE length == p.start + p.length
             buffer == CopyFragment(e, p)
  <2>1. p.fragmented /\ fragmentSequence' = [fragmentSequence EXCEPT ![e] = p.seq]
    BY <1>2 DEF ProcessFragment
  <2>2. fragmentSequence' \in [End -> Nat] /\ fragmentSequence'[e] = p.seq
    BY <1>t, <1>p, <2>1
  <2>3. length \in 0..MaxMsgLen /\ length <= Length[m]
    BY <1>p, <1>s, <2>1
  <2>a. /\ Assembled(e, p) \in 0..MaxMsgLen
        /\ \A i \in 0..Assembled(e, p)-1 : fragmentBuffer[e][i] = <<m, i>>
    <3>1. CASE p.seq = fragmentSequence[e] /\ fragmentLength[e] > 0
      BY <1>t, <1>b, <1>s, <3>1 DEF Assembled
    <3>2. CASE p.seq = fragmentSequence[e] /\ ~(fragmentLength[e] > 0)
      BY <1>t, <3>2 DEF Assembled
    <3>3. CASE p.seq # fragmentSequence[e]
      BY <3>3 DEF Assembled
    <3> QED BY <3>1, <3>2, <3>3
  \* The other end's buffer does not change: it is enough to look at e's.
  <2>o. ASSUME /\ \A d \in End \ {e} : /\ fragmentLength'[d] = fragmentLength[d]
                                       /\ fragmentBuffer'[d] = fragmentBuffer[d],
               NEW n \in 0..MaxMsgLen, fragmentLength'[e] = n,
               \A i \in 0..n-1 : fragmentBuffer'[e][i] = <<m, i>>
        PROVE  BufferMatchesSent'
    <3> SUFFICES ASSUME NEW d \in End, fragmentLength'[d] > 0
                 PROVE  /\ fragmentSequence'[d] \in 1..Len(sent[Peer(d)])
                        /\ \A i \in 0..fragmentLength'[d]-1 :
                              fragmentBuffer'[d][i]
                                 = <<sent[Peer(d)][fragmentSequence'[d]], i>>
      BY <1>t DEF BufferMatchesSent
    <3>1. CASE d = e
      BY <1>s, <2>2, <2>o, <3>1
    <3>2. CASE d # e
      <4>1. /\ fragmentLength'[d] = fragmentLength[d]
            /\ fragmentBuffer'[d] = fragmentBuffer[d]
        BY <2>o, <3>2
      <4>2. fragmentSequence'[d] = fragmentSequence[d]
        BY <1>t, <2>1, <3>2
      <4> QED BY <1>b, <4>1, <4>2
    <3> QED BY <3>1, <3>2
  <2>4. CASE ~Fits(e, p)
    <3>1. /\ fragmentLength' = [fragmentLength EXCEPT ![e] = Assembled(e, p)]
          /\ UNCHANGED <<fragmentBuffer, incomingSequence,
                          incoming_acknowledged, received>>
      BY <1>2, <2>4 DEF ProcessFragment
    <3>2. BufferMatchesSent'
      BY <1>t, <2>a, <2>o, <3>1
    <3> QED BY <1>t, <1>p, <1>s, <2>2, <2>a, <3>1, <3>2
  <2>5. CASE Fits(e, p)
    <3> HIDE DEF m
    <3>1. p.start = Assembled(e, p)
      BY <2>5 DEF Fits
    <3>2. /\ fragmentBuffer' = [fragmentBuffer EXCEPT ![e] = buffer]
          /\ IF p.last
             THEN /\ fragmentLength' = [fragmentLength EXCEPT ![e] = 0]
                  /\ Accept(e, p, [data |-> [i \in 0..length-1 |-> buffer[i]],
                                   compressed |-> p.compressed])
             ELSE /\ fragmentLength' = [fragmentLength EXCEPT ![e] = length]
                  /\ UNCHANGED <<incomingSequence, incoming_acknowledged, received>>
      BY <1>2, <2>5 DEF ProcessFragment
    <3>3. buffer \in [Position -> Byte]
      <4>1. \A i \in Position : fragmentBuffer[e][i] \in Byte
        BY <1>t
      <4>2. \A i \in Position : <<m, i>> \in Byte
        BY <1>p DEF Byte, Position, m
      <4>3. buffer = [i \in Position |-> IF i \in p.start..p.start + p.length - 1
                                        THEN <<m, i>> ELSE fragmentBuffer[e][i]]
        BY DEF CopyFragment, m
      <4> QED BY <4>1, <4>2, <4>3
    <3>4. \A i \in 0..length-1 : buffer[i] = <<m, i>>
      <4> SUFFICES ASSUME NEW i \in 0..length-1 PROVE buffer[i] = <<m, i>>
        OBVIOUS
      <4>1. i \in Position
        BY <1>p, <2>3 DEF Position
      <4>2. CASE i \in p.start..p.start + p.length - 1
        BY <4>1, <4>2 DEF CopyFragment, m
      <4>3. CASE i \notin p.start..p.start + p.length - 1
        <5>1. i \in 0..Assembled(e, p)-1
          BY <1>p, <2>3, <3>1, <4>3
        <5> QED BY <2>a, <4>1, <4>3, <5>1 DEF CopyFragment
      <4> QED BY <4>2, <4>3
    <3>5. fragmentBuffer' \in [End -> [Position -> Byte]] /\ fragmentBuffer'[e] = buffer
      BY <1>t, <3>2, <3>3
    <3>6. CASE p.last
      <4>1. [i \in 0..length-1 |-> buffer[i]] = Data(m)
        <5>1. length = Length[m]
          BY <1>s, <2>1, <3>6
        <5> HIDE DEF buffer, length
        <5> QED BY <3>4, <5>1 DEF Data
      <4>2. Accept(e, p, Content(m))
        BY <1>s, <3>2, <3>6, <4>1 DEF Content
      <4>3. fragmentLength' = [fragmentLength EXCEPT ![e] = 0]
        BY <3>2, <3>6
      <4>4. fragmentLength' \in [End -> 0..MaxMsgLen] /\ fragmentLength'[e] = 0
        BY <1>t, <4>3
      <4>5. BufferMatchesSent'
        BY <1>t, <2>o, <3>2, <4>3, <4>4
      <4> QED BY <1>p, <1>s, <2>2, <3>5, <4>2, <4>4, <4>5 DEF m
    <3>7. CASE ~p.last
      <4>1. /\ fragmentLength' = [fragmentLength EXCEPT ![e] = length]
            /\ UNCHANGED <<incomingSequence, incoming_acknowledged, received>>
        BY <3>2, <3>7
      <4> HIDE DEF length, buffer
      <4>2. fragmentLength' \in [End -> 0..MaxMsgLen] /\ fragmentLength'[e] = length
        BY <1>t, <2>3, <4>1
      <4>3. BufferMatchesSent'
        BY <1>t, <2>3, <2>o, <3>2, <3>4, <3>5, <4>1, <4>2
      <4> QED BY <1>p, <1>s, <2>2, <3>5, <4>1, <4>2, <4>3 DEF m
    <3> QED BY <3>6, <3>7
  <2> QED BY <2>4, <2>5
<1> QED BY <1>1, <1>2

\* Netchan_Process keeps the invariant.
LEMMA ProcessIInv ==
    ASSUME IInv, NEW e \in End, NEW p, ProcessPacket(e, p)
    PROVE  IInv'
<1>t. TypeOK /\ p \in net /\ p.from = Peer(e) /\ Fresh(e, p)
      /\ UNCHANGED <<outgoingSequence, unsentFragments, unsentFragmentStart,
                      unsentBuffer, pushing, sent, aborted, net>>
  BY DEF IInv, ProcessPacket, outVars
<1>e. /\ p.seq \in 1..Len(sent[Peer(e)]) /\ p.ack \in Nat /\ p.msg \in Msg
      /\ \/ Accept(e, p, Content(p.msg))
         \/ UNCHANGED <<incomingSequence, incoming_acknowledged, received>>
      /\ fragmentSequence' \in [End -> Nat]
      /\ fragmentLength' \in [End -> 0..MaxMsgLen]
      /\ fragmentBuffer' \in [End -> [Position -> Byte]]
      /\ BufferMatchesSent'
  BY ProcessEffect
<1>u. SentCount' /\ UnsentIsLastSent' /\ PacketsMatchSent'
  BY <1>t DEF IInv, SentCount, UnsentIsLastSent, PacketsMatchSent
<1>1. CASE UNCHANGED <<incomingSequence, incoming_acknowledged, received>>
  <2>1. TypeOK'
    BY <1>t, <1>e, <1>1 DEF TypeOK
  <2>2. IncomingIsLastReceived' /\ AcksOrdered' /\ AcksReceived'
    BY <1>t, <1>1 DEF IInv, IncomingIsLastReceived, AcksOrdered, AcksReceived,
                      ReceivedSeqs, Fresh
  <2> QED BY <1>e, <1>u, <2>1, <2>2 DEF IInv
<1>2. CASE Accept(e, p, Content(p.msg))
  <2> DEFINE d == [seq |-> p.seq, content |-> Content(p.msg)]
  <2>t. /\ incomingSequence \in [End -> Nat] /\ incoming_acknowledged \in [End -> Nat]
        /\ received \in [End -> Seq(Delivery)]
        /\ received[e] \in Seq(Delivery) /\ Len(received[e]) \in Nat
        /\ p.seq \in Nat /\ p.from \in End /\ Peer(e) \in End
    <3>1. received \in [End -> Seq(Delivery)] /\ p \in Packet
      BY <1>t DEF TypeOK
    <3>2. received[e] \in Seq(Delivery)
      BY <3>1
    <3>3. Len(received[e]) \in Nat
      BY <3>2
    <3> QED BY <1>t, <3>1, <3>2, <3>3, PeerEnd DEF TypeOK, Packet
  <2>d. d \in Delivery /\ d.seq = p.seq
    BY <1>e, <2>t DEF Delivery
  <2>a. /\ incomingSequence' = [incomingSequence EXCEPT ![e] = p.seq]
        /\ incoming_acknowledged' = [incoming_acknowledged EXCEPT ![e] = p.ack]
        /\ received' = [received EXCEPT ![e] = Append(@, d)]
    BY <1>2 DEF Accept
  <2> HIDE DEF d
  <2>r. /\ received' \in [End -> Seq(Delivery)]
        /\ received'[e] = Append(received[e], d)
        /\ \A x \in End \ {e} : received'[x] = received[x]
    BY <2>t, <2>d, <2>a
  <2>1. TypeOK'
    <3>1. /\ incomingSequence' \in [End -> Nat]
          /\ incoming_acknowledged' \in [End -> Nat]
      BY <1>e, <2>t, <2>a
    <3> QED BY <1>t, <1>e, <2>r, <3>1 DEF TypeOK
  <2>2. IncomingIsLastReceived'
    <3> SUFFICES ASSUME NEW x \in End
                 PROVE  incomingSequence'[x] =
                           IF received'[x] = <<>> THEN 0
                           ELSE received'[x][Len(received'[x])].seq
      BY DEF IncomingIsLastReceived
    <3>1. CASE x = e
      <4>1. /\ received'[e] # <<>>
            /\ received'[e][Len(received'[e])] = d
        <5>1. /\ Len(received'[e]) = Len(received[e]) + 1
              /\ received'[e][Len(received[e]) + 1] = d
          BY <2>t, <2>d, <2>r
        <5>2. Len(received'[e]) # 0
          BY <2>t, <5>1
        <5> QED BY <5>1, <5>2
      <4> QED BY <2>t, <2>d, <2>a, <3>1, <4>1
    <3>2. CASE x # e
      <4>1. incomingSequence'[x] = incomingSequence[x] /\ received'[x] = received[x]
        BY <2>t, <2>a, <2>r, <3>2
      <4> QED BY <4>1 DEF IInv, IncomingIsLastReceived
    <3> QED BY <3>1, <3>2
  <2>3. AcksOrdered'
    <3>i. incomingSequence[e] < p.seq
      BY <1>t, <2>t DEF Fresh
    <3>m. \A x \in End : incomingSequence[x] <= incomingSequence'[x]
      <4> SUFFICES ASSUME NEW x \in End PROVE incomingSequence[x] <= incomingSequence'[x]
        OBVIOUS
      <4>1. CASE x = e
        BY <2>t, <2>a, <3>i, <4>1
      <4>2. CASE x # e
        <5>1. incomingSequence'[x] = incomingSequence[x] /\ incomingSequence[x] \in Nat
          BY <2>t, <2>a, <4>2
        <5> QED BY <5>1
      <4> QED BY <4>1, <4>2
    <3>n. \A q \in net : q.seq \in Nat /\ q.ack \in Nat /\ q.from \in End
      BY <1>t DEF TypeOK, Packet
    <3>1. \A x \in End : incoming_acknowledged'[x] <= incomingSequence'[Peer(x)]
      <4> SUFFICES ASSUME NEW x \in End
                   PROVE  incoming_acknowledged'[x] <= incomingSequence'[Peer(x)]
        OBVIOUS
      <4>t. /\ Peer(x) \in End /\ incomingSequence[Peer(x)] \in Nat
            /\ incomingSequence'[Peer(x)] \in Nat
            /\ incomingSequence[Peer(x)] <= incomingSequence'[Peer(x)]
        BY <2>t, <2>a, <3>m, PeerEnd
      <4>1. CASE x = e
        <5>1. p.ack <= incomingSequence[Peer(e)]
          BY <1>t DEF IInv, AcksOrdered
        <5> QED BY <1>e, <2>t, <2>a, <4>t, <4>1, <5>1
      <4>2. CASE x # e
        <5>1. incoming_acknowledged'[x] = incoming_acknowledged[x]
              /\ incoming_acknowledged[x] \in Nat
          BY <2>t, <2>a, <4>2
        <5>2. incoming_acknowledged[x] <= incomingSequence[Peer(x)]
          BY DEF IInv, AcksOrdered
        <5> QED BY <4>t, <5>1, <5>2
      <4> QED BY <4>1, <4>2
    <3>2. \A q \in net : q.ack <= incomingSequence'[q.from]
      <4> SUFFICES ASSUME NEW q \in net PROVE q.ack <= incomingSequence'[q.from]
        OBVIOUS
      <4>1. q.ack <= incomingSequence[q.from]
        BY DEF IInv, AcksOrdered
      <4>2. /\ incomingSequence[q.from] \in Nat /\ incomingSequence'[q.from] \in Nat
            /\ incomingSequence[q.from] <= incomingSequence'[q.from] /\ q.ack \in Nat
        BY <2>t, <2>a, <3>m, <3>n
      <4> QED BY <4>1, <4>2
    <3>3. \A q, r \in net : q.from = r.from /\ q.seq < r.seq => q.ack <= r.ack
      BY DEF IInv, AcksOrdered
    <3>4. ASSUME NEW q \in net, q.seq > incomingSequence'[Peer(q.from)]
          PROVE  q.ack >= incoming_acknowledged'[Peer(q.from)]
      <4>1. CASE q.from = Peer(e)
        <5>1. Peer(q.from) = e
          BY <4>1, PeerEnd
        <5>2. q.seq > p.seq
          BY <2>t, <2>a, <3>4, <5>1
        <5>3. p.ack <= q.ack
          <6>1. p.from = q.from /\ p.seq < q.seq
            BY <1>t, <2>t, <3>n, <4>1, <5>2
          <6> QED BY <1>t, <3>3, <6>1
        <5>4. incoming_acknowledged'[e] = p.ack
          BY <2>t, <2>a
        <5> QED BY <1>e, <3>n, <5>1, <5>3, <5>4
      <4>2. CASE q.from # Peer(e)
        <5>1. Peer(q.from) \in End /\ Peer(q.from) # e
          BY <3>n, <4>2, PeerEnd
        <5>2. /\ incomingSequence'[Peer(q.from)] = incomingSequence[Peer(q.from)]
              /\ incoming_acknowledged'[Peer(q.from)]
                     = incoming_acknowledged[Peer(q.from)]
          BY <2>t, <2>a, <5>1
        <5>3. Fresh(Peer(q.from), q)
          BY <3>4, <5>2 DEF Fresh
        <5> QED BY <5>2, <5>3 DEF IInv, AcksOrdered
      <4> QED BY <4>1, <4>2
    <3> QED BY <1>t, <3>1, <3>2, <3>3, <3>4 DEF AcksOrdered, Fresh
  <2>4. AcksReceived'
    <3>1. \A x \in End : ReceivedSeqs(x) \subseteq ReceivedSeqs(x)'
      <4> SUFFICES ASSUME NEW x \in End, NEW i \in 1..Len(received[x])
                   PROVE  /\ i \in 1..Len(received'[x])
                          /\ received'[x][i].seq = received[x][i].seq
        BY DEF ReceivedSeqs
      <4>1. CASE x = e
        <5>1. i \in 1..Len(received'[e]) /\ received'[e][i] = received[e][i]
          BY <2>t, <2>d, <2>r, <4>1
        <5> QED BY <4>1, <5>1
      <4>2. CASE x # e
        BY <2>r, <4>2
      <4> QED BY <4>1, <4>2
    <3>2. p.ack \in ReceivedSeqs(Peer(e))
      BY <1>t DEF IInv, AcksReceived
    <3>3. \A x \in End : incoming_acknowledged'[x] \in ReceivedSeqs(Peer(x))
      <4> SUFFICES ASSUME NEW x \in End
                   PROVE  incoming_acknowledged'[x] \in ReceivedSeqs(Peer(x))
        OBVIOUS
      <4>1. CASE x = e
        BY <2>t, <2>a, <3>2, <4>1
      <4>2. CASE x # e
        BY <2>t, <2>a, <4>2 DEF IInv, AcksReceived
      <4> QED BY <4>1, <4>2
    <3>4. \A q \in net : q.ack \in ReceivedSeqs(q.from) /\ q.from \in End
      BY <1>t DEF IInv, AcksReceived, TypeOK, Packet
    <3>5. \A x \in End : ReceivedSeqs(Peer(x)) \subseteq ReceivedSeqs(Peer(x))'
      BY <3>1, PeerEnd
    <3> QED BY <1>t, <3>1, <3>3, <3>4, <3>5 DEF AcksReceived
  <2> QED BY <1>e, <1>u, <2>1, <2>2, <2>3, <2>4 DEF IInv
<1> QED BY <1>e, <1>1, <1>2

(***************************************************************************)
(* Every step.                                                             *)
(***************************************************************************)

\* A step of NetChan sends, processes a packet, or only starts pushing.
LEMMA StepCases ==
    ASSUME IInv, Next
    PROVE  \/ \E e \in End, m \in Msg : SenderStep(e, m)
           \/ \E e \in End, p \in net : ProcessPacket(e, p)
           \/ /\ pushing' \in [End -> Msg \cup {NoMsg}]
              /\ UNCHANGED <<outgoingSequence, unsentFragments, unsentFragmentStart,
                             unsentBuffer, sent, aborted, net, inVars>>
<1>t. pushing \in [End -> Msg \cup {NoMsg}]
  BY DEF IInv, TypeOK
<1>1. ASSUME NEW e \in End, NEW m \in Msg, NetchanTransmit(e, m)
      PROVE  \/ SenderStep(e, m)
             \/ /\ pushing' \in [End -> Msg \cup {NoMsg}]
                /\ UNCHANGED <<outgoingSequence, unsentFragments, unsentFragmentStart,
                               unsentBuffer, sent, aborted, net, inVars>>
  <2>1. CASE unsentFragments[e]
    BY <1>t, <1>1, <2>1 DEF NetchanTransmit
  <2>2. CASE ~unsentFragments[e]
    BY <1>1, <2>2, TransmitIsSenderStep DEF NetchanTransmit
  <2> QED BY <2>1, <2>2
<1>2. ASSUME NEW e \in End, PushFragment(e)
      PROVE  \E m \in Msg : SenderStep(e, m)
  <2>1. pushing' \in [End -> Msg \cup {NoMsg}]
    BY <1>t, <1>2 DEF PushFragment
  <2>2. TransmitNextFragment(e, unsentBuffer[e], unsentFragmentStart[e])
    BY <1>2 DEF PushFragment, TransmitNextFragment
  <2> QED BY <1>2, <2>1, <2>2, FragmentIsSenderStep DEF PushFragment
<1>3. ASSUME NEW e \in End, TransmitPushed(e)
      PROVE  \E m \in Msg : SenderStep(e, m)
  <2>1. pushing[e] \in Msg
    BY <1>t, <1>3 DEF TransmitPushed
  <2> QED BY <1>3, <2>1, TransmitIsSenderStep DEF TransmitPushed
<1>4. ASSUME NEW e \in End, SendFragment(e)
      PROVE  \E m \in Msg : SenderStep(e, m)
  <2>1. pushing' \in [End -> Msg \cup {NoMsg}]
    BY <1>t, <1>4 DEF SendFragment
  <2> QED BY <1>4, <2>1, FragmentIsSenderStep DEF SendFragment
<1>5. ASSUME NEW e \in End, Process(e)
      PROVE  \E p \in net : ProcessPacket(e, p)
  BY <1>5 DEF Process, ProcessPacket, ProcessWhole, ProcessFragment
<1> QED BY <1>1, <1>2, <1>3, <1>4, <1>5 DEF Next

\* IInv is inductive.
LEMMA StepIInv == IInv /\ [Next]_vars => IInv'
<1> SUFFICES ASSUME IInv, [Next]_vars PROVE IInv'
  OBVIOUS
<1>1. CASE \E e \in End, m \in Msg : SenderStep(e, m)
  BY <1>1, SenderStepIInv
<1>2. CASE \E e \in End, p \in net : ProcessPacket(e, p)
  BY <1>2, ProcessIInv
<1>3. ASSUME /\ pushing' \in [End -> Msg \cup {NoMsg}]
             /\ UNCHANGED <<outgoingSequence, unsentFragments, unsentFragmentStart,
                            unsentBuffer, sent, aborted, net, inVars>>
      PROVE  IInv'
  <2>1. TypeOK'
    BY <1>3 DEF IInv, inVars, TypeOK
  <2>2. SentCount' /\ UnsentIsLastSent' /\ PacketsMatchSent'
    BY <1>3 DEF IInv, SentCount, UnsentIsLastSent, PacketsMatchSent
  <2>3. BufferMatchesSent' /\ IncomingIsLastReceived'
    BY <1>3 DEF IInv, inVars, BufferMatchesSent, IncomingIsLastReceived
  <2>4. AcksOrdered' /\ AcksReceived'
    BY <1>3 DEF IInv, inVars, AcksOrdered, AcksReceived, ReceivedSeqs, Fresh
  <2> QED BY <2>1, <2>2, <2>3, <2>4 DEF IInv
<1>4. CASE UNCHANGED vars
  <2>1. /\ pushing' \in [End -> Msg \cup {NoMsg}]
        /\ UNCHANGED <<outgoingSequence, unsentFragments, unsentFragmentStart,
                       unsentBuffer, sent, aborted, net, inVars>>
    BY <1>4 DEF vars, inVars, outVars, IInv, TypeOK
  <2> QED BY <1>3, <2>1
<1> QED BY <1>1, <1>2, <1>3, <1>4, StepCases

\* Every reachable state of the channel satisfies the inductive invariant:
\* packets are pieces of the messages their sequences name, assembly buffers
\* are beginnings of them, and acknowledgements are ordered and true.
THEOREM NetChanInvariant == Spec => []IInv
<1>1. Init => IInv
  BY InitIInv
<1>2. IInv /\ [Next]_vars => IInv'
  BY StepIInv
<1> QED BY <1>1, <1>2, PTL DEF Spec

\* An end believes acknowledged only what its peer really was handed.
THEOREM AckedWasReceivedAlways == Spec => []AckedWasReceived
<1>1. IInv => AckedWasReceived
  BY DEF IInv, AcksReceived, ReceivedSeqs, AckedWasReceived
<1> QED BY <1>1, NetChanInvariant, PTL

\* In whatever order packets arrive, incoming_acknowledged never goes back.
THEOREM AckNeverGoesBackAlways == Spec => AckNeverGoesBack
<1>1. IInv /\ [Next]_vars =>
         [\A e \in End : incoming_acknowledged'[e] >= incoming_acknowledged[e]]_vars
  <2> SUFFICES ASSUME IInv, Next, NEW d \in End
               PROVE  incoming_acknowledged'[d] >= incoming_acknowledged[d]
    OBVIOUS
  <2>t. incoming_acknowledged \in [End -> Nat]
    BY DEF IInv, TypeOK
  <2>1. CASE UNCHANGED incoming_acknowledged
    BY <2>t, <2>1
  <2>2. CASE \E e \in End, p \in net : ProcessPacket(e, p)
    <3> PICK e \in End, p \in net : ProcessPacket(e, p)
      BY <2>2
    <3>1. /\ p.ack \in Nat
          /\ \/ Accept(e, p, Content(p.msg))
             \/ UNCHANGED <<incomingSequence, incoming_acknowledged, received>>
      BY ProcessEffect
    <3>2. p.from = Peer(e) /\ Peer(p.from) = e /\ Fresh(e, p)
      BY PeerEnd DEF ProcessPacket
    <3>3. p.ack >= incoming_acknowledged[e]
      BY <3>2 DEF IInv, AcksOrdered
    <3>4. CASE Accept(e, p, Content(p.msg))
      <4>1. incoming_acknowledged' = [incoming_acknowledged EXCEPT ![e] = p.ack]
        BY <3>4 DEF Accept
      <4>2. CASE d = e
        BY <2>t, <3>3, <4>1, <4>2
      <4>3. CASE d # e
        <5>1. incoming_acknowledged'[d] = incoming_acknowledged[d]
              /\ incoming_acknowledged[d] \in Nat
          BY <2>t, <4>1, <4>3
        <5> QED BY <5>1
      <4> QED BY <4>2, <4>3
    <3> QED BY <2>1, <3>1, <3>4
  <2> QED BY <2>1, <2>2, StepCases DEF SenderStep, inVars
<1> QED BY <1>1, NetChanInvariant, PTL DEF Spec, AckNeverGoesBack

(***************************************************************************)
(* Reassembly.                                                             *)
(***************************************************************************)

\* The last fragment, and no other, makes the sender stop.
LEMMA LastIsAllSent ==
    ASSUME NEW m \in Msg, NEW start \in Nat, start <= Length[m]
    PROVE  AllSent(m, start, FragmentLen(m, start)) <=> IsLastFragment(m, start)
<1>1. Length[m] \in Nat /\ FragmentSize \in Nat \ {0}
  OBVIOUS
<1>2. PICK left \in Nat : left = Length[m] - start
  BY <1>1
<1>3. CASE IsLastFragment(m, start)
  <2>1. FragmentLen(m, start) = left /\ left < FragmentSize
    BY <1>1, <1>2, <1>3 DEF FragmentLen, IsLastFragment
  <2> QED BY <1>1, <1>2, <1>3, <2>1 DEF AllSent
<1>4. CASE ~IsLastFragment(m, start)
  <2>1. left >= FragmentSize
    BY <1>1, <1>2, <1>4 DEF IsLastFragment
  <2>2. PICK shares : shares = CeilDiv(left, FragmentSize)
    OBVIOUS
  <2>3. shares \in Nat /\ shares > 0
    BY <1>2, <2>1, <2>2, <1>1, CeilDivBounds
  <2>4. PICK length : length = CeilDiv(left, shares)
    OBVIOUS
  <2>5. length \in Nat
    BY <2>3, <2>4, <1>2, CeilDivBounds
  <2>6. FragmentLen(m, start) = length
    BY <1>2, <1>4, <2>2, <2>4 DEF FragmentLen
  <2>7. SUFFICES ASSUME length = left PROVE length = FragmentSize
    BY <1>1, <1>2, <1>4, <2>5, <2>6 DEF AllSent
  <2>8. shares * length <= left + shares - 1
    BY <2>3, <2>4, <1>2, ShareOf
  <2>9. FragmentSize * shares >= left /\ FragmentSize * shares <= left + FragmentSize - 1
    BY <2>2, <1>2, <1>1, ShareOf
  <2>10. CASE shares = 1
    BY <2>1, <2>7, <2>9, <2>10, <1>1, <1>2
  <2>11. CASE shares > 1
    <3>1. PICK k \in Nat : shares = k + 2
      <4>1. shares - 2 \in Nat /\ shares = (shares - 2) + 2
        BY <2>3, <2>11
      <4> QED BY <4>1
    <3>2. left <= 1
      <4>1. (k + 2) * left <= left + (k + 2) - 1
        BY <2>7, <2>8, <3>1
      <4>2. (k + 2) * left = k * left + 2 * left
        BY <1>2, SMT
      <4>3. k * left + left <= k + 1
        BY <4>1, <4>2, <1>2
      <4>4. left >= 2 => k * left >= k * 2
        BY <1>2, SMT
      <4> QED BY <4>3, <4>4, <1>2
    <3>3. left = 1 /\ FragmentSize = 1
      BY <2>1, <3>2, <1>1, <1>2
    <3> QED BY <2>7, <3>3
  <2> QED BY <2>3, <2>10, <2>11
<1> QED BY <1>3, <1>4

\* The fragments of a message that have been sent, up to cur, form a chain.
SoFar(F, cur) ==
    /\ \E p \in F : p.start = 0
    /\ \A p \in F : /\ ~p.last
                    /\ \/ p.start + p.length = cur
                       \/ \E q \in F : q.start = p.start + p.length

\* The fragments of a message of a given length are all there.
Complete(F, length) ==
    /\ \E p \in F : p.start = 0
    /\ \A p \in F : ~p.last => \E q \in F : q.start = p.start + p.length
    /\ \E p \in F : /\ p.last
                    /\ p.start + p.length = length
                    /\ \A q \in F : q.last => q = p

FragmentsSoFar ==
    \A e \in End : unsentFragments[e] =>
        SoFar(Fragments(e, outgoingSequence[e]), unsentFragmentStart[e])

\* The next fragment makes the chain longer, or completes it.
LEMMA NextFragment ==
    ASSUME NEW F, NEW start, NEW P, P.start = start,
           (F = {} /\ start = 0) \/ SoFar(F, start)
    PROVE  /\ ~P.last => SoFar(F \cup {P}, start + P.length)
           /\ \A length : P.last /\ start + P.length = length => Complete(F \cup {P}, length)
<1> DEFINE G == F \cup {P}
<1>1. \E p \in G : p.start = 0
  BY DEF SoFar
<1>2. \A p \in F : ~p.last /\ \E q \in G : q.start = p.start + p.length
  BY DEF SoFar
<1>3. ~P.last => SoFar(G, start + P.length)
  BY <1>1, <1>2 DEF SoFar
<1>4. ASSUME NEW length, P.last, start + P.length = length
      PROVE  Complete(G, length)
  BY <1>1, <1>2, <1>4 DEF Complete
<1> QED BY <1>3, <1>4

\* A step of a sender disturbs only the message it is sending.
LEMMA SenderStepReassembly ==
    ASSUME IInv, Reassemblable, FragmentsSoFar,
           NEW e \in End, NEW m \in Msg, SenderStep(e, m),
           \A d \in End : aborted[d] \subseteq aborted'[d],
           NEW G, G = {p \in net' : p.from = e /\ p.seq = outgoingSequence[e]},
           unsentFragments'[e] => SoFar(G, unsentFragmentStart'[e]),
           (/\ ~unsentFragments'[e]
            /\ outgoingSequence[e] \notin aborted'[e]
            /\ Length[m] >= FragmentSize) => Complete(G, Length[m])
    PROVE  Reassemblable' /\ FragmentsSoFar'
<1>t. /\ outgoingSequence \in [End -> Nat \ {0}]
      /\ sent \in [End -> Seq(Msg)] /\ Length \in [Msg -> 0..MaxMsgLen]
  BY DEF IInv, TypeOK
<1>i. IInv'
  BY SenderStepIInv
<1>u. outgoingSequence' \in [End -> Nat \ {0}] /\ unsentFragments' \in [End -> BOOLEAN]
  BY <1>i DEF IInv, TypeOK
<1>s. /\ sent'[e][outgoingSequence[e]] = m
      /\ \A i \in 1..Len(sent[e]) : sent'[e][i] = sent[e][i]
      /\ \A d \in End \ {e} : sent'[d] = sent[d]
  BY DEF SenderStep, SentBecomes
<1>n. /\ outgoingSequence'[e] = outgoingSequence[e] + (IF unsentFragments'[e] THEN 0 ELSE 1)
      /\ \A d \in End \ {e} : /\ outgoingSequence'[d] = outgoingSequence[d]
                              /\ unsentFragments'[d] = unsentFragments[d]
                              /\ unsentFragmentStart'[d] = unsentFragmentStart[d]
  BY DEF SenderStep, UnsentBecomes
<1>1. ASSUME NEW d \in End, NEW s \in Nat, d # e \/ s # outgoingSequence[e]
      PROVE  Fragments(d, s)' = Fragments(d, s)
  <2>1. net' = net \/ \E p : PieceOf(e, m, p) /\ net' = net \cup {p}
    BY DEF SenderStep
  <2>2. \A p : PieceOf(e, m, p) => ~(p.from = d /\ p.seq = s)
    BY <1>1 DEF PieceOf
  <2>3. ASSUME NEW p, PieceOf(e, m, p), net' = net \cup {p}
        PROVE  {q \in net' : q.from = d /\ q.seq = s} = {q \in net : q.from = d /\ q.seq = s}
    BY <2>2, <2>3
  <2> QED BY <2>1, <2>3 DEF Fragments
<1>2. Reassemblable'
  <2>1. SUFFICES ASSUME NEW d \in End, NEW s \in 1..outgoingSequence'[d]-1,
                        s \notin aborted'[d], Length[sent'[d][s]] >= FragmentSize,
                        NEW H, H = Fragments(d, s)'
                 PROVE  Complete(H, Length[sent'[d][s]])
    BY DEF Reassemblable, Complete
  <2>2. outgoingSequence[d] \in Nat /\ outgoingSequence'[d] \in Nat /\ s \in Nat
    BY <1>t, <1>u
  <2>3. CASE d = e /\ s = outgoingSequence[e]
    <3>1. ~unsentFragments'[e]
      BY <1>n, <2>2, <2>3
    <3>2. H = G /\ sent'[d][s] = m
      BY <1>s, <2>1, <2>3 DEF Fragments
    <3> QED BY <2>1, <2>3, <3>1, <3>2
  <2>4. CASE ~(d = e /\ s = outgoingSequence[e])
    <3>1. s \in 1..outgoingSequence[d]-1
      <4>1. CASE d = e
        BY <1>n, <2>2, <2>4, <4>1
      <4>2. CASE d # e
        BY <1>n, <4>2
      <4> QED BY <4>1, <4>2
    <3>2. sent'[d][s] = sent[d][s]
      <4>1. CASE d = e
        <5>1. Len(sent[e]) >= outgoingSequence[e] - 1 /\ Len(sent[e]) \in Nat
          <6>1. Len(sent[e]) = outgoingSequence[e] - (IF unsentFragments[e] THEN 0 ELSE 1)
            BY DEF IInv, SentCount
          <6> QED BY <6>1, <1>t
        <5>2. s \in 1..Len(sent[e])
          BY <2>2, <3>1, <4>1, <5>1
        <5> QED BY <1>s, <4>1, <5>2
      <4>2. CASE d # e
        BY <1>s, <4>2
      <4> QED BY <4>1, <4>2
    <3>3. s \notin aborted[d]
      BY <2>1
    <3>4. H = Fragments(d, s)
      BY <1>1, <2>1, <2>2, <2>4
    <3> QED BY <2>1, <3>1, <3>2, <3>3, <3>4 DEF Reassemblable, Complete
  <2> QED BY <2>3, <2>4
<1>3. FragmentsSoFar'
  <2>1. SUFFICES ASSUME NEW d \in End, unsentFragments'[d]
                 PROVE  SoFar(Fragments(d, outgoingSequence[d])', unsentFragmentStart'[d])
    BY DEF FragmentsSoFar, SoFar
  <2>2. PICK s : s = outgoingSequence[d]
    OBVIOUS
  <2>3. s \in Nat /\ outgoingSequence'[d] = s
    <3>1. CASE d = e
      BY <1>n, <1>t, <2>1, <2>2, <3>1
    <3>2. CASE d # e
      BY <1>n, <1>t, <2>2, <3>2
    <3> QED BY <3>1, <3>2
  <2>4. Fragments(d, outgoingSequence[d])' = Fragments(d, s)'
    BY <2>3 DEF Fragments
  <2>5. CASE d = e
    <3>1. Fragments(d, s)' = G
      BY <2>2, <2>5 DEF Fragments
    <3> QED BY <2>1, <2>4, <2>5, <3>1
  <2>6. CASE d # e
    <3>1. Fragments(d, s)' = Fragments(d, s)
      BY <1>1, <2>3, <2>6
    <3>2. unsentFragments[d] /\ unsentFragmentStart'[d] = unsentFragmentStart[d]
      BY <1>n, <2>1, <2>6
    <3>3. SoFar(Fragments(d, s), unsentFragmentStart[d])
      BY <2>2, <3>2 DEF FragmentsSoFar
    <3> QED BY <2>4, <3>1, <3>2, <3>3
  <2> QED BY <2>5, <2>6
<1> QED BY <1>2, <1>3

\* Netchan_TransmitNextFragment sends the next fragment or gives the message up.
LEMMA FragmentReassembly ==
    ASSUME IInv, Reassemblable, FragmentsSoFar,
           NEW e \in End, NEW m \in Msg, NEW start \in Nat, start <= Length[m],
           TransmitNextFragment(e, m, start), SenderStep(e, m),
           NEW F, F = Fragments(e, outgoingSequence[e]),
           (F = {} /\ start = 0) \/ SoFar(F, start)
    PROVE  Reassemblable' /\ FragmentsSoFar'
<1>t. /\ outgoingSequence \in [End -> Nat \ {0}] /\ unsentFragments \in [End -> BOOLEAN]
      /\ unsentFragmentStart \in [End -> 0..MaxMsgLen]
      /\ aborted \in [End -> SUBSET Nat] /\ Length \in [Msg -> 0..MaxMsgLen]
  BY DEF IInv, TypeOK
<1>g. PICK G : G = {p \in net' : p.from = e /\ p.seq = outgoingSequence[e]}
  OBVIOUS
<1>1. CASE FragmentSent(e, m, start)
  <2>p. PICK P : P = FragmentPacket(e, m, start)
    OBVIOUS
  <2>l. PICK length : length = FragmentLen(m, start)
    OBVIOUS
  <2>d. PICK done \in BOOLEAN : done = AllSent(m, start, length)
    BY DEF AllSent
  <2>1. /\ net' = net \cup {P}
        /\ unsentFragmentStart' = [unsentFragmentStart EXCEPT ![e] = start + length]
        /\ unsentFragments' = [unsentFragments EXCEPT ![e] = ~done]
        /\ UNCHANGED aborted
    BY <1>1, <2>p, <2>l, <2>d DEF FragmentSent
  <2>2. /\ P.from = e /\ P.seq = outgoingSequence[e] /\ P.start = start
        /\ P.length = length /\ P.last = IsLastFragment(m, start)
    BY <2>p, <2>l DEF FragmentPacket
  <2>3. /\ unsentFragmentStart'[e] = start + length /\ unsentFragments'[e] = ~done
    BY <1>t, <2>1
  <2>4. G = F \cup {P}
    BY <1>g, <2>1, <2>2 DEF Fragments
  <2>5. done <=> IsLastFragment(m, start)
    BY <2>d, <2>l, LastIsAllSent
  <2>6. IsLastFragment(m, start) => start + length = Length[m]
    BY <2>l, FragmentLenBounds
  <2>7. unsentFragments'[e] => SoFar(G, unsentFragmentStart'[e])
    <3>1. unsentFragments'[e] => ~IsLastFragment(m, start)
      BY <2>3, <2>5, Zenon
    <3>2. ~IsLastFragment(m, start) => SoFar(G, start + length)
      BY <2>2, <2>4, NextFragment, Zenon
    <3> QED BY <2>3, <3>1, <3>2, Zenon
  <2>8. ~unsentFragments'[e] => Complete(G, Length[m])
    <3>1. ~unsentFragments'[e] => IsLastFragment(m, start)
      BY <2>3, <2>5, Zenon
    <3>2. IsLastFragment(m, start) => Complete(G, Length[m])
      BY <2>2, <2>4, <2>6, NextFragment, Zenon
    <3> QED BY <3>1, <3>2
  <2> QED BY <1>g, <2>1, <2>7, <2>8, SenderStepReassembly
<1>2. CASE FragmentFailed(e, start)
  <2>1. /\ unsentFragments' = [unsentFragments EXCEPT ![e] = FALSE]
        /\ aborted' = [aborted EXCEPT ![e] = @ \cup {outgoingSequence[e]}]
    BY <1>2 DEF FragmentFailed, DropAllFragments
  <2>2. ~unsentFragments'[e] /\ outgoingSequence[e] \in aborted'[e]
    BY <1>t, <2>1
  <2>3. \A d \in End : aborted[d] \subseteq aborted'[d]
    BY <1>t, <2>1
  <2> QED BY <1>g, <2>2, <2>3, SenderStepReassembly
<1> QED BY <1>1, <1>2 DEF TransmitNextFragment

\* Netchan_Transmit starts a new sequence: no fragment carries it yet.
LEMMA TransmitReassembly ==
    ASSUME IInv, Reassemblable, FragmentsSoFar, NEW e \in End, NEW m \in Msg,
           ~unsentFragments[e], Transmit(e, m), UNCHANGED inVars
    PROVE  Reassemblable' /\ FragmentsSoFar'
<1>t. /\ outgoingSequence \in [End -> Nat \ {0}] /\ unsentFragments \in [End -> BOOLEAN]
      /\ aborted \in [End -> SUBSET Nat] /\ Length \in [Msg -> 0..MaxMsgLen]
  BY DEF IInv, TypeOK
<1>1. SenderStep(e, m)
  BY TransmitIsSenderStep
<1>2. CASE Length[m] >= FragmentSize
  <2>1. PICK F : F = Fragments(e, outgoingSequence[e])
    OBVIOUS
  <2>2. F = {}
    <3> SUFFICES ASSUME NEW p \in net, p.from = e, p.seq = outgoingSequence[e]
                 PROVE  FALSE
      BY <2>1 DEF Fragments
    <3>1. p.seq \in 1..Len(sent[e])
      BY DEF IInv, PacketsMatchSent
    <3>2. Len(sent[e]) = outgoingSequence[e] - 1
      BY DEF IInv, SentCount
    <3> QED BY <1>t, <3>1, <3>2
  <2>3. TransmitNextFragment(e, m, 0) /\ 0 <= Length[m] /\ 0 \in Nat
    BY <1>t, <1>2 DEF Transmit
  <2> QED BY <1>1, <2>1, <2>2, <2>3, FragmentReassembly
<1>3. CASE ~(Length[m] >= FragmentSize)
  <2>1. \/ UNCHANGED aborted
        \/ aborted' = [aborted EXCEPT ![e] = @ \cup {outgoingSequence[e]}]
    BY <1>3 DEF Transmit
  <2>2. \A d \in End : aborted[d] \subseteq aborted'[d]
    BY <1>t, <2>1
  <2>3. ~unsentFragments'[e]
    BY <1>3 DEF Transmit
  <2>4. PICK G : G = {p \in net' : p.from = e /\ p.seq = outgoingSequence[e]}
    OBVIOUS
  <2> QED BY <1>1, <1>3, <2>2, <2>3, <2>4, SenderStepReassembly
<1> QED BY <1>2, <1>3

\* One more fragment of the message being sent.
LEMMA MoreReassembly ==
    ASSUME IInv, Reassemblable, FragmentsSoFar, NEW e \in End, unsentFragments[e],
           TransmitNextFragment(e, unsentBuffer[e], unsentFragmentStart[e]),
           pushing' \in [End -> Msg \cup {NoMsg}],
           UNCHANGED <<unsentBuffer, sent, inVars>>
    PROVE  Reassemblable' /\ FragmentsSoFar'
<1>1. PICK m : m = unsentBuffer[e]
  OBVIOUS
<1>2. m \in Msg /\ SenderStep(e, m)
  BY <1>1, FragmentIsSenderStep
<1>3. PICK start : start = unsentFragmentStart[e]
  OBVIOUS
<1>4. start \in Nat /\ start <= Length[m]
  BY <1>1, <1>3 DEF IInv, TypeOK, UnsentIsLastSent
<1>5. PICK F : F = Fragments(e, outgoingSequence[e])
  OBVIOUS
<1>6. SoFar(F, start)
  BY <1>3, <1>5 DEF FragmentsSoFar
<1> QED BY <1>1, <1>2, <1>3, <1>4, <1>5, <1>6, FragmentReassembly

\* The fragments on the network of every message that was sent without an error
\* are enough to rebuild it.
THEOREM ReassemblableAlways == Spec => []Reassemblable
<1>1. Init => Reassemblable /\ FragmentsSoFar
  BY DEF Init, Reassemblable, FragmentsSoFar
<1>2. IInv /\ Reassemblable /\ FragmentsSoFar /\ [Next]_vars
         => Reassemblable' /\ FragmentsSoFar'
  <2> SUFFICES ASSUME IInv, Reassemblable, FragmentsSoFar, [Next]_vars
               PROVE  Reassemblable' /\ FragmentsSoFar'
    OBVIOUS
  <2>t. pushing \in [End -> Msg \cup {NoMsg}]
    BY DEF IInv, TypeOK
  <2>0. ASSUME UNCHANGED <<outgoingSequence, unsentFragments, unsentFragmentStart,
                           sent, aborted, net>>
        PROVE  Reassemblable' /\ FragmentsSoFar'
    <3>1. Reassemblable'
      BY <2>0 DEF Reassemblable, Fragments
    <3>2. FragmentsSoFar'
      BY <2>0 DEF FragmentsSoFar, Fragments
    <3> QED BY <3>1, <3>2
  <2>1. ASSUME NEW e \in End, NEW m \in Msg, NetchanTransmit(e, m)
        PROVE  Reassemblable' /\ FragmentsSoFar'
    <3>1. CASE unsentFragments[e]
      BY <2>0, <2>1, <3>1 DEF NetchanTransmit
    <3>2. CASE ~unsentFragments[e]
      BY <2>1, <3>2, TransmitReassembly DEF NetchanTransmit
    <3> QED BY <3>1, <3>2
  <2>2. ASSUME NEW e \in End, PushFragment(e)
        PROVE  Reassemblable' /\ FragmentsSoFar'
    <3>1. pushing' \in [End -> Msg \cup {NoMsg}]
      BY <2>t, <2>2 DEF PushFragment
    <3>2. TransmitNextFragment(e, unsentBuffer[e], unsentFragmentStart[e])
      BY <2>2 DEF PushFragment, TransmitNextFragment
    <3> QED BY <2>2, <3>1, <3>2, MoreReassembly DEF PushFragment
  <2>3. ASSUME NEW e \in End, TransmitPushed(e)
        PROVE  Reassemblable' /\ FragmentsSoFar'
    <3>1. pushing[e] \in Msg
      BY <2>t, <2>3 DEF TransmitPushed
    <3> QED BY <2>3, <3>1, TransmitReassembly DEF TransmitPushed
  <2>4. ASSUME NEW e \in End, SendFragment(e)
        PROVE  Reassemblable' /\ FragmentsSoFar'
    <3>1. pushing' \in [End -> Msg \cup {NoMsg}]
      BY <2>t, <2>4 DEF SendFragment
    <3> QED BY <2>4, <3>1, MoreReassembly DEF SendFragment
  <2>5. ASSUME NEW e \in End, Process(e)
        PROVE  Reassemblable' /\ FragmentsSoFar'
    BY <2>0, <2>5 DEF Process, outVars
  <2>6. CASE UNCHANGED vars
    BY <2>0, <2>6 DEF vars, outVars
  <2> QED BY <2>1, <2>2, <2>3, <2>4, <2>5, <2>6 DEF Next
<1> QED BY <1>1, <1>2, NetChanInvariant, PTL DEF Spec

(***************************************************************************)
(* The refinement.                                                         *)
(***************************************************************************)

\* Every step that is not the end of a Netchan_Process hands a message to the
\* channel or changes nothing the code above it can see.
LEMMA SentCases ==
    ASSUME IInv, Next
    PROVE  \/ \E e \in End, p \in net : ProcessPacket(e, p)
           \/ UNCHANGED <<sent, received>>
           \/ \E e \in End, m \in Msg : /\ sent' = [sent EXCEPT ![e] = Append(@, m)]
                                        /\ UNCHANGED received
<1>t. pushing \in [End -> Msg \cup {NoMsg}]
  BY DEF IInv, TypeOK
<1>1. ASSUME NEW e \in End, NEW m \in Msg, NetchanTransmit(e, m)
      PROVE  \/ UNCHANGED <<sent, received>>
             \/ /\ sent' = [sent EXCEPT ![e] = Append(@, m)]
                /\ UNCHANGED received
  BY <1>1 DEF NetchanTransmit, Transmit, inVars
<1>2. ASSUME NEW e \in End, PushFragment(e) \/ SendFragment(e)
      PROVE  UNCHANGED <<sent, received>>
  BY <1>2 DEF PushFragment, SendFragment, inVars
<1>3. ASSUME NEW e \in End, TransmitPushed(e)
      PROVE  \E m \in Msg : /\ sent' = [sent EXCEPT ![e] = Append(@, m)]
                            /\ UNCHANGED received
  <2>1. pushing[e] \in Msg
    BY <1>t, <1>3 DEF TransmitPushed
  <2> QED BY <1>3, <2>1 DEF TransmitPushed, Transmit, inVars
<1>4. ASSUME NEW e \in End, Process(e)
      PROVE  \E p \in net : ProcessPacket(e, p)
  BY <1>4 DEF Process, ProcessPacket, ProcessWhole, ProcessFragment
<1> QED BY <1>1, <1>2, <1>3, <1>4 DEF Next

\* Over any network and with any failing sends, the netchan hands over only
\* whole messages, unchanged, each at most once, in the order they were sent.
THEOREM NetChanImplementsDatagrams == Spec => ImplementsDatagrams
<1>1. Init => Datagrams!Init
  BY DEF Init, Datagrams!Init
<1>2. IInv /\ [Next]_vars => [Datagrams!Next]_Datagrams!chanVars
  <2> SUFFICES ASSUME IInv, [Next]_vars
               PROVE  Datagrams!Next \/ UNCHANGED <<sent, received>>
    BY DEF Datagrams!chanVars
  <2>1. CASE UNCHANGED vars
    BY <2>1 DEF vars, inVars, outVars
  <2>2. CASE UNCHANGED <<sent, received>>
    BY <2>2
  <2>3. ASSUME NEW e \in End, NEW m \in Msg,
               sent' = [sent EXCEPT ![e] = Append(@, m)], UNCHANGED received
        PROVE  Datagrams!Next
    BY <2>3 DEF Datagrams!Next, Datagrams!Send
  <2>4. ASSUME NEW e \in End, NEW p \in net, ProcessPacket(e, p)
        PROVE  Datagrams!Next \/ UNCHANGED <<sent, received>>
    <3>1. sent' = sent /\ p.seq > incomingSequence[e]
      BY <2>4 DEF ProcessPacket, outVars, Fresh
    <3>2. /\ p.seq \in 1..Len(sent[Peer(e)]) /\ p.msg = sent[Peer(e)][p.seq]
          /\ \/ Accept(e, p, Content(p.msg))
             \/ UNCHANGED <<incomingSequence, incoming_acknowledged, received>>
      BY <2>4, ProcessEffect
    <3>3. incomingSequence[e] = Datagrams!LastReceived(e)
      BY DEF IInv, IncomingIsLastReceived, Datagrams!LastReceived
    <3>4. CASE Accept(e, p, Content(p.msg))
      <4>1. received' = [received EXCEPT ![e] =
               Append(@, [seq |-> p.seq, content |-> Content(sent[Peer(e)][p.seq])])]
        BY <3>2, <3>4 DEF Accept
      <4>2. Datagrams!Deliver(e)
        BY <3>1, <3>2, <3>3, <4>1 DEF Datagrams!Deliver
      <4> QED BY <4>2 DEF Datagrams!Next
    <3> QED BY <3>1, <3>2, <3>4
  <2> QED BY <2>1, <2>2, <2>3, <2>4, SentCases
<1> QED BY <1>1, <1>2, NetChanInvariant, PTL
        DEF Spec, ImplementsDatagrams, Datagrams!Spec
=============================================================================
