-------------------------- MODULE ClientSlotsProofs --------------------------
(***************************************************************************)
(* For any number of slots, challenges and players and any times: the      *)
(* properties of ClientSlots that MCClientSlots checks.  The one about     *)
(* late connect packets needs the limit on reconnects to be longer than    *)
(* two packets live.                                                       *)
(***************************************************************************)
EXTENDS ClientSlots, WellFoundedInduction, TLAPS

\* What is used of the assumptions about constants.
LEMMA Constants ==
    /\ HostOf \in [Player -> Nat] /\ NoHost \notin Nat /\ NoPlayer \notin Player
    /\ TimeoutTime \in Nat /\ Lifetime \in Nat /\ ReconnectLimit \in Nat
    /\ MaxTime \in Nat /\ MaxIssued \in Nat
    /\ MaxClients \in Nat \ {0} /\ MaxChallenges \in Nat \ {0}
BY PlayersAssumption, TimesAssumption

USE Constants

(***************************************************************************)
(* The invariant.                                                          *)
(***************************************************************************)
SlotType == [state : {"free", "live", "zombie"}, player : Player \cup {NoPlayer},
             mv : BOOLEAN, lastPacketReceivedTime : Nat, lastconnect : Nat,
             conn : Nat, heard : Nat]
ChallengeType == [host : {HostOf[p] : p \in Player} \cup {NoHost}, number : Nat]
PacketType == [kind : Kinds, player : Player, n : Nat, sent : Nat]
PlayerType == [state : {"disconnected", "connecting", "connected"}, conn : Nat]

Typed ==
    /\ now \in 0..MaxTime /\ realtime \in 0..now
    /\ challenges \in [1..MaxChallenges -> ChallengeType]
    /\ slots \in [Slot -> SlotType]
    /\ net \subseteq PacketType
    /\ players \in [Player -> PlayerType]
    /\ hist \in [issued : 0..MaxIssued, accepted : Seq(Nat), levels : Nat]

\* Who has a slot, and the number of its connection.
SlotsSound ==
    \A s \in Slot :
        /\ slots[s].state # "free" <=> slots[s].player \in Player
        /\ slots[s].mv => Live(s)
        /\ IF Live(s) THEN slots[s].conn \in 1..Len(hist.accepted)
           ELSE slots[s].conn = 0

\* An entry in use has a number of its own, which no accepted packet had.
ChallengesSound ==
    /\ \A i \in 1..MaxChallenges :
          /\ challenges[i].number <= hist.issued
          /\ challenges[i].number = 0 => challenges[i].host = NoHost
    /\ \A i, j \in 1..MaxChallenges :
          challenges[i].number = challenges[j].number /\ challenges[i].number # 0 => i = j
    /\ \A k \in 1..Len(hist.accepted) :
          /\ hist.accepted[k] \in 1..hist.issued
          /\ \A i \in 1..MaxChallenges : hist.accepted[k] # challenges[i].number

\* How long a client seems to be silent is never more than how long it is, and in
\* a level that is older than its last packet it is hardly less.
TimesSound ==
    \A s \in Slot :
        LET last == slots[s].lastPacketReceivedTime
        IN  /\ last <= MaxTime
            /\ slots[s].heard <= now /\ slots[s].lastconnect <= now
            /\ realtime > 0 => last <= realtime
            /\ Live(s) =>
                  /\ realtime - last <= now - slots[s].heard
                  /\ realtime - last <= TimeoutTime
                  /\ \/ now - slots[s].heard = realtime - last
                     \/ last <= 1 \/ realtime = 0

PacketsSound ==
    \A m \in net : m.sent <= now /\ now <= m.sent + Lifetime

\* A client learns of a connection from a packet that was sent when the connection was
\* opened, and asks for no other one once it knows it.
ConnectionsSound ==
    /\ \A m \in net : m.kind = "client_connect" =>
          /\ m.n \in 1..Len(hist.accepted)
          /\ \A s \in Slot : slots[s].conn = m.n => m.sent = slots[s].lastconnect
    /\ \A p \in Player :
          /\ players[p].state = "connected" => players[p].conn \in 1..Len(hist.accepted)
          /\ \A s \in Slot :
                Live(s) /\ players[p].state = "connected" /\ players[p].conn = slots[s].conn =>
                    \A m \in net : m.kind = "connect" /\ m.player = p =>
                        m.sent <= slots[s].lastconnect + Lifetime

IInv ==
    /\ Typed /\ SlotsSound /\ OneSlotEach
    /\ ChallengesSound /\ ChallengeUsedOnce
    /\ TimesSound /\ PacketsSound /\ ConnectionsSound



(***************************************************************************)
(* Helpers.                                                                *)
(***************************************************************************)

\* A packet is sent or lost, and nothing else gets on the network.
LEMMA SendEffect ==
    ASSUME NEW others, others \subseteq net,
           NEW kind \in Kinds, NEW p \in Player, NEW n \in Nat, Typed,
           Send(others, kind, p, n)
    PROVE  /\ net' \subseteq net \cup {Packet(kind, p, n)}
           /\ Packet(kind, p, n) \in PacketType
<1>1. now \in Nat
  BY DEF Typed
<1> QED BY <1>1 DEF Send, Packet, PacketType

\* What is received may be received again.
LEMMA WithoutEffect ==
    ASSUME NEW m, NEW others \in Without(m)
    PROVE  others \subseteq net
BY DEF Without

\* A set of numbers that is not empty has a least one.
LEMMA MinOfNats ==
    ASSUME NEW S, S \subseteq Nat, S # {}
    PROVE  Min(S) \in S
<1>1. IsWellFoundedOn(OpToRel(<, Nat), Nat)
  BY NatLessThanWellFounded
<1> DEFINE R == OpToRel(<, Nat)
<1> HIDE DEF R
<1>2. \E x \in S : \A y \in S : ~(<<y, x>> \in R)
  BY <1>1, WFMin, Zenon DEF R
<1>3. \A x, y \in Nat : x < y => <<x, y>> \in R
  BY DEF OpToRel, R
<1>4. \E x \in S : \A y \in S : ~(y < x)
  <2> HIDE DEF R
  <2> QED BY <1>2, <1>3
<1>5. \E x \in S : \A y \in S : x <= y
  BY <1>4
<1> QED BY <1>5 DEF Min

\* The least element of a set of one element, and of a set of two numbers.
LEMMA MinOfOne == \A x \in Int : Min({x}) = x
BY DEF Min

LEMMA MinOfTwo == \A x, y \in Int : Min({x, y}) = IF x <= y THEN x ELSE y
<1> SUFFICES ASSUME NEW x \in Int, NEW y \in Int
             PROVE  Min({x, y}) = IF x <= y THEN x ELSE y
  OBVIOUS
<1>1. CASE x <= y
  <2>1. \A z \in {x, y} : (\A w \in {x, y} : z <= w) => z = x
    BY <1>1
  <2>2. \A w \in {x, y} : x <= w
    BY <1>1
  <2> QED BY <1>1, <2>1, <2>2 DEF Min
<1>2. CASE ~(x <= y)
  <2>1. \A z \in {x, y} : (\A w \in {x, y} : z <= w) => z = y
    BY <1>2
  <2>2. \A w \in {x, y} : y <= w
    BY <1>2
  <2> QED BY <1>2, <2>1, <2>2 DEF Min
<1> QED BY <1>1, <1>2

\* The slot of a player that has one is the only slot SVC_DirectConnect finds.
LEMMA OnlySlot ==
    ASSUME IInv, NEW p \in Player, NEW s \in Slot, slots[s].player = p
    PROVE  SlotsOf(p) = {s} /\ Min(SlotsOf(p)) = s
<1>1. \A t \in Slot : slots[t].player = p => t = s
  BY DEF IInv, OneSlotEach
<1>2. slots[s].state # "free"
  BY DEF IInv, SlotsSound
<1>3. SlotsOf(p) = {s}
  BY <1>1, <1>2 DEF SlotsOf
<1> QED BY <1>3, MinOfOne DEF Slot

\* A player is given a slot, which nobody else has.
LEMMA GivenSlot ==
    ASSUME IInv, NEW p \in Player, NEW s \in SlotFor(p)
    PROVE  /\ s \in Slot
           /\ slots[s].player \in {p, NoPlayer}
           /\ \A t \in Slot \ {s} : slots[t].player # p
<1>1. CASE SlotsOf(p) # {}
  <2>1. PICK t \in Slot : slots[t].player = p
    BY <1>1 DEF SlotsOf
  <2>2. s = t
    BY <1>1, <2>1, OnlySlot DEF SlotFor
  <2> QED BY <2>1, <2>2 DEF IInv, OneSlotEach
<1>2. CASE SlotsOf(p) = {}
  <2>1. s \in FreeSlots
    BY <1>2 DEF SlotFor
  <2>2. s \in Slot /\ slots[s].player \notin Player
    BY <2>1 DEF FreeSlots, IInv, SlotsSound
  <2>3. slots[s].player = NoPlayer
    BY <2>2 DEF IInv, Typed, SlotType
  <2>4. \A t \in Slot : slots[t].player # p
    BY <1>2 DEF SlotsOf, IInv, SlotsSound
  <2> QED BY <2>2, <2>3, <2>4
<1> QED BY <1>1, <1>2

-----------------------------------------------------------------------------
\* The invariant holds when the server and the players start.
LEMMA InitIInv == Init => IInv
<1> SUFFICES ASSUME Init PROVE IInv
  OBVIOUS
<1> USE DEF Init
<1>1. Typed
  BY DEF Typed, ChallengeType, NoChallenge, SlotType, FreeSlot, PlayerType, Disconnected
<1>2. SlotsSound /\ OneSlotEach
  BY DEF SlotsSound, OneSlotEach, FreeSlot, Live
<1>3. ChallengesSound
  BY DEF ChallengesSound, NoChallenge
<1>4. ChallengeUsedOnce
  BY DEF ChallengeUsedOnce
<1>5. TimesSound /\ PacketsSound
  BY DEF TimesSound, PacketsSound, FreeSlot, Live
<1>6. ConnectionsSound
  BY DEF ConnectionsSound, FreeSlot, Live, Disconnected
<1> QED BY <1>1, <1>2, <1>3, <1>4, <1>5, <1>6 DEF IInv

(***************************************************************************)
(* The client, and challenges.                                             *)
(***************************************************************************)

\* Steps that change neither slots nor connections keep the invariant, if the packets
\* they put on the network are sound.
LEMMA PlayerStep ==
    ASSUME IInv, NEW p \in Player, NEW new \in PacketType,
           UNCHANGED <<now, realtime, challenges, slots, hist>>,
           net' \subseteq net \cup {new}, new.sent = now,
           players' \in [Player -> PlayerType],
           \A q \in Player \ {p} : players'[q] = players[q],
           new.kind # "client_connect", new.player = p,
           players'[p].state = "connected" => players'[p] = players[p] /\ new.kind # "connect"
    PROVE  IInv'
<1> USE DEF IInv
<1>1. Typed'
  BY DEF Typed
<1>2. SlotsSound' /\ OneSlotEach'
  BY DEF SlotsSound, OneSlotEach, Live
<1>3. ChallengesSound' /\ ChallengeUsedOnce'
  BY DEF ChallengesSound, ChallengeUsedOnce
<1>4. TimesSound'
  BY DEF TimesSound, Live
<1>5. PacketsSound'
  BY DEF PacketsSound, Typed
<1>6. ConnectionsSound'
  BY DEF ConnectionsSound, Live
<1> QED BY <1>1, <1>2, <1>3, <1>4, <1>5, <1>6

LEMMA ConnectStep ==
    ASSUME IInv, NEW p \in Player, Connect(p) \/ Leave(p)
    PROVE  IInv'
<1> DEFINE any == [kind |-> "getchallenge", player |-> p, n |-> 0, sent |-> now]
<1>1. any \in PacketType
  BY DEF PacketType, Kinds, IInv, Typed
<1>2. players' \in [Player -> PlayerType] /\ players'[p].state # "connected"
  <2>1. players \in [Player -> PlayerType]
    BY DEF IInv, Typed
  <2>2. CASE Connect(p)
    BY <2>1, <2>2 DEF Connect, PlayerType
  <2>3. CASE Leave(p)
    BY <2>1, <2>3 DEF Leave, Disconnected, PlayerType
  <2> QED BY <2>2, <2>3
<1>3. \A q \in Player \ {p} : players'[q] = players[q]
  BY DEF Connect, Leave, IInv, Typed
<1>4. UNCHANGED <<now, realtime, challenges, slots, hist, net>>
  BY DEF Connect, Leave
<1> QED BY <1>1, <1>2, <1>3, <1>4, PlayerStep

LEMMA AskForChallengeStep ==
    ASSUME IInv, NEW p \in Player, AskForChallenge(p)
    PROVE  IInv'
<1>1. /\ net' \subseteq net \cup {Packet("getchallenge", p, 0)}
      /\ Packet("getchallenge", p, 0) \in PacketType
  BY SendEffect DEF AskForChallenge, Kinds, IInv
<1>2. players' = players /\ players \in [Player -> PlayerType]
  BY DEF AskForChallenge, IInv, Typed
<1> QED BY <1>1, <1>2, PlayerStep DEF AskForChallenge, Packet

LEMMA ReceiveChallengeStep ==
    ASSUME IInv, NEW p \in Player, ReceiveChallenge(p)
    PROVE  IInv'
<1>1. PICK m \in net : \E others \in Without(m) : Send(others, "connect", p, m.n)
  BY DEF ReceiveChallenge
<1>2. m.n \in Nat
  BY DEF IInv, Typed, PacketType
<1>3. /\ net' \subseteq net \cup {Packet("connect", p, m.n)}
      /\ Packet("connect", p, m.n) \in PacketType
  BY <1>1, <1>2, SendEffect, WithoutEffect DEF Kinds, IInv
<1>4. players' = players /\ players \in [Player -> PlayerType]
  BY DEF ReceiveChallenge, IInv, Typed
<1> QED BY <1>3, <1>4, PlayerStep DEF ReceiveChallenge, Packet

\* When a client learns of its connection, its connect packets have all been sent.
LEMMA ReceiveClientConnectStep ==
    ASSUME IInv, NEW p \in Player, ReceiveClientConnect(p)
    PROVE  IInv'
<1> USE DEF IInv
<1>1. PICK m \in net :
          /\ m.kind = "client_connect" /\ m.player = p
          /\ players' = [players EXCEPT ![p] = [state |-> "connected", conn |-> m.n]]
          /\ net' \in Without(m)
  BY DEF ReceiveClientConnect
<1>2. /\ UNCHANGED <<now, realtime, challenges, slots, hist>>
      /\ net' \subseteq net
  BY <1>1 DEF ReceiveClientConnect, Without
<1>3. m.n \in Nat
  BY DEF Typed, PacketType
<1>4. Typed'
  BY <1>1, <1>2, <1>3 DEF Typed, PlayerType
<1>5. SlotsSound' /\ OneSlotEach'
  BY <1>2 DEF SlotsSound, OneSlotEach, Live
<1>6. ChallengesSound' /\ ChallengeUsedOnce'
  BY <1>2 DEF ChallengesSound, ChallengeUsedOnce
<1>7. TimesSound' /\ PacketsSound'
  BY <1>2 DEF TimesSound, PacketsSound, Live
<1>8. ConnectionsSound'
  <2>1. \A q \in Player : players'[q] =
            IF q = p THEN [state |-> "connected", conn |-> m.n] ELSE players[q]
    BY <1>1 DEF Typed
  <2>2. m.n \in 1..Len(hist.accepted)
    BY <1>1 DEF ConnectionsSound
  <2>3. \A s \in Slot : slots[s].conn = m.n =>
            \A c \in net : c.sent <= slots[s].lastconnect + Lifetime
    <3> SUFFICES ASSUME NEW s \in Slot, slots[s].conn = m.n, NEW c \in net
                 PROVE  c.sent <= slots[s].lastconnect + Lifetime
      OBVIOUS
    <3>1. m.sent = slots[s].lastconnect
      BY <1>1 DEF ConnectionsSound
    <3>2. c.sent <= now /\ now <= m.sent + Lifetime
      BY DEF PacketsSound
    <3>3. c \in PacketType /\ slots[s] \in SlotType /\ now \in Nat
      BY DEF Typed
    <3>4. c.sent \in Nat /\ slots[s].lastconnect \in Nat
      BY <3>3 DEF PacketType, SlotType
    <3> QED BY <3>1, <3>2, <3>3, <3>4
  <2> QED BY <1>2, <2>1, <2>2, <2>3 DEF ConnectionsSound, Live
<1> QED BY <1>4, <1>5, <1>6, <1>7, <1>8

LEMMA GetChallengeStep ==
    ASSUME IInv, GetChallenge
    PROVE  IInv'
<1> USE DEF IInv
<1>1. PICK m \in net : \E others \in Without(m) :
        LET host == HostOf[m.player]
            n == hist.issued + 1
        IN  /\ m.kind = "getchallenge"
            /\ IF EntriesOf(host) # {}
               THEN /\ Send(others, "challenge", m.player, challenges[Min(EntriesOf(host))].number)
                    /\ UNCHANGED <<challenges, hist>>
               ELSE /\ n <= MaxIssued
                    /\ challenges' = [challenges EXCEPT
                          ![Oldest] = [host |-> host, number |-> n]]
                    /\ hist' = [hist EXCEPT !.issued = n]
                    /\ Send(others, "challenge", m.player, n)
            /\ UNCHANGED <<now, realtime, slots, numMv, players>>
  BY DEF GetChallenge
<1>2. m \in PacketType /\ HostOf[m.player] \in {HostOf[p] : p \in Player}
  BY DEF Typed, PacketType
<1>3. ASSUME NEW n \in Nat, \E others \in Without(m) : Send(others, "challenge", m.player, n)
      PROVE  /\ net' \subseteq net \cup {Packet("challenge", m.player, n)}
             /\ Packet("challenge", m.player, n) \in PacketType
  BY <1>2, <1>3, SendEffect, WithoutEffect DEF PacketType, Kinds
<1>4. UNCHANGED <<now, realtime, slots, players>> /\ hist'.accepted = hist.accepted
  BY <1>1 DEF Typed
<1>5. /\ challenges' \in [1..MaxChallenges -> ChallengeType]
      /\ hist' \in [issued : 0..MaxIssued, accepted : Seq(Nat), levels : Nat]
      /\ ChallengesSound'
      /\ \E n \in Nat : \E others \in Without(m) : Send(others, "challenge", m.player, n)
  <2> DEFINE host == HostOf[m.player]
             n == hist.issued + 1
  <2>1. CASE EntriesOf(host) # {}
    <3>1. Min(EntriesOf(host)) \in 1..MaxChallenges
      <4>1. EntriesOf(host) \subseteq 1..MaxChallenges
        BY DEF EntriesOf, Typed
      <4>2. EntriesOf(host) \subseteq Nat
        BY <4>1
      <4>3. Min(EntriesOf(host)) \in EntriesOf(host)
        BY <2>1, <4>2, MinOfNats
      <4> QED BY <4>1, <4>3
    <3>2. challenges[Min(EntriesOf(host))].number \in Nat
      BY <3>1 DEF Typed, ChallengeType
    <3> QED BY <1>1, <2>1, <3>2 DEF Typed, ChallengesSound
  <2>2. CASE EntriesOf(host) = {}
    <3>1. /\ n \in 1..MaxIssued
          /\ challenges' = [challenges EXCEPT ![Oldest] = [host |-> host, number |-> n]]
          /\ hist' = [hist EXCEPT !.issued = n]
          /\ \E others \in Without(m) : Send(others, "challenge", m.player, n)
      <4>1. hist.issued \in 0..MaxIssued
        BY DEF Typed
      <4> QED BY <1>1, <2>2, <4>1
    <3>2. [host |-> host, number |-> n] \in ChallengeType
      BY <1>2, <3>1 DEF ChallengeType
    <3>3. challenges' \in [1..MaxChallenges -> ChallengeType]
      BY <3>1, <3>2 DEF Typed
    <3>4. /\ hist' \in [issued : 0..MaxIssued, accepted : Seq(Nat), levels : Nat]
          /\ hist'.issued = n
      <4>1. hist \in [issued : 0..MaxIssued, accepted : Seq(Nat), levels : Nat]
        BY DEF Typed
      <4>2. n \in 0..MaxIssued
        BY <3>1
      <4> HIDE DEF n
      <4> QED BY <3>1, <4>1, <4>2
    <3>5. \A i \in 1..MaxChallenges :
             challenges'[i] = IF i = Oldest THEN [host |-> host, number |-> n]
                              ELSE challenges[i]
      BY <3>1 DEF Typed
    <3>6. ChallengesSound'
      <4>1. \A i \in 1..MaxChallenges : challenges[i].number \in Nat
        BY DEF Typed, ChallengeType
      <4>2. hist.issued \in Nat /\ hist.issued + 1 = n /\ n \in Nat
        BY <3>1 DEF Typed
      <4>3. \A i \in 1..MaxChallenges :
               challenges'[i].number = IF i = Oldest THEN n ELSE challenges[i].number
        BY <3>5
      <4>a. /\ \A i \in 1..MaxChallenges :
                  /\ challenges[i].number <= hist.issued
                  /\ challenges[i].number = 0 => challenges[i].host = NoHost
            /\ \A i, j \in 1..MaxChallenges :
                  challenges[i].number = challenges[j].number /\ challenges[i].number # 0
                    => i = j
            /\ \A k \in 1..Len(hist.accepted) :
                  /\ hist.accepted[k] \in 1..hist.issued
                  /\ \A i \in 1..MaxChallenges : hist.accepted[k] # challenges[i].number
        BY DEF ChallengesSound
      <4> HIDE DEF n, IInv
      <4>4. \A i \in 1..MaxChallenges : challenges'[i].number <= n
        BY <4>a, <4>1, <4>2, <4>3
      <4>5. \A i \in 1..MaxChallenges :
               challenges'[i].number = 0 => challenges'[i].host = NoHost
        BY <3>5, <4>a, <4>2
      <4>6. \A i, j \in 1..MaxChallenges :
               challenges'[i].number = challenges'[j].number /\ challenges'[i].number # 0
                 => i = j
        BY <4>a, <4>1, <4>2, <4>3
      <4>7. \A k \in 1..Len(hist.accepted) :
               /\ hist.accepted[k] \in 1..n
               /\ \A i \in 1..MaxChallenges : hist.accepted[k] # challenges'[i].number
        BY <4>a, <4>1, <4>2, <4>3
      <4> QED BY <1>4, <3>4, <4>4, <4>5, <4>6, <4>7 DEF ChallengesSound
    <3>7. n \in Nat
      BY <3>1
    <3> QED BY <3>1, <3>3, <3>4, <3>6, <3>7
  <2> QED BY <2>1, <2>2
<1>6. PICK new \in PacketType :
         /\ net' \subseteq net \cup {new}
         /\ new.sent = now /\ new.kind = "challenge"
  <2>1. PICK n \in Nat : \E others \in Without(m) : Send(others, "challenge", m.player, n)
    BY <1>5
  <2>2. /\ net' \subseteq net \cup {Packet("challenge", m.player, n)}
        /\ Packet("challenge", m.player, n) \in PacketType
    BY <1>3, <2>1
  <2>3. LET new == Packet("challenge", m.player, n)
        IN  new.sent = now /\ new.kind = "challenge"
    BY DEF Packet
  <2> QED BY <2>2, <2>3
<1>7. Typed'
  BY <1>4, <1>5, <1>6 DEF Typed
<1>8. SlotsSound' /\ OneSlotEach' /\ ChallengeUsedOnce'
  BY <1>4 DEF SlotsSound, OneSlotEach, ChallengeUsedOnce, Live
<1>9. TimesSound'
  BY <1>4 DEF TimesSound, Live
<1>10. PacketsSound'
  BY <1>4, <1>6 DEF PacketsSound, Typed
<1>11. ConnectionsSound'
  BY <1>4, <1>6 DEF ConnectionsSound, Live
<1> QED BY <1>5, <1>7, <1>8, <1>9, <1>10, <1>11

(***************************************************************************)
(* Connecting: challenges are used up and slots given.                     *)
(***************************************************************************)

\* The elements of a sequence of different numbers, with another number appended.
LEMMA AppendedElements ==
    ASSUME NEW a \in Seq(Nat), NEW n \in Nat,
           \A i, j \in DOMAIN a : a[i] = a[j] => i = j,
           \A k \in 1..Len(a) : a[k] # n
    PROVE  /\ Append(a, n) \in Seq(Nat)
           /\ \A k \in 1..Len(Append(a, n)) :
                 Append(a, n)[k] = n \/ \E j \in 1..Len(a) : Append(a, n)[k] = a[j]
           /\ \A j, k \in 1..Len(Append(a, n)) : Append(a, n)[j] = Append(a, n)[k] => j = k
<1> DEFINE b == Append(a, n)
<1>1. /\ b \in Seq(Nat) /\ Len(b) = Len(a) + 1 /\ Len(a) \in Nat
      /\ DOMAIN a = 1..Len(a)
      /\ \A k \in 1..Len(a) : b[k] = a[k]
      /\ b[Len(a) + 1] = n
  OBVIOUS
<1> HIDE DEF b
<1>2. \A k \in 1..Len(b) : k \in 1..Len(a) \/ k = Len(a) + 1
  BY <1>1
<1>3. \A k \in 1..Len(b) : b[k] = n \/ \E j \in 1..Len(a) : b[k] = a[j]
  BY <1>1, <1>2
<1>4. \A j, k \in 1..Len(b) : b[j] = b[k] => j = k
  BY <1>1, <1>2
<1> QED BY <1>1, <1>3, <1>4 DEF b

\* A challenge with number n is used, for nothing or for a connection.
HistBecomes(n) ==
    \/ hist' = hist
    \/ hist' = [hist EXCEPT !.accepted = Append(@, n)]

\* A challenge that has been used is used no more, whether the packet got a slot or not.
LEMMA ChallengeConsumed ==
    ASSUME IInv, NEW p \in Player, NEW i \in EntriesOf(HostOf[p]),
           challenges' = Consumed(i),
           HistBecomes(challenges[i].number)
    PROVE  /\ challenges' \in [1..MaxChallenges -> ChallengeType]
           /\ hist' \in [issued : 0..MaxIssued, accepted : Seq(Nat), levels : Nat]
           /\ ChallengesSound' /\ ChallengeUsedOnce'
<1> USE DEF IInv
<1> DEFINE n == challenges[i].number
<1>1. /\ challenges \in [1..MaxChallenges -> ChallengeType]
      /\ hist \in [issued : 0..MaxIssued, accepted : Seq(Nat), levels : Nat]
  BY DEF Typed
<1>2. i \in 1..MaxChallenges /\ challenges[i].host # NoHost
  BY <1>1 DEF EntriesOf
<1>3. NoChallenge \in ChallengeType
  BY DEF NoChallenge, ChallengeType
<1>4. challenges' \in [1..MaxChallenges -> ChallengeType]
  BY <1>1, <1>3 DEF Consumed
<1>5. \A j \in 1..MaxChallenges :
         challenges'[j] = IF j = i THEN [host |-> NoHost, number |-> 0] ELSE challenges[j]
  BY <1>1 DEF Consumed, NoChallenge
<1>6. \A j \in 1..MaxChallenges : challenges[j].number \in Nat
  BY <1>1 DEF ChallengeType
<1>7. hist.issued \in Nat /\ hist.accepted \in Seq(Nat)
  BY <1>1
<1>8. n \in 1..hist.issued
  BY <1>2, <1>6, <1>7 DEF ChallengesSound
<1>9. \A k \in 1..Len(hist.accepted) : hist.accepted[k] # n
  BY <1>2 DEF ChallengesSound
<1>10. \A j \in 1..MaxChallenges :
         challenges'[j].number = IF j = i THEN 0 ELSE challenges[j].number
  BY <1>5
<1>11. \A j \in 1..MaxChallenges : challenges'[j].number # n
  BY <1>2, <1>6, <1>8, <1>10 DEF ChallengesSound
<1>12. \A j \in 1..MaxChallenges :
          /\ challenges'[j].number <= hist.issued
          /\ challenges'[j].number = 0 => challenges'[j].host = NoHost
  BY <1>5, <1>7 DEF ChallengesSound
<1>13. \A j, k \in 1..MaxChallenges :
          challenges'[j].number = challenges'[k].number /\ challenges'[j].number # 0 => j = k
  BY <1>10 DEF ChallengesSound
<1>14. \A k \in 1..Len(hist.accepted) :
          /\ hist.accepted[k] \in 1..hist.issued
          /\ \A j \in 1..MaxChallenges : hist.accepted[k] # challenges'[j].number
  BY <1>7, <1>10 DEF ChallengesSound
<1>15. CASE hist' = hist
  BY <1>1, <1>4, <1>12, <1>13, <1>14, <1>15 DEF ChallengesSound, ChallengeUsedOnce
<1>16. CASE hist' = [hist EXCEPT !.accepted = Append(@, n)]
  <2>1. hist'.issued = hist.issued /\ hist'.accepted = Append(hist.accepted, n)
    BY <1>1, <1>16
  <2>n. n \in Nat
    BY <1>7, <1>8
  <2>2. hist' \in [issued : 0..MaxIssued, accepted : Seq(Nat), levels : Nat]
    <3> HIDE DEF n
    <3>1. Append(hist.accepted, n) \in Seq(Nat)
      BY <1>7, <2>n
    <3> QED BY <1>1, <1>16, <3>1
  <2> HIDE DEF n
  <2>3. /\ hist'.accepted \in Seq(Nat)
        /\ \A k \in 1..Len(hist'.accepted) :
              hist'.accepted[k] = n \/ \E j \in 1..Len(hist.accepted) :
                                           hist'.accepted[k] = hist.accepted[j]
        /\ \A j, k \in 1..Len(hist'.accepted) : hist'.accepted[j] = hist'.accepted[k] => j = k
    <3>1. \A j, k \in DOMAIN hist.accepted : hist.accepted[j] = hist.accepted[k] => j = k
      BY DEF ChallengeUsedOnce
    <3> DEFINE a == hist.accepted
    <3>2. /\ a \in Seq(Nat) /\ \A j, k \in DOMAIN a : a[j] = a[k] => j = k
          /\ \A k \in 1..Len(a) : a[k] # n
      BY <1>7, <1>9, <3>1
    <3> HIDE DEF a
    <3>3. /\ Append(a, n) \in Seq(Nat)
          /\ \A k \in 1..Len(Append(a, n)) :
                Append(a, n)[k] = n \/ \E j \in 1..Len(a) : Append(a, n)[k] = a[j]
          /\ \A j, k \in 1..Len(Append(a, n)) :
                Append(a, n)[j] = Append(a, n)[k] => j = k
      BY <2>n, <3>2, AppendedElements
    <3> QED BY <2>1, <3>3 DEF a
  <2>4. ChallengesSound'
    <3>1. \A k \in 1..Len(hist'.accepted) :
             /\ hist'.accepted[k] \in 1..hist.issued
             /\ \A j \in 1..MaxChallenges : hist'.accepted[k] # challenges'[j].number
      BY <1>8, <1>11, <1>14, <2>3, SMTT(30)
    <3> QED BY <1>12, <1>13, <2>1, <3>1 DEF ChallengesSound
  <2>5. ChallengeUsedOnce'
    <3>1. DOMAIN hist'.accepted = 1..Len(hist'.accepted)
      BY <2>3
    <3> QED BY <2>3, <3>1 DEF ChallengeUsedOnce
  <2> QED BY <1>4, <2>2, <2>4, <2>5
<1> QED BY <1>15, <1>16 DEF HistBecomes

\* A slot that is set up is its player's only one, and its connection is new.
LEMMA SlotGiven ==
    ASSUME IInv, NEW p \in Player, NEW s \in SlotFor(p),
           slots' = [slots EXCEPT ![s] = Accepted(p)],
           UNCHANGED <<now, realtime>>,
           hist' \in [issued : 0..MaxIssued, accepted : Seq(Nat), levels : Nat],
           Len(hist'.accepted) = Len(hist.accepted) + 1
    PROVE  /\ slots' \in [Slot -> SlotType]
           /\ SlotsSound' /\ OneSlotEach' /\ TimesSound'
<1> USE DEF IInv
<1>1. /\ now \in 0..MaxTime /\ realtime \in 0..now /\ slots \in [Slot -> SlotType]
      /\ Len(hist.accepted) \in Nat
  BY DEF Typed
<1>2. /\ s \in Slot /\ slots[s].player \in {p, NoPlayer}
      /\ \A t \in Slot \ {s} : slots[t].player # p
  BY GivenSlot
<1>3. Accepted(p) = [state |-> "live", player |-> p, mv |-> FALSE,
                     lastPacketReceivedTime |-> realtime, lastconnect |-> now,
                     conn |-> Len(hist.accepted) + 1, heard |-> now]
  BY DEF Accepted
<1>4. Accepted(p) \in SlotType
  BY <1>1, <1>3 DEF SlotType
<1>5. \A t \in Slot : slots'[t] = IF t = s THEN Accepted(p) ELSE slots[t]
  BY <1>1
<1>6. slots' \in [Slot -> SlotType]
  BY <1>1, <1>4
<1>7. SlotsSound'
  <2>1. /\ slots'[s].state = "live" /\ slots'[s].player = p /\ ~slots'[s].mv
        /\ slots'[s].conn = Len(hist'.accepted)
    BY <1>2, <1>3, <1>5
  <2>2. \A t \in Slot \ {s} : slots'[t] = slots[t]
    BY <1>5
  <2> SUFFICES ASSUME NEW t \in Slot
               PROVE  /\ slots'[t].state # "free" <=> slots'[t].player \in Player
                      /\ slots'[t].mv => slots'[t].state = "live"
                      /\ IF slots'[t].state = "live"
                         THEN slots'[t].conn \in 1..Len(hist'.accepted)
                         ELSE slots'[t].conn = 0
    BY DEF SlotsSound, Live
  <2>3. CASE t = s
    BY <1>1, <2>1, <2>3
  <2>4. CASE t # s
    <3>1. \A c \in 1..Len(hist.accepted) : c \in 1..Len(hist'.accepted)
      BY <1>1
    <3> QED BY <2>2, <2>4, <3>1 DEF SlotsSound, Live
  <2> QED BY <2>3, <2>4
<1>8. OneSlotEach'
  BY <1>2, <1>3, <1>5 DEF OneSlotEach
<1>9. TimesSound'
  BY <1>1, <1>3, <1>5 DEF TimesSound, Live
<1> QED BY <1>6, <1>7, <1>8, <1>9

\* ServerConnect, with a packet and an entry that fit.
ServerConnectWith(m, others, i) ==
    LET given == IF TooMany(HostOf[m.player]) THEN {} ELSE SlotFor(m.player)
    IN  /\ m.kind = "connect" /\ challenges[i].number = m.n
        /\ challenges' = Consumed(i)
        /\ IF given = {}
           THEN net' = others /\ UNCHANGED <<slots, hist>>
           ELSE LET s == CHOOSE s \in given : TRUE
                IN  /\ slots' = [slots EXCEPT ![s] = Accepted(m.player)]
                    /\ hist' = [hist EXCEPT !.accepted = Append(@, m.n)]
                    /\ Send(others, "client_connect", m.player, Accepted(m.player).conn)
        /\ UNCHANGED <<now, realtime, numMv, players>>

LEMMA ServerConnectStep ==
    ASSUME IInv, ServerConnect
    PROVE  IInv'
<1> USE DEF IInv
<1>m. PICK m \in net : \E others \in Without(m) : \E i \in EntriesOf(HostOf[m.player]) :
        ServerConnectWith(m, others, i)
  BY DEF ServerConnect, ServerConnectWith
<1>o. PICK others \in Without(m), i \in EntriesOf(HostOf[m.player]) :
        ServerConnectWith(m, others, i)
  BY <1>m
<1>1. /\ m.kind = "connect" /\ challenges[i].number = m.n
      /\ challenges' = Consumed(i)
      /\ UNCHANGED <<now, realtime, players>>
      /\ \/ net' = others /\ UNCHANGED <<slots, hist>>
         \/ \E s \in SlotFor(m.player) :
               /\ slots' = [slots EXCEPT ![s] = Accepted(m.player)]
               /\ hist' = [hist EXCEPT !.accepted = Append(@, m.n)]
               /\ Send(others, "client_connect", m.player, Accepted(m.player).conn)
  BY <1>o DEF ServerConnectWith
<1> DEFINE p == m.player
           conn == Len(hist.accepted) + 1
<1>2. p \in Player /\ m.n \in Nat /\ others \subseteq net
  BY WithoutEffect DEF Typed, PacketType
<1>3. UNCHANGED <<now, realtime, players>> /\ challenges' = Consumed(i)
  BY <1>1
<1>4. CASE net' = others /\ UNCHANGED <<slots, hist>>
  <2>1. /\ challenges' \in [1..MaxChallenges -> ChallengeType]
        /\ ChallengesSound' /\ ChallengeUsedOnce'
    BY <1>2, <1>3, <1>4, ChallengeConsumed DEF HistBecomes
  <2>2. Typed'
    BY <1>2, <1>3, <1>4, <2>1 DEF Typed
  <2>3. SlotsSound' /\ OneSlotEach' /\ TimesSound'
    BY <1>3, <1>4 DEF SlotsSound, OneSlotEach, TimesSound, Live
  <2>4. PacketsSound' /\ ConnectionsSound'
    BY <1>2, <1>3, <1>4 DEF PacketsSound, ConnectionsSound, Live
  <2> QED BY <2>1, <2>2, <2>3, <2>4
<1>5. ASSUME NEW s \in SlotFor(p),
             slots' = [slots EXCEPT ![s] = Accepted(p)],
             hist' = [hist EXCEPT !.accepted = Append(@, m.n)],
             Send(others, "client_connect", p, Accepted(p).conn)
      PROVE  IInv'
  <2>1. /\ challenges' \in [1..MaxChallenges -> ChallengeType]
        /\ hist' \in [issued : 0..MaxIssued, accepted : Seq(Nat), levels : Nat]
        /\ ChallengesSound' /\ ChallengeUsedOnce'
    BY <1>1, <1>2, <1>3, <1>5, ChallengeConsumed DEF HistBecomes
  <2>2. Len(hist'.accepted) = conn /\ conn \in Nat /\ conn - 1 = Len(hist.accepted)
    BY <1>2, <1>5 DEF Typed
  <2>3. /\ slots' \in [Slot -> SlotType]
        /\ SlotsSound' /\ OneSlotEach' /\ TimesSound'
    BY <1>2, <1>3, <1>5, <2>1, <2>2, SlotGiven
  <2>4. Accepted(p).conn = conn /\ Accepted(p).lastconnect = now
    BY DEF Accepted
  <2>5. /\ net' \subseteq net \cup {Packet("client_connect", p, conn)}
        /\ Packet("client_connect", p, conn) \in PacketType
    <3>1. Send(others, "client_connect", p, conn) /\ conn \in Nat /\ p \in Player
      BY <1>2, <1>5, <2>2, <2>4
    <3> HIDE DEF p, conn
    <3> QED BY <1>2, <3>1, SendEffect DEF Kinds
  <2>6. Typed'
    BY <1>3, <2>1, <2>3, <2>5 DEF Typed
  <2>7. PacketsSound'
    BY <1>3, <2>5 DEF PacketsSound, Packet, Typed
  <2>8. ConnectionsSound'
    <3>1. s \in Slot /\ slots \in [Slot -> SlotType]
      BY <1>2, <1>5, GivenSlot DEF Typed
    <3>2. \A t \in Slot : slots'[t] = IF t = s THEN Accepted(p) ELSE slots[t]
      BY <1>5, <3>1
    <3>3. \A t \in Slot : slots[t].conn # conn
      BY <2>2, <3>1 DEF SlotsSound, SlotType
    <3>4. \A t \in Slot : slots'[t].conn # conn =>
                             slots'[t] = slots[t]
      BY <2>4, <3>2
    <3>5. \A t \in Slot : slots'[t].conn = conn => slots'[t].lastconnect = now
      BY <2>4, <3>2, <3>3
    <3>6. ASSUME NEW c \in net', c.kind = "client_connect"
          PROVE  /\ c.n \in 1..conn
                 /\ \A t \in Slot : slots'[t].conn = c.n => c.sent = slots'[t].lastconnect
      <4>1. CASE c \in net
        <5>1. c.n \in 1..conn - 1
          BY <2>2, <3>6, <4>1 DEF ConnectionsSound
        <5>2. c.n # conn
          BY <2>2, <5>1
        <5> QED BY <2>2, <3>4, <3>6, <4>1, <5>1, <5>2 DEF ConnectionsSound
      <4>2. CASE c = Packet("client_connect", p, conn)
        BY <2>2, <3>5, <4>2 DEF Packet
      <4> QED BY <2>5, <4>1, <4>2
    <3>7. ASSUME NEW q \in Player, players[q].state = "connected"
          PROVE  players[q].conn \in 1..conn - 1
      BY <2>2, <3>7 DEF ConnectionsSound
    <3>8. ASSUME NEW q \in Player, NEW t \in Slot, slots'[t].state = "live",
                 players[q].state = "connected", players[q].conn = slots'[t].conn,
                 NEW c \in net', c.kind = "connect", c.player = q
          PROVE  c.sent <= slots'[t].lastconnect + Lifetime
      <4>1. slots'[t].conn # conn
        BY <2>2, <3>7, <3>8
      <4>2. slots'[t] = slots[t]
        BY <3>4, <4>1
      <4>3. c \in net
        BY <2>5, <3>8 DEF Packet
      <4> QED BY <3>8, <4>2, <4>3 DEF ConnectionsSound, Live
    <3> QED BY <1>3, <2>2, <3>6, <3>7, <3>8 DEF ConnectionsSound, Live
  <2> QED BY <2>1, <2>3, <2>6, <2>7, <2>8
<1> QED BY <1>1, <1>4, <1>5

(***************************************************************************)
(* The steps that only change slots.                                       *)
(***************************************************************************)

\* What becomes of a slot, but for its times: it keeps its connection, it is dropped, or
\* it is free.
SlotKept(t) ==
    \/ /\ slots'[t].state = slots[t].state /\ slots'[t].player = slots[t].player
       /\ slots'[t].conn = slots[t].conn /\ slots'[t].lastconnect = slots[t].lastconnect
       /\ slots'[t].mv => Live(t)
    \/ /\ Live(t) /\ slots'[t].state = "zombie" /\ slots'[t].player = slots[t].player
       /\ slots'[t].conn = 0 /\ ~slots'[t].mv
    \/ slots'[t] = FreeSlot

\* What a packet, a drop and the command multiview make of a slot.
LEMMA HeardSlot ==
    ASSUME NEW r \in SlotType, NEW h, h = Heard(r), now \in Nat, realtime \in Nat
    PROVE  /\ h \in SlotType
           /\ h.lastPacketReceivedTime = realtime /\ h.heard = now
           /\ h.state = r.state /\ h.player = r.player /\ h.mv = r.mv
           /\ h.conn = r.conn /\ h.lastconnect = r.lastconnect
<1>1. h \in SlotType
  BY DEF SlotType, Heard
<1>2. h.lastPacketReceivedTime = realtime /\ h.heard = now
  BY DEF SlotType, Heard
<1> QED BY <1>1, <1>2 DEF SlotType, Heard

LEMMA DroppedSlot ==
    ASSUME NEW r \in SlotType, NEW h, h = Dropped(r)
    PROVE  /\ h \in SlotType
           /\ h.state = "zombie" /\ h.mv = FALSE /\ h.conn = 0 /\ h.heard = 0
           /\ h.player = r.player /\ h.lastconnect = r.lastconnect
           /\ h.lastPacketReceivedTime = r.lastPacketReceivedTime
<1>1. h \in SlotType
  BY DEF SlotType, Dropped
<1>2. h.state = "zombie" /\ h.mv = FALSE /\ h.conn = 0 /\ h.heard = 0
  BY DEF SlotType, Dropped
<1> QED BY <1>1, <1>2 DEF SlotType, Dropped

LEMMA MvSlot ==
    ASSUME NEW r \in SlotType, NEW v \in BOOLEAN, NEW h, h = [r EXCEPT !.mv = v]
    PROVE  /\ h \in SlotType
           /\ h.state = r.state /\ h.player = r.player /\ h.mv = v
           /\ h.conn = r.conn /\ h.lastconnect = r.lastconnect
           /\ h.lastPacketReceivedTime = r.lastPacketReceivedTime /\ h.heard = r.heard
BY DEF SlotType

LEMMA ClampedSlot ==
    ASSUME NEW r \in SlotType, NEW v \in Nat, NEW h,
           h = [r EXCEPT !.lastPacketReceivedTime = v]
    PROVE  /\ h \in SlotType
           /\ h.state = r.state /\ h.player = r.player /\ h.mv = r.mv
           /\ h.conn = r.conn /\ h.lastconnect = r.lastconnect
           /\ h.lastPacketReceivedTime = v /\ h.heard = r.heard
BY DEF SlotType

LEMMA SlotsStep ==
    ASSUME IInv, UNCHANGED <<challenges, players>>, net' \subseteq net,
           hist' \in [issued : 0..MaxIssued, accepted : Seq(Nat), levels : Nat],
           hist'.accepted = hist.accepted, hist'.issued = hist.issued,
           slots' \in [Slot -> SlotType],
           \A t \in Slot : SlotKept(t)
    PROVE  SlotsSound' /\ OneSlotEach' /\ ChallengesSound' /\ ChallengeUsedOnce'
           /\ ConnectionsSound'
<1>1. SlotsSound'
  BY DEF IInv, SlotsSound, SlotKept, FreeSlot, Live
<1>2. OneSlotEach'
  <2>1. \A t \in Slot : slots'[t].player = slots[t].player \/ slots'[t].player = NoPlayer
    BY DEF SlotKept, FreeSlot
  <2> QED BY <2>1 DEF IInv, OneSlotEach
<1>3. ChallengesSound' /\ ChallengeUsedOnce'
  BY DEF IInv, ChallengesSound, ChallengeUsedOnce
<1>4. \A t \in Slot :
         /\ slots'[t].conn # 0 => /\ slots'[t].conn = slots[t].conn
                                  /\ slots'[t].lastconnect = slots[t].lastconnect
                                  /\ slots'[t].state = slots[t].state
         /\ slots'[t].state = "live" => slots'[t].conn # 0
  BY DEF IInv, SlotsSound, SlotKept, FreeSlot, Live
<1>5. \A m \in net' : m.kind = "client_connect" =>
         /\ m.n \in 1..Len(hist.accepted)
         /\ \A s \in Slot : slots'[s].conn = m.n => m.sent = slots'[s].lastconnect
  BY <1>4 DEF IInv, ConnectionsSound
<1>6. ASSUME NEW p \in Player
      PROVE  /\ players[p].state = "connected" => players[p].conn \in 1..Len(hist.accepted)
             /\ \A s \in Slot :
                   slots'[s].state = "live" /\ players[p].state = "connected"
                     /\ players[p].conn = slots'[s].conn =>
                       \A m \in net' : m.kind = "connect" /\ m.player = p =>
                           m.sent <= slots'[s].lastconnect + Lifetime
  BY <1>4 DEF IInv, ConnectionsSound, Live
<1>7. ConnectionsSound'
  BY <1>5, <1>6 DEF ConnectionsSound, Live
<1> QED BY <1>1, <1>2, <1>3, <1>7

\* A packet of a client is as recent as can be.
LEMMA ServerReadStep ==
    ASSUME IInv, ServerRead
    PROVE  IInv'
<1>1. PICK p \in Player : slots' = [slots EXCEPT ![Min(Takers(p))] = Heard(@)]
  BY DEF ServerRead
<1> DEFINE s == Min(Takers(p))
<1>2. UNCHANGED <<now, realtime, challenges, net, players, hist>>
  BY DEF ServerRead
<1>3. /\ slots \in [Slot -> SlotType] /\ now \in 0..MaxTime /\ realtime \in 0..now
      /\ hist \in [issued : 0..MaxIssued, accepted : Seq(Nat), levels : Nat]
  BY DEF IInv, Typed
<1>4. \A t \in Slot : slots'[t] = IF t = s THEN Heard(slots[t]) ELSE slots[t]
  BY <1>1, <1>3
<1>5. ASSUME NEW t \in Slot
      PROVE  /\ slots'[t] \in SlotType
             /\ slots'[t].state = slots[t].state /\ slots'[t].player = slots[t].player
             /\ slots'[t].mv = slots[t].mv
             /\ slots'[t].conn = slots[t].conn
             /\ slots'[t].lastconnect = slots[t].lastconnect
             /\ \/ /\ slots'[t].lastPacketReceivedTime = realtime
                   /\ slots'[t].heard = now
                \/ slots'[t] = slots[t]
  <2>1. slots[t] \in SlotType /\ now \in Nat /\ realtime \in Nat
    BY <1>3
  <2>2. CASE t = s
    <3>1. slots'[t] = Heard(slots[t])
      BY <1>4, <2>2
    <3> QED BY <2>1, <3>1, HeardSlot
  <2>3. CASE t # s
    BY <1>4, <2>1, <2>3
  <2> QED BY <2>2, <2>3
<1>6. slots' \in [Slot -> SlotType]
  BY <1>1, <1>3, <1>5
<1>7. \A t \in Slot : SlotKept(t)
  BY <1>5 DEF SlotKept, IInv, SlotsSound
<1>8. Typed'
  BY <1>2, <1>6 DEF IInv, Typed
<1>9. TimesSound'
  <2> SUFFICES ASSUME NEW t \in Slot
               PROVE  LET last == slots'[t].lastPacketReceivedTime
                      IN  /\ last <= MaxTime
                          /\ slots'[t].heard <= now /\ slots'[t].lastconnect <= now
                          /\ realtime > 0 => last <= realtime
                          /\ slots'[t].state = "live" =>
                                /\ realtime - last <= now - slots'[t].heard
                                /\ realtime - last <= TimeoutTime
                                /\ \/ now - slots'[t].heard = realtime - last
                                   \/ last <= 1 \/ realtime = 0
    BY <1>2 DEF TimesSound, Live
  <2>1. CASE slots'[t].lastPacketReceivedTime = realtime /\ slots'[t].heard = now
    <3>1. slots[t].lastconnect <= now
      BY DEF IInv, TimesSound
    <3> QED BY <1>3, <1>5, <2>1, <3>1
  <2>2. CASE slots'[t] = slots[t]
    BY <2>2 DEF IInv, TimesSound, Live
  <2> QED BY <1>5, <2>1, <2>2
<1>10. PacketsSound'
  BY <1>2 DEF IInv, PacketsSound
<1> QED BY <1>2, <1>3, <1>6, <1>7, <1>8, <1>9, <1>10, SlotsStep DEF IInv

\* A slot that is dropped is no longer in multiview.
LEMMA ServerDropStep ==
    ASSUME IInv, ServerDrop
    PROVE  IInv'
<1>1. PICK s \in Slot : Live(s) /\ slots' = [slots EXCEPT ![s] = Dropped(@)]
  BY DEF ServerDrop
<1>2. UNCHANGED <<now, realtime, challenges, net, players, hist>>
  BY DEF ServerDrop
<1>3. /\ slots \in [Slot -> SlotType]
      /\ hist \in [issued : 0..MaxIssued, accepted : Seq(Nat), levels : Nat]
  BY DEF IInv, Typed
<1>4. \A t \in Slot : slots'[t] = IF t = s THEN Dropped(slots[t]) ELSE slots[t]
  BY <1>1, <1>3
<1>5. slots' \in [Slot -> SlotType]
  <2>1. Dropped(slots[s]) \in SlotType
    BY <1>3, DroppedSlot
  <2> QED BY <1>1, <1>3, <2>1
<1>6. \A t \in Slot :
         \/ slots'[t] = slots[t]
         \/ /\ Live(t) /\ slots'[t].state = "zombie" /\ slots'[t].mv = FALSE
            /\ slots'[t].conn = 0 /\ slots'[t].heard = 0
            /\ slots'[t].player = slots[t].player
            /\ slots'[t].lastconnect = slots[t].lastconnect
            /\ slots'[t].lastPacketReceivedTime = slots[t].lastPacketReceivedTime
  <2>1. \A t \in Slot \ {s} : slots'[t] = slots[t]
    BY <1>4
  <2>2. slots'[s] = Dropped(slots[s]) /\ slots[s] \in SlotType
    BY <1>1, <1>3, <1>4
  <2>3. /\ slots'[s].state = "zombie" /\ slots'[s].mv = FALSE
        /\ slots'[s].conn = 0 /\ slots'[s].heard = 0
        /\ slots'[s].player = slots[s].player
        /\ slots'[s].lastconnect = slots[s].lastconnect
        /\ slots'[s].lastPacketReceivedTime = slots[s].lastPacketReceivedTime
    BY <2>2, DroppedSlot
  <2> QED BY <1>1, <2>1, <2>3
<1>7. \A t \in Slot : SlotKept(t)
  BY <1>6 DEF SlotKept, IInv, SlotsSound
<1>8. Typed'
  BY <1>2, <1>5 DEF IInv, Typed
<1>9. TimesSound'
  <2>1. now \in Nat
    BY DEF IInv, Typed
  <2> QED BY <1>2, <1>6, <2>1 DEF IInv, TimesSound, Live
<1>10. PacketsSound'
  BY <1>2 DEF IInv, PacketsSound
<1> QED BY <1>2, <1>3, <1>5, <1>7, <1>8, <1>9, <1>10, SlotsStep DEF IInv

LEMMA MultiviewStep ==
    ASSUME IInv, Multiview
    PROVE  IInv'
<1>1. PICK s \in Slot : Live(s) /\ slots' = [slots EXCEPT ![s].mv = ~@]
  BY DEF Multiview
<1>2. UNCHANGED <<now, realtime, challenges, net, players, hist>>
  BY DEF Multiview
<1>3. /\ slots \in [Slot -> SlotType]
      /\ hist \in [issued : 0..MaxIssued, accepted : Seq(Nat), levels : Nat]
  BY DEF IInv, Typed
<1>4. slots[s] \in SlotType /\ (~slots[s].mv) \in BOOLEAN
  BY <1>3
<1>5. slots' \in [Slot -> SlotType]
  <2>1. [slots[s] EXCEPT !.mv = ~slots[s].mv] \in SlotType
    BY <1>4, MvSlot
  <2> QED BY <1>1, <1>3, <2>1
<1>6. \A t \in Slot :
         \/ slots'[t] = slots[t]
         \/ /\ Live(t) /\ slots'[t].state = slots[t].state
            /\ slots'[t].conn = slots[t].conn /\ slots'[t].heard = slots[t].heard
            /\ slots'[t].player = slots[t].player
            /\ slots'[t].lastconnect = slots[t].lastconnect
            /\ slots'[t].lastPacketReceivedTime = slots[t].lastPacketReceivedTime
  <2>1. \A t \in Slot \ {s} : slots'[t] = slots[t]
    BY <1>1, <1>3
  <2>2. slots'[s] = [slots[s] EXCEPT !.mv = ~slots[s].mv]
    BY <1>1, <1>3
  <2> QED BY <1>1, <1>4, <2>1, <2>2, MvSlot
<1>a. \A t \in Slot : SlotKept(t)
  BY <1>6 DEF SlotKept, IInv, SlotsSound
<1>7. Typed'
  BY <1>2, <1>5 DEF IInv, Typed
<1>8. TimesSound'
  BY <1>2, <1>6 DEF IInv, TimesSound, Live
<1>9. PacketsSound'
  BY <1>2 DEF IInv, PacketsSound
<1> QED BY <1>2, <1>3, <1>5, <1>a, <1>7, <1>8, <1>9, SlotsStep DEF IInv

(***************************************************************************)
(* Levels and frames.                                                      *)
(***************************************************************************)

\* A new level starts the clock of the level again and leaves the times of the slots.
LEMMA LevelChangeStep ==
    ASSUME IInv, LevelChange
    PROVE  IInv'
<1> DEFINE stays(t) == slots[t].mv /\ numMv + MvIn(1..t - 1) < MaxMvClients
<1>1. /\ slots' = [t \in Slot |-> [slots[t] EXCEPT !.mv = stays(t)]]
      /\ realtime' = 0
      /\ hist' = [hist EXCEPT !.levels = @ + 1]
      /\ UNCHANGED <<now, challenges, net, players>>
  BY DEF LevelChange
<1>2. /\ slots \in [Slot -> SlotType]
      /\ hist \in [issued : 0..MaxIssued, accepted : Seq(Nat), levels : Nat]
      /\ now \in 0..MaxTime
  BY DEF IInv, Typed
<1>3. ASSUME NEW t \in Slot
      PROVE  /\ slots'[t] \in SlotType
             /\ slots'[t].state = slots[t].state /\ slots'[t].player = slots[t].player
             /\ slots'[t].mv => slots[t].mv
             /\ slots'[t].conn = slots[t].conn /\ slots'[t].heard = slots[t].heard
             /\ slots'[t].lastconnect = slots[t].lastconnect
             /\ slots'[t].lastPacketReceivedTime = slots[t].lastPacketReceivedTime
  <2>1. slots'[t] = [slots[t] EXCEPT !.mv = stays(t)]
    BY <1>1
  <2>2. slots[t] \in SlotType /\ stays(t) \in BOOLEAN /\ (stays(t) => slots[t].mv)
    BY <1>2
  <2> HIDE DEF stays
  <2> QED BY <2>1, <2>2, MvSlot
<1>4. slots' \in [Slot -> SlotType]
  BY <1>1, <1>3
<1>5. /\ hist' \in [issued : 0..MaxIssued, accepted : Seq(Nat), levels : Nat]
      /\ hist'.accepted = hist.accepted /\ hist'.issued = hist.issued
  <2>1. hist' = [hist EXCEPT !.levels = hist.levels + 1]
    BY <1>1
  <2>2. hist.levels + 1 \in Nat
    BY <1>2
  <2> QED BY <1>2, <2>1, <2>2
<1>6. \A t \in Slot : SlotKept(t)
  BY <1>3 DEF SlotKept, IInv, SlotsSound
<1>7. Typed'
  <2>1. realtime' \in 0..now'
    BY <1>1, <1>2
  <2> QED BY <1>1, <1>4, <1>5, <2>1 DEF IInv, Typed
<1>8. TimesSound'
  <2> SUFFICES ASSUME NEW t \in Slot
               PROVE  LET last == slots'[t].lastPacketReceivedTime
                      IN  /\ last <= MaxTime
                          /\ slots'[t].heard <= now /\ slots'[t].lastconnect <= now
                          /\ slots'[t].state = "live" =>
                                /\ 0 - last <= now - slots'[t].heard
                                /\ 0 - last <= TimeoutTime
    BY <1>1 DEF TimesSound, Live
  <2>1. /\ slots'[t].lastPacketReceivedTime \in Nat /\ slots'[t].heard \in Nat
    BY <1>3 DEF SlotType
  <2>2. /\ slots[t].lastPacketReceivedTime <= MaxTime
        /\ slots[t].heard <= now /\ slots[t].lastconnect <= now
    BY DEF IInv, TimesSound
  <2>3. slots'[t].lastPacketReceivedTime = slots[t].lastPacketReceivedTime
        /\ slots'[t].heard = slots[t].heard /\ slots'[t].lastconnect = slots[t].lastconnect
    BY <1>3
  <2>4. now \in Nat /\ TimeoutTime \in Nat
    BY <1>2
  <2> HIDE DEF stays
  <2> QED BY <2>1, <2>2, <2>3, <2>4
<1>9. PacketsSound'
  BY <1>1 DEF IInv, PacketsSound
<1> QED BY <1>1, <1>4, <1>5, <1>6, <1>7, <1>8, <1>9, SlotsStep DEF IInv

\* A frame makes slots free and makes the times that are later than it its own.
LEMMA FrameStep ==
    ASSUME IInv, Frame
    PROVE  IInv'
<1> DEFINE t == realtime + 1
<1>1. /\ now < MaxTime /\ now' = now + 1 /\ realtime' = t
      /\ slots' = [s \in Slot |-> Checked(s, t)]
      /\ net' = {m \in net : m.sent + Lifetime >= now + 1}
      /\ UNCHANGED <<challenges, players, hist>>
  BY DEF Frame
<1>2. /\ slots \in [Slot -> SlotType]
      /\ hist \in [issued : 0..MaxIssued, accepted : Seq(Nat), levels : Nat]
      /\ now \in 0..MaxTime /\ realtime \in 0..now /\ t \in Nat
  BY DEF IInv, Typed
<1>3. ASSUME NEW s \in Slot
      PROVE  LET last == slots[s].lastPacketReceivedTime
             IN  Clamped(s, t) \in Nat /\ Clamped(s, t) = IF last <= t THEN last ELSE t
  <2>1. slots[s].lastPacketReceivedTime \in Nat
    BY <1>2 DEF SlotType
  <2> QED BY <1>2, <2>1, MinOfTwo DEF Clamped
<1> HIDE DEF t
<1>4. ASSUME NEW s \in Slot, ~TimedOut(s, t)
      PROVE  /\ slots'[s] \in SlotType
             /\ slots'[s].state = slots[s].state /\ slots'[s].player = slots[s].player
             /\ slots'[s].mv = slots[s].mv
             /\ slots'[s].conn = slots[s].conn /\ slots'[s].heard = slots[s].heard
             /\ slots'[s].lastconnect = slots[s].lastconnect
             /\ slots'[s].lastPacketReceivedTime = Clamped(s, t)
  <2>1. slots'[s] = [slots[s] EXCEPT !.lastPacketReceivedTime = Clamped(s, t)]
    BY <1>1, <1>4 DEF Checked
  <2>2. slots[s] \in SlotType /\ Clamped(s, t) \in Nat
    BY <1>2, <1>3
  <2> QED BY <2>1, <2>2, ClampedSlot
<1>5. \A s \in Slot : TimedOut(s, t) => slots'[s] = FreeSlot
  BY <1>1 DEF Checked
<1>6. FreeSlot \in SlotType
  BY DEF FreeSlot, SlotType
<1>7. slots' \in [Slot -> SlotType]
  BY <1>1, <1>4, <1>5, <1>6
<1>8. \A s \in Slot : SlotKept(s)
  BY <1>4, <1>5 DEF SlotKept, IInv, SlotsSound
<1>9. net' \subseteq net
  BY <1>1
<1>10. Typed'
  BY <1>1, <1>2, <1>7, <1>9 DEF IInv, Typed, t
<1>11. TimesSound'
  <2> SUFFICES ASSUME NEW s \in Slot
               PROVE  LET last == slots'[s].lastPacketReceivedTime
                      IN  /\ last <= MaxTime
                          /\ slots'[s].heard <= now + 1 /\ slots'[s].lastconnect <= now + 1
                          /\ last <= t
                          /\ slots'[s].state = "live" =>
                                /\ t - last <= now + 1 - slots'[s].heard
                                /\ t - last <= TimeoutTime
                                /\ \/ now + 1 - slots'[s].heard = t - last
                                   \/ last <= 1
    <3>1. now' = now + 1 /\ realtime' = t /\ now \in Nat /\ t \in Nat
      BY <1>1, <1>2
    <3>2. \A s \in Slot : slots'[s].lastPacketReceivedTime \in Nat /\ slots'[s].heard \in Nat
      BY <1>7 DEF SlotType
    <3> QED BY <3>1, <3>2 DEF TimesSound, Live
  <2>1. CASE TimedOut(s, t)
    BY <1>2, <1>5, <2>1 DEF FreeSlot
  <2>2. CASE ~TimedOut(s, t)
    <3> DEFINE last == slots[s].lastPacketReceivedTime
    <3>1. /\ last \in Nat /\ slots[s].heard \in Nat /\ slots[s].lastconnect \in Nat
      BY <1>2 DEF SlotType
    <3>2. /\ last <= MaxTime
          /\ slots[s].heard <= now /\ slots[s].lastconnect <= now
          /\ realtime > 0 => last <= realtime
          /\ Live(s) => /\ realtime - last <= now - slots[s].heard
                        /\ \/ now - slots[s].heard = realtime - last
                           \/ last <= 1 \/ realtime = 0
      BY DEF IInv, TimesSound
    <3>3. Live(s) => t - Clamped(s, t) <= TimeoutTime
      BY <1>2, <1>3, <2>2 DEF TimedOut
    <3>4. Clamped(s, t) = IF last <= t THEN last ELSE t
      BY <1>3
    <3>5. realtime \in Nat /\ now \in Nat /\ t = realtime + 1
      BY <1>2 DEF t
    <3> HIDE DEF last
    <3> QED BY <1>4, <2>2, <3>1, <3>2, <3>3, <3>4, <3>5 DEF Live
  <2> QED BY <2>1, <2>2
<1>12. PacketsSound'
  <2>1. \A m \in net : m.sent \in Nat
    BY DEF IInv, Typed, PacketType
  <2> QED BY <1>1, <1>2, <2>1 DEF IInv, PacketsSound
<1> QED BY <1>1, <1>2, <1>7, <1>8, <1>9, <1>10, <1>11, <1>12, SlotsStep DEF IInv

-----------------------------------------------------------------------------
\* Every step keeps the invariant.
LEMMA NextIInv == IInv /\ [Next]_vars => IInv'
<1> SUFFICES ASSUME IInv, [Next]_vars PROVE IInv'
  OBVIOUS
<1>1. CASE UNCHANGED vars
  BY <1>1 DEF vars, IInv, Typed, SlotsSound, OneSlotEach, ChallengesSound, ChallengeUsedOnce,
              TimesSound, PacketsSound, ConnectionsSound, Live
<1>2. ASSUME NEW p \in Player,
             \/ Connect(p) \/ AskForChallenge(p) \/ ReceiveChallenge(p)
             \/ ReceiveClientConnect(p) \/ Leave(p)
      PROVE  IInv'
  BY <1>2, ConnectStep, AskForChallengeStep, ReceiveChallengeStep, ReceiveClientConnectStep
<1> QED BY <1>1, <1>2, GetChallengeStep, ServerConnectStep, ServerReadStep, ServerDropStep,
           MultiviewStep, LevelChangeStep, FrameStep DEF Next

\* What makes all the others true is true in every state.
THEOREM SlotsInvariant == Spec => []IInv
BY InitIInv, NextIInv, PTL DEF Spec

\* Every variable keeps to its type.
THEOREM SlotsTypeOK == Spec => []TypeOK
<1>1. IInv => TypeOK
  <2> SUFFICES ASSUME IInv PROVE TypeOK
    OBVIOUS
  <2> USE DEF IInv
  <2>1. now \in 0..MaxTime /\ realtime \in 0..MaxTime
    BY DEF Typed
  <2>2. challenges \in [1..MaxChallenges ->
            [host : {HostOf[p] : p \in Player} \cup {NoHost}, number : 0..MaxIssued]]
    <3>1. hist.issued \in 0..MaxIssued
      BY DEF Typed
    <3>2. \A i \in 1..MaxChallenges :
             /\ challenges[i] \in [host : {HostOf[p] : p \in Player} \cup {NoHost}, number : Nat]
             /\ challenges[i].number \in 0..MaxIssued
      BY <3>1 DEF Typed, ChallengeType, ChallengesSound
    <3>3. \A i \in 1..MaxChallenges :
             challenges[i] \in [host : {HostOf[p] : p \in Player} \cup {NoHost},
                                number : 0..MaxIssued]
      BY <3>2
    <3> QED BY <3>3 DEF Typed
  <2>3. ASSUME NEW s \in Slot
        PROVE  /\ slots[s].state \in {"free", "live", "zombie"}
               /\ Live(s) => slots[s].player \in Player
               /\ slots[s].player = NoPlayer => slots[s].conn = 0
               /\ slots[s].conn <= Len(hist.accepted)
               /\ slots[s].mv => Live(s)
               /\ slots[s].lastPacketReceivedTime \in 0..MaxTime
    <3>1. slots[s] \in SlotType /\ Len(hist.accepted) \in Nat
      BY DEF Typed
    <3>2. slots[s].state \in {"free", "live", "zombie"}
          /\ slots[s].lastPacketReceivedTime \in 0..MaxTime
      BY <3>1 DEF SlotType, TimesSound
    <3> QED BY <3>1, <3>2 DEF SlotsSound, Live
  <2>4. \A m \in net : m.kind \in Kinds /\ now - m.sent \in 0..Lifetime
    <3>1. now \in Nat /\ \A m \in net : m \in PacketType
      BY DEF Typed
    <3> QED BY <3>1 DEF PacketsSound, PacketType
  <2>5. \A p \in Player : players[p].state \in {"disconnected", "connecting", "connected"}
    BY DEF Typed, PlayerType
  <2> QED BY <2>1, <2>2, <2>3, <2>4, <2>5 DEF TypeOK
<1> QED BY <1>1, SlotsInvariant, PTL

\* No player ever holds two slots.
THEOREM SlotsOneSlotEach == Spec => []OneSlotEach
BY SlotsInvariant, PTL DEF IInv

\* No challenge ever opens two connections.
THEOREM SlotsChallengeUsedOnce == Spec => []ChallengeUsedOnce
BY SlotsInvariant, PTL DEF IInv

\* A silent client loses its slot, for any number of levels and any times.
THEOREM SlotsSilenceEnds == Spec => []SilenceEnds
<1>1. IInv => SilenceEnds
  <2> SUFFICES ASSUME IInv, NEW s \in Slot, Live(s)
               PROVE  now - slots[s].heard <= TimeoutTime \/ realtime <= TimeoutTime + 1
    BY DEF SilenceEnds
  <2>1. /\ slots[s] \in SlotType /\ now \in Nat /\ realtime \in Nat
    BY DEF IInv, Typed
  <2>2. slots[s].heard \in Nat /\ slots[s].lastPacketReceivedTime \in Nat
    BY <2>1 DEF SlotType
  <2> QED BY <2>1, <2>2 DEF IInv, TimesSound
<1> QED BY <1>1, SlotsInvariant, PTL

(***************************************************************************)
(* What a step may do to a slot.                                           *)
(***************************************************************************)
LEMMA SlotCases ==
    ASSUME IInv, [Next]_vars, NEW s \in Slot
    PROVE  \/ slots'[s].conn = slots[s].conn /\ slots'[s].state = slots[s].state
           \/ slots'[s].conn = 0 /\ slots'[s].state = "zombie"
           \/ slots'[s].conn = 0 /\ Frame
           \/ /\ slots'[s].state = "live"
              /\ \E m \in net : m.kind = "connect" /\ s \in SlotFor(m.player)
<1>1. slots \in [Slot -> SlotType] /\ slots[s] \in SlotType
      /\ now \in Nat /\ realtime \in Nat
  BY DEF IInv, Typed
<1>2. CASE UNCHANGED slots
  BY <1>2
<1>3. CASE ServerConnect
  <2>1. PICK m \in net : \E others \in Without(m) : \E i \in EntriesOf(HostOf[m.player]) :
           ServerConnectWith(m, others, i)
    BY <1>3 DEF ServerConnect, ServerConnectWith
  <2>2. /\ m.kind = "connect"
        /\ \/ UNCHANGED slots
           \/ \E t \in SlotFor(m.player) : slots' = [slots EXCEPT ![t] = Accepted(m.player)]
    BY <2>1 DEF ServerConnectWith
  <2>3. ASSUME NEW t \in SlotFor(m.player), slots' = [slots EXCEPT ![t] = Accepted(m.player)]
        PROVE  \/ slots'[s] = slots[s]
               \/ s = t /\ slots'[s].state = "live"
    BY <1>1, <2>3 DEF Accepted
  <2> QED BY <2>2, <2>3
<1>4. CASE ServerRead
  <2>1. slots'[s] = slots[s] \/ slots'[s] = Heard(slots[s])
    BY <1>1, <1>4 DEF ServerRead
  <2> QED BY <1>1, <2>1, HeardSlot
<1>5. CASE ServerDrop
  <2>1. slots'[s] = slots[s] \/ slots'[s] = Dropped(slots[s])
    BY <1>1, <1>5 DEF ServerDrop
  <2> QED BY <1>1, <2>1, DroppedSlot
<1>6. CASE Multiview
  <2>1. slots'[s] = slots[s] \/ \E v \in BOOLEAN : slots'[s] = [slots[s] EXCEPT !.mv = v]
    <3>1. PICK t \in Slot : slots' = [slots EXCEPT ![t] = [@ EXCEPT !.mv = ~slots[t].mv]]
      BY <1>6 DEF Multiview
    <3>2. (~slots[t].mv) \in BOOLEAN
      OBVIOUS
    <3> QED BY <1>1, <3>1, <3>2
  <2>2. ASSUME NEW v \in BOOLEAN, slots'[s] = [slots[s] EXCEPT !.mv = v]
        PROVE  slots'[s].conn = slots[s].conn /\ slots'[s].state = slots[s].state
    BY <1>1, <2>2, MvSlot
  <2> QED BY <2>1, <2>2
<1>7. CASE LevelChange
  <2>1. \E v \in BOOLEAN : slots'[s] = [slots[s] EXCEPT !.mv = v]
    BY <1>1, <1>7 DEF LevelChange
  <2> QED BY <1>1, <2>1, MvSlot
<1>8. CASE Frame
  <2>1. \/ slots'[s] = FreeSlot
        \/ slots'[s] = [slots[s] EXCEPT !.lastPacketReceivedTime = Clamped(s, realtime + 1)]
    BY <1>8 DEF Frame, Checked
  <2>2. slots[s].lastPacketReceivedTime \in Nat
    BY <1>1 DEF SlotType
  <2>3. Clamped(s, realtime + 1) \in Nat
    BY <1>1, <2>2, MinOfTwo DEF Clamped
  <2> QED BY <1>1, <1>8, <2>1, <2>3, ClampedSlot DEF FreeSlot
<1>9. ASSUME NEW p \in Player,
             \/ Connect(p) \/ AskForChallenge(p) \/ ReceiveChallenge(p)
             \/ ReceiveClientConnect(p) \/ Leave(p)
      PROVE  UNCHANGED slots
  BY <1>9 DEF Connect, AskForChallenge, ReceiveChallenge, ReceiveClientConnect, Leave
<1>10. CASE GetChallenge
  BY <1>2, <1>10 DEF GetChallenge
<1>11. CASE UNCHANGED vars
  BY <1>2, <1>11 DEF vars
<1> QED BY <1>2, <1>3, <1>4, <1>5, <1>6, <1>7, <1>8, <1>9, <1>10, <1>11 DEF Next

\* However late its level's clock is, no client is timed out within TimeoutTime of
\* its last packet.
THEOREM SlotsNotTimedOutWhileHeard == Spec => NotTimedOutWhileHeard
<1>1. IInv /\ [Next]_vars =>
         [\A s \in Slot : Live(s) /\ slots'[s].state = "free"
             => now' - slots[s].heard > TimeoutTime]_vars
  <2> SUFFICES ASSUME IInv, [Next]_vars, NEW s \in Slot,
                      Live(s), slots'[s].state = "free"
               PROVE  now' - slots[s].heard > TimeoutTime
    OBVIOUS
  <2> DEFINE last == slots[s].lastPacketReceivedTime
             t == realtime + 1
  <2>1. Frame
    BY SlotCases DEF Live
  <2>2. now' = now + 1 /\ slots'[s] = Checked(s, t)
    BY <2>1 DEF Frame
  <2>3. /\ last \in Nat /\ slots[s].heard \in Nat /\ slots[s] \in SlotType
        /\ now \in Nat /\ realtime \in Nat
    BY DEF IInv, Typed, SlotType
  <2>4. Clamped(s, t) = IF last <= t THEN last ELSE t
    BY <2>3, MinOfTwo DEF Clamped
  <2>5. Clamped(s, t) \in Nat
    BY <2>3, <2>4
  <2>6. TimedOut(s, t)
    <3>1. [slots[s] EXCEPT !.lastPacketReceivedTime = Clamped(s, t)].state = "live"
      BY <2>3, <2>5, ClampedSlot DEF Live
    <3> QED BY <2>2, <3>1 DEF Checked
  <2>7. Clamped(s, t) + TimeoutTime < t
    BY <2>6 DEF TimedOut, Live
  <2>8. slots[s].heard <= now /\ realtime - last <= now - slots[s].heard
    BY DEF IInv, TimesSound
  <2> QED BY <2>2, <2>3, <2>4, <2>7, <2>8
<1> QED BY <1>1, SlotsInvariant, PTL DEF Spec, NotTimedOutWhileHeard

\* A late connect packet of a client resets no connection the client knows of, if
\* the limit on reconnects is longer than two packets live: one that tells the client of
\* its connection, and one it sent just before.
THEOREM SlotsEstablishedIsNotReset ==
    ASSUME 2 * Lifetime < ReconnectLimit
    PROVE  Spec => EstablishedIsNotReset
<1>1. IInv /\ [Next]_vars =>
         [\A s \in Slot :
             Live(s) /\ players[slots[s].player].state = "connected"
               /\ players[slots[s].player].conn = slots[s].conn
             => slots'[s].conn \in {slots[s].conn, 0}]_vars
  <2> SUFFICES ASSUME IInv, [Next]_vars, NEW s \in Slot, Live(s),
                      players[slots[s].player].state = "connected",
                      players[slots[s].player].conn = slots[s].conn
               PROVE  slots'[s].conn \in {slots[s].conn, 0}
    OBVIOUS
  <2>1. ASSUME NEW m \in net, m.kind = "connect", s \in SlotFor(m.player)
        PROVE  FALSE
    <3>1. m.player \in Player /\ m.sent \in Nat /\ now \in Nat /\ slots[s].lastconnect \in Nat
      BY DEF IInv, Typed, PacketType, SlotType
    <3>2. slots[s].player \in Player
      BY DEF IInv, SlotsSound, Live
    <3>3. slots[s].player = m.player
      BY <2>1, <3>1, <3>2, GivenSlot
    <3>4. m.sent <= slots[s].lastconnect + Lifetime /\ now <= m.sent + Lifetime
      BY <2>1, <3>1, <3>3 DEF IInv, ConnectionsSound, PacketsSound
    <3>5. TooSoon(s)
      BY <3>1, <3>4 DEF TooSoon
    <3>6. SlotsOf(m.player) = {s} /\ Min(SlotsOf(m.player)) = s
      BY <3>1, <3>3, OnlySlot
    <3> QED BY <2>1, <3>5, <3>6 DEF SlotFor
  <2> QED BY <2>1, SlotCases
<1> QED BY <1>1, SlotsInvariant, PTL DEF Spec, EstablishedIsNotReset
=============================================================================
