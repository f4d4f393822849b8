---------------------------- MODULE ClientSlots ----------------------------
(***************************************************************************)
(* The slots of a server (svs.clients) and how players get and lose them:  *)
(* challenges and connect packets (server/sv_oob.c), packets of connected  *)
(* clients and timeouts (server/sv_main.c), drops and multiview            *)
(* (server/sv_client.c), level changes (server/sv_init.c), and the client  *)
(* while it connects (client/cl_main.c).                                   *)
(*                                                                         *)
(* A player stands for an address, a port and a game port; several players *)
(* may share a host, that is the address without the port.  Packets are    *)
(* lost, duplicated and reordered at will, but live for Lifetime frames at *)
(* most.  Time passes in server frames; the client does without a clock    *)
(* and asks again whenever it likes.  What is inside a connection is in    *)
(* the other modules: here a client that is connected only keeps in touch, *)
(* and the server drops it for reasons of its own.  A client that learns   *)
(* of it leaves, as it may at any time.                                    *)
(* Left out are reject packets (all those of the server allow another try, *)
(* and the client only takes note of them), a game that refuses a client,  *)
(* bots, TCP, and the local client, which has no reconnect limit.          *)
(***************************************************************************)
EXTENDS Integers, Sequences, FiniteSets, FiniteSetsExt

CONSTANTS Player,          \* those who connect
          HostOf,          \* HostOf[p]: the host of p
          MultiviewPlayer, \* those who connect as a TV server (tv_client)
          NoPlayer,        \* the player of a free slot
          NoHost,          \* NA_NOTRANSMIT, the address of an unused challenge
          MaxClients,      \* sv_maxclients
          MaxChallenges,   \* MAX_CHALLENGES
          MaxMvClients,    \* sv_maxmvclients
          IpLimit,         \* sv_iplimit
          TimeoutTime,     \* sv_timeout, in frames, as the times below
          ZombieTime,      \* sv_zombietime
          ReconnectLimit,  \* sv_reconnectlimit
          Lifetime,        \* how long a packet may be under way
          MaxTime,         \* bound: frames
          MaxIssued,       \* bound: challenges issued
          MaxLevels,       \* bound: level changes
          MaxInFlight      \* bound: packets under way; one more is lost

ASSUME PlayersAssumption ==
    /\ HostOf \in [Player -> Nat] /\ NoHost \notin Nat
    /\ MultiviewPlayer \subseteq Player /\ NoPlayer \notin Player
ASSUME TimesAssumption ==
    /\ {TimeoutTime, ZombieTime, ReconnectLimit, Lifetime} \subseteq Nat
    /\ {MaxMvClients, IpLimit, MaxTime, MaxIssued, MaxLevels, MaxInFlight} \subseteq Nat
    /\ MaxClients \in Nat \ {0} /\ MaxChallenges \in Nat \ {0}

VARIABLES
    now,        \* Sys_Milliseconds
    realtime,   \* svs.realtime, which every level starts again
    challenges, \* svs.challenges
    slots,      \* svs.clients
    numMv,      \* sv.num_mv_clients
    net,        \* the packets under way, see Packet
    players,    \* cls of each player
    hist        \* history, see Init

vars == <<now, realtime, challenges, slots, numMv, net, players, hist>>

Slot == 1..MaxClients

-----------------------------------------------------------------------------
\* Challenges are numbered in the order they are made, and their numbers stand for their
\* times too.
NoChallenge == [host |-> NoHost, number |-> 0]

\* conn numbers the connections accepted by the server and heard is when a packet was
\* last accepted, while the slot is live; the code has neither.
FreeSlot == [state |-> "free", player |-> NoPlayer, mv |-> FALSE,
             lastPacketReceivedTime |-> 0, lastconnect |-> 0,
             conn |-> 0, heard |-> 0]
Live(s) == slots[s].state = "live"

\* getchallenge, connect (n is the challenge) from a player;
\* challenge (n) and client_connect (n is the connection) to it.
Packet(kind, p, n) == [kind |-> kind, player |-> p, n |-> n, sent |-> now]
Send(others, kind, p, n) ==
    net' = IF Cardinality(others) < MaxInFlight
           THEN others \cup {Packet(kind, p, n)} ELSE others
\* What may be under way once m is received: it may come again.
Without(m) == {net \ {m}, net}
Kinds == {"getchallenge", "connect", "challenge", "client_connect"}

Disconnected == [state |-> "disconnected", conn |-> 0]

Init ==
    /\ now = 0
    /\ realtime = 0
    /\ challenges = [i \in 1..MaxChallenges |-> NoChallenge]
    /\ slots = [s \in Slot |-> FreeSlot]
    /\ numMv = 0
    /\ net = {}
    /\ players = [p \in Player |-> Disconnected]
    \* issued: challenges made; accepted: the challenges of the connect packets that
    \* got a slot, in order; levels: level changes.
    /\ hist = [issued |-> 0, accepted |-> <<>>, levels |-> 0]

-----------------------------------------------------------------------------
\* The client.

\* CL_Connect.
Connect(p) ==
    /\ players[p].state = "disconnected"
    /\ players' = [players EXCEPT ![p].state = "connecting"]
    /\ UNCHANGED <<now, realtime, challenges, slots, numMv, net, hist>>

\* CL_CheckForResend, again and again.
AskForChallenge(p) ==
    /\ players[p].state = "connecting"
    /\ Send(net, "getchallenge", p, 0)
    /\ UNCHANGED <<now, realtime, challenges, slots, numMv, players, hist>>

\* CL_ConnectionlessPacket, "challenge", and CL_SendConnectPacket.
ReceiveChallenge(p) ==
    /\ players[p].state = "connecting"
    /\ \E m \in net :
          /\ m.kind = "challenge" /\ m.player = p
          /\ \E others \in Without(m) : Send(others, "connect", p, m.n)
    /\ UNCHANGED <<now, realtime, challenges, slots, numMv, players, hist>>

\* CL_ConnectionlessPacket, "client_connect".
ReceiveClientConnect(p) ==
    /\ players[p].state = "connecting"
    /\ \E m \in net :
          /\ m.kind = "client_connect" /\ m.player = p
          /\ players' = [players EXCEPT
                ![p] = [state |-> "connected", conn |-> m.n]]
          /\ net' \in Without(m)
    /\ UNCHANGED <<now, realtime, challenges, slots, numMv, hist>>

\* CL_Disconnect: by the user, after too many tries, or because the server says that the
\* client was dropped or stops answering; or the client's program ends without a word.
Leave(p) ==
    /\ players[p].state # "disconnected"
    /\ players' = [players EXCEPT ![p] = Disconnected]
    /\ UNCHANGED <<now, realtime, challenges, slots, numMv, net, hist>>

-----------------------------------------------------------------------------
\* The server: challenges.

\* SVC_GetChallenge: a host keeps its challenge until it is used; else the oldest
\* entry, or the first of these, is overwritten.
Oldest == CHOOSE i \in DOMAIN challenges :
              \A j \in DOMAIN challenges :
                  \/ challenges[i].number < challenges[j].number
                  \/ challenges[i].number = challenges[j].number /\ i <= j
EntriesOf(host) == {i \in DOMAIN challenges : challenges[i].host = host}

GetChallenge ==
    \E m \in net : \E others \in Without(m) :
        LET host == HostOf[m.player]
            n == hist.issued + 1
        IN  /\ m.kind = "getchallenge"
            /\ IF EntriesOf(host) # {}
               THEN /\ Send(others, "challenge", m.player, challenges[Min(EntriesOf(host))].number)
                    /\ UNCHANGED <<challenges, hist>>
               ELSE /\ n <= MaxIssued
                    /\ challenges' = [challenges EXCEPT
                          ![Oldest] = [host |-> host, number |-> n]]
                    /\ hist' = [hist EXCEPT !.issued = n]
                    /\ Send(others, "challenge", m.player, n)
            /\ UNCHANGED <<now, realtime, slots, numMv, players>>

-----------------------------------------------------------------------------
\* The server: slots.

\* What SV_DropClient does to a slot.  (Mutant: it stays in multiview.)
DroppedInMv(slot) == [slot EXCEPT !.state = "zombie", !.conn = 0, !.heard = 0]
Dropped(slot) == [slot EXCEPT !.state = "zombie", !.mv = FALSE,
                              !.conn = 0, !.heard = 0]
MvIn(S) == Cardinality({s \in S : slots[s].mv})

\* SVC_DirectConnect: the slot that player p already has, which may be a zombie.
\* (Mutant: which is not.)
SlotsOfLive(p) == {s \in Slot : Live(s) /\ slots[s].player = p}
SlotsOf(p) == {s \in Slot : slots[s].state # "free" /\ slots[s].player = p}
FreeSlots == {s \in Slot : slots[s].state = "free"}

\* sv_iplimit: a zombie counts half.
Weight(s) == IF Live(s) THEN 2 ELSE 1
TooMany(host) ==
    LET Same == {s \in Slot \ FreeSlots : HostOf[slots[s].player] = host}
    IN  IpLimit # 0 /\ MapThenSumSet(Weight, Same) >= IpLimit * 2

\* What SV_ClientConnect makes of a slot, whatever it was before.
\* (Mutants: the reset times are left at zero; the limit on reconnects is not kept; the
\* challenge is not reset.)
AcceptedUnheard(p) ==
    [state |-> "live", player |-> p, mv |-> FALSE,
     lastPacketReceivedTime |-> 0, lastconnect |-> now,
     conn |-> Len(hist.accepted) + 1, heard |-> now]
Accepted(p) ==
    [state |-> "live", player |-> p, mv |-> FALSE,
     lastPacketReceivedTime |-> realtime, lastconnect |-> now,
     conn |-> Len(hist.accepted) + 1, heard |-> now]

TooSoonNever(s) == FALSE
TooSoon(s) == now - slots[s].lastconnect < ReconnectLimit

ConsumedNot(i) == challenges
Consumed(i) == [challenges EXCEPT ![i] = NoChallenge]

\* SVC_DirectConnect: the slots a player may be given, of which there is one at most:
\* the one it has, which SV_ClientConnect overwrites without dropping it; else the first
\* free one.
SlotFor(p) ==
    IF SlotsOf(p) # {} THEN {s \in {Min(SlotsOf(p))} : ~TooSoon(s)}
    ELSE {s \in FreeSlots : \A t \in FreeSlots : s <= t}

\* A connect packet that does not have the challenge of its host changes nothing; one
\* that has it uses it up, even if it gets no slot.
ServerConnect ==
    \E m \in net : \E others \in Without(m) : \E i \in EntriesOf(HostOf[m.player]) :
        LET given == IF TooMany(HostOf[m.player]) THEN {} ELSE SlotFor(m.player)
        IN  /\ m.kind = "connect" /\ challenges[i].number = m.n
            /\ challenges' = Consumed(i)
            /\ IF given = {}
               THEN net' = others /\ UNCHANGED <<slots, hist>>
               ELSE LET s == CHOOSE s \in given : TRUE
                    IN  /\ slots' = [slots EXCEPT ![s] = Accepted(m.player)]
                        /\ hist' = [hist EXCEPT !.accepted = Append(@, m.n)]
                        /\ Send(others, "client_connect", m.player, Accepted(m.player).conn)
            /\ UNCHANGED <<now, realtime, numMv, players>>

-----------------------------------------------------------------------------
\* The server: packets of clients.

\* SV_ReadPackets: the slots whose address and game port a packet of p has, but for the
\* port of the address, which a router may have changed.
Takers(p) == {s \in Slot : Live(s) /\ slots[s].player = p}

\* What SV_ReadPackets does to the slot that takes a packet.
Heard(slot) == [slot EXCEPT !.lastPacketReceivedTime = realtime, !.heard = now]

\* CL_SendMessagesToServer and SV_ReadPackets: a packet is sent and taken at once, for it
\* only matters when it is taken.
ServerRead ==
    /\ \E p \in Player :
          /\ players[p].state = "connected" /\ Takers(p) # {}
          /\ slots' = [slots EXCEPT ![Min(Takers(p))] = Heard(@)]
    /\ UNCHANGED <<now, realtime, challenges, numMv, net, players, hist>>

\* SV_DropClient: a client leaves (SV_Disconnect_f) or is kicked, or something is wrong in
\* its messages.
ServerDrop ==
    /\ \E s \in Slot :
          /\ Live(s)
          /\ slots' = [slots EXCEPT ![s] = Dropped(@)]
          /\ numMv' = numMv - MvIn({s})
    /\ UNCHANGED <<now, realtime, challenges, net, players, hist>>

\* SV_Multiview_f.  It does nothing at the limit, or if the game refuses.
Multiview ==
    /\ \E s \in Slot :
          /\ Live(s) /\ slots[s].player \in MultiviewPlayer
          /\ ~slots[s].mv => numMv < MaxMvClients
          /\ slots' = [slots EXCEPT ![s].mv = ~@]
          /\ numMv' = IF slots[s].mv THEN numMv - 1 ELSE numMv + 1
    /\ UNCHANGED <<now, realtime, challenges, net, players, hist>>

-----------------------------------------------------------------------------
\* The server: levels and frames.

\* SV_Map and SV_SpawnServer: the clients stay and reconnect, and those
\* in multiview are counted on top of the present count, which is then cleared.
LevelChange ==
    LET Stays(s) == numMv + MvIn(1..s - 1) < MaxMvClients
    IN  /\ hist.levels < MaxLevels
        /\ slots' = [s \in Slot |-> [slots[s] EXCEPT !.mv = @ /\ Stays(s)]]
        /\ numMv' = 0
        /\ realtime' = 0
        /\ hist' = [hist EXCEPT !.levels = @ + 1]
        /\ UNCHANGED <<now, challenges, net, players>>

\* SV_CheckTimeouts, with the time of the new frame: what becomes of a slot.
\* (Mutant: the times of an earlier level are left as they are.)
ClampedNot(s, t) == slots[s].lastPacketReceivedTime
Clamped(s, t) == Min({slots[s].lastPacketReceivedTime, t})
TimedOut(s, t) ==
    \/ slots[s].state = "zombie" /\ Clamped(s, t) + ZombieTime < t
    \/ Live(s) /\ Clamped(s, t) + TimeoutTime < t
Checked(s, t) == IF TimedOut(s, t) THEN FreeSlot
                 ELSE [slots[s] EXCEPT !.lastPacketReceivedTime = Clamped(s, t)]

\* SV_Frame.  The packets of the frame are read by the actions above.  A client that
\* times out is dropped too, but is no zombie.
Frame ==
    LET t == realtime + 1
        late == {s \in Slot : Live(s) /\ TimedOut(s, t)}
    IN  /\ now < MaxTime
        /\ now' = now + 1
        /\ realtime' = t
        /\ slots' = [s \in Slot |-> Checked(s, t)]
        /\ numMv' = numMv - MvIn(late)
        /\ net' = {m \in net : m.sent + Lifetime >= now + 1}
        /\ UNCHANGED <<challenges, players, hist>>

-----------------------------------------------------------------------------
Next ==
    \/ \E p \in Player :
          \/ Connect(p) \/ AskForChallenge(p) \/ ReceiveChallenge(p)
          \/ ReceiveClientConnect(p) \/ Leave(p)
    \/ GetChallenge \/ ServerConnect \/ ServerRead \/ ServerDrop
    \/ Multiview \/ LevelChange \/ Frame

Spec == Init /\ [][Next]_vars

-----------------------------------------------------------------------------
\* Every variable keeps to its type.
TypeOK ==
    /\ now \in 0..MaxTime /\ realtime \in 0..MaxTime
    /\ challenges \in [1..MaxChallenges ->
          [host : {HostOf[p] : p \in Player} \cup {NoHost}, number : 0..MaxIssued]]
    /\ \A s \in Slot :
          /\ slots[s].state \in {"free", "live", "zombie"}
          /\ Live(s) => slots[s].player \in Player
          /\ slots[s].player = NoPlayer => slots[s].conn = 0
          /\ slots[s].conn <= Len(hist.accepted)
          /\ slots[s].mv => Live(s)
          /\ slots[s].lastPacketReceivedTime \in 0..MaxTime
    /\ \A m \in net : m.kind \in Kinds /\ now - m.sent \in 0..Lifetime
    /\ \A p \in Player : players[p].state \in {"disconnected", "connecting", "connected"}

\* No player holds two slots, however often it asks to connect and whatever becomes of
\* its earlier slot (SVC_DirectConnect, the reuse of a slot, sv_oob.c:794): the packets
\* of a player reach one slot only.
OneSlotEach ==
    \A s, t \in Slot :
        slots[s].player = slots[t].player /\ slots[s].player \in Player => s = t

\* No two connections were opened with one challenge, though connect packets are repeated
\* by the network and by the client (SVC_DirectConnect, "reset challenge", sv_oob.c:746).
ChallengeUsedOnce ==
    \A i, j \in DOMAIN hist.accepted : hist.accepted[i] = hist.accepted[j] => i = j

\* A client that has been silent for more than TimeoutTime has lost its slot, unless the
\* level is hardly older than that (SV_CheckTimeouts, "message times may be wrong across a
\* changelevel", sv_main.c:410).
SilenceEnds ==
    \A s \in Slot :
        Live(s) => now - slots[s].heard <= TimeoutTime \/ realtime <= TimeoutTime + 1

\* A client that knows of its connection does not lose it to a late connect packet of its
\* own: while the server has the slot of a connection that the player has too, no step
\* sets the slot up again (SVC_DirectConnect, sv_reconnectlimit, sv_oob.c:801).
EstablishedIsNotReset ==
    [][\A s \in Slot :
          Live(s) /\ players[slots[s].player].state = "connected"
            /\ players[slots[s].player].conn = slots[s].conn
          => slots'[s].conn \in {slots[s].conn, 0}]_vars

\* No client loses its slot to a timeout within TimeoutTime of a packet the server took
\* from it, nor does one that just connected, level changes or not (SV_CheckTimeouts and
\* SV_ClientConnect, sv_client.c:136).
NotTimedOutWhileHeard ==
    [][\A s \in Slot : Live(s) /\ slots'[s].state = "free"
          => now' - slots[s].heard > TimeoutTime]_vars

\* sv.num_mv_clients is the "current number" of clients in multiview (server.h:66), and
\* "assert( sv.num_mv_clients )" (sv_client.c:917) says that it is not zero when one of
\* them is about to leave it.
MultiviewCounted == MvIn(Slot) > 0 => numMv # 0
=============================================================================
