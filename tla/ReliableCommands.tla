-------------------------- MODULE ReliableCommands --------------------------
(***************************************************************************)
(* The reliable commands between a server and one of its clients           *)
(* (server/sv_send.c, server/sv_client.c, client/cl_main.c,                *)
(* client/cl_parse.c), from the moment serverdata has reset the counters   *)
(* until the connection ends.  Each end numbers the commands it adds,      *)
(* keeps those not acknowledged in a ring of MAX_RELIABLE_COMMANDS slots,  *)
(* repeats all of them in every message, and acknowledges in its own       *)
(* messages the last command it executed.                                  *)
(*                                                                         *)
(* The messages travel on a netchan, which may lose any of them but keeps  *)
(* their order (module DatagramChannel).  A command is represented by the  *)
(* number it was added under, so that an overwritten slot can be told.     *)
(***************************************************************************)
EXTENDS Integers, Sequences

CONSTANTS MaxReliable,  \* MAX_RELIABLE_COMMANDS
          MaxAdded,     \* bound: e stores commands up to number MaxAdded[e]
          MaxInFlight,  \* bound: messages on their way to an end
          Disconnect,   \* the command "disconnect"
          Empty         \* the contents of a slot never written

End == {"client", "server"}
Peer(e) == IF e = "client" THEN "server" ELSE "client"

ASSUME BoundsAssumption ==
    /\ MaxReliable \in Nat \ {0}
    /\ MaxAdded \in [End -> Nat]
    /\ MaxInFlight \in Nat \ {0}
ASSUME CommandsAssumption ==
    Disconnect \notin Nat /\ Empty \notin Nat /\ Disconnect # Empty

VARIABLES
    queue,      \* queue[e]: reliableSequence, reliableAcknowledge, reliableSent and
                \* reliableCommands of e; its history: the commands added, and the
                \* numbers of those given up before they were acknowledged
    executedTo, \* lastExecutedServerCommand and clientCommandExecuted
    state,      \* connected; leaving (the client, in CL_Disconnect); gone; or crashed
    rounds,     \* disconnect commands CL_Disconnect_SendCommand has left to send
    inError,    \* the client is inside Com_Error
    unread,     \* what follows a disconnect in the message the client was reading
    net,        \* net[e]: the messages on their way to e
    executed,   \* history: the commands e executed, in order
    movesAfter  \* history: the commands added before the last usercmds that
                \* the server received

vars == <<queue, executedTo, state, rounds, inError, unread, net, executed, movesAfter>>

Command == Nat \cup {Disconnect}
Slot == 0..MaxReliable-1

-----------------------------------------------------------------------------
\* The queue of an end.
NewQueue == [reliableSequence |-> 0, reliableAcknowledge |-> 0, reliableSent |-> 0,
             reliableCommands |-> [s \in Slot |-> Empty], added |-> <<>>, lost |-> {}]

Window(q) == q.reliableSequence - q.reliableAcknowledge
NextNumber(q) == q.reliableSequence + 1

\* The next command, c, takes the slot of the command MAX_RELIABLE_COMMANDS
\* before it ...
Put(q, c) ==
    LET n == NextNumber(q)
    IN  [q EXCEPT !.reliableSequence = n,
                  !.reliableCommands[n % MaxReliable] = c,
                  !.added = Append(@, c),
                  !.lost = IF Window(q) < MaxReliable THEN @
                           ELSE @ \cup {n - MaxReliable}]

\* ... or takes a number only.
Skip(q, c) == [q EXCEPT !.reliableSequence = NextNumber(q),
                        !.added = Append(@, c),
                        !.lost = @ \cup {NextNumber(q)}]

\* SV_AddReliableCommandsToMessage and CL_UpdateClientCommandsToServer: every
\* command that is not acknowledged, read from its slot.  (Mutant: only what
\* has not been sent.)
PendingUnsent(q) == [i \in q.reliableSent+1..q.reliableSequence |->
                        q.reliableCommands[i % MaxReliable]]
Pending(q) == [i \in q.reliableAcknowledge+1..q.reliableSequence |->
                  q.reliableCommands[i % MaxReliable]]
SentUnrecorded(q) == q
Sent(q) == [q EXCEPT !.reliableSent = q.reliableSequence]

\* svcack or clcack, the commands and, from the client, the usercmds, which
\* were made after all the commands added so far: the last number sent.
Message(ack, q) == [ack |-> ack, commands |-> Pending(q),
                    movesAfter |-> q.reliableSequence]

Init ==
    /\ queue = [e \in End |-> NewQueue]
    /\ executedTo = [e \in End |-> 0]
    /\ state = [e \in End |-> "connected"]
    /\ rounds = 0
    /\ inError = FALSE
    /\ unread = <<>>
    /\ net = [e \in End |-> <<>>]
    /\ executed = [e \in End |-> <<>>]
    /\ movesAfter = 0

\* The network n takes e's message m, or loses it.
Transmit(e, m, n) ==
    \/ net' = n
    \/ /\ Len(n[Peer(e)]) < MaxInFlight
       /\ net' = [n EXCEPT ![Peer(e)] = Append(@, m)]

\* The network without the message e reads.
Taken(e) == [net EXCEPT ![e] = Tail(@)]

-----------------------------------------------------------------------------
\* SV_AddServerCommand: the next command would take the slot of one that is not
\* acknowledged.  The test is for equality, so that after an overflow the
\* disconnect can be added.  (Mutant: the client's test.)
ServerOverflowsLate(q) == Window(q) = MaxReliable + 1
ServerOverflows(q) == Window(q) = MaxReliable

\* SV_DropClient adds a last command to q.  With the window exactly full that
\* calls SV_DropClient again (and sends the same message twice).
WithDisconnect(q) ==
    IF ServerOverflows(q) THEN Put(Skip(q, Disconnect), Disconnect)
                          ELSE Put(q, Disconnect)

\* SV_DropClient, for a client whose queue is q, when the server has executed
\* its commands up to ack and the network is n.  The client is then a zombie,
\* whose packets SV_ReadPackets ignores.
DropClient(q, ack, n) ==
    /\ queue' = [queue EXCEPT !["server"] = Sent(WithDisconnect(q))]
    /\ state' = [state EXCEPT !["server"] = "gone"]
    /\ Transmit("server", Message(ack, WithDisconnect(q)), n)

\* SV_AddServerCommand.  On overflow the new command is not stored.
ServerAddCommand ==
    LET q == queue["server"]
        c == NextNumber(q)
    IN  /\ state["server"] = "connected"
        /\ c <= MaxAdded["server"] \/ ServerOverflows(q)
        /\ IF ServerOverflows(q)
           THEN DropClient(Skip(q, c), executedTo["server"], net)
           ELSE /\ queue' = [queue EXCEPT !["server"] = Put(q, c)]
                /\ UNCHANGED <<state, net>>
        /\ UNCHANGED <<executedTo, rounds, inError, unread, executed, movesAfter>>

\* SV_DropClient for any other reason: kicked, timed out.
ServerDrop ==
    /\ state["server"] = "connected"
    /\ DropClient(queue["server"], executedTo["server"], net)
    /\ UNCHANGED <<executedTo, rounds, inError, unread, executed, movesAfter>>

-----------------------------------------------------------------------------
\* CL_Disconnect begins; rest is what its caller has left to execute when it
\* returns, and nothing if it was called from an error, which does not return.
Leave(error, rest) ==
    /\ state' = [state EXCEPT !["client"] = "leaving"]
    /\ rounds' = 3
    /\ inError' = error
    /\ unread' = rest

\* CL_AddReliableCommand when it raises ERR_DROP, from which Com_Error calls
\* CL_Disconnect; inside Com_Error, that error is fatal ("crashed").  (Mutant: the test is
\* one command later still.)
OverflowsLater(q) == q.reliableSequence > q.reliableAcknowledge + MaxReliable + 1
Overflows(q) == q.reliableSequence > q.reliableAcknowledge + MaxReliable
GiveUp(q) == [q EXCEPT !.reliableAcknowledge = q.reliableSequence,
                       !.lost = @ \cup (q.reliableAcknowledge+1..q.reliableSequence)]
ClientOverflow ==
    /\ queue' = [queue EXCEPT !["client"] = GiveUp(@)]
    /\ IF inError
       THEN /\ state' = [state EXCEPT !["client"] = "crashed"]
            /\ UNCHANGED <<rounds, inError, unread>>
       ELSE Leave(TRUE, <<>>)
    /\ UNCHANGED net

ClientAddCommand ==
    LET q == queue["client"]
        c == NextNumber(q)
    IN  /\ state["client"] = "connected"
        /\ c <= MaxAdded["client"] \/ Overflows(q)
        /\ IF Overflows(q)
           THEN ClientOverflow
           ELSE /\ queue' = [queue EXCEPT !["client"] = Put(q, c)]
                /\ UNCHANGED <<state, rounds, inError, unread, net>>
        /\ UNCHANGED <<executedTo, executed, movesAfter>>

\* CL_Disconnect, because the user asks for it or the server timed out, or from
\* Com_Error( ERR_DROP ) on a message that cannot be read.
ClientDisconnect ==
    /\ state["client"] = "connected"
    /\ \E error \in BOOLEAN : Leave(error, <<>>)
    /\ UNCHANGED <<queue, executedTo, net, executed, movesAfter>>

\* CL_Disconnect returns, to a CL_ParseServerMessage that goes on with the next
\* command: CL_ClearState has zeroed the number it is compared with, so it is
\* executed, and so are all the others.
Left ==
    /\ state' = [state EXCEPT !["client"] = "gone"]
    /\ executed' = [executed EXCEPT !["client"] = @ \o unread]
    /\ unread' = <<>>

\* One round of CL_Disconnect_SendCommand; the last ends CL_Disconnect.
DisconnectRound ==
    LET q == Put(queue["client"], Disconnect)
    IN  /\ state["client"] = "leaving"
        /\ IF Overflows(queue["client"])
           THEN ClientOverflow /\ UNCHANGED executed
           ELSE /\ queue' = [queue EXCEPT !["client"] = Sent(q)]
                /\ Transmit("client", Message(executedTo["client"], q), net)
                /\ rounds' = rounds - 1
                /\ IF rounds = 1 THEN Left ELSE UNCHANGED <<state, unread, executed>>
                /\ UNCHANGED inError
        /\ UNCHANGED <<executedTo, movesAfter>>

-----------------------------------------------------------------------------
\* SV_SendClientMessages and CL_SendMessagesToServer.
Send(e) ==
    /\ state[e] = "connected"
    /\ queue' = [queue EXCEPT ![e] = Sent(@)]
    /\ Transmit(e, Message(executedTo[e], queue[e]), net)
    /\ UNCHANGED <<executedTo, state, rounds, inError, unread, executed, movesAfter>>

\* The commands of m that e has not executed, up to the first disconnect, where
\* SV_ParseClientMessage returns and CL_ParseServerMessage waits for
\* CL_Disconnect: the numbers are compared with the last one executed, never
\* with the next one.  (Mutants: the last one again; no stop at a disconnect.)
NewCommandsAgain(e, m) == {i \in DOMAIN m.commands : i >= executedTo[e]}
NewCommands(e, m) == {i \in DOMAIN m.commands : i > executedTo[e]}
ExecutedAll(e, m) == NewCommands(e, m)
ExecutedNow(e, m) ==
    {i \in NewCommands(e, m) :
        \A j \in NewCommands(e, m) : j < i => m.commands[j] # Disconnect}
Disconnects(e, m) == \E i \in ExecutedNow(e, m) : m.commands[i] = Disconnect

Execute(e, m) ==
    LET now   == ExecutedNow(e, m)
        first == CHOOSE i \in now : \A j \in now : i <= j
        last  == CHOOSE i \in now : \A j \in now : i >= j
    IN  IF now = {}
        THEN UNCHANGED <<executedTo, executed>>
        ELSE /\ executedTo' = [executedTo EXCEPT ![e] = last]
             /\ executed' = [executed EXCEPT ![e] =
                   @ \o [k \in 1..last - first + 1 |-> m.commands[first + k - 1]]]

\* SV_ParseClientMessage: svcack, then commands, then the move.  (Mutant: only
\* an ack that is new is taken.)
ValidNewAck(q, ack) == ack > q.reliableAcknowledge /\ ack <= q.reliableSent
ValidAck(q, ack) == ack >= q.reliableAcknowledge /\ ack <= q.reliableSent
ServerReceive ==
    /\ state["server"] = "connected"
    /\ net["server"] # <<>>
    /\ LET m == Head(net["server"])
           q == [queue["server"] EXCEPT !.reliableAcknowledge = m.ack]
       IN  IF ~ValidAck(queue["server"], m.ack)
           THEN /\ net' = Taken("server")
                /\ UNCHANGED <<queue, executedTo, state, executed, movesAfter>>
           ELSE /\ Execute("server", m)
                /\ IF Disconnects("server", m)
                   THEN /\ DropClient(q, executedTo'["server"], Taken("server"))
                        /\ UNCHANGED movesAfter
                   ELSE /\ queue' = [queue EXCEPT !["server"] = q]
                        /\ net' = Taken("server")
                        /\ movesAfter' = m.movesAfter
                        /\ UNCHANGED state
    /\ UNCHANGED <<rounds, inError, unread>>

\* The commands of m with a number above n.
Rest(m, n) == [k \in 1..m.movesAfter - n |-> m.commands[n + k]]

\* CL_ParseServerMessage: clcack, then commands.  A disconnect runs CL_Disconnect
\* before the commands after it are read; the packets after it are dropped.
ClientReceive ==
    /\ state["client"] = "connected"
    /\ net["client"] # <<>>
    /\ LET m == Head(net["client"])
       IN  /\ queue' = [queue EXCEPT !["client"].reliableAcknowledge = m.ack]
           /\ Execute("client", m)
           /\ IF Disconnects("client", m)
              THEN Leave(FALSE, Rest(m, executedTo'["client"]))
              ELSE UNCHANGED <<state, rounds, inError, unread>>
    /\ net' = Taken("client")
    /\ UNCHANGED movesAfter

-----------------------------------------------------------------------------
Next ==
    \/ ServerAddCommand \/ ServerDrop \/ ServerReceive
    \/ ClientAddCommand \/ ClientDisconnect \/ DisconnectRound \/ ClientReceive
    \/ \E e \in End : Send(e)

Spec == Init /\ [][Next]_vars

\* Each end reads what arrives and sends again and again; the network does not
\* lose every message.
FairSpec ==
    /\ Spec
    /\ WF_vars(ServerReceive) /\ WF_vars(ClientReceive)
    /\ \A e \in End : SF_vars(Send(e) /\ net' # net)

-----------------------------------------------------------------------------
QueueType ==
    [reliableSequence : Nat, reliableAcknowledge : Nat, reliableSent : Nat,
     reliableCommands : [Slot -> Command \cup {Empty}],
     added : Seq(Command), lost : SUBSET Nat]

\* The unsigned differences that the ring is indexed with stay small: the server
\* writes two commands past its window when it drops a client, and the client
\* one.
TypeOK ==
    /\ queue \in [End -> QueueType]
    /\ Window(queue["server"]) \in 0..MaxReliable+2
    /\ Window(queue["client"]) \in 0..MaxReliable+1
    /\ executedTo \in [End -> Nat]
    /\ state["server"] \in {"connected", "gone"}
    /\ state["client"] \in {"connected", "leaving", "gone", "crashed"}
    /\ rounds \in 0..3
    /\ inError \in BOOLEAN
    /\ unread \in Seq(Command)
    /\ \A e \in End : Len(net[e]) <= MaxInFlight
    /\ executed \in [End -> Seq(Command)]
    /\ movesAfter \in Nat

\* An end executes the commands of its peer in the order they were added, each
\* once and none skipped, as long as the peer has not given one up: whatever
\* messages are lost, and however often a command is repeated.
IsPrefixOf(s, t) == Len(s) <= Len(t) /\ \A i \in 1..Len(s) : s[i] = t[i]
ExecutedInOrder ==
    \A e \in End : queue[e].lost = {} =>
        IsPrefixOf(executed[Peer(e)], queue[e].added)

\* "if we would be losing an old command that hasn't been acknowledged, we must
\* drop the connection" (SV_AddServerCommand): every command that the server may
\* have to send again is still in its slot.  (Of the client this is not true: its
\* window may be one command larger than its ring, see TypeOK.)
ServerKeepsUnacknowledged ==
    state["server"] = "connected" =>
        \A i \in DOMAIN Pending(queue["server"]) :
            Pending(queue["server"])[i] = queue["server"].added[i]

\* An end stops repeating only commands that its peer has executed, and the
\* peer has executed only what was sent; clcack needs no check for that.
AcksAreSound ==
    \A e \in End : queue[e].lost = {} =>
        /\ queue[e].reliableAcknowledge <= Len(executed[Peer(e)])
        /\ Len(executed[Peer(e)]) <= queue[e].reliableSent
        /\ queue[e].reliableSent <= queue[e].reliableSequence

\* "is gauranteed to not have future usercmd_t executed before it is executed"
\* (CL_AddReliableCommand): when usercmds take effect, the commands added
\* before them have.
MovesFollowCommands == movesAfter <= executedTo["server"]

\* A disconnect is the last command the server executes, although the client
\* sends three ("return; // disconnect command", SV_ParseClientMessage).  The client,
\* which makes no such test, executes commands after a disconnect, but only if
\* the server lost one: on an overflow the disconnect takes the slot of a command
\* not acknowledged, with others behind it.
NothingAfterDisconnect ==
    \A e \in End : e = "server" \/ queue["server"].lost = {} =>
        \A i \in 1..Len(executed[e]) :
            executed[e][i] = Disconnect => i = Len(executed[e])

\* Every command is executed in the end, or the connection ends.  (There are
\* finitely many commands, so "in the end" can be said of all at once.)
Connected == \A e \in End : state[e] = "connected"
CommandsArrive ==
    <>[](Connected => \A e \in End :
            Len(executed[Peer(e)]) = queue[e].reliableSequence)
=============================================================================
