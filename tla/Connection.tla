----------------------------- MODULE Connection -----------------------------
(***************************************************************************)
(* How a client gets into a level (server/sv_client.c, server/sv_init.c,   *)
(* client/cl_main.c, client/cl_parse.c): from the accepted connection to   *)
(* the first frame, and again whenever the server changes the level, which *)
(* it may do at any moment.  The steps are commands that each end sends    *)
(* reliably:                                                               *)
(*     new -> serverdata -> configstrings -> cs, cmd baselines ->          *)
(*     baselines -> (baselines), precache -> begin -> frames.              *)
(* serverdata and the baselines themselves are not commands: they go out   *)
(* once, in a message the netchan may lose.  Serverdata also restarts the  *)
(* numbering of the commands in both directions.                           *)
(*                                                                         *)
(* They share their numbers with the commands that have nothing to do with *)
(* the handshake: the game tells every client of a configstring that it    *)
(* changes, whatever the state of the client, and the player's own         *)
(* commands go to the server.                                              *)
(*                                                                         *)
(* Each end is single threaded: parsing[e] is what is left of the message  *)
(* it is reading.  The ring of module ReliableCommands is abstracted: the  *)
(* handshake stays far below its size.  A level is named by its spawncount *)
(* and its configstrings, and its baselines, are sent in one batch.        *)
(***************************************************************************)
EXTENDS Integers, Sequences, FiniteSets

CONSTANTS MaxLevel,    \* bound: levels the server loads
          MaxInFlight, \* bound: messages on their way to an end
          MaxUpdates,  \* bound: changed configstrings in a numbering
          MaxRequests  \* bound: the player's commands in a numbering

ASSUME BoundsAssumption ==
    /\ MaxLevel \in Nat \ {0} /\ MaxInFlight \in Nat \ {0}
    /\ MaxUpdates \in Nat /\ MaxRequests \in Nat

End == {"client", "server"}
Peer(e) == IF e = "client" THEN "server" ELSE "client"
Level == 1..MaxLevel
NoLevel == 0

VARIABLES
    state,       \* cls.state and client->state
    queue,       \* queue[e]: the commands e added, and reliableAcknowledge
    executedTo,  \* lastExecutedServerCommand and clientCommandExecuted
    reliableSent,\* of the server
    spawncount,  \* the level the server runs
    servercount, \* the level of the last serverdata
    configstrings, baselines, cgame,
                 \* the level of which the client has these, or NoLevel
    parsing,     \* the items left of the message being read
    net          \* net[e]: the messages on their way to e

clientVars == <<servercount, configstrings, baselines, cgame>>
vars == <<state, queue, executedTo, reliableSent, spawncount, clientVars,
          parsing, net>>

-----------------------------------------------------------------------------
NewQueue == [commands |-> <<>>, reliableAcknowledge |-> 0]
Cmd(name, level) == [name |-> name, level |-> level]
Add(q, c) == [q EXCEPT !.commands = Append(@, c)]
Number(q, name) == Cardinality({k \in DOMAIN q.commands : q.commands[k].name = name})

\* What a message holds: commands with their numbers, serverdata, baselines of
\* a level, a frame of a level.
Item(type, number, command) == [type |-> type, number |-> number, command |-> command]
Data(type, level) == <<Item(type, 0, Cmd(type, level))>>
Pending(q) ==
    [k \in 1..Len(q.commands) - q.reliableAcknowledge |->
        LET n == q.reliableAcknowledge + k IN Item("command", n, q.commands[n])]
Message(ack, items) == [ack |-> ack, items |-> items]

\* SV_ClientConnect has set the client's slot up and client_connect has just
\* been received.
Init ==
    /\ state = [client |-> "handshake", server |-> "connecting"]
    /\ queue = [client |-> Add(NewQueue, Cmd("new", NoLevel)), server |-> NewQueue]
    /\ executedTo = [e \in End |-> 0]
    /\ reliableSent = 0
    /\ spawncount = 1
    /\ servercount = NoLevel
    /\ configstrings = NoLevel
    /\ baselines = NoLevel
    /\ cgame = NoLevel
    /\ parsing = [e \in End |-> <<>>]
    /\ net = [e \in End |-> <<>>]

\* e's message gets on its way, or is lost.  The bound leaves room for one that a
\* handler sends beside those of every frame.
Transmit(e, m, bound) ==
    \/ UNCHANGED net
    \/ /\ Len(net[Peer(e)]) < bound
       /\ net' = [net EXCEPT ![Peer(e)] = Append(@, m)]
SendFrame(e, m) == Transmit(e, m, MaxInFlight)
SendNow(e, m) == Transmit(e, m, MaxInFlight + 1)

Idle(e) == parsing[e] = <<>> /\ state[e] \notin {"zombie", "disconnected"}
Parsed(e) == parsing' = [parsing EXCEPT ![e] = Tail(@)]

\* The next item of e's message is a command called name, not yet executed.
Reads(e, name) ==
    /\ parsing[e] # <<>>
    /\ Head(parsing[e]).type = "command"
    /\ Head(parsing[e]).command.name = name
    /\ Head(parsing[e]).number > executedTo[e]
CommandLevel(e) == Head(parsing[e]).command.level
Executed(e) == [executedTo EXCEPT ![e] = Head(parsing[e]).number]

\* A command that was executed before is read and ignored.
SkipOld(e) ==
    /\ parsing[e] # <<>>
    /\ Head(parsing[e]).type = "command"
    /\ Head(parsing[e]).number <= executedTo[e]
    /\ Parsed(e)
    /\ UNCHANGED <<state, queue, executedTo, reliableSent, spawncount, clientVars, net>>

-----------------------------------------------------------------------------
\* The server.

\* SV_SendClientMessages, to a spawned client with a frame; to the others when
\* there are commands to send or nothing was sent for a second.
ServerSend ==
    /\ Idle("server")
    /\ reliableSent' = Len(queue["server"].commands)
    /\ SendFrame("server", Message(executedTo["server"],
           Pending(queue["server"]) \o
           (IF state["server"] = "spawned" THEN Data("frame", spawncount) ELSE <<>>)))
    /\ UNCHANGED <<state, queue, executedTo, spawncount, clientVars, parsing>>

\* SV_ParseClientMessage: svcack.  A message whose ack makes no sense is
\* ignored as a whole.
ValidAck(ack) ==
    ack >= queue["server"].reliableAcknowledge /\ ack <= reliableSent
ServerReceive ==
    /\ Idle("server")
    /\ net["server"] # <<>>
    /\ LET m == Head(net["server"])
       IN  IF ValidAck(m.ack)
           THEN /\ queue' = [queue EXCEPT !["server"].reliableAcknowledge = m.ack]
                /\ parsing' = [parsing EXCEPT !["server"] = m.items]
           ELSE UNCHANGED <<queue, parsing>>
    /\ net' = [net EXCEPT !["server"] = Tail(@)]
    /\ UNCHANGED <<state, executedTo, reliableSent, spawncount, clientVars>>

\* (Mutant: clientCommandExecuted is not reset.)
SendServerdataOnly(number) ==
    /\ SendNow("server", Message(number, Data("serverdata", spawncount)))
    /\ queue' = [queue EXCEPT !["server"] = NewQueue]
    /\ executedTo' = Executed("server")
    /\ reliableSent' = 0
    /\ state' = [state EXCEPT !["server"] = "connecting"]

\* SV_New_f, the effect of it: the ack in the message is the number of the
\* command being executed, and the numbering then starts again.
SendServerdata(number) ==
    /\ SendNow("server", Message(number, Data("serverdata", spawncount)))
    /\ queue' = [queue EXCEPT !["server"] = NewQueue]
    /\ executedTo' = [executedTo EXCEPT !["server"] = 0]
    /\ reliableSent' = 0
    /\ state' = [state EXCEPT !["server"] = "connecting"]

New ==
    /\ Reads("server", "new")
    /\ IF state["server"] = "spawned"
       THEN /\ executedTo' = Executed("server")
            /\ UNCHANGED <<state, queue, reliableSent, net>>
       ELSE SendServerdata(Head(parsing["server"]).number)
    /\ Parsed("server")
    /\ UNCHANGED <<spawncount, clientVars>>

\* (Mutant: SV_Configstrings_f does not compare the level.)
ConfigstringsAnyLevel ==
    /\ Reads("server", "configstrings")
    /\ executedTo' = Executed("server")
    /\ IF state["server"] = "spawned"
       THEN UNCHANGED <<state, queue>>
       ELSE /\ state' = [state EXCEPT !["server"] = "connected"]
            /\ queue' = [queue EXCEPT !["server"] =
                  Add(Add(@, Cmd("cs", spawncount)), Cmd("cmd baselines", spawncount))]
    /\ Parsed("server")
    /\ UNCHANGED <<reliableSent, spawncount, clientVars, net>>

\* SV_Configstrings_f
Configstrings ==
    /\ Reads("server", "configstrings")
    /\ executedTo' = Executed("server")
    /\ IF state["server"] = "spawned"
       THEN UNCHANGED <<state, queue>>
       ELSE /\ state' = [state EXCEPT !["server"] = "connected"]
            /\ queue' = [queue EXCEPT !["server"] =
                  IF CommandLevel("server") # spawncount
                  THEN Add(@, Cmd("reconnect", NoLevel))
                  ELSE Add(Add(@, Cmd("cs", spawncount)),
                           Cmd("cmd baselines", spawncount))]
    /\ Parsed("server")
    /\ UNCHANGED <<reliableSent, spawncount, clientVars, net>>

\* SV_Baselines_f
Baselines ==
    LET q == Add(queue["server"], Cmd("precache", spawncount))
    IN  /\ Reads("server", "baselines")
        /\ IF state["server"] # "connected"
           THEN /\ executedTo' = Executed("server")
                /\ UNCHANGED <<state, queue, reliableSent, net>>
           ELSE IF CommandLevel("server") # spawncount
           THEN SendServerdata(Head(parsing["server"]).number)
           ELSE /\ executedTo' = Executed("server")
                /\ queue' = [queue EXCEPT !["server"] = q]
                /\ reliableSent' = Len(q.commands)
                /\ SendNow("server", Message(Head(parsing["server"]).number,
                                Data("baselines", spawncount) \o Pending(q)))
                /\ UNCHANGED <<state>>
        /\ Parsed("server")
        /\ UNCHANGED <<spawncount, clientVars>>

\* SV_DropClient
DropClient ==
    LET q == Add(queue["server"], Cmd("disconnect", NoLevel))
    IN  /\ queue' = [queue EXCEPT !["server"] = q]
        /\ reliableSent' = Len(q.commands)
        /\ state' = [state EXCEPT !["server"] = "zombie"]
        /\ SendNow("server", Message(Head(parsing["server"]).number, Pending(q)))
        /\ parsing' = [parsing EXCEPT !["server"] = <<>>]

\* SV_Begin_f
Begin ==
    /\ Reads("server", "begin")
    /\ executedTo' = Executed("server")
    /\ IF state["server"] # "connected"
       THEN DropClient
       ELSE /\ IF CommandLevel("server") = spawncount
               THEN /\ state' = [state EXCEPT !["server"] = "spawned"]
                    /\ UNCHANGED queue
               ELSE /\ queue' = [queue EXCEPT !["server"] =
                          Add(Add(@, Cmd("changing", NoLevel)),
                              Cmd("reconnect", NoLevel))]
                    /\ UNCHANGED state
            /\ Parsed("server")
            /\ UNCHANGED <<reliableSent, net>>
    /\ UNCHANGED <<spawncount, clientVars>>

\* PF_ConfigString and SV_FindIndex: the game, in its frame or in a command of a
\* client, changes a string, and every client that is connecting, connected or
\* spawned is told.  (A change that SV_AddServerCommand puts into one not sent
\* yet adds no command.)  While a level is loaded nobody is told.
Update ==
    /\ state["server"] # "zombie"
    /\ Number(queue["server"], "update") < MaxUpdates
    /\ queue' = [queue EXCEPT !["server"] = Add(@, Cmd("update", spawncount))]
    /\ UNCHANGED <<state, executedTo, reliableSent, spawncount, clientVars, parsing, net>>

\* SV_ExecuteUserCommand, of a command that is none of the handshake's.
Request ==
    /\ Reads("server", "request")
    /\ executedTo' = Executed("server")
    /\ Parsed("server")
    /\ UNCHANGED <<state, queue, reliableSent, spawncount, clientVars, net>>

\* (Mutant: the clients stay spawned.)
ChangeLevelSpawned ==
    LET q == Add(queue["server"], Cmd("changing", NoLevel))
    IN  /\ Idle("server")
        /\ spawncount < MaxLevel
        /\ spawncount' = spawncount + 1
        /\ queue' = [queue EXCEPT !["server"] = Add(q, Cmd("reconnect", NoLevel))]
        /\ reliableSent' = Len(q.commands)
        /\ SendNow("server", Message(executedTo["server"], Pending(q)))
        /\ UNCHANGED <<state, executedTo, clientVars, parsing>>

\* (Mutant: SV_BroadcastCommand finds the states that SV_Map has just reset.)
ChangeLevelSilently ==
    /\ Idle("server")
    /\ spawncount < MaxLevel
    /\ spawncount' = spawncount + 1
    /\ state' = [state EXCEPT !["server"] = "connecting"]
    /\ SendNow("server", Message(executedTo["server"], Pending(queue["server"])))
    /\ UNCHANGED <<queue, reliableSent, executedTo, clientVars, parsing>>

\* SV_Map: the clients are told before and after the level is loaded.
ChangeLevel ==
    LET q == Add(queue["server"], Cmd("changing", NoLevel))
    IN  /\ Idle("server")
        /\ spawncount < MaxLevel
        /\ spawncount' = spawncount + 1
        /\ state' = [state EXCEPT !["server"] = "connecting"]
        /\ queue' = [queue EXCEPT !["server"] = Add(q, Cmd("reconnect", NoLevel))]
        /\ reliableSent' = Len(q.commands)
        /\ SendNow("server", Message(executedTo["server"], Pending(q)))
        /\ UNCHANGED <<executedTo, clientVars, parsing>>

-----------------------------------------------------------------------------
\* The client.

\* CL_SendMessagesToServer
ClientSend ==
    /\ Idle("client")
    /\ SendFrame("client", Message(executedTo["client"], Pending(queue["client"])))
    /\ UNCHANGED <<state, queue, executedTo, reliableSent, spawncount, clientVars, parsing>>

\* CL_AddReliableCommand, of what the player types and of a changed userinfo.
RequestOfPlayer ==
    /\ Idle("client")
    /\ state["client"] \in {"connected", "active"}
    /\ Number(queue["client"], "request") < MaxRequests
    /\ queue' = [queue EXCEPT !["client"] = Add(@, Cmd("request", NoLevel))]
    /\ UNCHANGED <<state, executedTo, reliableSent, spawncount, clientVars, parsing, net>>

\* CL_ParseServerMessage: clcack, which is not compared with anything.
ClientReceive ==
    /\ Idle("client")
    /\ net["client"] # <<>>
    /\ LET m == Head(net["client"])
       IN  /\ queue' = [queue EXCEPT !["client"].reliableAcknowledge = m.ack]
           /\ parsing' = [parsing EXCEPT !["client"] = m.items]
    /\ net' = [net EXCEPT !["client"] = Tail(@)]
    /\ UNCHANGED <<state, executedTo, reliableSent, spawncount, clientVars>>

\* The next item of the client's message is not a command but data.
ReadsData(type) ==
    parsing["client"] # <<>> /\ Head(parsing["client"]).type = type

\* CL_ParseServerData, which first calls CL_ClearState.
Serverdata ==
    LET level == CommandLevel("client")
    IN  /\ ReadsData("serverdata")
        /\ IF state["client"] = "handshake"
           THEN /\ state' = [state EXCEPT !["client"] = "connected"]
                /\ queue' = [queue EXCEPT !["client"] =
                                Add(NewQueue, Cmd("configstrings", level))]
                /\ executedTo' = [executedTo EXCEPT !["client"] = 0]
                /\ servercount' = level
                /\ configstrings' = NoLevel
                /\ baselines' = NoLevel
           ELSE UNCHANGED <<state, queue, executedTo, servercount, configstrings,
                          baselines>>
        /\ Parsed("client")
        /\ UNCHANGED <<reliableSent, spawncount, cgame, net>>

\* CL_ParseBaseline
ParseBaseline ==
    /\ ReadsData("baselines")
    /\ baselines' = CommandLevel("client")
    /\ Parsed("client")
    /\ UNCHANGED <<state, queue, executedTo, reliableSent, spawncount,
                   servercount, configstrings, cgame, net>>

\* CL_ParseFrame, and CL_AdjustServerTime when the cgame takes the snapshot: the
\* client is active, and asks for the message of the day.
Frame ==
    /\ ReadsData("frame")
    /\ IF state["client"] = "connected" /\ cgame # NoLevel
       THEN /\ state' = [state EXCEPT !["client"] = "active"]
            /\ queue' = [queue EXCEPT !["client"] = Add(@, Cmd("request", NoLevel))]
       ELSE UNCHANGED <<state, queue>>
    /\ Parsed("client")
    /\ UNCHANGED <<executedTo, reliableSent, spawncount, clientVars, net>>

\* CL_ParseConfigstringCommand
Cs ==
    /\ Reads("client", "cs")
    /\ executedTo' = Executed("client")
    /\ configstrings' = CommandLevel("client")
    /\ Parsed("client")
    /\ UNCHANGED <<state, queue, reliableSent, spawncount, servercount,
                   baselines, cgame, net>>

\* CL_ParseConfigstringCommand, of a string that the game has changed.
UpdateCs ==
    /\ Reads("client", "update")
    /\ executedTo' = Executed("client")
    /\ Parsed("client")
    /\ UNCHANGED <<state, queue, reliableSent, spawncount, clientVars, net>>

\* (Mutant: CL_ForwardToServer_f does not look at the state.)
ForwardBaselinesAny ==
    /\ Reads("client", "cmd baselines")
    /\ executedTo' = Executed("client")
    /\ queue' = [queue EXCEPT !["client"] =
                     Add(@, Cmd("baselines", CommandLevel("client")))]
    /\ Parsed("client")
    /\ UNCHANGED <<state, reliableSent, spawncount, clientVars, net>>

\* CL_ForwardToServer_f
ForwardBaselines ==
    /\ Reads("client", "cmd baselines")
    /\ executedTo' = Executed("client")
    /\ queue' = IF state["client"] = "handshake" THEN queue
                ELSE [queue EXCEPT !["client"] =
                         Add(@, Cmd("baselines", CommandLevel("client")))]
    /\ Parsed("client")
    /\ UNCHANGED <<state, reliableSent, spawncount, clientVars, net>>

\* CL_Precache_f, when nothing has to be downloaded.
Precache ==
    /\ Reads("client", "precache")
    /\ executedTo' = Executed("client")
    /\ IF state["client"] = "connected"
       THEN /\ cgame' = CommandLevel("client")
            /\ queue' = [queue EXCEPT !["client"] =
                            Add(@, Cmd("begin", CommandLevel("client")))]
       ELSE UNCHANGED <<cgame, queue>>
    /\ Parsed("client")
    /\ UNCHANGED <<state, reliableSent, spawncount, servercount,
                   configstrings, baselines, net>>

\* CL_Changing_f
Changing ==
    /\ Reads("client", "changing")
    /\ executedTo' = Executed("client")
    /\ state' = [state EXCEPT !["client"] = "connected"]
    /\ configstrings' = NoLevel
    /\ Parsed("client")
    /\ UNCHANGED <<queue, reliableSent, spawncount, servercount, baselines,
                   cgame, net>>

\* CL_ServerReconnect_f
ServerReconnect ==
    /\ Reads("client", "reconnect")
    /\ executedTo' = Executed("client")
    /\ IF state["client"] = "handshake"
       THEN UNCHANGED <<state, queue, configstrings, cgame>>
       ELSE /\ state' = [state EXCEPT !["client"] = "handshake"]
            /\ queue' = [queue EXCEPT !["client"] = Add(@, Cmd("new", NoLevel))]
            /\ configstrings' = NoLevel
            /\ cgame' = NoLevel
    /\ Parsed("client")
    /\ UNCHANGED <<reliableSent, spawncount, servercount, baselines, net>>

\* CL_ServerDisconnect_f.  Nothing follows it: SV_DropClient adds it last, and
\* this message is the last one.
ServerDisconnect ==
    /\ Reads("client", "disconnect")
    /\ executedTo' = Executed("client")
    /\ state' = [state EXCEPT !["client"] = "disconnected"]
    /\ parsing' = [parsing EXCEPT !["client"] = <<>>]
    /\ UNCHANGED <<queue, reliableSent, spawncount, clientVars, net>>

-----------------------------------------------------------------------------
ServerParses ==
    \/ ServerReceive \/ SkipOld("server") \/ New \/ Configstrings \/ Baselines \/ Begin
    \/ Request
ClientParses ==
    \/ ClientReceive \/ SkipOld("client") \/ Serverdata \/ ParseBaseline \/ Frame
    \/ Cs \/ UpdateCs \/ ForwardBaselines \/ Precache \/ Changing \/ ServerReconnect
    \/ ServerDisconnect

Next ==
    \/ ServerSend \/ ServerParses \/ Update \/ ChangeLevel
    \/ ClientSend \/ ClientParses \/ RequestOfPlayer

Spec == Init /\ [][Next]_vars

\* Both ends run their frames, in which they read what has arrived and send
\* again, and the network does not lose every message.
FairSpec ==
    /\ Spec
    /\ WF_vars(ServerParses) /\ WF_vars(ClientParses)
    /\ SF_vars(ServerSend /\ net' # net)
    /\ SF_vars(ClientSend /\ net' # net)
    /\ SF_vars(New /\ net' # net)

-----------------------------------------------------------------------------
\* The counters are those of the numbering in use, and the messages bounded.
TypeOK ==
    /\ state["client"] \in {"handshake", "connected", "active", "disconnected"}
    /\ state["server"] \in {"connecting", "connected", "spawned", "zombie"}
    /\ spawncount \in Level
    /\ {servercount, configstrings, baselines, cgame} \subseteq Level \cup {NoLevel}
    /\ queue["server"].reliableAcknowledge <= reliableSent
    /\ reliableSent <= Len(queue["server"].commands)
    /\ \A e \in End : Len(net[e]) <= MaxInFlight + 1

\* A client that the server takes for spawned is in the level that the server runs:
\* it has the serverdata of the level and has loaded it.
SpawnedIsReady ==
    state["server"] = "spawned" =>
        /\ servercount = spawncount
        /\ cgame = spawncount
        /\ state["client"] \in {"connected", "active"}

\* A frame is only decoded by a client in the level it was made for.
FrameOfItsLevel ==
    ReadsData("frame") => CommandLevel("client") = servercount /\ cgame = servercount

\* The configstrings of an active client are not changed to those of another level.
UpdateOfItsLevel ==
    Reads("client", "update") /\ state["client"] = "active" =>
        CommandLevel("client") = servercount

\* "The given command will be transmitted to the client, and is guaranteed to not have
\* future snapshot_t executed before it is executed" (SV_AddServerCommand): a client
\* that decodes the frames of a level has executed the configstrings of the level.
FrameHasConfigstrings ==
    ReadsData("frame") => configstrings = CommandLevel("client")

\* "only the fields that differ from the baseline will be transmitted"
\* (SV_CreateBaseline): a client that decodes frames has the baselines.
FrameHasBaselines == ReadsData("frame") => baselines = CommandLevel("client")

\* "if in CS_AWAITING we have sent the response packet the new once already, but
\* client might have not got it so we send it again" (SV_New_f): whatever is lost,
\* the client gets into the level that the server runs, or is dropped.
InLevel ==
    /\ state = [client |-> "active", server |-> "spawned"]
    /\ servercount = spawncount
Dropped == state["server"] = "zombie"
HandshakeEnds == <>[](InLevel \/ Dropped)

\* A client gets into the first level, although messages and serverdata are lost and "new"
\* is executed again, when the level does not change, the game changes no configstring
\* before it was asked for them and the player asks for nothing while connecting.
Undisturbed ==
    /\ spawncount = 1
    /\ state["server"] = "connecting" => queue["server"].commands = <<>>
    /\ state["client"] = "connected" => Number(queue["client"], "request") = 0
FirstHandshakeEnds == []Undisturbed => <>[]InLevel
=============================================================================
