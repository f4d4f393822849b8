--------------------------- MODULE ConnectionInv ---------------------------
(***************************************************************************)
(* The inductive invariant of Connection.  Each end has messages of the    *)
(* other on their way that belong to an older numbering or to an older     *)
(* level, and because every command takes a number, the numbers of two     *)
(* numberings say nothing of each other.  What can be relied on is the     *)
(* order: the invariant speaks of all that is on its way to an end as one  *)
(* stream, what is in it and what comes after what.                        *)
(***************************************************************************)
EXTENDS Connection

(***************************************************************************)
(* What is on its way to an end: the items p left of the message it reads, *)
(* then the messages n.                                                    *)
(***************************************************************************)
Elements(b) == {b[i] : i \in 1..Len(b)}
\* Each element of b with each one after it.
InBody(b) == UNION {{<<b[i], b[j]>> : j \in i+1..Len(b)} : i \in 1..Len(b)}

\* The items; each with those after it in its message, with the messages after its own,
\* and with all items after it.
Items(p, n) == Elements(p) \cup UNION {Elements(m.items) : m \in Elements(n)}
Within(p, n) == InBody(p) \cup UNION {InBody(m.items) : m \in Elements(n)}
Followed(p, n) ==
    (Elements(p) \X Elements(n)) \cup UNION {Elements(v[1].items) \X {v[2]} : v \in InBody(n)}
Order(p, n) ==
    Within(p, n) \cup UNION {{w[1]} \X Elements(w[2].items) : w \in Followed(p, n)}

MessagesOf(T) == [ack : Nat, items : Seq(T)]

(***************************************************************************)
(* The two ends, by names of their own.                                    *)
(***************************************************************************)
\* What the server (S) and the client (C) keep: the commands they added, what was
\* acknowledged and executed, their states, what they read and what is on its way to them.
S == queue["server"].commands
C == queue["client"].commands
ackS == queue["server"].reliableAcknowledge
exC == executedTo["client"]
stS == state["server"]
stC == state["client"]
PS == parsing["server"]
PC == parsing["client"]
NS == net["server"]
NC == net["client"]

\* The commands as the items that a message may hold.
Numbered(q) == {Item("command", i, q[i]) : i \in 1..Len(q)}
QueuedS == Numbered(S)
QueuedC == Numbered(C)

\* The next item, and all that is on the way to each end.
NextS == Head(PS)
NextC == Head(PC)
ToServer == Items(PS, NS)
ToClient == Items(PC, NC)
OrderS == Order(PS, NS)
OrderC == Order(PC, NC)

Name(x) == x.command.name
\* The level of a part of the handshake; what the game changes is none.
LevelOf(x) == IF Name(x) = "update" THEN NoLevel ELSE x.command.level
IsServerdata(x) == Name(x) = "serverdata"
IsRestart(x) == Name(x) \in {"changing", "reconnect"}
OfThisLevel(x) == ~IsServerdata(x) /\ LevelOf(x) = spawncount

\* The request that the server stuffs, as a name that the provers need not look into.
CmdBaselines == "cmd baselines"
CommandsToServer ==
    [name : {"new", "request"}, level : {NoLevel}] \cup [name : {"configstrings", "baselines", "begin"}, level : Level]
CommandsToClient ==
    [name : {"changing", "reconnect", "disconnect"}, level : {NoLevel}] \cup
    [name : {"cs", CmdBaselines, "precache", "update"}, level : Level]
ItemsToServer == [type : {"command"}, number : Nat \ {0}, command : CommandsToServer]
DataToClient(type) == [type : {type}, number : {0}, command : [name : {type}, level : Level]]
ItemsToClient ==
    [type : {"command"}, number : Nat \ {0}, command : CommandsToClient] \cup
    DataToClient("serverdata") \cup DataToClient("baselines") \cup DataToClient("frame")
Anything == ItemsToServer \cup ItemsToClient
QueueOf(T) == [commands : Seq(T), reliableAcknowledge : Nat]

(***************************************************************************)
(* The invariant.                                                          *)
(***************************************************************************)
States == {"handshake", "connected", "active", "disconnected",
           "connecting", "spawned", "zombie"}
TypedState ==
    /\ state \in [End -> States]
    /\ stC \in {"handshake", "connected", "active", "disconnected"}
    /\ stS \in {"connecting", "connected", "spawned", "zombie"}
TypedQueues ==
    /\ queue \in [End -> QueueOf(CommandsToServer \cup CommandsToClient)]
    /\ C \in Seq(CommandsToServer) /\ S \in Seq(CommandsToClient)
    /\ reliableSent \in Nat /\ ackS <= reliableSent /\ reliableSent <= Len(S)
TypedCounters ==
    /\ executedTo \in [End -> Nat] /\ spawncount \in Level
    /\ {servercount, configstrings, baselines, cgame} \subseteq Level \cup {NoLevel}
TypedParsing ==
    /\ parsing \in [End -> Seq(Anything)]
    /\ PS \in Seq(ItemsToServer) /\ PC \in Seq(ItemsToClient)
TypedNet ==
    /\ net \in [End -> Seq(MessagesOf(Anything))]
    /\ NS \in Seq(MessagesOf(ItemsToServer)) /\ NC \in Seq(MessagesOf(ItemsToClient))
    /\ \A e \in End : Len(net[e]) <= MaxInFlight + 1
Typed ==
    /\ TypedState /\ TypedQueues /\ TypedCounters /\ TypedParsing /\ TypedNet
    /\ stS = "zombie" => PS = <<>>
    /\ stC = "disconnected" => PC = <<>>

\* The level of the last serverdata is that of everything that is neither serverdata
\* nor without level: serverdata comes first, and the levels do not decrease.
LevelsToClient ==
    /\ servercount <= spawncount
    /\ \A x \in ToClient \cup QueuedS :
          /\ IsServerdata(x) => servercount <= LevelOf(x) /\ LevelOf(x) <= spawncount
          /\ IsServerdata(x) \/ LevelOf(x) = NoLevel \/ LevelOf(x) = servercount
    /\ \A x, y \in ToClient : IsServerdata(x) /\ <<x, y>> \in OrderC =>
          /\ IsServerdata(y) => LevelOf(x) <= LevelOf(y)
          /\ IsServerdata(y) \/ LevelOf(y) = NoLevel \/ LevelOf(x) <= servercount
    /\ \A x \in QueuedS, y \in ToClient :
          IsServerdata(y) => LevelOf(x) = NoLevel \/ LevelOf(y) <= servercount
LevelsToServer ==
    /\ \A x \in QueuedC : LevelOf(x) = NoLevel \/ LevelOf(x) = servercount
    /\ \A x \in ToServer : LevelOf(x) <= servercount
    /\ \A x, y \in ToServer :
          LevelOf(y) = NoLevel \/ LevelOf(x) <= LevelOf(y) \/ <<x, y>> \notin OrderS

\* A restart that the client has not executed, and will not take for one that it has.
Due(x) == IsRestart(x) /\ x.number > exC

\* A frame on its way finds the level that it is of, and no restart before it.
Frames ==
    /\ \A x \in ToClient : Name(x) = "frame" => cgame = servercount /\ stC # "handshake"
    /\ \A x, y \in ToClient : Name(y) = "frame" /\ Due(x) => <<x, y>> \notin OrderC
    /\ stC = "active" => cgame = servercount

\* The client is in the server's level, and so is all that it sent and that the server has
\* not read: the server has no reason to send it back.
Clean ==
    /\ servercount = spawncount
    /\ \A x \in ToServer : LevelOf(x) = NoLevel \/ LevelOf(x) = spawncount

\* Nor is the client going to execute a restart that was sent before.
Good ==
    /\ Clean
    /\ stC \in {"connected", "active"}
    /\ \A x \in ToClient \cup QueuedS : ~Due(x)

\* What is of this level is sent to a client for which all is clean, and the restarts that
\* come after it have lower numbers: whoever executes it ignores them.
Outlives(x, y) ==
    x.type = "command" /\ OfThisLevel(x) /\ IsRestart(y) => y.number < x.number
Settled ==
    /\ \A x \in ToClient \cup QueuedS : OfThisLevel(x) => Clean
    /\ \A x \in ToClient \cup QueuedS, y \in QueuedS : Outlives(x, y)
    /\ \A x, y \in ToClient : Outlives(x, y) \/ <<x, y>> \notin OrderC

\* What only a settled client asks for, and gets.
Asks(x) == LevelOf(x) = spawncount /\ Name(x) \in {"baselines", "begin"} =>
              Good /\ (Name(x) = "begin" => cgame = spawncount)
Evidence ==
    /\ \A x \in ToServer \cup QueuedC : Asks(x)
    /\ stS = "spawned" => Good /\ cgame = spawncount

NoDisconnect ==
    /\ stC # "disconnected"
    /\ \A x \in ToClient \cup QueuedS : Name(x) # "disconnect"

\* As long as the server has not dropped the client.
Alive == Settled /\ Evidence /\ NoDisconnect

\* In every state both ends, and all that is on its way, are somewhere between the last
\* serverdata and the next: nothing of an older level (SV_New_f, CL_ParseServerData,
\* SV_Map) can pass for something of the current one.
IInv ==
    /\ Typed /\ LevelsToClient /\ LevelsToServer /\ Frames
    /\ stS = "zombie" \/ Alive
=============================================================================
