---------------------------- MODULE ConfigStrings ----------------------------
(***************************************************************************)
(* The configstrings, the strings that a server shares with its clients    *)
(* (server/sv_game.c, server/sv_init.c, server/sv_send.c,                  *)
(* client/cl_parse.c), and how their changes reach one client.  A change   *)
(* is a reliable command, "cs"; commands that wait to be sent are filled   *)
(* up with later changes.                                                  *)
(*                                                                         *)
(* Commands are executed in the order of their numbers, each once, and     *)
(* none is changed after it was sent (module ReliableCommands).  Commands  *)
(* other than "cs" are left out: they are passed over.                     *)
(***************************************************************************)
EXTENDS Integers, Sequences, FiniteSetsExt

CONSTANTS MaxIndex,   \* MAX_CONFIGSTRINGS
          Value,      \* the strings
          Empty,      \* the empty string
          Length,     \* Length[v]: the characters that a change to v takes
          Capacity,   \* how many of these a "cs" command has room for
          MaxChanges  \* bound: changes

VARIABLES
    configstrings,  \* sv.configstrings
    unsent,         \* the "cs" commands above reliableSent
    sent,           \* those sent and not executed yet
    client,         \* cl.configstrings
    changes         \* history: the number of changes

vars == <<configstrings, unsent, sent, client, changes>>

Index == 1..MaxIndex

Init ==
    /\ configstrings = [i \in Index |-> Empty]
    /\ unsent = <<>>
    /\ sent = <<>>
    /\ client = configstrings
    /\ changes = 0

-----------------------------------------------------------------------------
\* A "cs" command: changes of strings, and the characters they take.
Change(i, v) == [index |-> i, value |-> v]
HasRoom(c, v) == c.length + Length[v] <= Capacity

\* SV_AddServerCommand: the change goes to the end of the newest command that has room for it,
\* or is a new command.
WithRoom(v) == {k \in DOMAIN unsent : HasRoom(unsent[k], v)}
AddServerCommand(i, v) ==
    unsent' = IF WithRoom(v) = {}
              THEN Append(unsent, [length |-> Length[v], changes |-> <<Change(i, v)>>])
              ELSE [unsent EXCEPT ![Max(WithRoom(v))] =
                      [length |-> @.length + Length[v],
                       changes |-> Append(@.changes, Change(i, v))]]

Set(i, v) ==
    /\ changes < MaxChanges
    /\ changes' = changes + 1
    /\ configstrings' = [configstrings EXCEPT ![i] = v]
    /\ AddServerCommand(i, v)
    /\ UNCHANGED <<sent, client>>

\* PF_ConfigString, for a string that changes.
ConfigString ==
    \E i \in Index, v \in Value \cup {Empty} : configstrings[i] # v /\ Set(i, v)

\* SV_FindIndex, for a name that has no index yet: the first index that is free.
FindIndex ==
    \E i \in Index, v \in Value :
        /\ configstrings[i] = Empty
        /\ \A j \in 1..i-1 : configstrings[j] \notin {Empty, v}
        /\ Set(i, v)

\* SV_SendClientMessages.
Send ==
    /\ unsent # <<>>
    /\ sent' = sent \o unsent
    /\ unsent' = <<>>
    /\ UNCHANGED <<configstrings, client, changes>>

\* CL_ParseConfigstringCommand: the last change of a string in the command counts.
ChangesOf(c, i) == {k \in DOMAIN c.changes : c.changes[k].index = i}
Execute ==
    /\ sent # <<>>
    /\ client' = [i \in Index |->
          LET of == ChangesOf(Head(sent), i)
          IN  IF of = {} THEN client[i] ELSE Head(sent).changes[Max(of)].value]
    /\ sent' = Tail(sent)
    /\ UNCHANGED <<configstrings, unsent, changes>>

-----------------------------------------------------------------------------
Next == ConfigString \/ FindIndex \/ Send \/ Execute

Spec == Init /\ [][Next]_vars

-----------------------------------------------------------------------------
\* "changes are sent to all connected clients" (game/g_public.h:86): when the client has
\* executed every command, it has the strings of the server.
ClientUpToDate == unsent = <<>> /\ sent = <<>> => client = configstrings
=============================================================================
