---------------------------- MODULE UserCommands ----------------------------
(***************************************************************************)
(* The moves of a player (usercmd_t), from the client that makes them to   *)
(* the game that executes them (client/cl_input.c, server/sv_client.c),    *)
(* while the client is active.  Every message repeats the moves that are   *)
(* not acknowledged.  Both ends keep moves in a ring of CMD_BACKUP slots.  *)
(* The server acknowledges what it received, and executes it in the next   *)
(* frame of the game, in the order of the time stamps, leaving out what    *)
(* is not newer than the last move executed.                               *)
(*                                                                         *)
(* Messages keep their order (module DatagramChannel); a lost one is the   *)
(* same as one not sent.  A move is its number and its time stamp.  The    *)
(* client's clock follows the server's, as closely as it likes, and may be *)
(* set back, to catch up with a connection that has become slower.         *)
(* Everything is reset when a level begins: see module Connection.         *)
(***************************************************************************)
EXTENDS Integers, Sequences, FiniteSets, SequencesExt

CONSTANTS CmdBackup,   \* CMD_BACKUP
          Few,         \* 3, the moves sent when too many are not acknowledged
          MaxDelay,    \* 999, how old a move may be when it is executed
          MaxMoves,    \* bound: moves made
          MaxTime,     \* bound: svs.gametime
          MaxAhead,    \* how far the client's clock may be ahead of svs.gametime
          MaxSetBack,  \* bound: how often it is set back
          MaxInFlight  \* bound: messages on their way to each end

ASSUME SizesAssumption ==
    /\ CmdBackup \in Nat /\ Few \in Nat /\ 1 < CmdBackup /\ Few < CmdBackup
    /\ {MaxDelay, MaxAhead, MaxSetBack, MaxMoves, MaxTime, MaxInFlight} \subseteq Nat

VARIABLES
    cl,        \* the client's part of cls and cl
    sv,        \* the server's client_t and svs.gametime
    toServer,  \* the messages with moves on their way
    toClient,  \* the acknowledgements on their way
    hist       \* history, see Init

vars == <<cl, sv, toServer, toClient, hist>>

-----------------------------------------------------------------------------
CmdMask == CmdBackup - 1
NoMove == [num |-> 0, time |-> 0]
NewRing == [s \in 0..CmdMask |-> NoMove]

Init ==
    /\ cl = [ucmdHead |-> 0, ucmdAcknowledged |-> 0,
             serverTime |-> 0, cmds |-> NewRing]
    /\ sv = [gametime |-> 0, UcmdTime |-> 0, UcmdExecuted |-> 0, UcmdReceived |-> 0,
             ucmds |-> NewRing]
    /\ toServer = <<>>
    /\ toClient = <<>>
    \* times[n + 1]: the time stamp of move n; executed: the moves in the order the game
    \* got them; excused: the moves given up for one of the reasons in
    \* NotSent and NotWanted; setBack: how often the client's clock was.
    /\ hist = [times |-> <<>>, executed |-> <<>>, excused |-> {}, setBack |-> 0]

-----------------------------------------------------------------------------
\* The client.

\* CL_NewUserCommand: move ucmdHead is finished, and the slot of the next one cleared.  Move
\* 0 is never sent: its time stamp is left out.
NewUserCommand ==
    LET n == cl.ucmdHead
    IN  /\ n < MaxMoves
        /\ \E t \in IF n = 0 THEN {0} ELSE 0..sv.gametime + MaxAhead :
              /\ t < cl.serverTime => hist.setBack < MaxSetBack
              /\ cl' = [cl EXCEPT !.ucmdHead = n + 1, !.serverTime = t,
                                  !.cmds[n % CmdBackup] = [num |-> n, time |-> t],
                                  !.cmds[(n + 1) % CmdBackup] = NoMove]
              /\ hist' = [hist EXCEPT !.times = Append(@, t),
                                      !.setBack = IF t < cl.serverTime THEN @ + 1 ELSE @]
        /\ UNCHANGED <<sv, toServer, toClient>>

\* CL_WriteUcmdsToMessage: the moves ucmdFirst..ucmdHead-1, where ucmdHead is
\* cl.cmdNum + 1.  resendCount is 0 and cls.ucmdSent left out: moves are sent again only
\* when more is acknowledged than was sent, which cannot be (see TypeOK).
\* (Mutants: only the newest move is sent; the window is one ring wide.)
UcmdHead == IF cl.ucmdHead = 0 THEN 1 ELSE cl.ucmdHead
UcmdNextNewest == IF UcmdHead = 1 THEN 1 ELSE UcmdHead - 1
UcmdNext == IF cl.ucmdAcknowledged + 1 > UcmdHead THEN UcmdHead ELSE cl.ucmdAcknowledged + 1
RanOutLate == UcmdHead - UcmdNext > CmdBackup
RanOut == UcmdHead - UcmdNext > CmdMask
UcmdFirst == IF RanOut THEN UcmdHead - Few ELSE UcmdNext

ClientSend ==
    /\ Len(toServer) < MaxInFlight
    /\ toServer' = Append(toServer,
          [ucmdHead |-> UcmdHead, ranOut |-> RanOut,
           ucmds |-> [i \in UcmdFirst..UcmdHead-1 |-> cl.cmds[i % CmdBackup]]])
    /\ UNCHANGED <<cl, sv, toClient, hist>>

\* svc_clcack.
ClientRead ==
    /\ toClient # <<>>
    /\ cl' = [cl EXCEPT !.ucmdAcknowledged = Head(toClient)]
    /\ toClient' = Tail(toClient)
    /\ UNCHANGED <<sv, toServer, hist>>

-----------------------------------------------------------------------------
\* The server.

\* What the client left out because too many moves were not acknowledged.
NotSent(m) ==
    IF m.ranOut THEN {n \in sv.UcmdReceived+1..m.ucmdHead-1 : n \notin DOMAIN m.ucmds} ELSE {}

\* SV_ParseMoveCommand.
ServerRead ==
    LET m == Head(toServer)
    IN  /\ toServer # <<>>
        /\ sv' = [sv EXCEPT !.UcmdReceived = m.ucmdHead - 1,
                            !.ucmds = [s \in DOMAIN @ |->
                                IF \E i \in DOMAIN m.ucmds : i % CmdBackup = s
                                THEN m.ucmds[CHOOSE i \in DOMAIN m.ucmds : i % CmdBackup = s]
                                ELSE @[s]]]
        /\ toServer' = Tail(toServer)
        /\ hist' = [hist EXCEPT !.excused = @ \cup NotSent(m)]
        /\ UNCHANGED <<cl, toClient>>

\* SV_SendClientDatagram: clcack.
ServerSend ==
    /\ Len(toClient) < MaxInFlight
    /\ toClient' = Append(toClient, sv.UcmdReceived)
    /\ UNCHANGED <<cl, sv, toServer, hist>>

\* SV_ExecuteClientThinks at time t: no move is waited for longer than MaxDelay.
Since(t) == IF sv.UcmdTime < t - MaxDelay THEN t - MaxDelay ELSE sv.UcmdTime
Window == sv.UcmdExecuted+1..sv.UcmdReceived
Slot(i) == sv.ucmds[i % CmdBackup]

\* SV_FindNextUserCommand, until it finds no more: of moves with the same time only the
\* first is executed.  (Mutant: backups are not skipped.)
WantedAgain(t) == {i \in Window : Slot(i).time > 0 /\ Slot(i).time < t}
Wanted(t) == {i \in Window : Since(t) < Slot(i).time /\ Slot(i).time < t}
Chosen(t) == {Slot(i) : i \in {j \in Wanted(t) :
                \A k \in Wanted(t) : k < j => Slot(k).time # Slot(j).time}}

\* The moves that the server does not want, or has no room for.
TimeOf(n) == hist.times[n + 1]
NotWanted(t) ==
    {n \in Window : \/ TimeOf(n) <= Since(t) \/ TimeOf(n) >= t
                    \/ n + CmdBackup <= sv.UcmdReceived}

Earlier(a, b) == a.time < b.time
InTimeOrder(moves) == CHOOSE s \in SetToSeqs(moves) : IsSorted(s, Earlier)
GameFrame ==
    \E t \in sv.gametime..MaxTime :
        LET moves == InTimeOrder(Chosen(t))
        IN  /\ sv' = [sv EXCEPT !.gametime = t,
                                !.UcmdTime = IF moves = <<>> THEN Since(t) ELSE Last(moves).time,
                                !.UcmdExecuted = sv.UcmdReceived]
            /\ hist' = [hist EXCEPT !.executed = @ \o [i \in DOMAIN moves |-> moves[i].num],
                                    !.excused = @ \cup NotWanted(t)]
            /\ UNCHANGED <<cl, toServer, toClient>>

-----------------------------------------------------------------------------
Next ==
    \/ NewUserCommand \/ ClientSend \/ ClientRead
    \/ ServerRead \/ ServerSend \/ GameFrame

Spec == Init /\ [][Next]_vars

-----------------------------------------------------------------------------
\* The numbers that the two ends hold of each other's moves: nothing is acknowledged that
\* was not received, nor received that was not made, nor acknowledged more than the last
\* message had (resendCount in CL_WriteUcmdsToMessage).  No message has so many moves that
\* the server would drop the client ("Ucmd overflow", sv_client.c:1079).
TypeOK ==
    /\ cl.ucmdHead \in 0..MaxMoves
    /\ cl.ucmdAcknowledged \in 0..sv.UcmdReceived
    /\ sv.UcmdExecuted \in 0..sv.UcmdReceived
    /\ sv.UcmdReceived < UcmdHead
    /\ \A k \in DOMAIN toServer : sv.UcmdReceived < toServer[k].ucmdHead
    /\ sv.gametime \in 0..MaxTime /\ sv.UcmdTime \in 0..MaxTime
    /\ \A k \in DOMAIN toServer : Cardinality(DOMAIN toServer[k].ucmds) <= CmdMask

\* "skip backups if already executed" (SV_FindNextUserCommand): however often moves are
\* repeated, and though a gap in what the client sends leaves older moves in their slots, the
\* game gets none twice, nor in the wrong order as long as the client's clock runs forward.
MovesInOrder ==
    \A i, j \in DOMAIN hist.executed :
        i < j => IF hist.setBack = 0 THEN hist.executed[i] < hist.executed[j]
                 ELSE hist.executed[i] # hist.executed[j]

\* UcmdExecuted is the "last client-command we executed" (server.h:153): when it has
\* passed a move, the game got that move, or another one with its time stamp, unless it was
\* too late or too early for the frame of the game, or overwritten before the frame, or the
\* client ran out of updates.  Neither ring lost it before it was acknowledged.
NoMoveLost ==
    \A n \in 1..sv.UcmdExecuted :
        \/ n \in hist.excused
        \/ \E i \in DOMAIN hist.executed : TimeOf(hist.executed[i]) = TimeOf(n)
=============================================================================
