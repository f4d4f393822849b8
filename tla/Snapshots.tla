----------------------------- MODULE Snapshots -----------------------------
(***************************************************************************)
(* The frames a server sends to a client that has spawned                  *)
(* (qcommon/snap_write.c, qcommon/snap_read.c, server/sv_send.c,           *)
(* client/cl_parse.c, client/cl_main.c), with the game commands they       *)
(* carry.  Both ends keep their last UPDATE_BACKUP frames in a ring.  A    *)
(* frame is written as what changed since the last frame that the client   *)
(* acknowledged, or whole.                                                 *)
(*                                                                         *)
(* A frame's contents are represented by its number: a delta from the      *)
(* contents b turns b into the new frame and anything else into Garbage.   *)
(* The entities of the server's frames are in a ring of their own, which   *)
(* all frames of all clients share.  Its size is a guess: large frames     *)
(* overwrite the entities of a frame that a delta is written from, and the *)
(* client's copy is then not what the server built.                        *)
(*                                                                         *)
(* Messages are lost but keep their order (module DatagramChannel); the    *)
(* request for whole frames is a reliable command, repeated until executed *)
(* and executed once (module ReliableCommands).                            *)
(***************************************************************************)
EXTENDS Integers, Sequences, FiniteSets, SequencesExt

CONSTANTS UpdateBackup,    \* UPDATE_BACKUP
          RingSize,        \* svs.client_entities.num_entities
          EntityCounts,    \* the numbers of entities that a frame may have
          OtherCounts,     \* the numbers of those that the frames of other clients
                           \* have between two of this client's
          MaxReliable,     \* MAX_RELIABLE_COMMANDS, the ring of game commands
          CommandAge,      \* 256, the frames after which a game command is not sent
          MaxFrames,       \* bound: frames the server builds
          MaxInputs,       \* bound: game commands added and whole frames asked for
          MaxInFlight      \* bound: messages on their way to each end

\* A frame has at most MAX_SNAPSHOT_ENTITIES (1024) entities (snap_write.c:802) and
\* the ring at least UPDATE_BACKUP * MAX_SNAP_ENTITIES, 32 * 64 (sv_init.c:355).
ASSUME SizesAssumption ==
    /\ UpdateBackup \in Nat /\ UpdateBackup > 1
    /\ RingSize \in Nat \ {0}
    /\ EntityCounts \subseteq 0..RingSize /\ OtherCounts \subseteq Nat
    /\ MaxReliable \in Nat \ {0} /\ CommandAge \in Nat
ASSUME BoundsAssumption == {MaxFrames, MaxInputs, MaxInFlight} \subseteq Nat

VARIABLES
    sv,       \* the server's client_t and the number of the last frame
    entities, \* svs.client_entities: the frame for which each entry was written, 0
              \* for the frames of other clients
    toClient, \* the messages with frames on their way
    toServer, \* the client's messages on their way
    cl,       \* the client's snapshots
    view,     \* cg.frame: the number and the contents of the frame shown
    damaged,  \* history: the frames that were written as a delta of one whose
              \* entities had been overwritten, or of a damaged one
    hist      \* history of the game commands, see Init

vars == <<sv, entities, toClient, toServer, cl, view, damaged, hist>>

-----------------------------------------------------------------------------
Garbage == -1
Slot == 0..UpdateBackup-1
UpdateMask == UpdateBackup - 1

NoFrame == [num |-> 0, first |-> 0, count |-> 0]
NoCommand == [id |-> 0, framenum |-> 0]
NoSnapshot == [serverFrame |-> 0, valid |-> FALSE, contents |-> 0, commands |-> {}]

Init ==
    /\ sv = [framenum |-> 0, lastframe |-> -1, lastSentFrameNum |-> 0,
             nodelta |-> FALSE, nodeltaFrame |-> 0, requests |-> 0,
             snapShots |-> [s \in Slot |-> NoFrame], nextEntities |-> 0,
             gameCommandCurrent |-> 0,
             gameCommands |-> [s \in 0..MaxReliable-1 |-> NoCommand]]
    /\ entities = [e \in 0..RingSize-1 |-> 0]
    /\ toClient = <<>>
    /\ toServer = <<>>
    /\ cl = [snapShots |-> [s \in Slot |-> NoSnapshot], receivedSnapNum |-> 0,
             pendingSnapNum |-> 0, currentSnapNum |-> 0,
             requests |-> 0, waiting |-> FALSE]
    /\ view = [num |-> 0, contents |-> 0]
    \* added[c]: the frame that game command c was first meant for; stored[c]: the
    \* frames that handed it to the client; excused: the commands given up by
    \* the server, or lost in the one way the client is known to lose them
    \* (Aliased); executed: the commands as cgame executed them; refired: cgame
    \* was given the same frame twice.
    /\ hist = [added |-> <<>>, stored |-> <<>>, excused |-> {},
               executed |-> <<>>, refired |-> FALSE]
    /\ damaged = {}

-----------------------------------------------------------------------------
\* The server.

\* The entries from the first one on that count entities take.
Entries(first, count) == {(first + i) % RingSize : i \in 0..count-1}
EntitiesOf(snap) == Entries(snap.first, snap.count)

\* SNAP_BuildClientFrameSnap, for frame f of n entities, after the frames of other
\* clients with k of them.  (nextEntities is not reduced, as in the code, but has
\* no width.)
BuildFrame(f, n, k) ==
    [sv EXCEPT !.framenum = f,
               !.snapShots[f % UpdateBackup] =
                    [num |-> f, first |-> sv.nextEntities + k, count |-> n],
               !.nextEntities = @ + k + n]

WrittenEntities(f, n, k) ==
    [e \in DOMAIN entities |->
        IF e \in Entries(sv.nextEntities + k, n) THEN f
        ELSE IF e \in Entries(sv.nextEntities, k) THEN 0 ELSE entities[e]]

\* What SNAP_EmitPacketEntities reads of an earlier frame, when the entries are ents.
Contents(snap, ents) ==
    IF \A e \in EntitiesOf(snap) : ents[e] = snap.num THEN snap.num ELSE Garbage

\* SNAP_WriteFrameSnapToClient: a client that asked for whole frames gets them
\* until it has acknowledged one.  (Mutant: until it acknowledges any frame.)
WithNoDeltaAny(q, f) ==
    IF ~q.nodelta THEN q
    ELSE IF q.nodeltaFrame = 0 THEN [q EXCEPT !.nodeltaFrame = f]
    ELSE IF q.lastframe > 0 THEN [q EXCEPT !.nodelta = FALSE] ELSE q
WithNoDelta(q, f) ==
    IF ~q.nodelta THEN q
    ELSE IF q.nodeltaFrame = 0 THEN [q EXCEPT !.nodeltaFrame = f]
    ELSE IF q.lastframe >= q.nodeltaFrame THEN [q EXCEPT !.nodelta = FALSE] ELSE q

\* Whether frame f is written as a delta.  (Mutant: the window is one ring
\* wide.)
IsDeltaLate(q, f) == q.lastframe > 0 /\ ~q.nodelta /\ f <= q.lastframe + UpdateBackup
IsDelta(q, f) ==
    /\ q.lastframe > 0 /\ q.lastframe <= f
    /\ ~q.nodelta
    /\ f < q.lastframe + UpdateMask

\* Frame f is written as a delta of a frame that began more than a ring of entities
\* ago, or of a damaged one.
Overrun(snap, q) == snap.first + RingSize < q.nextEntities
Damages(q, f) ==
    IsDelta(q, f) /\ \/ Overrun(q.snapShots[q.lastframe % UpdateBackup], q)
                     \/ q.lastframe \in damaged

\* The game commands in the ring that frame f carries: not those of frames that
\* the client has acknowledged, nor very old ones.  (Mutant: only those of the
\* frame itself.)
GameCommands(q) == {q.gameCommands[s] : s \in DOMAIN q.gameCommands} \ {NoCommand}
Acknowledged(q, c) == q.lastframe >= 0 /\ c.framenum <= q.lastframe
TooOld(q, f) == {c \in GameCommands(q) : c.framenum + CommandAge < f}
CarriedOnce(q, f) == {c \in GameCommands(q) : c.framenum = f}
Carried(q, f) ==
    {c \in GameCommands(q) \ TooOld(q, f) : c.framenum <= f /\ ~Acknowledged(q, c)}

\* SV_AddGameCommand: the command takes the slot of the one MAX_RELIABLE_COMMANDS
\* before it, whether or not the client has got that one.
AddGameCommand ==
    LET c == sv.gameCommandCurrent + 1
        s == c % MaxReliable
        f == IF sv.lastSentFrameNum # 0 THEN sv.lastSentFrameNum + 1 ELSE sv.framenum
        old == sv.gameCommands[s]
    IN  /\ c + cl.requests <= MaxInputs
        /\ sv' = [sv EXCEPT !.gameCommandCurrent = c,
                            !.gameCommands[s] = [id |-> c, framenum |-> f]]
        /\ hist' = [hist EXCEPT !.added = Append(@, f),
                                !.stored = Append(@, {}),
                                !.excused = IF old = NoCommand \/ Acknowledged(sv, old)
                                            THEN @ ELSE @ \cup {old.id}]
        /\ UNCHANGED <<entities, toClient, toServer, cl, view, damaged>>

\* SV_SendClientDatagram, for the next frame.
ServerFrame ==
    LET f == sv.framenum + 1
    IN  /\ f <= MaxFrames
        /\ \E n \in EntityCounts, k \in OtherCounts :
              LET q == WithNoDelta(BuildFrame(f, n, k), f)
                  ents == WrittenEntities(f, n, k)
                  from == q.snapShots[q.lastframe % UpdateBackup]
              IN  /\ sv' = [q EXCEPT !.lastSentFrameNum = f]
                  /\ entities' = ents
                  /\ \/ UNCHANGED toClient   \* lost
                     \/ /\ Len(toClient) < MaxInFlight
                        /\ toClient' = Append(toClient,
                            [snapNum |-> f, delta |-> IsDelta(q, f),
                             deltaFrameNum |-> q.lastframe,
                             from |-> IF IsDelta(q, f) THEN Contents(from, ents) ELSE 0,
                             commands |-> Carried(q, f)])
                  /\ damaged' = IF Damages(q, f) THEN damaged \cup {f} ELSE damaged
                  /\ hist' = [hist EXCEPT !.excused = @ \cup
                        {c.id : c \in {d \in TooOld(q, f) : ~Acknowledged(q, d)}}]
        /\ UNCHANGED <<toServer, cl, view>>

\* SV_NoDelta_f, when the client's message carries a request not executed yet.
NoDelta(q, m) ==
    IF m.requests = q.requests THEN q
    ELSE [q EXCEPT !.requests = m.requests,
                   !.nodelta = TRUE, !.nodeltaFrame = 0, !.lastframe = -1]

\* SV_ParseClientMessage: the command, then the move with the acknowledgement
\* (SV_ParseMoveCommand).
ServerRead ==
    /\ toServer # <<>>
    /\ sv' = [NoDelta(sv, Head(toServer)) EXCEPT !.lastframe = Head(toServer).lastframe]
    /\ toServer' = Tail(toServer)
    /\ UNCHANGED <<entities, toClient, cl, view, damaged, hist>>

-----------------------------------------------------------------------------
\* The client.

\* SNAP_ParseFrameHeader: the ring with the slot of the frame in m cleared, and
\* whether that frame is valid: whole, or a delta of a frame still in the ring.
Cleared(m) ==
    [cl.snapShots EXCEPT ![m.snapNum % UpdateBackup] =
        [NoSnapshot EXCEPT !.serverFrame = m.snapNum]]
Base(m) == Cleared(m)[m.deltaFrameNum % UpdateBackup]
IsValid(m) ==
    \/ ~m.delta
    \/ m.deltaFrameNum > 0 /\ Base(m).valid /\ Base(m).serverFrame = m.deltaFrameNum
Decoded(m) ==
    IF m.delta /\ (m.from = Garbage \/ Base(m).contents # m.from)
    THEN Garbage ELSE m.snapNum

\* SNAP_ParseFrame: the game commands not handled yet are those newer than the
\* last frame received.  That frame is looked at in its slot, which may have just
\* been cleared for the new one.  (Mutant: all of them.)
HandledAll(m) == IF IsValid(m) THEN m.commands ELSE {}
Handled(m) ==
    LET slot == cl.receivedSnapNum % UpdateBackup
        aliased == slot = m.snapNum % UpdateBackup
        last == [Cleared(m)[slot] EXCEPT !.valid = IF aliased THEN IsValid(m) ELSE @]
    IN  {c \in m.commands :
            /\ IsValid(m)
            /\ \/ cl.receivedSnapNum <= 0
               \/ ~last.valid
               \/ m.snapNum > last.serverFrame + (m.snapNum - c.framenum)}

\* The commands that are lost because the new frame has the slot of the last one.
Aliased(m) ==
    {c \in m.commands : /\ m.snapNum % UpdateBackup = cl.receivedSnapNum % UpdateBackup
                        /\ c.framenum > cl.receivedSnapNum}

\* CL_ParseFrame.  A client that records a demo waits for a whole frame.
ClientRead ==
    LET m == Head(toClient)
    IN  /\ toClient # <<>>
        /\ toClient' = Tail(toClient)
        /\ cl' = [cl EXCEPT
              !.snapShots = [Cleared(m) EXCEPT ![m.snapNum % UpdateBackup] =
                    [serverFrame |-> m.snapNum, valid |-> IsValid(m),
                     contents |-> Decoded(m),
                     commands |-> {c.id : c \in Handled(m)}]],
              !.receivedSnapNum = IF IsValid(m) THEN m.snapNum ELSE @,
              !.waiting = @ /\ (~IsValid(m) \/ m.delta)]
        /\ hist' = [hist EXCEPT
              !.stored = [c \in DOMAIN @ |->
                    IF \E d \in Handled(m) : d.id = c THEN @[c] \cup {m.snapNum} ELSE @[c]],
              !.excused = @ \cup {c.id : c \in Aliased(m)}]
        /\ UNCHANGED <<sv, entities, toServer, view, damaged>>

\* CL_UpdateSnapshot: with no frame pending, the last of the valid ones received
\* becomes it.  (Mutant: the first one, as before the break in its loop was
\* commented out.)
Candidates ==
    {i \in cl.currentSnapNum+1..cl.receivedSnapNum :
        LET snap == cl.snapShots[i % UpdateBackup]
        IN  snap.valid /\ snap.serverFrame > cl.currentSnapNum}
PendingFirst ==
    IF cl.pendingSnapNum # 0 \/ Candidates = {} THEN cl.pendingSnapNum
    ELSE cl.snapShots[Min(Candidates) % UpdateBackup].serverFrame
Pending ==
    IF cl.pendingSnapNum # 0 \/ Candidates = {} THEN cl.pendingSnapNum
    ELSE cl.snapShots[Max(Candidates) % UpdateBackup].serverFrame

\* CL_AdjustServerTime, after cgame has taken the pending frame.  (Mutant: no
\* reset.)
FiredAgain == [cl EXCEPT !.currentSnapNum = Pending, !.pendingSnapNum = Pending]
Fired == [cl EXCEPT !.currentSnapNum = Pending, !.pendingSnapNum = 0]
NotFired == [cl EXCEPT !.pendingSnapNum = Pending]

\* CL_WriteUcmdsToMessage acknowledges the frame in the slot of the last one
\* received.
Acknowledgement ==
    IF cl.receivedSnapNum <= 0 THEN -1
    ELSE cl.snapShots[cl.receivedSnapNum % UpdateBackup].serverFrame

\* The ids of a frame's commands, in their order.
InOrder(ids) == CHOOSE s \in SetToSeqs(ids) : IsSorted(s, <)

\* From one reading of the network to the next: the end of a CL_Frame, which sends
\* a message or not, and the beginning of another.  The pending frame is fired
\* when the time of the current one has come; CG_NewFrameSnap shows what it
\* finds in the slot, and executes its commands if it is valid.
ClientFrame(timeReached) ==
    LET snap == cl.snapShots[Pending % UpdateBackup]
        fires == Pending # 0 /\ timeReached
    IN  /\ \/ UNCHANGED toServer
           \/ /\ Len(toServer) < MaxInFlight
              /\ toServer' = Append(toServer, [lastframe |-> Acknowledgement,
                                               requests |-> cl.requests])
        /\ cl' = IF fires /\ snap.valid THEN Fired ELSE NotFired
        /\ view' = IF fires THEN [num |-> snap.serverFrame, contents |-> snap.contents]
                   ELSE view
        /\ hist' = IF fires /\ snap.valid
                   THEN [hist EXCEPT !.executed = @ \o InOrder(snap.commands),
                                     !.refired = @ \/ snap.serverFrame = view.num]
                   ELSE hist
        /\ UNCHANGED <<sv, entities, toClient, damaged>>

\* CL_Record_f: the client asks for whole frames.
ClientRequest ==
    /\ sv.gameCommandCurrent + cl.requests < MaxInputs
    /\ ~cl.waiting
    /\ cl' = [cl EXCEPT !.requests = @ + 1, !.waiting = TRUE]
    /\ UNCHANGED <<sv, entities, toClient, toServer, view, damaged, hist>>

-----------------------------------------------------------------------------
Next ==
    \/ AddGameCommand
    \/ ServerFrame
    \/ ServerRead
    \/ ClientRead
    \/ \E timeReached \in BOOLEAN : ClientFrame(timeReached)
    \/ ClientRequest

Spec == Init /\ [][Next]_vars

-----------------------------------------------------------------------------
\* The types.  The client shows no frame it has not received (cl_main.c:2361),
\* and the server takes no acknowledgement of a frame it has not sent.
TypeOK ==
    /\ sv.framenum \in 0..MaxFrames
    /\ sv.lastframe \in {-1} \cup 1..sv.framenum
    /\ sv.snapShots \in [Slot -> [num : 0..MaxFrames, first : Nat,
                                  count : {0} \cup EntityCounts]]
    /\ damaged \subseteq 1..sv.framenum
    /\ cl.receivedSnapNum \in 0..sv.framenum
    /\ cl.currentSnapNum \in 0..cl.receivedSnapNum
    /\ cl.pendingSnapNum \in {0} \cup cl.currentSnapNum+1..cl.receivedSnapNum
    /\ entities \in [0..RingSize-1 -> 0..MaxFrames]

\* What snap_read.c:520 and :528 call "not supposed to happen" does not happen, nor
\* is a delta frame too old (:534): with the frames that the server takes for a
\* delta, whatever is lost, each frame is decoded, though both rings of frames are
\* overwritten all the time.  It has the contents the server built unless it is
\* damaged: it depends on a delta that was written when more than a ring of
\* entities had followed the base.
EveryFrameDecodes ==
    \A s \in Slot :
        LET snap == cl.snapShots[s]
        IN  snap.serverFrame # 0 =>
                /\ snap.valid
                /\ snap.contents = snap.serverFrame \/ snap.serverFrame \in damaged

\* "we have a valid message to delta from" (snap_write.c:655): the frame that a delta
\* is written from is what the client was sent.
BaseIsValid ==
    \A i \in DOMAIN toClient : toClient[i].delta => toClient[i].from = toClient[i].deltaFrameNum

\* The filter at snap_read.c:602 against the repetition at snap_write.c:702: a game
\* command is put into one frame only, and when the client has the frame it was
\* meant for or a later one, it has the command, unless the server dropped it from
\* its ring or for its age before it was acknowledged, or the client took exactly
\* the frame UPDATE_BACKUP after its last one (Aliased).
GameCommandsStoredOnce ==
    \A c \in DOMAIN hist.added :
        /\ Cardinality(hist.stored[c]) <= 1
        /\ (0 < cl.receivedSnapNum /\ hist.added[c] <= cl.receivedSnapNum) =>
                hist.stored[c] # {} \/ c \in hist.excused

\* cgame executes no game command twice and none before an older one, as long as it
\* is not given a frame twice.  It is when the pending frame's slot was
\* overwritten before it was fired (cl_game.c:674): the newer frame is then shown under
\* the older number, and again under its own.
GameCommandsInOrder ==
    hist.refired \/ \A i, j \in DOMAIN hist.executed :
                        i < j => hist.executed[i] < hist.executed[j]

\* SV_NoDelta_f: from the first frame after the server has executed the request of a
\* client that records a demo, until the client has received one of them, every
\* frame is whole, whatever acknowledgements were under way (snap_write.c:634).
NoDeltaHonoured ==
    \A i \in DOMAIN toClient :
        (/\ cl.waiting /\ cl.requests = sv.requests
         /\ sv.nodeltaFrame # 0 /\ toClient[i].snapNum >= sv.nodeltaFrame)
            => ~toClient[i].delta

\* The client shows the frames of the server in order (CL_UpdateSnapshot,
\* CL_GameModule_NewSnapshot), even when slots are overwritten while they are pending or
\* current, and each but the damaged ones as it was built.
Stream == INSTANCE FrameStream
          WITH built <- sv.framenum, damaged <- damaged, shown <- view
ShowsFramesInOrder == Stream!Spec
=============================================================================
