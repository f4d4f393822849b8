--------------------------- MODULE SnapshotsProofs ---------------------------
(***************************************************************************)
(* For rings of any size and any number of frames, entities, commands and  *)
(* messages: every frame the client reads is decoded, and right unless it  *)
(* depends on a delta of a frame whose entities the server had overwritten *)
(* (which does not happen while the frames of all clients fit into the     *)
(* ring); the client shows the frames in order (Snapshots implements       *)
(* FrameStream), a request for whole frames is honoured, and game commands *)
(* are stored once and executed in order.                                  *)
(***************************************************************************)
EXTENDS Snapshots, CommonLemmas

\* What is used of the assumptions about constants.
LEMMA Constants ==
    /\ UpdateBackup \in Nat \ {0, 1} /\ RingSize \in Nat \ {0}
    /\ \A n \in EntityCounts : n \in Nat /\ n <= RingSize
    /\ \A k \in OtherCounts : k \in Nat
    /\ MaxReliable \in Nat \ {0} /\ CommandAge \in Nat /\ MaxFrames \in Nat
BY SizesAssumption, BoundsAssumption

USE Constants

LEMMA SlotOf == ASSUME NEW n \in Nat PROVE n % UpdateBackup \in Slot
BY ModRange DEF Slot

(***************************************************************************)
(* The invariant.                                                          *)
(***************************************************************************)
GameCommand == [id : Nat, framenum : Nat]
BuiltType == [num : 0..MaxFrames, first : Nat, count : {0} \cup EntityCounts]
ServerType ==
    [framenum : 0..MaxFrames, lastframe : Int, lastSentFrameNum : Nat, nodelta : BOOLEAN,
     nodeltaFrame : Nat, requests : Nat,
     snapShots : [Slot -> BuiltType],
     nextEntities : Nat, gameCommandCurrent : Nat,
     gameCommands : [0..MaxReliable-1 -> GameCommand]]
SnapshotType == [serverFrame : Nat, valid : BOOLEAN, contents : Int, commands : SUBSET Nat]
ClientType ==
    [snapShots : [Slot -> SnapshotType], receivedSnapNum : Nat, pendingSnapNum : Nat,
     currentSnapNum : Nat, requests : Nat, waiting : BOOLEAN]
FrameType == [snapNum : Nat, delta : BOOLEAN, deltaFrameNum : Int, from : Int,
              commands : SUBSET GameCommand]
MoveType == [lastframe : Int, requests : Nat]

Typed ==
    /\ sv \in ServerType
    /\ cl \in ClientType
    /\ entities \in [0..RingSize-1 -> 0..MaxFrames]
    /\ toClient \in Seq(FrameType)
    /\ toServer \in Seq(MoveType)
    /\ view \in [num : Nat, contents : Int]
    /\ damaged \subseteq 1..sv.framenum

\* The last frames built are in their slots, and until a ring of entities has followed the
\* first one of a frame, its entities are in theirs.
Kept(n, snap, ents, next) ==
    /\ snap.num = n
    /\ snap.first + snap.count <= next
    /\ next <= snap.first + RingSize => \A e \in EntitiesOf(snap) : ents[e] = n
EntitiesSound ==
    \A n \in 1..sv.framenum : n + UpdateBackup > sv.framenum =>
        Kept(n, sv.snapShots[n % UpdateBackup], entities, sv.nextEntities)

\* The client with snapshots c received frame b and has it until it receives one a ring later.
Has(b, c) ==
    /\ b \in 1..c.receivedSnapNum
    /\ c.receivedSnapNum < b + UpdateBackup => c.snapShots[b % UpdateBackup].serverFrame = b

\* What the client has for frame n, or a delta was taken from for frame n.
Right(contents, b, n) == contents = b \/ (contents = Garbage /\ n \in damaged)

\* The frames that the client has are decoded, and in their slots; it shows one of those it
\* received, not newer than the one it will show next.
DecodedIn(snapShots, received) ==
    \A s \in Slot : LET snap == snapShots[s]
                    IN  snap.serverFrame # 0 =>
                            /\ snap.valid
                            /\ Right(snap.contents, snap.serverFrame, snap.serverFrame)
                            /\ snap.serverFrame <= received
                            /\ snap.serverFrame % UpdateBackup = s
Showing(snapShots, v) ==
    v.num # 0 => \A s \in Slot :
        snapShots[s].serverFrame = v.num => snapShots[s].contents = v.contents
ClientSound ==
    /\ cl.receivedSnapNum <= sv.framenum
    /\ DecodedIn(cl.snapShots, cl.receivedSnapNum)
    /\ cl.receivedSnapNum # 0 => Has(cl.receivedSnapNum, cl)
    /\ cl.currentSnapNum <= cl.receivedSnapNum
    /\ cl.pendingSnapNum # 0 =>
          /\ cl.pendingSnapNum \in cl.currentSnapNum+1..cl.receivedSnapNum
          /\ cl.snapShots[cl.pendingSnapNum % UpdateBackup].serverFrame >= cl.pendingSnapNum
          /\ view.num <= cl.pendingSnapNum
    /\ view.num <= cl.receivedSnapNum /\ Right(view.contents, view.num, view.num)
    /\ Showing(cl.snapShots, view)

\* Frames arrive in order, and a delta is of one that the client then has; so are
\* acknowledgements.
FrameSound(m, c) ==
    m.delta => /\ Has(m.deltaFrameNum, c)
               /\ Right(m.from, m.deltaFrameNum, m.snapNum)
               /\ m.deltaFrameNum \in damaged => m.snapNum \in damaged
               /\ m.snapNum < m.deltaFrameNum + UpdateBackup
FramesSound ==
    \A k \in 1..Len(toClient) :
        /\ cl.receivedSnapNum < toClient[k].snapNum /\ toClient[k].snapNum <= sv.framenum
        /\ \A j \in 1..k-1 : toClient[j].snapNum < toClient[k].snapNum
        /\ FrameSound(toClient[k], cl)
AckSound(b) == b = -1 \/ Has(b, cl)
AcksSound == AckSound(sv.lastframe) /\ \A k \in 1..Len(toServer) : AckSound(toServer[k].lastframe)

\* While the client waits for the whole frame of its last request, and the server knows, it
\* has received no frame from nodeltaFrame on, and none of those on their way is a delta.
RequestsSound ==
    /\ sv.requests <= cl.requests
    /\ \A k \in 1..Len(toServer) : toServer[k].requests <= cl.requests
Waiting == cl.waiting /\ cl.requests = sv.requests
WholeSound ==
    Waiting =>
        /\ sv.nodelta
        /\ sv.nodeltaFrame # 0 =>
              /\ cl.receivedSnapNum < sv.nodeltaFrame
              /\ \A k \in 1..Len(toClient) :
                    toClient[k].delta => toClient[k].snapNum < sv.nodeltaFrame

IInv == /\ Typed /\ EntitiesSound /\ ClientSound /\ FramesSound /\ AcksSound
        /\ RequestsSound /\ WholeSound

LEMMA ServerFields ==
    ASSUME NEW q \in ServerType
    PROVE  /\ q.framenum \in Nat /\ q.framenum <= MaxFrames /\ q.lastframe \in Int
           /\ q.nodeltaFrame \in Nat /\ q.requests \in Nat /\ q.nextEntities \in Nat
           /\ q.snapShots \in [Slot -> BuiltType]
           /\ q.gameCommands \in [0..MaxReliable-1 -> GameCommand]
           /\ q.gameCommandCurrent \in Nat /\ q.lastSentFrameNum \in Nat
BY DEF ServerType

LEMMA ClientFields ==
    ASSUME NEW c \in ClientType
    PROVE  /\ c.snapShots \in [Slot -> SnapshotType]
           /\ c.receivedSnapNum \in Nat /\ c.pendingSnapNum \in Nat
           /\ c.currentSnapNum \in Nat /\ c.requests \in Nat
           /\ \A s \in Slot : /\ c.snapShots[s].serverFrame \in Nat
                              /\ c.snapShots[s].contents \in Int
                              /\ c.snapShots[s].commands \in SUBSET Nat
BY DEF ClientType, SnapshotType

LEMMA FrameFields ==
    ASSUME NEW s \in Seq(FrameType), NEW k \in 1..Len(s)
    PROVE  /\ s[k] \in FrameType /\ s[k].snapNum \in Nat /\ s[k].deltaFrameNum \in Int
           /\ s[k].commands \in SUBSET GameCommand
<1>1. s[k] \in FrameType
  OBVIOUS
<1> QED BY <1>1 DEF FrameType

LEMMA InitSound == Init => IInv
<1> SUFFICES ASSUME Init PROVE IInv
  OBVIOUS
<1>1. NoFrame \in BuiltType
  BY DEF NoFrame, BuiltType
<1>2. NoCommand \in GameCommand /\ NoSnapshot \in SnapshotType
  BY DEF NoCommand, GameCommand, NoSnapshot, SnapshotType
<1>3. sv \in ServerType
  <2>1. [s \in Slot |-> NoFrame] \in [Slot -> BuiltType]
    BY <1>1
  <2>2. [s \in 0..MaxReliable-1 |-> NoCommand] \in [0..MaxReliable-1 -> GameCommand]
    BY <1>2
  <2>3. -1 \in Int /\ 0 \in 0..MaxFrames /\ 0 \in 0..RingSize-1 /\ FALSE \in BOOLEAN
    OBVIOUS
  <2> QED BY <2>1, <2>2, <2>3 DEF Init, ServerType
<1>4. cl \in ClientType
  <2>1. [s \in Slot |-> NoSnapshot] \in [Slot -> SnapshotType]
    BY <1>2
  <2> QED BY <2>1 DEF Init, ClientType
<1>5. Typed
  BY <1>3, <1>4 DEF Init, Typed
<1>6. /\ sv.framenum = 0 /\ sv.lastframe = -1 /\ sv.requests = 0
      /\ cl.receivedSnapNum = 0 /\ cl.pendingSnapNum = 0 /\ cl.currentSnapNum = 0
      /\ cl.requests = 0
      /\ cl.waiting = FALSE
      /\ \A s \in Slot : cl.snapShots[s].serverFrame = 0
      /\ toClient = <<>> /\ toServer = <<>> /\ view.num = 0 /\ view.contents = 0
  BY DEF Init, NoSnapshot
<1>7. EntitiesSound
  BY <1>6 DEF EntitiesSound
<1>8. ClientSound
  BY <1>6 DEF ClientSound, DecodedIn, Right, Showing
<1>9. FramesSound /\ AcksSound /\ RequestsSound /\ WholeSound
  BY <1>6 DEF FramesSound, AcksSound, AckSound, RequestsSound, WholeSound, Waiting
<1> QED BY <1>5, <1>7, <1>8, <1>9 DEF IInv

\* EntitiesSound is about the server's rings, which most steps leave alone.
LEMMA EntitiesKept ==
    ASSUME IInv, UNCHANGED <<sv.framenum, sv.snapShots, sv.nextEntities, entities>>
    PROVE  EntitiesSound'
<1>1. EntitiesSound
  BY DEF IInv
<1> QED BY <1>1 DEF EntitiesSound

\* The steps that leave the client's rings and the network alone.
LEMMA ClientKept ==
    ASSUME IInv, UNCHANGED <<sv.framenum, sv.lastframe, toClient, toServer, view, damaged>>,
           UNCHANGED <<cl.snapShots, cl.receivedSnapNum, cl.pendingSnapNum, cl.currentSnapNum>>
    PROVE  ClientSound' /\ FramesSound' /\ AcksSound'
<1>1. ClientSound'
  BY DEF IInv, ClientSound, DecodedIn, Has, Right, Showing
<1>2. FramesSound'
  BY DEF IInv, FramesSound, FrameSound, Has, Right
<1>3. AcksSound'
  BY DEF IInv, AcksSound, AckSound, Has
<1> QED BY <1>1, <1>2, <1>3

(***************************************************************************)
(* The server.                                                             *)
(***************************************************************************)
LEMMA AddGameCommandSound ==
    ASSUME IInv, AddGameCommand
    PROVE  IInv' /\ UNCHANGED <<sv.framenum, view, damaged>>
<1> DEFINE c == sv.gameCommandCurrent + 1
<1> DEFINE s == c % MaxReliable
<1> DEFINE f == IF sv.lastSentFrameNum # 0 THEN sv.lastSentFrameNum + 1 ELSE sv.framenum
<1>1. sv \in ServerType /\ Typed
  BY DEF IInv, Typed
<1>2. c \in Nat /\ s \in 0..MaxReliable-1 /\ f \in Nat
  <2>1. c \in Nat /\ f \in Nat
    BY <1>1, ServerFields
  <2> HIDE DEF c, f
  <2> QED BY <2>1, ModRange
<1>3. sv' = [sv EXCEPT !.gameCommandCurrent = c,
                       !.gameCommands = [@ EXCEPT ![s] = [id |-> c, framenum |-> f]]]
      /\ UNCHANGED <<entities, toClient, toServer, cl, view, damaged>>
  BY <1>1 DEF AddGameCommand, ServerType
<1> HIDE DEF c, s, f
<1>4. [sv.gameCommands EXCEPT ![s] = [id |-> c, framenum |-> f]]
          \in [0..MaxReliable-1 -> GameCommand]
  BY <1>1, <1>2, ServerFields DEF GameCommand
<1>5. /\ sv' \in ServerType
      /\ sv'.framenum = sv.framenum /\ sv'.lastframe = sv.lastframe
      /\ sv'.snapShots = sv.snapShots /\ sv'.nextEntities = sv.nextEntities
      /\ sv'.requests = sv.requests /\ sv'.nodelta = sv.nodelta
      /\ sv'.nodeltaFrame = sv.nodeltaFrame
  BY <1>1, <1>2, <1>3, <1>4 DEF ServerType
<1>6. Typed'
  BY <1>1, <1>3, <1>5 DEF Typed
<1>7. EntitiesSound'
  BY <1>3, <1>5, EntitiesKept
<1>8. ClientSound' /\ FramesSound' /\ AcksSound'
  BY <1>3, <1>5, ClientKept
<1>9. RequestsSound' /\ WholeSound'
  BY <1>3, <1>5 DEF IInv, RequestsSound, WholeSound, Waiting
<1> QED BY <1>3, <1>5, <1>6, <1>7, <1>8, <1>9 DEF IInv

\* Frame f, of c entities after k others, is built: of the frames still in the ring of frames
\* no entity is overwritten before a ring of them has followed.
BuiltSnaps(f, c, k) ==
    [sv.snapShots EXCEPT ![f % UpdateBackup] =
        [num |-> f, first |-> sv.nextEntities + k, count |-> c]]
BuiltNext(c, k) == sv.nextEntities + k + c

LEMMA EntriesApart ==
    ASSUME NEW first \in Nat, NEW count \in Nat, NEW next \in Nat, NEW n \in Nat,
           first + count <= next, next + n <= first + RingSize
    PROVE  \A e \in Entries(first, count) : e \notin Entries(next, n)
<1> SUFFICES ASSUME NEW e, e \in Entries(first, count), e \in Entries(next, n) PROVE FALSE
  OBVIOUS
<1>1. PICK i \in 0..count-1 : e = (first + i) % RingSize
  BY DEF Entries
<1>2. PICK j \in 0..n-1 : e = (next + j) % RingSize
  BY DEF Entries
<1>3. PICK y \in Nat : y = first + i
  OBVIOUS
<1>4. PICK z \in Nat : z = next + j
  OBVIOUS
<1>5. y < z /\ z - y < RingSize
  BY <1>3, <1>4
<1>6. y % RingSize # z % RingSize
  BY <1>5, ModDiffers
<1> QED BY <1>1, <1>2, <1>3, <1>4, <1>6

LEMMA EntriesInRing ==
    ASSUME NEW first \in Nat, NEW count \in Nat
    PROVE  Entries(first, count) \subseteq 0..RingSize-1
<1> SUFFICES ASSUME NEW i \in 0..count-1 PROVE (first + i) % RingSize \in 0..RingSize-1
  BY DEF Entries
<1>1. PICK y \in Nat : y = first + i
  OBVIOUS
<1>2. y % RingSize \in 0..RingSize-1
  BY ModRange
<1> QED BY <1>1, <1>2

LEMMA BuildSound ==
    ASSUME IInv, NEW c \in EntityCounts, NEW k \in OtherCounts,
           NEW f, f = sv.framenum + 1, f <= MaxFrames,
           NEW n \in 1..f, n + UpdateBackup > f
    PROVE  Kept(n, BuiltSnaps(f, c, k)[n % UpdateBackup], WrittenEntities(f, c, k),
                BuiltNext(c, k))
<1>0. /\ sv \in ServerType /\ entities \in [0..RingSize-1 -> 0..MaxFrames]
      /\ DOMAIN entities = 0..RingSize-1
  BY DEF IInv, Typed
<1>1. /\ sv.snapShots \in [Slot -> BuiltType] /\ sv.nextEntities \in Nat /\ sv.framenum \in Nat
      /\ f \in Nat /\ n \in Nat /\ n <= f /\ c \in Nat /\ k \in Nat
  BY <1>0, ServerFields
<1>2. f % UpdateBackup \in Slot /\ n % UpdateBackup \in Slot
  BY <1>1, SlotOf
<1>3. PICK start \in Nat : start = sv.nextEntities
  BY <1>1
<1>4. PICK own \in Nat : own = start + k
  BY <1>1
<1>5. PICK next : next = BuiltNext(c, k)
  OBVIOUS
<1>6. next = own + c /\ next \in Nat /\ next = start + (k + c)
  BY <1>1, <1>3, <1>4, <1>5 DEF BuiltNext
<1>7. PICK ents : ents = WrittenEntities(f, c, k)
  OBVIOUS
<1>8. \A e \in 0..RingSize-1 :
         ents[e] = IF e \in Entries(own, c) THEN f
                   ELSE IF e \in Entries(start, k) THEN 0 ELSE entities[e]
  BY <1>0, <1>3, <1>4, <1>7 DEF WrittenEntities
<1>9. CASE n = f
  <2>1. PICK new : new = [num |-> f, first |-> own, count |-> c]
    OBVIOUS
  <2>2. BuiltSnaps(f, c, k)[n % UpdateBackup] = new
    BY <2>1, <1>1, <1>2, <1>3, <1>4, <1>9 DEF BuiltSnaps
  <2>3. \A e \in EntitiesOf(new) : ents[e] = f
    <3>1. EntitiesOf(new) = Entries(own, c)
      BY <2>1 DEF EntitiesOf
    <3>2. Entries(own, c) \subseteq 0..RingSize-1
      BY <1>1, EntriesInRing
    <3> QED BY <3>1, <3>2, <1>8
  <2>4. new.num = n /\ new.first + new.count <= next
    BY <2>1, <1>1, <1>6, <1>9
  <2> QED BY <2>2, <2>3, <2>4, <1>5, <1>7, <1>9 DEF Kept
<1>10. CASE n # f
  <2>1. /\ n \in 1..sv.framenum /\ n + UpdateBackup > sv.framenum /\ n < f /\ f - n < UpdateBackup
    BY <1>1, <1>10
  <2>2. n % UpdateBackup # f % UpdateBackup
    BY <2>1, <1>1, ModDiffers
  <2>3. PICK snap : snap = sv.snapShots[n % UpdateBackup]
    OBVIOUS
  <2>4. BuiltSnaps(f, c, k)[n % UpdateBackup] = snap
    BY <2>2, <2>3, <1>1, <1>2 DEF BuiltSnaps
  <2>5. /\ snap.num = n /\ snap.first + snap.count <= start
        /\ start <= snap.first + RingSize => \A e \in EntitiesOf(snap) : entities[e] = n
    BY <2>1, <2>3, <1>3 DEF IInv, EntitiesSound, Kept
  <2>6. snap.first \in Nat /\ snap.count \in Nat
    <3>1. snap \in BuiltType
      BY <2>3, <1>1, <1>2
    <3> QED BY <3>1 DEF BuiltType
  <2>7. snap.first + snap.count <= next
    BY <2>5, <2>6, <1>1, <1>6
  <2>8. ASSUME next <= snap.first + RingSize, NEW e \in EntitiesOf(snap)
        PROVE  ents[e] = n
    <3>1. e \in Entries(snap.first, snap.count)
      BY <2>8 DEF EntitiesOf
    <3>2. e \in 0..RingSize-1
      BY <3>1, <2>6, EntriesInRing
    <3>3. e \notin Entries(start, k)
      <4>1. start + k <= snap.first + RingSize
        BY <2>6, <2>8, <1>1, <1>6
      <4> QED BY <3>1, <4>1, <2>5, <2>6, <1>1, EntriesApart
    <3>4. e \notin Entries(own, c)
      <4>1. own + c <= snap.first + RingSize /\ snap.first + snap.count <= own
        BY <2>5, <2>6, <2>8, <1>1, <1>4, <1>6
      <4> QED BY <3>1, <4>1, <2>6, <1>1, EntriesApart
    <3>5. entities[e] = n
      <4>1. start <= snap.first + RingSize
        BY <2>6, <2>8, <1>1, <1>6
      <4> QED BY <4>1, <2>5, <2>8
    <3> QED BY <3>2, <3>3, <3>4, <3>5, <1>8
  <2> QED BY <2>4, <2>5, <2>7, <2>8, <1>5, <1>7 DEF Kept
<1> QED BY <1>9, <1>10

\* How r, the client_t after WithNoDelta, differs from b before it.
NoDeltaWritten(r, b, f) ==
    /\ r \in ServerType
    /\ r.framenum = b.framenum /\ r.lastframe = b.lastframe
    /\ r.snapShots = b.snapShots /\ r.nextEntities = b.nextEntities
    /\ r.requests = b.requests /\ r.gameCommands = b.gameCommands
    /\ r.gameCommandCurrent = b.gameCommandCurrent
    /\ r.nodelta => b.nodelta
    /\ b.nodelta /\ b.nodeltaFrame = 0 => r.nodelta /\ r.nodeltaFrame = f
    /\ b.nodelta /\ b.nodeltaFrame # 0 /\ b.lastframe < b.nodeltaFrame
          => r.nodelta /\ r.nodeltaFrame = b.nodeltaFrame

LEMMA WithNoDeltaFields ==
    ASSUME NEW b \in ServerType, NEW f \in Nat
    PROVE  NoDeltaWritten(WithNoDelta(b, f), b, f)
<1> USE DEF NoDeltaWritten
<1>0. b.lastframe \in Int /\ b.nodeltaFrame \in Nat
  BY ServerFields
<1>1. CASE ~b.nodelta
  BY <1>1 DEF WithNoDelta
<1>2. CASE b.nodelta /\ b.nodeltaFrame = 0
  <2> DEFINE q == [b EXCEPT !.nodeltaFrame = f]
  <2>1. q \in ServerType
    BY DEF ServerType
  <2>2. /\ q.framenum = b.framenum /\ q.lastframe = b.lastframe
        /\ q.snapShots = b.snapShots /\ q.nextEntities = b.nextEntities
        /\ q.requests = b.requests /\ q.gameCommands = b.gameCommands
        /\ q.gameCommandCurrent = b.gameCommandCurrent
        /\ q.nodelta = b.nodelta /\ q.nodeltaFrame = f
    BY DEF ServerType
  <2>3. WithNoDelta(b, f) = q
    BY <1>2 DEF WithNoDelta
  <2> HIDE DEF q
  <2> QED BY <1>2, <2>1, <2>2, <2>3
<1>3. CASE b.nodelta /\ b.nodeltaFrame # 0 /\ b.lastframe >= b.nodeltaFrame
  <2> DEFINE q == [b EXCEPT !.nodelta = FALSE]
  <2>1. q \in ServerType
    BY DEF ServerType
  <2>2. /\ q.framenum = b.framenum /\ q.lastframe = b.lastframe
        /\ q.snapShots = b.snapShots /\ q.nextEntities = b.nextEntities
        /\ q.requests = b.requests /\ q.gameCommands = b.gameCommands
        /\ q.gameCommandCurrent = b.gameCommandCurrent
    BY DEF ServerType
  <2>3. WithNoDelta(b, f) = q
    BY <1>3 DEF WithNoDelta
  <2>4. ~(b.lastframe < b.nodeltaFrame)
    BY <1>0, <1>3
  <2> HIDE DEF q
  <2> QED BY <1>3, <2>1, <2>2, <2>3, <2>4
<1>4. CASE b.nodelta /\ b.nodeltaFrame # 0 /\ ~(b.lastframe >= b.nodeltaFrame)
  <2>1. WithNoDelta(b, f) = b
    BY <1>4 DEF WithNoDelta
  <2> QED BY <1>4, <2>1
<1> QED BY <1>1, <1>2, <1>3, <1>4

LEMMA ServerFrameSound ==
    ASSUME IInv, ServerFrame
    PROVE  /\ IInv' /\ sv'.framenum = sv.framenum + 1 /\ UNCHANGED view
           /\ damaged' \in {damaged, damaged \cup {sv.framenum + 1}}
<1> DEFINE f == sv.framenum + 1
<1>0. /\ sv \in ServerType /\ entities \in [0..RingSize-1 -> 0..MaxFrames]
      /\ DOMAIN entities = 0..RingSize-1 /\ toClient \in Seq(FrameType) /\ Typed
      /\ cl \in ClientType /\ damaged \subseteq 1..sv.framenum
  BY DEF IInv, Typed
<1>t. /\ sv.snapShots \in [Slot -> BuiltType] /\ sv.nextEntities \in Nat
      /\ sv.framenum \in Nat /\ f \in Nat /\ f <= MaxFrames
      /\ sv.lastframe \in Int /\ sv.nodeltaFrame \in Nat /\ cl.receivedSnapNum \in Nat
  <2>1. f <= MaxFrames
    BY DEF ServerFrame
  <2>2. /\ sv.snapShots \in [Slot -> BuiltType] /\ sv.nextEntities \in Nat
        /\ sv.framenum \in Nat /\ sv.lastframe \in Int /\ sv.nodeltaFrame \in Nat
    BY <1>0, ServerFields
  <2>3. cl.receivedSnapNum \in Nat
    BY <1>0, ClientFields
  <2> QED BY <2>1, <2>2, <2>3
<1>1. PICK n \in EntityCounts, o \in OtherCounts :
         LET q == WithNoDelta(BuildFrame(f, n, o), f)
             ents == WrittenEntities(f, n, o)
             from == q.snapShots[q.lastframe % UpdateBackup]
         IN  /\ sv' = [q EXCEPT !.lastSentFrameNum = f]
             /\ entities' = ents
             /\ \/ UNCHANGED toClient
                \/ toClient' = Append(toClient,
                       [snapNum |-> f, delta |-> IsDelta(q, f),
                        deltaFrameNum |-> q.lastframe,
                        from |-> IF IsDelta(q, f) THEN Contents(from, ents) ELSE 0,
                        commands |-> Carried(q, f)])
             /\ damaged' = IF Damages(q, f) THEN damaged \cup {f} ELSE damaged
  BY DEF ServerFrame
<1>u. UNCHANGED <<toServer, cl, view>>
  BY DEF ServerFrame
<1> DEFINE b == BuildFrame(f, n, o)
<1> DEFINE q == WithNoDelta(b, f)
<1> DEFINE snaps == [sv.snapShots EXCEPT ![f % UpdateBackup] =
                        [num |-> f, first |-> sv.nextEntities + o, count |-> n]]
<1> DEFINE next == sv.nextEntities + o + n
<1> DEFINE ents == WrittenEntities(f, n, o)
<1> DEFINE from == q.snapShots[q.lastframe % UpdateBackup]
<1> DEFINE m == [snapNum |-> f, delta |-> IsDelta(q, f), deltaFrameNum |-> q.lastframe,
                 from |-> IF IsDelta(q, f) THEN Contents(from, ents) ELSE 0,
                 commands |-> Carried(q, f)]
<1>2. /\ sv' = [q EXCEPT !.lastSentFrameNum = f] /\ entities' = ents
      /\ toClient' = toClient \/ toClient' = Append(toClient, m)
      /\ damaged' = IF Damages(q, f) THEN damaged \cup {f} ELSE damaged
  BY <1>1
<1>3. b = [sv EXCEPT !.framenum = f, !.snapShots = snaps, !.nextEntities = next]
  BY <1>0 DEF BuildFrame, ServerType
<1>4. snaps \in [Slot -> BuiltType] /\ next \in Nat /\ f \in 0..MaxFrames
  <2>1. [num |-> f, first |-> sv.nextEntities + o, count |-> n] \in BuiltType
    BY <1>t DEF BuiltType
  <2>2. next \in Nat
    BY <1>t
  <2>3. snaps \in [Slot -> BuiltType]
    BY <1>t, <2>1
  <2>4. f \in 0..MaxFrames
    BY <1>t
  <2> HIDE DEF snaps, next, f
  <2> QED BY <2>2, <2>3, <2>4
<1>d. f = sv.framenum + 1 /\ snaps = BuiltSnaps(f, n, o) /\ next = BuiltNext(n, o)
  BY DEF BuiltSnaps, BuiltNext
<1>f. sv.framenum \in Nat /\ f \in Nat /\ f > sv.framenum
  BY <1>t
<1>r. cl.receivedSnapNum \in Nat /\ cl.receivedSnapNum <= sv.framenum
  BY <1>t DEF IInv, ClientSound
<1> HIDE DEF snaps, next, f
<1>5. /\ b \in ServerType /\ b.framenum = f /\ b.snapShots = snaps /\ b.nextEntities = next
      /\ b.lastframe = sv.lastframe /\ b.nodelta = sv.nodelta /\ b.nodeltaFrame = sv.nodeltaFrame
      /\ b.requests = sv.requests
  BY <1>0, <1>3, <1>4 DEF ServerType
<1> HIDE DEF b
<1>6. /\ q \in ServerType /\ q.framenum = f /\ q.snapShots = snaps /\ q.nextEntities = next
      /\ q.lastframe = sv.lastframe /\ q.requests = sv.requests
      /\ q.nodelta => sv.nodelta
      /\ sv.nodelta /\ sv.nodeltaFrame = 0 => q.nodelta /\ q.nodeltaFrame = f
      /\ sv.nodelta /\ sv.nodeltaFrame # 0 /\ sv.lastframe < sv.nodeltaFrame
              => q.nodelta /\ q.nodeltaFrame = sv.nodeltaFrame
  <2>1. b \in ServerType /\ f \in Nat
    BY <1>t, <1>5
  <2>2. NoDeltaWritten(q, b, f)
    BY <2>1, WithNoDeltaFields
  <2> HIDE DEF q
  <2> QED BY <2>2, <1>5 DEF NoDeltaWritten
<1> HIDE DEF q
<1>7. /\ sv' \in ServerType /\ sv'.framenum = f /\ sv'.snapShots = snaps
      /\ sv'.nextEntities = next /\ sv'.lastframe = sv.lastframe /\ sv'.requests = sv.requests
      /\ sv'.nodelta = q.nodelta /\ sv'.nodeltaFrame = q.nodeltaFrame
  BY <1>t, <1>2, <1>6 DEF ServerType
<1>8. ASSUME NEW i \in 1..f, i + UpdateBackup > f
      PROVE  Kept(i, snaps[i % UpdateBackup], ents, next)
  BY <1>t, <1>8, <1>d, BuildSound
<1> HIDE DEF ents
<1>9. EntitiesSound'
  BY <1>2, <1>7, <1>8 DEF EntitiesSound, Kept, EntitiesOf
<1>10. entities' \in [0..RingSize-1 -> 0..MaxFrames]
  <2>1. 0 \in 0..MaxFrames
    OBVIOUS
  <2> QED BY <2>1, <1>0, <1>2, <1>4 DEF ents, WrittenEntities
\* The new message.
<1>e. /\ damaged \subseteq damaged' /\ damaged' \in {damaged, damaged \cup {f}}
      /\ damaged' \subseteq 1..f
  <2>1. damaged \subseteq 1..f /\ f \in 1..f
    BY <1>0, <1>f
  <2> QED BY <2>1, <1>2
<1>n. f \notin damaged
  BY <1>0, <1>f
<1>11. IsDelta(q, f) =>
          /\ Has(sv.lastframe, cl)
          /\ Contents(from, ents) = sv.lastframe
                \/ (Contents(from, ents) = Garbage /\ f \in damaged')
          /\ sv.lastframe \in damaged' => f \in damaged'
          /\ f < sv.lastframe + UpdateBackup /\ sv.lastframe \in Nat \ {0}
  <2> SUFFICES ASSUME IsDelta(q, f)
               PROVE  /\ Has(sv.lastframe, cl)
                      /\ Contents(from, ents) = sv.lastframe
                            \/ (Contents(from, ents) = Garbage /\ f \in damaged')
                      /\ sv.lastframe \in damaged' => f \in damaged'
                      /\ f < sv.lastframe + UpdateBackup /\ sv.lastframe \in Nat \ {0}
    OBVIOUS
  <2>1. sv.lastframe > 0 /\ sv.lastframe <= f /\ f < sv.lastframe + UpdateMask
    BY <1>6 DEF IsDelta
  <2>2. Has(sv.lastframe, cl)
    BY <2>1, <1>t DEF IInv, AcksSound, AckSound
  <2>3. sv.lastframe \in 1..f /\ sv.lastframe + UpdateBackup > f
    BY <2>1, <1>t DEF UpdateMask
  <2> DEFINE l == sv.lastframe
  <2>4. from = snaps[l % UpdateBackup]
    BY <1>6
  <2>d. Damages(q, f) <=> \/ from.first + RingSize < next
                          \/ l \in damaged
    BY <1>6 DEF Damages, Overrun
  <2>t. from.first \in Nat
    <3>1. from \in BuiltType
      BY <2>3, <2>4, <1>4, SlotOf
    <3> QED BY <3>1 DEF BuiltType
  <2> HIDE DEF from, l
  <2>5. from.num = l /\ (next <= from.first + RingSize => \A e \in EntitiesOf(from) : ents[e] = l)
    BY <1>8, <2>3, <2>4 DEF l, Kept
  <2>6. Contents(from, ents) \in {l, Garbage}
    BY <2>5 DEF Contents
  <2>7. CASE Damages(q, f)
    <3>1. f \in damaged'
      BY <2>7, <1>2
    <3> QED BY <3>1, <2>2, <2>3, <2>6, <1>t DEF l
  <2>8. CASE ~Damages(q, f)
    <3>1. next <= from.first + RingSize
      BY <2>8, <2>d, <2>t, <1>4
    <3>2. Contents(from, ents) = l
      BY <3>1, <2>5 DEF Contents
    <3>3. l \notin damaged'
      BY <2>8, <2>d, <1>2
    <3> QED BY <3>2, <3>3, <2>2, <2>3, <1>t DEF l
  <2> QED BY <2>7, <2>8
<1>12. Carried(q, f) \in SUBSET GameCommand
  BY <1>6, ServerFields DEF Carried, GameCommands
<1>13. m \in FrameType
  <2>1. (IF IsDelta(q, f) THEN Contents(from, ents) ELSE 0) \in Int
    BY <1>11 DEF Garbage
  <2>2. IsDelta(q, f) \in BOOLEAN
    BY DEF IsDelta
  <2> HIDE DEF from
  <2> QED BY <1>6, <1>t, <1>12, <2>1, <2>2, ServerFields DEF FrameType
<1>14. /\ m.snapNum = f /\ m.deltaFrameNum = sv.lastframe /\ (m.delta <=> IsDelta(q, f))
       /\ IsDelta(q, f) => m.from = Contents(from, ents)
  BY <1>6
<1>s. \A c, b0, n0 : Right(c, b0, n0) => Right(c, b0, n0)'
  BY <1>e DEF Right, Garbage
<1>w. PICK w : w = m
  OBVIOUS
<1>15. w.delta => /\ Has(w.deltaFrameNum, cl)
                  /\ Right(w.from, w.deltaFrameNum, w.snapNum)'
                  /\ w.deltaFrameNum \in damaged' => w.snapNum \in damaged'
                  /\ w.snapNum < w.deltaFrameNum + UpdateBackup
  <2> HIDE DEF m, from
  <2> QED BY <1>w, <1>11, <1>14 DEF Right, Garbage
<1> HIDE DEF m, from
<1>16. /\ toClient' \in Seq(FrameType)
       /\ \A k \in 1..Len(toClient') :
             \/ k \in 1..Len(toClient) /\ toClient'[k] = toClient[k]
             \/ k = Len(toClient') /\ toClient'[k] = m /\ \A j \in 1..k-1 :
                    j \in 1..Len(toClient) /\ toClient'[j] = toClient[j]
       /\ \A k \in 1..Len(toClient') : k \in 1..Len(toClient) =>
              \A j \in 1..k-1 : j \in 1..Len(toClient) /\ toClient'[j] = toClient[j]
  <2>1. CASE toClient' = toClient
    BY <2>1, <1>0
  <2>2. CASE toClient' = Append(toClient, m)
    <3>1. Len(toClient') = Len(toClient) + 1 /\ toClient' \in Seq(FrameType)
      BY <2>2, <1>0, <1>13
    <3>2. \A k \in 1..Len(toClient) : toClient'[k] = toClient[k]
      BY <2>2, <1>0, <1>13
    <3>3. toClient'[Len(toClient) + 1] = m
      BY <2>2, <1>0, <1>13
    <3>4. PICK n0 \in Nat : n0 = Len(toClient)
      BY <1>0
    <3>5. \A k \in 1..n0+1 : /\ k \in 1..n0 \/ k = n0 + 1
                            /\ \A j \in 1..k-1 : j \in 1..n0
      OBVIOUS
    <3> QED BY <3>1, <3>2, <3>3, <3>4, <3>5
  <2> QED BY <1>2, <2>1, <2>2
<1>17. Typed'
  BY <1>0, <1>7, <1>10, <1>16, <1>e, <1>u DEF Typed
<1>18. ClientSound'
  <2>1. cl.receivedSnapNum <= f
    BY <1>f, <1>r
  <2>2. DecodedIn(cl.snapShots, cl.receivedSnapNum)'
    BY <1>s, <1>u DEF IInv, ClientSound, DecodedIn
  <2>3. Right(view.contents, view.num, view.num)'
    BY <1>s, <1>u DEF IInv, ClientSound
  <2>4. Showing(cl.snapShots, view)'
    BY <1>u DEF IInv, ClientSound, Showing
  <2> QED BY <2>1, <2>2, <2>3, <2>4, <1>7, <1>u DEF IInv, ClientSound, Has
<1>19. FramesSound'
  <2> DEFINE Sound(x) == x.delta =>
                 /\ Has(x.deltaFrameNum, cl)
                 /\ Right(x.from, x.deltaFrameNum, x.snapNum)'
                 /\ x.deltaFrameNum \in damaged' => x.snapNum \in damaged'
                 /\ x.snapNum < x.deltaFrameNum + UpdateBackup
  <2>0. \A x : Sound(x) => (x.delta =>
                 /\ Has(x.deltaFrameNum, cl)'
                 /\ Right(x.from, x.deltaFrameNum, x.snapNum)'
                 /\ x.deltaFrameNum \in damaged' => x.snapNum \in damaged'
                 /\ x.snapNum < x.deltaFrameNum + UpdateBackup)
    BY <1>u DEF Has
  <2>1. SUFFICES ASSUME NEW i \in 1..Len(toClient'), NEW x, x = toClient'[i]
                 PROVE  /\ cl.receivedSnapNum < x.snapNum /\ x.snapNum <= f
                        /\ \A j \in 1..i-1 : toClient'[j].snapNum < x.snapNum
                        /\ Sound(x)
    <3>1. \A x : FrameSound(x, cl)' <=> (x.delta =>
                 /\ Has(x.deltaFrameNum, cl)'
                 /\ Right(x.from, x.deltaFrameNum, x.snapNum)'
                 /\ x.deltaFrameNum \in damaged' => x.snapNum \in damaged'
                 /\ x.snapNum < x.deltaFrameNum + UpdateBackup)
      BY DEF FrameSound
    <3>2. \A x : Sound(x) => FrameSound(x, cl)'
      BY <3>1, <2>0
    <3>3. ASSUME NEW i \in 1..Len(toClient'), NEW x, x = toClient'[i] PROVE FrameSound(x, cl)'
      BY <2>1, <3>2, <3>3
    <3> HIDE DEF Sound
    <3> QED BY <2>1, <3>3, <1>7, <1>u DEF FramesSound
  <2>2. CASE i \in 1..Len(toClient) /\ x = toClient[i]
    <3>1. /\ cl.receivedSnapNum < toClient[i].snapNum /\ toClient[i].snapNum <= sv.framenum
          /\ \A j \in 1..i-1 : toClient[j].snapNum < toClient[i].snapNum
          /\ FrameSound(toClient[i], cl)
      BY <2>2 DEF IInv, FramesSound
    <3>2. \A j \in 1..i-1 : toClient'[j] = toClient[j]
      BY <2>2, <1>16
    <3>3. toClient[i].snapNum <= f
      <4>1. toClient[i].snapNum \in Nat
        BY <1>0, <2>2, FrameFields
      <4> QED BY <3>1, <4>1, <1>f
    <3>4. ASSUME toClient[i].delta
          PROVE  toClient[i].deltaFrameNum \in damaged' => toClient[i].snapNum \in damaged'
      <4>1. toClient[i].deltaFrameNum # f
        <5>1. Has(toClient[i].deltaFrameNum, cl)
          BY <3>1, <3>4 DEF FrameSound
        <5>2. toClient[i].deltaFrameNum \in 1..cl.receivedSnapNum
          BY <5>1 DEF Has
        <5> QED BY <5>2, <1>f, <1>r
      <4> QED BY <4>1, <3>1, <3>4, <1>e DEF FrameSound
    <3>5. Sound(x)
      BY <2>2, <3>1, <3>4, <1>s DEF FrameSound
    <3> HIDE DEF Sound
    <3> QED BY <2>2, <3>1, <3>2, <3>3, <3>5
  <2>3. CASE /\ x = m
             /\ \A j \in 1..i-1 : j \in 1..Len(toClient) /\ toClient'[j] = toClient[j]
    <3>1. cl.receivedSnapNum < f /\ f <= f
      BY <1>f, <1>r
    <3>2. \A j \in 1..Len(toClient) : toClient[j].snapNum < f
      <4> SUFFICES ASSUME NEW j \in 1..Len(toClient) PROVE toClient[j].snapNum < f
        OBVIOUS
      <4>1. toClient[j].snapNum \in Nat
        BY <1>0, FrameFields
      <4>2. toClient[j].snapNum <= sv.framenum
        BY DEF IInv, FramesSound
      <4> QED BY <4>1, <4>2, <1>f
    <3>3. Sound(w)
      BY <1>15
    <3> HIDE DEF Sound
    <3> QED BY <2>3, <3>1, <3>2, <3>3, <1>14, <1>w
  <2> QED BY <2>1, <2>2, <2>3, <1>16
<1>20. AcksSound' /\ RequestsSound'
  BY <1>7, <1>u DEF IInv, AcksSound, AckSound, Has, RequestsSound
<1>21. WholeSound'
  <2> SUFFICES ASSUME Waiting
               PROVE  /\ sv'.nodelta
                      /\ sv'.nodeltaFrame # 0 =>
                            /\ cl.receivedSnapNum < sv'.nodeltaFrame
                            /\ \A k \in 1..Len(toClient') :
                                  toClient'[k].delta => toClient'[k].snapNum < sv'.nodeltaFrame
    BY <1>7, <1>u DEF WholeSound, Waiting
  <2>1. sv.nodelta
    BY DEF IInv, WholeSound
  <2>2. ASSUME q.nodelta, NEW k \in 1..Len(toClient'), toClient'[k].delta
        PROVE  k \in 1..Len(toClient) /\ toClient'[k] = toClient[k]
    <3>1. ~m.delta
      BY <1>14, <2>2 DEF IsDelta
    <3> QED BY <3>1, <2>2, <1>16
  <2>3. CASE sv.nodeltaFrame = 0
    <3>1. q.nodelta /\ q.nodeltaFrame = f
      BY <1>6, <2>1, <2>3
    <3>2. cl.receivedSnapNum < f
      BY <1>f, <1>r
    <3>3. \A k \in 1..Len(toClient) : toClient[k].snapNum < f
      <4> SUFFICES ASSUME NEW j \in 1..Len(toClient) PROVE toClient[j].snapNum < f
        OBVIOUS
      <4>1. toClient[j].snapNum \in Nat
        BY <1>0, FrameFields
      <4>2. toClient[j].snapNum <= sv.framenum
        BY DEF IInv, FramesSound
      <4> QED BY <4>1, <4>2, <1>f
    <3> QED BY <3>1, <3>2, <3>3, <2>2, <1>7
  <2>4. CASE sv.nodeltaFrame # 0
    <3>1. /\ cl.receivedSnapNum < sv.nodeltaFrame
          /\ \A k \in 1..Len(toClient) : toClient[k].delta => toClient[k].snapNum < sv.nodeltaFrame
      BY <2>4 DEF IInv, WholeSound
    <3>2. sv.lastframe < sv.nodeltaFrame
      BY <3>1, <1>t DEF IInv, AcksSound, AckSound, Has
    <3>3. q.nodelta /\ q.nodeltaFrame = sv.nodeltaFrame
      BY <1>6, <2>1, <2>4, <3>2
    <3> QED BY <3>1, <3>3, <2>2, <1>7
  <2> QED BY <2>3, <2>4
<1> QED BY <1>7, <1>9, <1>17, <1>18, <1>19, <1>20, <1>21, <1>d, <1>e, <1>u DEF IInv

LEMMA NoDeltaFields ==
    ASSUME NEW m \in MoveType, sv \in ServerType
    PROVE  /\ NoDelta(sv, m) \in ServerType
           /\ NoDelta(sv, m).framenum = sv.framenum
           /\ NoDelta(sv, m).snapShots = sv.snapShots
           /\ NoDelta(sv, m).nextEntities = sv.nextEntities
           /\ NoDelta(sv, m).requests = m.requests
           /\ NoDelta(sv, m).gameCommands = sv.gameCommands
           /\ NoDelta(sv, m).gameCommandCurrent = sv.gameCommandCurrent
           /\ NoDelta(sv, m).lastSentFrameNum = sv.lastSentFrameNum
           /\ m.requests = sv.requests => NoDelta(sv, m) = sv
           /\ m.requests # sv.requests =>
                 NoDelta(sv, m).nodelta = TRUE /\ NoDelta(sv, m).nodeltaFrame = 0
<1>1. CASE m.requests = sv.requests
  BY <1>1 DEF NoDelta
<1>2. CASE m.requests # sv.requests
  <2> DEFINE q == [sv EXCEPT !.requests = m.requests, !.nodelta = TRUE,
                             !.nodeltaFrame = 0, !.lastframe = -1]
  <2>1. NoDelta(sv, m) = q
    BY <1>2 DEF NoDelta
  <2>2. m.requests \in Nat
    BY DEF MoveType
  <2> DEFINE last == -1
  <2>l. last \in Int /\ q = [sv EXCEPT !.requests = m.requests, !.nodelta = TRUE,
                                      !.nodeltaFrame = 0, !.lastframe = last]
    OBVIOUS
  <2> HIDE DEF last
  <2>3. q \in ServerType
    <3> HIDE DEF q
    <3> QED BY <2>2, <2>l DEF ServerType
  <2>4. /\ q.framenum = sv.framenum /\ q.snapShots = sv.snapShots
        /\ q.nextEntities = sv.nextEntities /\ q.requests = m.requests
        /\ q.gameCommands = sv.gameCommands /\ q.gameCommandCurrent = sv.gameCommandCurrent
        /\ q.lastSentFrameNum = sv.lastSentFrameNum
        /\ q.nodelta = TRUE /\ q.nodeltaFrame = 0
    BY DEF ServerType
  <2> HIDE DEF q
  <2> QED BY <1>2, <2>1, <2>3, <2>4
<1> QED BY <1>1, <1>2

LEMMA TailMessages ==
    ASSUME NEW T, NEW s \in Seq(T), s # <<>>
    PROVE  /\ Head(s) \in T /\ Head(s) = s[1] /\ 1 \in 1..Len(s) /\ Tail(s) \in Seq(T)
           /\ \A k \in 1..Len(Tail(s)) : k + 1 \in 1..Len(s) /\ Tail(s)[k] = s[k + 1]
OBVIOUS

LEMMA ServerReadSound ==
    ASSUME IInv, ServerRead
    PROVE  IInv' /\ UNCHANGED <<sv.framenum, view, damaged>>
<1> DEFINE m == Head(toServer)
<1> DEFINE p == NoDelta(sv, m)
<1>1. /\ sv \in ServerType /\ toServer \in Seq(MoveType) /\ toServer # <<>> /\ Typed
      /\ sv' = [p EXCEPT !.lastframe = m.lastframe] /\ toServer' = Tail(toServer)
      /\ UNCHANGED <<entities, toClient, cl, view, damaged>>
  BY DEF IInv, Typed, ServerRead
<1>2. /\ m \in MoveType /\ m = toServer[1] /\ 1 \in 1..Len(toServer)
      /\ toServer' \in Seq(MoveType)
      /\ \A k \in 1..Len(toServer') :
            k + 1 \in 1..Len(toServer) /\ toServer'[k] = toServer[k + 1]
  BY <1>1, TailMessages
<1>3. m.lastframe \in Int
  BY <1>2 DEF MoveType
<1>4. /\ p \in ServerType /\ p.framenum = sv.framenum /\ p.snapShots = sv.snapShots
      /\ p.nextEntities = sv.nextEntities /\ p.requests = m.requests
      /\ m.requests = sv.requests => p = sv
      /\ m.requests # sv.requests => p.nodelta = TRUE /\ p.nodeltaFrame = 0
  BY <1>1, <1>2, NoDeltaFields
<1> HIDE DEF p, m
<1>5. /\ sv' \in ServerType /\ sv'.framenum = sv.framenum /\ sv'.snapShots = sv.snapShots
      /\ sv'.nextEntities = sv.nextEntities /\ sv'.requests = m.requests
      /\ sv'.lastframe = m.lastframe
      /\ sv'.nodelta = p.nodelta /\ sv'.nodeltaFrame = p.nodeltaFrame
  BY <1>1, <1>3, <1>4 DEF ServerType
<1>6. Typed'
  BY <1>1, <1>2, <1>5 DEF Typed
<1>7. EntitiesSound'
  BY <1>1, <1>5, EntitiesKept
<1>8. ClientSound' /\ FramesSound'
  BY <1>1, <1>5 DEF IInv, ClientSound, FramesSound, FrameSound, Has, DecodedIn, Right,
                      Showing
<1>9. AcksSound'
  <2>1. \A k \in 1..Len(toServer) : AckSound(toServer[k].lastframe)
    BY DEF IInv, AcksSound
  <2>2. \A b : AckSound(b) => AckSound(b)'
    BY <1>1 DEF AckSound, Has
  <2>3. ASSUME NEW k \in 1..Len(toServer')
        PROVE  toServer'[k].lastframe = -1 \/ Has(toServer'[k].lastframe, cl)
    BY <2>1, <1>2 DEF AckSound
  <2>4. m.lastframe = -1 \/ Has(m.lastframe, cl)
    BY <2>1, <1>2 DEF AckSound
  <2> QED BY <2>3, <2>4, <1>1, <1>5 DEF AcksSound, AckSound, Has
<1>10. RequestsSound'
  BY <1>1, <1>2, <1>5 DEF IInv, RequestsSound
<1>11. WholeSound'
  <2>1. CASE m.requests = sv.requests
    BY <2>1, <1>1, <1>4, <1>5 DEF IInv, WholeSound, Waiting
  <2>2. CASE m.requests # sv.requests
    BY <2>2, <1>4, <1>5 DEF WholeSound
  <2> QED BY <2>1, <2>2
<1> QED BY <1>1, <1>5, <1>6, <1>7, <1>8, <1>9, <1>10, <1>11 DEF IInv

(***************************************************************************)
(* The client.                                                             *)
(***************************************************************************)

\* The frame that a delta is of is in the ring, and not in the slot of the new frame.
LEMMA ReadIsDecoded ==
    ASSUME IInv, NEW m \in FrameType, FrameSound(m, cl), cl.receivedSnapNum < m.snapNum
    PROVE  IsValid(m) /\ Right(Decoded(m), m.snapNum, m.snapNum)
<1>1. CASE ~m.delta
  BY <1>1 DEF IsValid, Decoded, Right
<1>2. CASE m.delta
  <2> DEFINE b == m.deltaFrameNum
  <2> DEFINE f == m.snapNum
  <2>1. cl \in ClientType /\ DecodedIn(cl.snapShots, cl.receivedSnapNum)
    BY DEF IInv, Typed, ClientSound
  <2>2. cl.receivedSnapNum \in Nat /\ cl.snapShots \in [Slot -> SnapshotType] /\ f \in Nat
    BY <2>1, ClientFields DEF FrameType
  <2>3. /\ Has(b, cl) /\ f < b + UpdateBackup
        /\ Right(m.from, b, f) /\ (b \in damaged => f \in damaged)
    BY <1>2 DEF FrameSound
  <2> DEFINE r == cl.receivedSnapNum
  <2>4. b \in Nat /\ b > 0 /\ b <= r /\ r < f
    BY <2>2, <2>3 DEF Has
  <2> HIDE DEF b, f
  <2>5. b < f /\ f - b < UpdateBackup /\ r < b + UpdateBackup
    BY <2>2, <2>3, <2>4
  <2>6. b % UpdateBackup # f % UpdateBackup
    BY <2>2, <2>4, <2>5, ModDiffers
  <2>7. b % UpdateBackup \in Slot
    BY <2>4, SlotOf
  <2>8. Base(m) = cl.snapShots[b % UpdateBackup]
    BY <2>2, <2>6, <2>7 DEF Base, Cleared, b, f
  <2>9. cl.snapShots[b % UpdateBackup].serverFrame = b
    BY <2>3, <2>5 DEF Has
  <2>10. Base(m).serverFrame = b /\ Base(m).valid /\ Right(Base(m).contents, b, b)
    BY <2>1, <2>4, <2>7, <2>8, <2>9 DEF DecodedIn
  <2>11. b # Garbage
    BY <2>4 DEF Garbage
  <2>12. IsValid(m)
    BY <2>4, <2>10 DEF IsValid, b
  <2>13. CASE f \in damaged
    BY <2>12, <2>13 DEF Decoded, Right, f
  <2>14. CASE f \notin damaged
    <3>1. m.from = b /\ Base(m).contents = b
      BY <2>3, <2>10, <2>14 DEF Right
    <3> QED BY <3>1, <2>11, <2>12 DEF Decoded, Right, f
  <2> QED BY <2>12, <2>13, <2>14 DEF f
<1> QED BY <1>1, <1>2

\* No frame is lost from the ring before the one that takes its slot is received.
LEMMA HasKept ==
    ASSUME NEW b, NEW c, NEW d, NEW f \in Nat, NEW new,
           c.receivedSnapNum \in Nat, c.receivedSnapNum < f, d.receivedSnapNum = f,
           c.snapShots \in [Slot -> SnapshotType],
           d.snapShots = [c.snapShots EXCEPT ![f % UpdateBackup] = new],
           Has(b, c)
    PROVE  Has(b, d)
<1>1. b \in Nat /\ b \in 1..c.receivedSnapNum /\ b < f
  BY DEF Has
<1>2. b \in 1..d.receivedSnapNum
  BY <1>1
<1>3. ASSUME f < b + UpdateBackup
      PROVE  d.snapShots[b % UpdateBackup].serverFrame = b
  <2>1. f - b < UpdateBackup /\ c.receivedSnapNum < b + UpdateBackup
    BY <1>1, <1>3
  <2>2. c.snapShots[b % UpdateBackup].serverFrame = b
    BY <2>1 DEF Has
  <2>3. b % UpdateBackup # f % UpdateBackup
    BY <1>1, <2>1, ModDiffers
  <2>4. b % UpdateBackup \in Slot
    BY <1>1, SlotOf
  <2> QED BY <2>2, <2>3, <2>4
<1> QED BY <1>2, <1>3 DEF Has

LEMMA ClientReadSound == ASSUME IInv, ClientRead PROVE IInv'
<1> DEFINE m == Head(toClient)
<1> DEFINE f == m.snapNum
<1> DEFINE new == [serverFrame |-> f, valid |-> IsValid(m), contents |-> Decoded(m),
                   commands |-> {c.id : c \in Handled(m)}]
<1> DEFINE snaps == [Cleared(m) EXCEPT ![f % UpdateBackup] = new]
<1> DEFINE waits == cl.waiting /\ (~IsValid(m) \/ m.delta)
<1>1. /\ sv \in ServerType /\ cl \in ClientType /\ toClient \in Seq(FrameType) /\ toClient # <<>>
      /\ Typed
      /\ toClient' = Tail(toClient)
      /\ cl' = [cl EXCEPT !.snapShots = snaps,
                          !.receivedSnapNum = IF IsValid(m) THEN f ELSE @, !.waiting = waits]
      /\ UNCHANGED <<sv, entities, toServer, view, damaged>>
  BY DEF IInv, Typed, ClientRead, ClientType
<1>2. /\ m \in FrameType /\ m = toClient[1] /\ 1 \in 1..Len(toClient)
      /\ toClient' \in Seq(FrameType)
      /\ \A k \in 1..Len(toClient') :
            k + 1 \in 1..Len(toClient) /\ toClient'[k] = toClient[k + 1]
  BY <1>1, TailMessages
<1>3. cl.receivedSnapNum < f /\ f <= sv.framenum /\ FrameSound(m, cl)
  BY <1>2 DEF IInv, FramesSound
<1>4. IsValid(m) /\ Right(Decoded(m), f, f)
  BY <1>2, <1>3, ReadIsDecoded
<1>5. f \in Nat /\ m.commands \in SUBSET GameCommand
  BY <1>2 DEF FrameType
<1>6. /\ cl.snapShots \in [Slot -> SnapshotType] /\ cl.receivedSnapNum \in Nat
      /\ cl.pendingSnapNum \in Nat /\ cl.currentSnapNum \in Nat /\ f % UpdateBackup \in Slot
      /\ sv.framenum \in Nat
  BY <1>1, <1>5, ClientFields, ServerFields, SlotOf
<1>7. snaps = [cl.snapShots EXCEPT ![f % UpdateBackup] = new]
  BY <1>6 DEF Cleared
<1>8. new.serverFrame = f /\ new.valid /\ Right(new.contents, f, f)
  BY <1>4
<1>9. new \in SnapshotType
  <2>1. {c.id : c \in Handled(m)} \in SUBSET Nat
    <3>1. Handled(m) \subseteq GameCommand
      BY <1>5 DEF Handled
    <3> QED BY <3>1 DEF GameCommand
  <2>2. IsValid(m) \in BOOLEAN
    BY DEF IsValid
  <2>3. Decoded(m) \in Int
    BY <1>4, <1>5 DEF Right, Garbage
  <2> HIDE DEF f
  <2> QED BY <2>1, <2>2, <2>3, <1>5 DEF SnapshotType
<1>10. waits \in BOOLEAN /\ (waits <=> cl.waiting /\ m.delta)
  <2>1. cl.waiting \in BOOLEAN
    BY <1>1 DEF ClientType
  <2> QED BY <2>1, <1>4
<1> HIDE DEF new
<1>11. snaps \in [Slot -> SnapshotType]
  BY <1>6, <1>7, <1>9
<1> HIDE DEF waits, snaps, f, m
<1>12. cl' = [cl EXCEPT !.snapShots = snaps, !.receivedSnapNum = f, !.waiting = waits]
  BY <1>1, <1>4
<1>13. /\ cl' \in ClientType /\ cl'.snapShots = snaps /\ cl'.receivedSnapNum = f
       /\ cl'.pendingSnapNum = cl.pendingSnapNum /\ cl'.currentSnapNum = cl.currentSnapNum
       /\ cl'.requests = cl.requests /\ (cl'.waiting <=> cl.waiting /\ m.delta)
  BY <1>1, <1>5, <1>10, <1>11, <1>12 DEF ClientType
<1>14. \A b : Has(b, cl) => Has(b, cl')
  <2> SUFFICES ASSUME NEW b, Has(b, cl) PROVE Has(b, cl')
    OBVIOUS
  <2>1. f \in Nat /\ cl.receivedSnapNum \in Nat /\ cl.receivedSnapNum < f
    BY <1>3, <1>5, <1>6
  <2>2. /\ cl.snapShots \in [Slot -> SnapshotType] /\ cl'.receivedSnapNum = f
        /\ cl'.snapShots = [cl.snapShots EXCEPT ![f % UpdateBackup] = new]
    BY <1>6, <1>7, <1>13
  <2> QED BY <2>1, <2>2, HasKept
<1>r. \A c, b, n : Right(c, b, n)' <=> Right(c, b, n)
  BY <1>1 DEF Right
<1>15. Typed'
  BY <1>1, <1>2, <1>13 DEF Typed
<1>16. EntitiesSound'
  BY <1>1, EntitiesKept
<1>17. ClientSound'
  <2>0. /\ cl.currentSnapNum <= cl.receivedSnapNum
        /\ cl.pendingSnapNum # 0 =>
              /\ cl.pendingSnapNum \in cl.currentSnapNum+1..cl.receivedSnapNum
              /\ cl.snapShots[cl.pendingSnapNum % UpdateBackup].serverFrame >= cl.pendingSnapNum
              /\ view.num <= cl.pendingSnapNum
        /\ view.num <= cl.receivedSnapNum /\ Right(view.contents, view.num, view.num)
        /\ DecodedIn(cl.snapShots, cl.receivedSnapNum) /\ Showing(cl.snapShots, view)
    BY DEF IInv, ClientSound
  <2>1. DecodedIn(snaps, f)
    <3> SUFFICES ASSUME NEW s \in Slot, snaps[s].serverFrame # 0
                 PROVE  /\ snaps[s].valid
                        /\ Right(snaps[s].contents, snaps[s].serverFrame, snaps[s].serverFrame)
                        /\ snaps[s].serverFrame <= f
                        /\ snaps[s].serverFrame % UpdateBackup = s
      BY DEF DecodedIn
    <3>1. CASE s = f % UpdateBackup
      BY <3>1, <1>5, <1>6, <1>7, <1>8
    <3>2. CASE s # f % UpdateBackup
      <4>1. snaps[s] = cl.snapShots[s]
        BY <3>2, <1>6, <1>7
      <4>2. cl.snapShots[s].serverFrame \in Nat
        BY <1>1, ClientFields
      <4>3. /\ snaps[s].valid
            /\ Right(snaps[s].contents, snaps[s].serverFrame, snaps[s].serverFrame)
            /\ snaps[s].serverFrame <= cl.receivedSnapNum
            /\ snaps[s].serverFrame % UpdateBackup = s
        BY <4>1, <2>0 DEF DecodedIn
      <4> QED BY <4>1, <4>2, <4>3, <1>3, <1>5, <1>6
    <3> QED BY <3>1, <3>2
  <2>2. Has(f, cl')
    <3>1. f \in 1..f
      BY <1>3, <1>5, <1>6
    <3>2. snaps[f % UpdateBackup].serverFrame = f
      BY <1>6, <1>7, <1>8
    <3> QED BY <3>1, <3>2, <1>13 DEF Has
  <2>3. cl.currentSnapNum <= f
    BY <2>0, <1>3, <1>5, <1>6
  <2>4. ASSUME cl.pendingSnapNum # 0
        PROVE  /\ cl.pendingSnapNum \in cl.currentSnapNum+1..f
               /\ snaps[cl.pendingSnapNum % UpdateBackup].serverFrame >= cl.pendingSnapNum
               /\ view.num <= cl.pendingSnapNum
    <3>1. cl.pendingSnapNum \in cl.currentSnapNum+1..f /\ view.num <= cl.pendingSnapNum
          /\ cl.pendingSnapNum <= f
      BY <2>0, <2>4, <1>3, <1>5, <1>6
    <3>2. cl.pendingSnapNum % UpdateBackup \in Slot
      BY <1>6, SlotOf
    <3>3. CASE cl.pendingSnapNum % UpdateBackup = f % UpdateBackup
      BY <3>1, <3>3, <1>5, <1>6, <1>7, <1>8
    <3>4. CASE cl.pendingSnapNum % UpdateBackup # f % UpdateBackup
      <4>1. snaps[cl.pendingSnapNum % UpdateBackup] = cl.snapShots[cl.pendingSnapNum % UpdateBackup]
        BY <3>2, <3>4, <1>6, <1>7
      <4> QED BY <3>1, <4>1, <2>0, <2>4
    <3> QED BY <3>3, <3>4
  <2>5. view.num <= f
    <3>1. view.num \in Nat
      BY <1>1 DEF Typed
    <3> QED BY <3>1, <2>0, <1>3, <1>5, <1>6
  <2>6. DecodedIn(cl.snapShots, cl.receivedSnapNum)'
    BY <2>1, <1>r, <1>13 DEF DecodedIn
  <2>7. Right(view.contents, view.num, view.num)'
    BY <2>0, <1>r, <1>1
  <2>8. Showing(snaps, view)
    <3> SUFFICES ASSUME view.num # 0, NEW s \in Slot, snaps[s].serverFrame = view.num
                 PROVE  snaps[s].contents = view.contents
      BY DEF Showing
    <3>1. view.num # f
      <4>1. view.num \in Nat
        BY <1>1 DEF Typed
      <4> QED BY <4>1, <2>0, <1>3, <1>5, <1>6
    <3>2. snaps[s] = cl.snapShots[s]
      BY <3>1, <1>6, <1>7, <1>8
    <3> QED BY <3>2, <2>0 DEF Showing
  <2>9. Showing(cl.snapShots, view)'
    BY <2>8, <1>1, <1>13 DEF Showing
  <2> QED BY <2>0, <2>2, <2>3, <2>4, <2>5, <2>6, <2>7, <2>9, <1>1, <1>3, <1>13 DEF ClientSound
<1>18. FramesSound'
  <2> SUFFICES ASSUME NEW k \in 1..Len(toClient')
               PROVE  /\ f < toClient'[k].snapNum /\ toClient'[k].snapNum <= sv.framenum
                      /\ \A j \in 1..k-1 : toClient'[j].snapNum < toClient'[k].snapNum
                      /\ FrameSound(toClient'[k], cl')
    BY <1>1, <1>13 DEF FramesSound, FrameSound, Has, Right
  <2>1. k + 1 \in 1..Len(toClient) /\ toClient'[k] = toClient[k + 1] /\ k \in Nat
    BY <1>2
  <2>2. /\ toClient[k + 1].snapNum <= sv.framenum
        /\ \A j \in 1..k : toClient[j].snapNum < toClient[k + 1].snapNum
        /\ FrameSound(toClient[k + 1], cl)
    BY <2>1 DEF IInv, FramesSound
  <2>3. f < toClient[k + 1].snapNum
    BY <2>1, <2>2, <1>2 DEF f
  <2>4. ASSUME NEW j \in 1..k-1
        PROVE  toClient'[j].snapNum < toClient'[k].snapNum
    <3>1. j \in 1..Len(toClient') /\ j + 1 \in 1..k
      BY <2>1
    <3> QED BY <3>1, <2>1, <2>2, <1>2
  <2>5. FrameSound(toClient[k + 1], cl')
    BY <2>2, <1>14 DEF FrameSound
  <2> QED BY <2>1, <2>2, <2>3, <2>4, <2>5
<1>19. AcksSound'
  <2>1. \A b : AckSound(b) => b = -1 \/ Has(b, cl')
    BY <1>14 DEF AckSound
  <2> QED BY <2>1, <1>1 DEF IInv, AcksSound, AckSound, Has
<1>20. RequestsSound'
  BY <1>1, <1>13 DEF IInv, RequestsSound
<1>21. WholeSound'
  <2> SUFFICES ASSUME cl.waiting, m.delta, cl.requests = sv.requests
               PROVE  /\ sv.nodelta
                      /\ sv.nodeltaFrame # 0 =>
                            /\ f < sv.nodeltaFrame
                            /\ \A k \in 1..Len(toClient') :
                                  toClient'[k].delta => toClient'[k].snapNum < sv.nodeltaFrame
    BY <1>1, <1>13 DEF WholeSound, Waiting
  <2>1. /\ sv.nodelta
        /\ sv.nodeltaFrame # 0 =>
              \A k \in 1..Len(toClient) :
                    toClient[k].delta => toClient[k].snapNum < sv.nodeltaFrame
    BY DEF IInv, WholeSound, Waiting
  <2>2. sv.nodeltaFrame # 0 => f < sv.nodeltaFrame
    BY <2>1, <1>2 DEF f
  <2> QED BY <2>1, <2>2, <1>2
<1> QED BY <1>15, <1>16, <1>17, <1>18, <1>19, <1>20, <1>21 DEF IInv

\* The frame that is pending has been received, and its slot holds it or a newer one; it is
\* not older than the one shown.
LEMMA PendingSound ==
    ASSUME IInv
    PROVE  /\ Pending \in Nat
           /\ Pending # 0 =>
                 /\ Pending \in cl.currentSnapNum+1..cl.receivedSnapNum
                 /\ cl.snapShots[Pending % UpdateBackup].serverFrame >= Pending
                 /\ view.num <= Pending
<1> DEFINE r == cl.receivedSnapNum
<1>0. cl \in ClientType
  BY DEF IInv, Typed
<1>1. /\ DecodedIn(cl.snapShots, r)
      /\ r # 0 => Has(r, cl)
      /\ view.num <= r /\ view.num \in Nat
  BY DEF IInv, Typed, ClientSound
<1>2. r \in Nat /\ cl.pendingSnapNum \in Nat /\ cl.currentSnapNum \in Nat
  BY <1>0, ClientFields
<1>3. CASE cl.pendingSnapNum # 0
  <2>1. Pending = cl.pendingSnapNum
    BY <1>3 DEF Pending
  <2> QED BY <2>1, <1>2, <1>3 DEF IInv, ClientSound
<1>4. CASE cl.pendingSnapNum = 0 /\ Candidates = {}
  BY <1>4 DEF Pending
<1>5. CASE cl.pendingSnapNum = 0 /\ Candidates # {}
  <2>1. \A i \in Candidates : i \in cl.currentSnapNum+1..r
    BY DEF Candidates
  <2>2. r \in cl.currentSnapNum+1..r /\ r # 0
    BY <2>1, <1>2, <1>5
  <2>3. cl.snapShots[r % UpdateBackup].serverFrame = r
    <3>1. r < r + UpdateBackup /\ Has(r, cl)
      BY <2>2, <1>1, <1>2
    <3> QED BY <3>1 DEF Has
  <2>4. r % UpdateBackup \in Slot
    BY <1>2, SlotOf
  <2>5. cl.snapShots[r % UpdateBackup].valid
    <3>1. cl.snapShots[r % UpdateBackup].serverFrame # 0
      BY <2>2, <2>3
    <3>2. DecodedIn(cl.snapShots, r)
      BY <1>1
    <3> HIDE DEF r
    <3> QED BY <2>4, <3>1, <3>2 DEF DecodedIn
  <2>6. r \in Candidates
    BY <2>2, <2>3, <2>5, <1>2 DEF Candidates
  <2>7. Max(Candidates) = r
    <3>1. \A y \in Candidates : r >= y /\ y \in Int
      BY <2>1, <1>2
    <3>2. Max(Candidates) = CHOOSE x \in Candidates : \A y \in Candidates : x >= y
      BY DEF Max
    <3> DEFINE x == CHOOSE x \in Candidates : \A y \in Candidates : x >= y
    <3>3. x \in Candidates /\ \A y \in Candidates : x >= y
      BY <2>6, <3>1
    <3> HIDE DEF x
    <3>4. x >= r /\ r >= x /\ x \in Int
      BY <2>6, <3>1, <3>3
    <3>5. x = r
      BY <3>4, <1>2
    <3> QED BY <3>2, <3>5 DEF x
  <2>8. Pending = r
    BY <2>3, <2>7, <1>5 DEF Pending
  <2> HIDE DEF r
  <2>9. cl.snapShots[r % UpdateBackup].serverFrame >= r
    BY <2>3, <1>2
  <2> QED BY <2>2, <2>8, <2>9, <1>1, <1>2 DEF r
<1> QED BY <1>3, <1>4, <1>5

\* What the client shows when it fires the pending frame is what it finds in its slot.
LEMMA FiredSound ==
    ASSUME IInv, Pending # 0
    PROVE  LET snap == cl.snapShots[Pending % UpdateBackup]
           IN  /\ snap.valid /\ Right(snap.contents, snap.serverFrame, snap.serverFrame)
               /\ snap.serverFrame \in Nat
               /\ snap.serverFrame <= cl.receivedSnapNum /\ snap.serverFrame >= view.num
               /\ Showing(cl.snapShots, [num |-> snap.serverFrame, contents |-> snap.contents])
               /\ snap.serverFrame = view.num => snap.contents = view.contents
<1> DEFINE snap == cl.snapShots[Pending % UpdateBackup]
<1>1. /\ Pending \in Nat /\ snap.serverFrame >= Pending /\ view.num <= Pending
  BY PendingSound
<1>2. cl \in ClientType /\ DecodedIn(cl.snapShots, cl.receivedSnapNum) /\ view.num \in Nat
  BY DEF IInv, Typed, ClientSound
<1>3. Pending % UpdateBackup \in Slot
  BY <1>1, SlotOf
<1>4. snap.serverFrame \in Nat
  BY <1>2, <1>3, ClientFields
<1>5. snap.serverFrame # 0 /\ snap.serverFrame >= view.num
  BY <1>1, <1>2, <1>4
<1>6. /\ snap.valid /\ Right(snap.contents, snap.serverFrame, snap.serverFrame)
      /\ snap.serverFrame <= cl.receivedSnapNum /\ snap.serverFrame % UpdateBackup = Pending % UpdateBackup
  BY <1>2, <1>3, <1>5 DEF DecodedIn
<1>7. ASSUME NEW s \in Slot, cl.snapShots[s].serverFrame = snap.serverFrame
      PROVE  cl.snapShots[s].contents = snap.contents
  <2>1. s = snap.serverFrame % UpdateBackup
    BY <1>2, <1>5, <1>7 DEF DecodedIn
  <2> QED BY <2>1, <1>6
<1>8. Showing(cl.snapShots, [num |-> snap.serverFrame, contents |-> snap.contents])
  BY <1>7 DEF Showing
<1>9. snap.serverFrame = view.num => snap.contents = view.contents
  BY <1>3, <1>5 DEF IInv, ClientSound, Showing
<1> QED BY <1>4, <1>5, <1>6, <1>8, <1>9

LEMMA ClientFrameSound ==
    ASSUME IInv, NEW timeReached \in BOOLEAN, ClientFrame(timeReached)
    PROVE  IInv'
<1> DEFINE snap == cl.snapShots[Pending % UpdateBackup]
<1> DEFINE fires == Pending # 0 /\ timeReached
<1> DEFINE move == [lastframe |-> Acknowledgement, requests |-> cl.requests]
<1>1. /\ cl \in ClientType /\ toServer \in Seq(MoveType) /\ Typed
      /\ UNCHANGED toServer \/ toServer' = Append(toServer, move)
      /\ cl' = IF fires /\ snap.valid THEN Fired ELSE NotFired
      /\ view' = IF fires THEN [num |-> snap.serverFrame, contents |-> snap.contents] ELSE view
      /\ UNCHANGED <<sv, entities, toClient, damaged>>
  BY DEF IInv, Typed, ClientFrame
<1>2. /\ cl.receivedSnapNum \in Nat /\ cl.requests \in Nat /\ cl.currentSnapNum \in Nat
      /\ Pending \in Nat
  BY <1>1, ClientFields, PendingSound
<1>3. /\ Pending # 0 =>
            /\ Pending \in cl.currentSnapNum+1..cl.receivedSnapNum
            /\ snap.serverFrame >= Pending /\ view.num <= Pending
  BY PendingSound
<1>4. Pending # 0 =>
         /\ snap.valid /\ Right(snap.contents, snap.serverFrame, snap.serverFrame)
         /\ snap.serverFrame \in Nat
         /\ snap.serverFrame <= cl.receivedSnapNum
  BY FiredSound
<1>5. /\ cl' \in ClientType /\ cl'.snapShots = cl.snapShots
      /\ cl'.receivedSnapNum = cl.receivedSnapNum
      /\ cl'.requests = cl.requests /\ cl'.waiting = cl.waiting
      /\ fires => /\ cl'.currentSnapNum = Pending /\ cl'.pendingSnapNum = 0
                  /\ view'.num = snap.serverFrame /\ view'.contents = snap.contents
      /\ ~fires => /\ cl'.currentSnapNum = cl.currentSnapNum /\ cl'.pendingSnapNum = Pending
                   /\ view' = view
  <2>1. CASE fires
    <3>1. cl' = [cl EXCEPT !.currentSnapNum = Pending, !.pendingSnapNum = 0]
      BY <2>1, <1>1, <1>4 DEF Fired
    <3>2. view' = [num |-> snap.serverFrame, contents |-> snap.contents]
      BY <2>1, <1>1
    <3>3. view'.num = snap.serverFrame /\ view'.contents = snap.contents
      BY <3>2
    <3> HIDE DEF snap
    <3>4. cl' \in ClientType
      <4>1. cl \in ClientType /\ Pending \in Nat
        BY <1>1, <1>2
      <4> QED BY <4>1, <3>1 DEF ClientType
    <3>5. /\ cl'.snapShots = cl.snapShots /\ cl'.receivedSnapNum = cl.receivedSnapNum
          /\ cl'.requests = cl.requests /\ cl'.waiting = cl.waiting
          /\ cl'.currentSnapNum = Pending /\ cl'.pendingSnapNum = 0
      BY <3>1, <1>1 DEF ClientType
    <3> HIDE DEF fires
    <3> QED BY <2>1, <3>3, <3>4, <3>5
  <2>2. CASE ~fires
    <3>1. cl' = [cl EXCEPT !.pendingSnapNum = Pending] /\ view' = view
      BY <2>2, <1>1 DEF NotFired
    <3> QED BY <2>2, <3>1, <1>1, <1>2 DEF ClientType
  <2> QED BY <2>1, <2>2
<1>6. view' \in [num : Nat, contents : Int]
  BY <1>1, <1>4 DEF Typed, Right, Garbage
<1>7. AckSound(Acknowledgement) /\ Acknowledgement \in Int
  <2>1. CASE cl.receivedSnapNum <= 0
    BY <2>1 DEF AckSound, Acknowledgement
  <2>2. CASE ~(cl.receivedSnapNum <= 0)
    <3>1. Has(cl.receivedSnapNum, cl)
      BY <2>2, <1>2 DEF IInv, ClientSound
    <3>2. cl.snapShots[cl.receivedSnapNum % UpdateBackup].serverFrame = cl.receivedSnapNum
      BY <3>1, <1>2 DEF Has
    <3>3. Acknowledgement = cl.receivedSnapNum
      BY <2>2, <3>2 DEF Acknowledgement
    <3> QED BY <3>1, <3>3, <1>2 DEF AckSound
  <2> QED BY <2>1, <2>2
<1>8. move \in MoveType /\ move.lastframe = Acknowledgement /\ move.requests = cl.requests
  BY <1>2, <1>7 DEF MoveType
<1> HIDE DEF move
<1>9. /\ toServer' \in Seq(MoveType)
      /\ \A k \in 1..Len(toServer') :
            (k \in 1..Len(toServer) /\ toServer'[k] = toServer[k]) \/ toServer'[k] = move
  <2>1. CASE UNCHANGED toServer
    BY <2>1, <1>1
  <2>2. CASE toServer' = Append(toServer, move)
    BY <2>2, <1>1, <1>8
  <2> QED BY <1>1, <2>1, <2>2
<1> HIDE DEF fires, snap
<1>10. Typed'
  BY <1>1, <1>5, <1>6, <1>9 DEF Typed
<1>11. EntitiesSound'
  <2>1. UNCHANGED <<sv, entities>>
    BY <1>1
  <2> QED BY <2>1, EntitiesKept
<1>13. ClientSound'
  <2>1. /\ cl.receivedSnapNum <= sv.framenum
        /\ DecodedIn(cl.snapShots, cl.receivedSnapNum)
        /\ cl.receivedSnapNum # 0 => Has(cl.receivedSnapNum, cl)
        /\ cl.currentSnapNum <= cl.receivedSnapNum
        /\ view.num <= cl.receivedSnapNum /\ Right(view.contents, view.num, view.num)
    BY DEF IInv, ClientSound
  <2>2. cl.receivedSnapNum # 0 => Has(cl.receivedSnapNum, cl')
    BY <2>1, <1>5 DEF Has
  <2>5. \A c, b, n : Right(c, b, n)' <=> Right(c, b, n)
    BY <1>1 DEF Right
  <2>6. DecodedIn(cl.snapShots, cl.receivedSnapNum)'
    BY <2>1, <2>5, <1>5 DEF DecodedIn
  <2>7. Showing(cl.snapShots, view)'
    <3>1. Showing(cl.snapShots, view)
      BY DEF IInv, ClientSound
    <3>2. fires => Showing(cl.snapShots, [num |-> snap.serverFrame, contents |-> snap.contents])
      BY FiredSound DEF fires, snap
    <3> QED BY <3>1, <3>2, <1>1, <1>5 DEF Showing
  <2>3. CASE fires
    <3>1. Pending # 0
      BY <2>3 DEF fires
    <3>2. cl'.currentSnapNum <= cl'.receivedSnapNum
      BY <2>3, <3>1, <1>2, <1>3, <1>5
    <3>3. view'.num <= cl'.receivedSnapNum /\ Right(view'.contents, view'.num, view'.num)
      BY <2>3, <3>1, <1>4, <1>5
    <3> QED BY <2>1, <2>2, <2>3, <2>5, <2>6, <2>7, <3>2, <3>3, <1>1, <1>5 DEF ClientSound
  <2>4. CASE ~fires
    <3>1. /\ cl'.pendingSnapNum # 0 =>
                /\ cl'.pendingSnapNum \in cl'.currentSnapNum+1..cl'.receivedSnapNum
                /\ cl'.snapShots[cl'.pendingSnapNum % UpdateBackup].serverFrame >= cl'.pendingSnapNum
                /\ view'.num <= cl'.pendingSnapNum
      BY <2>4, <1>3, <1>5 DEF snap
    <3> QED BY <2>1, <2>2, <2>4, <2>5, <2>6, <2>7, <3>1, <1>1, <1>5 DEF ClientSound
  <2> QED BY <2>3, <2>4
<1>14. FramesSound'
  BY <1>1, <1>5 DEF IInv, FramesSound, FrameSound, Has, Right
<1>15. AcksSound'
  <2> SUFFICES /\ sv.lastframe = -1 \/ Has(sv.lastframe, cl)
               /\ \A k \in 1..Len(toServer') :
                     toServer'[k].lastframe = -1 \/ Has(toServer'[k].lastframe, cl)
    BY <1>1, <1>5 DEF AcksSound, AckSound, Has
  <2> QED BY <1>7, <1>8, <1>9 DEF IInv, AcksSound, AckSound
<1>16. RequestsSound'
  <2>1. \A k \in 1..Len(toServer') : toServer'[k].requests <= cl.requests
    <3>1. cl.requests <= cl.requests
      BY <1>2
    <3> QED BY <3>1, <1>8, <1>9 DEF IInv, RequestsSound
  <2> QED BY <2>1, <1>1, <1>5 DEF IInv, RequestsSound
<1>17. WholeSound'
  BY <1>1, <1>5 DEF IInv, WholeSound, Waiting
<1> QED BY <1>10, <1>11, <1>13, <1>14, <1>15, <1>16, <1>17 DEF IInv

LEMMA ClientRequestSound == ASSUME IInv, ClientRequest PROVE IInv'
<1> DEFINE n == cl.requests + 1
<1>1. /\ sv \in ServerType /\ cl \in ClientType /\ toServer \in Seq(MoveType) /\ Typed
      /\ cl' = [cl EXCEPT !.requests = n, !.waiting = TRUE]
      /\ UNCHANGED <<sv, entities, toClient, toServer, view, damaged>>
  BY DEF IInv, Typed, ClientRequest, ClientType
<1>2. n \in Nat /\ cl.requests \in Nat /\ cl.requests < n
  BY <1>1, ClientFields
<1> HIDE DEF n
<1>3. /\ cl' \in ClientType /\ cl'.snapShots = cl.snapShots
      /\ cl'.receivedSnapNum = cl.receivedSnapNum /\ cl'.pendingSnapNum = cl.pendingSnapNum
      /\ cl'.currentSnapNum = cl.currentSnapNum /\ cl'.requests = n
  BY <1>1, <1>2 DEF ClientType
<1>4. Typed'
  BY <1>1, <1>3 DEF Typed
<1>5. EntitiesSound'
  BY <1>1, EntitiesKept
<1>6. ClientSound' /\ FramesSound' /\ AcksSound'
  BY <1>1, <1>3, ClientKept
<1>7. sv.requests \in Nat /\ sv.requests <= cl.requests
  BY <1>1, ServerFields DEF IInv, RequestsSound
<1>8. RequestsSound'
  <2>1. sv.requests <= n
    BY <1>2, <1>7
  <2>2. ASSUME NEW k \in 1..Len(toServer)
        PROVE  toServer[k].requests <= n
    <3>1. toServer[k] \in MoveType
      BY <1>1
    <3>2. toServer[k].requests \in Nat
      BY <3>1 DEF MoveType
    <3>3. toServer[k].requests <= cl.requests
      BY DEF IInv, RequestsSound
    <3> QED BY <3>2, <3>3, <1>2
  <2> QED BY <2>1, <2>2, <1>1, <1>3 DEF RequestsSound
<1>9. WholeSound'
  <2>1. n # sv.requests
    BY <1>2, <1>7
  <2> QED BY <2>1, <1>1, <1>3 DEF WholeSound, Waiting
<1> QED BY <1>4, <1>5, <1>6, <1>8, <1>9 DEF IInv

LEMMA UnchangedSound == ASSUME IInv, UNCHANGED vars PROVE IInv'
<1>1. UNCHANGED <<sv, entities, toClient, toServer, cl, view, damaged>>
  BY DEF vars
<1>2. Typed'
  BY <1>1 DEF IInv, Typed
<1>3. EntitiesSound' /\ ClientSound' /\ FramesSound' /\ AcksSound'
  BY <1>1, EntitiesKept, ClientKept
<1>4. RequestsSound' /\ WholeSound'
  BY <1>1 DEF IInv, RequestsSound, WholeSound, Waiting
<1> QED BY <1>2, <1>3, <1>4 DEF IInv

LEMMA NextSound == ASSUME IInv, [Next]_vars PROVE IInv'
<1>1. CASE AddGameCommand
  BY <1>1, AddGameCommandSound
<1>2. CASE ServerFrame
  BY <1>2, ServerFrameSound
<1>3. CASE ServerRead
  BY <1>3, ServerReadSound
<1>4. CASE ClientRead
  BY <1>4, ClientReadSound
<1>5. ASSUME NEW timeReached \in BOOLEAN, ClientFrame(timeReached)
      PROVE  IInv'
  BY <1>5, ClientFrameSound
<1>6. CASE ClientRequest
  BY <1>6, ClientRequestSound
<1>7. CASE UNCHANGED vars
  BY <1>7, UnchangedSound
<1> QED BY <1>1, <1>2, <1>3, <1>4, <1>5, <1>6, <1>7 DEF Next

(***************************************************************************)
(* The game commands.  What the history says of them is related to what    *)
(* both rings and the messages have.                                       *)
(***************************************************************************)
HistoryType == [added : Seq(Nat), stored : Seq(SUBSET Nat), excused : SUBSET Nat,
                executed : Seq(Nat), refired : BOOLEAN]
Commands == 1..sv.gameCommandCurrent
Command(c) == [id |-> c, framenum |-> hist.added[c]]

\* Each command was meant for a frame not built yet, or for the first.
HistoryTyped ==
    /\ hist \in HistoryType
    /\ Len(hist.added) = sv.gameCommandCurrent /\ Len(hist.stored) = sv.gameCommandCurrent
    /\ sv.lastSentFrameNum = sv.framenum
AddedSound ==
    /\ \A c \in Commands : /\ hist.added[c] <= sv.framenum + 1
                           /\ sv.framenum = 0 => hist.added[c] = 0
    /\ \A c, d \in Commands : c < d => hist.added[c] <= hist.added[d]

\* The client has had a frame that had to have command c, or c was given up.
Settled(c) ==
    \/ c \in hist.excused
    \/ 0 < cl.receivedSnapNum /\ hist.added[c] <= cl.receivedSnapNum

\* The ring has what is not settled, and so has each message that comes after it.
RingSound ==
    /\ \A s \in 0..MaxReliable-1 :
          LET d == sv.gameCommands[s]
          IN  d = NoCommand \/ (d.id \in Commands /\ d = Command(d.id))
    /\ \A c \in Commands :
          Settled(c) \/ \E s \in 0..MaxReliable-1 : sv.gameCommands[s] = Command(c)
Carries(m) ==
    /\ \A d \in m.commands :
          d.id \in Commands /\ d = Command(d.id) /\ d.framenum <= m.snapNum
    /\ \A c \in Commands :
          hist.added[c] <= m.snapNum => Settled(c) \/ Command(c) \in m.commands
FramesCarry == \A k \in 1..Len(toClient) : Carries(toClient[k])

\* A command is stored once, in a frame that is not older than the one it was meant for; the
\* frames have them in their order.
StoredSound ==
    /\ \A c \in Commands :
          /\ \A k \in hist.stored[c] :
                0 < k /\ k <= cl.receivedSnapNum /\ hist.added[c] <= k
          /\ \A k, l \in hist.stored[c] : k = l
          /\ Settled(c) => hist.stored[c] # {} \/ c \in hist.excused
    /\ \A c, d \in Commands : \A k \in hist.stored[c], l \in hist.stored[d] : k < l => c < d

\* The slots have the commands of their frames, and those executed are of frames shown.
SlotsSound ==
    \A s \in Slot : \A c \in cl.snapShots[s].commands :
        c \in Commands /\ cl.snapShots[s].serverFrame \in hist.stored[c]
ExecutedSound ==
    /\ \A i \in 1..Len(hist.executed) :
          /\ hist.executed[i] \in Commands
          /\ \E k \in hist.stored[hist.executed[i]] : k <= view.num
    /\ hist.refired \/ \A i, j \in 1..Len(hist.executed) :
                          i < j => hist.executed[i] < hist.executed[j]

CommandsInv ==
    /\ HistoryTyped /\ AddedSound /\ RingSound /\ FramesCarry /\ StoredSound /\ SlotsSound
    /\ ExecutedSound

LEMMA HistoryFields ==
    ASSUME HistoryTyped, sv \in ServerType
    PROVE  /\ hist.added \in Seq(Nat) /\ hist.stored \in Seq(SUBSET Nat)
           /\ hist.executed \in Seq(Nat) /\ hist.excused \in SUBSET Nat
           /\ hist.refired \in BOOLEAN /\ sv.gameCommandCurrent \in Nat
           /\ \A c \in Commands : /\ c \in Nat /\ c > 0 /\ hist.added[c] \in Nat
                                  /\ hist.stored[c] \in SUBSET Nat
<1>1. sv.gameCommandCurrent \in Nat
  BY ServerFields
<1>2. /\ hist.added \in Seq(Nat) /\ hist.stored \in Seq(SUBSET Nat)
      /\ hist.executed \in Seq(Nat) /\ hist.excused \in SUBSET Nat /\ hist.refired \in BOOLEAN
  BY DEF HistoryTyped, HistoryType
<1>3. \A c \in Commands : c \in 1..Len(hist.added) /\ c \in 1..Len(hist.stored)
  BY DEF HistoryTyped, Commands
<1>4. \A c \in Commands : hist.added[c] \in Nat /\ hist.stored[c] \in SUBSET Nat
  BY <1>2, <1>3
<1>5. \A c \in Commands : c \in Nat /\ c > 0
  BY <1>1 DEF Commands
<1> QED BY <1>1, <1>2, <1>4, <1>5

\* A command acknowledged to the server is settled.
LEMMA AcknowledgedSettled ==
    ASSUME IInv, HistoryTyped, NEW c \in Commands, NEW q, q.lastframe = sv.lastframe,
           Acknowledged(q, Command(c))
    PROVE  Settled(c)
<1>1. sv.lastframe >= 0 /\ hist.added[c] <= sv.lastframe
  BY DEF Acknowledged, Command
<1>2. sv \in ServerType /\ cl \in ClientType
  BY DEF IInv, Typed
<1>3. sv.lastframe \in Int /\ cl.receivedSnapNum \in Nat /\ hist.added[c] \in Nat
  BY <1>2, ServerFields, ClientFields, HistoryFields
<1>4. sv.lastframe \in 1..cl.receivedSnapNum
  BY <1>1, <1>3 DEF IInv, AcksSound, AckSound, Has
<1> QED BY <1>1, <1>3, <1>4 DEF Settled

LEMMA CommandsInit == Init => CommandsInv
<1> SUFFICES ASSUME Init PROVE CommandsInv
  OBVIOUS
<1>1. /\ sv.gameCommandCurrent = 0 /\ sv.lastSentFrameNum = 0 /\ sv.framenum = 0
      /\ sv.gameCommands = [s \in 0..MaxReliable-1 |-> NoCommand]
      /\ toClient = <<>> /\ \A s \in Slot : cl.snapShots[s].commands = {}
      /\ hist = [added |-> <<>>, stored |-> <<>>, excused |-> {},
                 executed |-> <<>>, refired |-> FALSE]
  BY DEF Init, NoSnapshot
<1>2. Commands = {}
  BY <1>1 DEF Commands
<1>3. HistoryTyped
  BY <1>1 DEF HistoryTyped, HistoryType
<1>4. AddedSound /\ StoredSound
  BY <1>2 DEF AddedSound, StoredSound
<1>5. RingSound /\ FramesCarry /\ SlotsSound
  BY <1>1, <1>2 DEF RingSound, FramesCarry, SlotsSound
<1>6. ExecutedSound
  <2>1. Len(hist.executed) = 0
    BY <1>1
  <2> QED BY <2>1 DEF ExecutedSound
<1> QED BY <1>3, <1>4, <1>5, <1>6 DEF CommandsInv

\* The steps that do nothing to the commands.
LEMMA CommandsKept ==
    ASSUME CommandsInv, UNCHANGED <<toClient, view, hist>>,
           UNCHANGED <<sv.framenum, sv.lastSentFrameNum, sv.gameCommandCurrent,
                       sv.gameCommands>>,
           UNCHANGED <<cl.snapShots, cl.receivedSnapNum>>
    PROVE  CommandsInv'
<1>1. HistoryTyped' /\ AddedSound'
  BY DEF CommandsInv, HistoryTyped, AddedSound, Commands
<1>2. \A c : (Settled(c)' <=> Settled(c)) /\ Command(c)' = Command(c)
  BY DEF Settled, Command
<1>3. RingSound'
  BY <1>2 DEF CommandsInv, RingSound, Commands
<1>4. FramesCarry'
  BY <1>2 DEF CommandsInv, FramesCarry, Carries, Commands
<1>5. StoredSound'
  BY <1>2 DEF CommandsInv, StoredSound, Commands
<1>6. SlotsSound' /\ ExecutedSound'
  BY DEF CommandsInv, SlotsSound, ExecutedSound, Commands
<1> QED BY <1>1, <1>3, <1>4, <1>5, <1>6 DEF CommandsInv

LEMMA AddGameCommandCommands ==
    ASSUME IInv, CommandsInv, AddGameCommand
    PROVE  CommandsInv'
<1>c. PICK c : c = sv.gameCommandCurrent + 1
  OBVIOUS
<1>s. PICK s : s = c % MaxReliable
  OBVIOUS
<1>f. PICK f : f = IF sv.lastSentFrameNum # 0 THEN sv.lastSentFrameNum + 1 ELSE sv.framenum
  OBVIOUS
<1>o. PICK old : old = sv.gameCommands[s]
  OBVIOUS
<1>1. /\ sv' = [sv EXCEPT !.gameCommandCurrent = c,
                          !.gameCommands[s] = [id |-> c, framenum |-> f]]
      /\ hist' = [hist EXCEPT !.added = Append(@, f), !.stored = Append(@, {}),
                              !.excused = IF old = NoCommand \/ Acknowledged(sv, old)
                                          THEN @ ELSE @ \cup {old.id}]
      /\ UNCHANGED <<entities, toClient, toServer, cl, view>>
  BY <1>c, <1>s, <1>f, <1>o DEF AddGameCommand
<1>2. sv \in ServerType /\ cl \in ClientType /\ toClient \in Seq(FrameType)
  BY DEF IInv, Typed
<1>3. HistoryTyped /\ AddedSound /\ RingSound /\ FramesCarry /\ StoredSound /\ SlotsSound
      /\ ExecutedSound
  BY DEF CommandsInv
<1>4. /\ sv.gameCommandCurrent \in Nat /\ sv.framenum \in Nat
      /\ sv.gameCommands \in [0..MaxReliable-1 -> GameCommand]
      /\ cl.receivedSnapNum \in Nat /\ cl.receivedSnapNum <= sv.framenum
      /\ hist.added \in Seq(Nat) /\ hist.stored \in Seq(SUBSET Nat)
  BY <1>2, <1>3, ServerFields, ClientFields, HistoryFields DEF IInv, ClientSound
<1>5. /\ c \in Nat /\ c > 0 /\ s \in 0..MaxReliable-1 /\ f \in Nat
      /\ f = IF sv.framenum # 0 THEN sv.framenum + 1 ELSE 0
  <2>1. c \in Nat /\ c > 0
    BY <1>c, <1>4
  <2>2. f = IF sv.framenum # 0 THEN sv.framenum + 1 ELSE 0
    BY <1>f, <1>3, <1>4 DEF HistoryTyped
  <2>3. s \in 0..MaxReliable-1
    BY <2>1, <1>s, ModRange
  <2> QED BY <2>1, <2>2, <2>3, <1>4
<1>6. /\ sv'.gameCommandCurrent = c
      /\ sv'.gameCommands = [sv.gameCommands EXCEPT ![s] = [id |-> c, framenum |-> f]]
      /\ sv'.framenum = sv.framenum /\ sv'.lastSentFrameNum = sv.lastSentFrameNum
      /\ hist'.added = Append(hist.added, f) /\ hist'.stored = Append(hist.stored, {})
      /\ hist'.excused = IF old = NoCommand \/ Acknowledged(sv, old)
                         THEN hist.excused ELSE hist.excused \cup {old.id}
      /\ hist'.executed = hist.executed /\ hist'.refired = hist.refired
  BY <1>1, <1>2, <1>3 DEF ServerType, HistoryTyped, HistoryType
<1>e. hist.excused \subseteq hist'.excused
  BY <1>6
<1>7. \A d \in Commands' : d \in Commands \/ d = c
  BY <1>c, <1>4, <1>6 DEF Commands
<1>8. \A d \in Commands : d \in Nat /\ d \in Commands' /\ d < c /\ d > 0
  BY <1>c, <1>4, <1>6 DEF Commands
<1>9. /\ \A d \in Commands : hist'.added[d] = hist.added[d] /\ hist'.stored[d] = hist.stored[d]
      /\ hist'.added[c] = f /\ hist'.stored[c] = {}
      /\ hist'.added \in Seq(Nat) /\ hist'.stored \in Seq(SUBSET Nat)
      /\ Len(hist'.added) = c /\ Len(hist'.stored) = c
  <2>1. Len(hist.added) = c - 1 /\ Len(hist.stored) = c - 1
    BY <1>c, <1>3, <1>4 DEF HistoryTyped
  <2>2. \A d \in Commands : d \in 1..c-1
    BY <1>5, <1>8
  <2>3. PICK a \in Seq(Nat) : a = hist.added
    BY <1>4
  <2>4. /\ Append(a, f) \in Seq(Nat) /\ Len(Append(a, f)) = Len(a) + 1
        /\ Append(a, f)[Len(a) + 1] = f /\ \A d \in 1..Len(a) : Append(a, f)[d] = a[d]
    BY <1>5, Appended
  <2>5. PICK b \in Seq(SUBSET Nat) : b = hist.stored
    BY <1>4
  <2>6. /\ Append(b, {}) \in Seq(SUBSET Nat) /\ Len(Append(b, {})) = Len(b) + 1
        /\ Append(b, {})[Len(b) + 1] = {} /\ \A d \in 1..Len(b) : Append(b, {})[d] = b[d]
    <3>1. {} \in SUBSET Nat
      OBVIOUS
    <3> QED BY <3>1, Appended
  <2>7. hist'.added = Append(a, f) /\ hist'.stored = Append(b, {})
    BY <2>3, <2>5, <1>6
  <2>8. Len(a) = c - 1 /\ Len(b) = c - 1 /\ c - 1 + 1 = c
    BY <2>1, <2>3, <2>5, <1>5
  <2> QED BY <2>2, <2>3, <2>4, <2>5, <2>6, <2>7, <2>8
<1>10. \A d \in Commands : (Settled(d) => Settled(d)') /\ Command(d)' = Command(d)
  BY <1>1, <1>e, <1>9 DEF Settled, Command
<1>11. Command(c)' = [id |-> c, framenum |-> f]
  BY <1>9 DEF Command
<1>12. HistoryTyped'
  <2>1. old.id \in Nat
    BY <1>o, <1>4, <1>5 DEF GameCommand
  <2>2. hist'.excused \in SUBSET Nat
    BY <2>1, <1>2, <1>3, <1>6, HistoryFields
  <2>3. hist' \in HistoryType
    <3>1. hist' = [added |-> hist'.added, stored |-> hist'.stored, excused |-> hist'.excused,
                   executed |-> hist.executed, refired |-> hist.refired]
      BY <1>1, <1>3 DEF HistoryTyped, HistoryType
    <3> QED BY <3>1, <2>2, <1>2, <1>3, <1>9, HistoryFields DEF HistoryType
  <2> QED BY <2>3, <1>3, <1>6, <1>9 DEF HistoryTyped
<1>13. \A d \in Commands : hist.added[d] \in Nat /\ hist.added[d] <= f
  <2>1. \A d \in Commands : hist.added[d] \in Nat
    BY <1>2, <1>3, HistoryFields
  <2> QED BY <2>1, <1>3, <1>5 DEF AddedSound
<1>14. AddedSound'
  <2>1. \A d \in Commands' : hist'.added[d] <= sv.framenum + 1
                             /\ (sv.framenum = 0 => hist'.added[d] = 0)
    <3>1. f <= sv.framenum + 1 /\ (sv.framenum = 0 => f = 0)
      BY <1>4, <1>5
    <3> QED BY <3>1, <1>3, <1>7, <1>9 DEF AddedSound
  <2>2. ASSUME NEW d \in Commands', NEW e \in Commands', d < e
        PROVE  hist'.added[d] <= hist'.added[e]
    <3>1. d \in Commands
      <4>1. d # c
        <5>1. e \in Nat /\ e <= c
          BY <1>5, <1>7, <1>8
        <5> QED BY <5>1, <2>2, <1>5
      <4> QED BY <4>1, <1>7
    <3>2. CASE e = c
      BY <3>1, <3>2, <1>9, <1>13
    <3>3. CASE e \in Commands
      BY <3>1, <3>3, <2>2, <1>3, <1>9 DEF AddedSound
    <3> QED BY <3>2, <3>3, <1>7
  <2> QED BY <2>1, <2>2, <1>6 DEF AddedSound
<1>15. RingSound'
  <2>1. ASSUME NEW r \in 0..MaxReliable-1, NEW d, d = sv'.gameCommands[r]
        PROVE  d = NoCommand \/ (d.id \in Commands' /\ d = Command(d.id)')
    <3>1. CASE r = s
      <4>1. d = [id |-> c, framenum |-> f] /\ c \in Commands'
        BY <2>1, <3>1, <1>4, <1>5, <1>6 DEF Commands
      <4> QED BY <4>1, <1>11
    <3>2. CASE r # s
      <4>1. d = sv.gameCommands[r]
        BY <2>1, <3>2, <1>4, <1>6
      <4>2. d = NoCommand \/ (d.id \in Commands /\ d = Command(d.id))
        BY <4>1, <1>3 DEF RingSound
      <4> QED BY <4>2, <1>8, <1>10
    <3> QED BY <3>1, <3>2
  <2>2. ASSUME NEW d \in Commands', ~Settled(d)'
        PROVE  \E r \in 0..MaxReliable-1 : sv'.gameCommands[r] = Command(d)'
    <3>1. CASE d = c
      <4>1. sv'.gameCommands[s] = [id |-> c, framenum |-> f]
        BY <1>4, <1>5, <1>6
      <4> QED BY <3>1, <4>1, <1>5, <1>11
    <3>2. CASE d \in Commands
      <4>1. ~Settled(d)
        BY <3>2, <2>2, <1>10
      <4>2. PICK r \in 0..MaxReliable-1 : sv.gameCommands[r] = Command(d)
        BY <3>2, <4>1, <1>3 DEF RingSound
      <4>3. r # s
        <5> SUFFICES ASSUME r = s PROVE FALSE
          OBVIOUS
        <5>1. old = Command(d) /\ old.id = d /\ d > 0
          BY <3>2, <4>2, <1>o, <1>8 DEF Command
        <5>2. old # NoCommand
          BY <5>1 DEF NoCommand
        <5>3. CASE Acknowledged(sv, old)
          BY <5>1, <5>3, <4>1, <3>2, <1>3, AcknowledgedSettled
        <5>4. CASE ~Acknowledged(sv, old)
          BY <5>1, <5>2, <5>4, <2>2, <1>6 DEF Settled
        <5> QED BY <5>3, <5>4
      <4>4. sv'.gameCommands[r] = sv.gameCommands[r]
        BY <4>3, <1>4, <1>6
      <4> QED BY <3>2, <4>2, <4>4, <1>10
    <3> QED BY <3>1, <3>2, <1>7
  <2> QED BY <2>1, <2>2 DEF RingSound
<1>16. FramesCarry'
  <2> SUFFICES ASSUME NEW k \in 1..Len(toClient) PROVE Carries(toClient[k])'
    BY <1>1 DEF FramesCarry
  <2>1. PICK m : m = toClient[k]
    OBVIOUS
  <2>2. Carries(m) /\ m.snapNum \in Nat /\ cl.receivedSnapNum < m.snapNum
        /\ m.snapNum <= sv.framenum
    BY <2>1, <1>2, <1>3, FrameFields DEF FramesCarry, IInv, FramesSound
  <2>3. ~(f <= m.snapNum)
    BY <2>2, <1>4, <1>5
  <2>4. \A d \in m.commands :
            d.id \in Commands' /\ d = Command(d.id)' /\ d.framenum <= m.snapNum
    BY <2>2, <1>8, <1>10 DEF Carries
  <2>5. \A d \in Commands' :
            hist'.added[d] <= m.snapNum => Settled(d)' \/ Command(d)' \in m.commands
    BY <2>2, <2>3, <1>7, <1>9, <1>10 DEF Carries
  <2>6. Carries(m)'
    BY <2>4, <2>5 DEF Carries
  <2> QED BY <2>1, <2>6, <1>1
<1>17. StoredSound'
  <2>1. ASSUME NEW d \in Commands'
        PROVE  /\ \A k \in hist'.stored[d] :
                     0 < k /\ k <= cl.receivedSnapNum /\ hist'.added[d] <= k
               /\ \A k, l \in hist'.stored[d] : k = l
    BY <1>3, <1>7, <1>9 DEF StoredSound
  <2>2. ASSUME NEW d \in Commands', Settled(d)'
        PROVE  hist'.stored[d] # {} \/ d \in hist'.excused
    <3>1. CASE d = c
      <4>1. ~(0 < cl.receivedSnapNum /\ f <= cl.receivedSnapNum)
        BY <1>4, <1>5
      <4> QED BY <3>1, <4>1, <2>2, <1>1, <1>9 DEF Settled
    <3>2. CASE d \in Commands /\ d \notin hist'.excused
      <4>1. Settled(d) /\ d \notin hist.excused
        BY <2>2, <3>2, <1>1, <1>e, <1>9 DEF Settled
      <4> QED BY <3>2, <4>1, <1>3, <1>9 DEF StoredSound
    <3> QED BY <3>1, <3>2, <1>7
  <2>3. ASSUME NEW d \in Commands', NEW e \in Commands', NEW k \in hist'.stored[d],
               NEW l \in hist'.stored[e], k < l
        PROVE  d < e
    <3>1. d \in Commands /\ e \in Commands
      BY <1>7, <1>9
    <3> QED BY <3>1, <2>3, <1>3, <1>9 DEF StoredSound
  <2> QED BY <2>1, <2>2, <2>3, <1>1 DEF StoredSound
<1>18. SlotsSound' /\ ExecutedSound'
  <2>1. SlotsSound'
    BY <1>1, <1>3, <1>8, <1>9 DEF SlotsSound
  <2>2. hist'.executed = hist.executed /\ hist'.refired = hist.refired /\ view' = view
    BY <1>1, <1>6
  <2>3. ExecutedSound'
    BY <2>2, <1>3, <1>8, <1>9 DEF ExecutedSound
  <2> QED BY <2>1, <2>3
<1> QED BY <1>12, <1>14, <1>15, <1>16, <1>17, <1>18 DEF CommandsInv

\* What a frame carries, and what it gives up for its age.
GivenUp(q, f) == {c.id : c \in {d \in TooOld(q, f) : ~Acknowledged(q, d)}}

LEMMA CarriedSound ==
    ASSUME IInv, CommandsInv, NEW f, f = sv.framenum + 1, NEW q, q.lastframe = sv.lastframe,
           q.gameCommands = sv.gameCommands
    PROVE  /\ GivenUp(q, f) \subseteq Commands
           /\ \A d \in Carried(q, f) : d.id \in Commands /\ d = Command(d.id) /\ d.framenum <= f
           /\ \A c \in Commands :
                 hist.added[c] <= f =>
                    Settled(c) \/ c \in GivenUp(q, f) \/ Command(c) \in Carried(q, f)
<1>1. HistoryTyped /\ RingSound /\ sv \in ServerType
  BY DEF CommandsInv, IInv, Typed
<1>2. DOMAIN sv.gameCommands = 0..MaxReliable-1
  BY <1>1, ServerFields
<1>3. \A d \in GameCommands(q) : d.id \in Commands /\ d = Command(d.id)
  BY <1>1, <1>2 DEF GameCommands, RingSound
<1>4. GivenUp(q, f) \subseteq Commands
  BY <1>3 DEF GivenUp, TooOld
<1>5. \A d \in Carried(q, f) : d.id \in Commands /\ d = Command(d.id) /\ d.framenum <= f
  BY <1>3 DEF Carried
<1>6. ASSUME NEW c \in Commands, hist.added[c] <= f, ~Settled(c)
      PROVE  c \in GivenUp(q, f) \/ Command(c) \in Carried(q, f)
  <2>1. PICK s \in 0..MaxReliable-1 : sv.gameCommands[s] = Command(c)
    BY <1>1, <1>6 DEF RingSound
  <2>2. Command(c).id = c /\ Command(c).framenum = hist.added[c] /\ c > 0
    BY <1>1, HistoryFields DEF Command
  <2>3. Command(c) # NoCommand
    BY <2>2 DEF NoCommand
  <2>4. Command(c) \in GameCommands(q)
    BY <2>1, <2>3, <1>2 DEF GameCommands
  <2>5. ~Acknowledged(q, Command(c))
    BY <1>1, <1>6, AcknowledgedSettled
  <2>6. CASE Command(c) \in TooOld(q, f)
    BY <2>2, <2>5, <2>6 DEF GivenUp
  <2>7. CASE Command(c) \notin TooOld(q, f)
    BY <2>2, <2>4, <2>5, <2>7, <1>6 DEF Carried
  <2> QED BY <2>6, <2>7
<1> QED BY <1>4, <1>5, <1>6

\* ServerFrame, for frame f of n entities after k others.
FrameStep(f, n, k) ==
    LET q == WithNoDelta(BuildFrame(f, n, k), f)
        ents == WrittenEntities(f, n, k)
        from == q.snapShots[q.lastframe % UpdateBackup]
    IN  /\ sv' = [q EXCEPT !.lastSentFrameNum = f]
        /\ \/ UNCHANGED toClient
           \/ toClient' = Append(toClient,
                 [snapNum |-> f, delta |-> IsDelta(q, f), deltaFrameNum |-> q.lastframe,
                  from |-> IF IsDelta(q, f) THEN Contents(from, ents) ELSE 0,
                  commands |-> Carried(q, f)])
        /\ hist' = [hist EXCEPT !.excused = @ \cup
              {c.id : c \in {d \in TooOld(q, f) : ~Acknowledged(q, d)}}]

LEMMA ServerFrameCommands ==
    ASSUME IInv, CommandsInv, ServerFrame
    PROVE  CommandsInv'
<1>f. PICK f : f = sv.framenum + 1
  OBVIOUS
<1>1. PICK n \in EntityCounts, k \in OtherCounts : FrameStep(f, n, k)
  <2>1. \E n \in EntityCounts, k \in OtherCounts : FrameStep(sv.framenum + 1, n, k)
    BY DEF ServerFrame, FrameStep
  <2> QED BY <2>1, <1>f
<1>u. UNCHANGED <<toServer, cl, view>>
  BY DEF ServerFrame
<1>2. PICK q : q = WithNoDelta(BuildFrame(f, n, k), f)
  OBVIOUS
<1>3. PICK S : S = Carried(q, f)
  OBVIOUS
<1>4. PICK E : E = GivenUp(q, f)
  OBVIOUS
<1>5. /\ sv' = [q EXCEPT !.lastSentFrameNum = f]
      /\ \/ UNCHANGED toClient
         \/ \E m : toClient' = Append(toClient, m) /\ m.snapNum = f /\ m.commands = S
      /\ hist' = [hist EXCEPT !.excused = @ \cup E]
  BY <1>1, <1>2, <1>3, <1>4 DEF FrameStep, GivenUp
<1>6. /\ sv \in ServerType /\ sv' \in ServerType /\ sv'.framenum = f
      /\ toClient \in Seq(FrameType) /\ toClient' \in Seq(FrameType)
  BY <1>f, ServerFrameSound DEF IInv, Typed
<1>7. sv.framenum \in Nat /\ f \in Nat
  BY <1>f, <1>6, ServerFields
<1>8. /\ q.lastframe = sv.lastframe /\ q.gameCommands = sv.gameCommands
      /\ q.gameCommandCurrent = sv.gameCommandCurrent /\ q \in ServerType
  <2>1. PICK b : b = BuildFrame(f, n, k)
    OBVIOUS
  <2>2. /\ b \in ServerType /\ b.lastframe = sv.lastframe /\ b.gameCommands = sv.gameCommands
        /\ b.gameCommandCurrent = sv.gameCommandCurrent
    <3>1. f \in 0..MaxFrames
      BY <1>f, <1>7 DEF ServerFrame
    <3>2. PICK next : next = sv.nextEntities + k + n
      OBVIOUS
    <3>3. next \in Nat
      BY <3>2, <1>6, ServerFields
    <3>4. PICK new : new = [num |-> f, first |-> sv.nextEntities + k, count |-> n]
      OBVIOUS
    <3>5. new \in BuiltType
      BY <3>1, <3>4, <1>6, ServerFields DEF BuiltType
    <3>6. PICK snaps : snaps = [sv.snapShots EXCEPT ![f % UpdateBackup] = new]
      OBVIOUS
    <3>7. snaps \in [Slot -> BuiltType]
      BY <3>5, <3>6, <1>6, ServerFields
    <3>8. b = [sv EXCEPT !.framenum = f, !.snapShots = snaps, !.nextEntities = next]
      BY <2>1, <3>2, <3>4, <3>6, <1>6 DEF BuildFrame, ServerType
    <3> QED BY <3>1, <3>3, <3>7, <3>8, <1>6 DEF ServerType
  <2>3. NoDeltaWritten(q, b, f)
    BY <2>1, <2>2, <1>2, <1>7, WithNoDeltaFields
  <2> QED BY <2>2, <2>3 DEF NoDeltaWritten
<1>9. /\ sv'.gameCommands = sv.gameCommands /\ sv'.gameCommandCurrent = sv.gameCommandCurrent
      /\ sv'.lastSentFrameNum = f
  BY <1>5, <1>8 DEF ServerType
<1>10. HistoryTyped /\ AddedSound /\ RingSound /\ FramesCarry /\ StoredSound /\ SlotsSound
       /\ ExecutedSound
  BY DEF CommandsInv
<1>11. /\ hist'.added = hist.added /\ hist'.stored = hist.stored
       /\ hist'.executed = hist.executed /\ hist'.refired = hist.refired
       /\ hist'.excused = hist.excused \cup E
  BY <1>5, <1>10 DEF HistoryTyped, HistoryType
<1>12. /\ E \subseteq Commands
       /\ \A d \in S : d.id \in Commands /\ d = Command(d.id) /\ d.framenum <= f
       /\ \A c \in Commands :
             hist.added[c] <= f => Settled(c) \/ c \in E \/ Command(c) \in S
  BY <1>f, <1>3, <1>4, <1>8, CarriedSound
<1>13. /\ Commands' = Commands
       /\ \A c : (Settled(c) => Settled(c)') /\ Command(c)' = Command(c)
  BY <1>u, <1>9, <1>11 DEF Commands, Settled, Command
<1>14. HistoryTyped'
  <2>1. hist'.excused \in SUBSET Nat
    BY <1>6, <1>10, <1>11, <1>12, HistoryFields
  <2>2. hist' = [added |-> hist.added, stored |-> hist.stored, excused |-> hist'.excused,
                 executed |-> hist.executed, refired |-> hist.refired]
    BY <1>5, <1>10, <1>11 DEF HistoryTyped, HistoryType
  <2>3. hist' \in HistoryType
    BY <2>1, <2>2, <1>6, <1>10, HistoryFields DEF HistoryType
  <2> QED BY <2>3, <1>6, <1>9, <1>10, <1>11 DEF HistoryTyped
<1>15. AddedSound'
  <2>1. \A c \in Commands : hist.added[c] \in Nat /\ hist.added[c] <= f
    BY <1>f, <1>6, <1>10, HistoryFields DEF AddedSound
  <2>2. \A x \in Nat : x <= f => x <= f + 1
    BY <1>7
  <2>3. f # 0
    BY <1>f, <1>7
  <2>4. \A c \in Commands : hist.added[c] <= f + 1
    BY <2>1, <2>2
  <2> QED BY <2>3, <2>4, <1>6, <1>10, <1>11, <1>13 DEF AddedSound
<1>16. RingSound'
  BY <1>9, <1>10, <1>13 DEF RingSound
<1>17. \A m : Carries(m) => Carries(m)'
  BY <1>11, <1>13 DEF Carries
<1>18. FramesCarry'
  <2>1. CASE UNCHANGED toClient
    BY <2>1, <1>10, <1>17 DEF FramesCarry
  <2>2. CASE ~UNCHANGED toClient
    <3>1. PICK m : toClient' = Append(toClient, m) /\ m.snapNum = f /\ m.commands = S
      BY <2>2, <1>5
    <3>2. Carries(m)'
      <4>1. \A d \in m.commands :
               d.id \in Commands' /\ d = Command(d.id)' /\ d.framenum <= m.snapNum
        BY <3>1, <1>12, <1>13
      <4>2. \A c \in Commands' :
               hist'.added[c] <= m.snapNum => Settled(c)' \/ Command(c)' \in m.commands
        BY <3>1, <1>11, <1>12, <1>13 DEF Settled
      <4> QED BY <4>1, <4>2 DEF Carries
    <3>3. \A i \in 1..Len(toClient') :
             (i \in 1..Len(toClient) /\ toClient'[i] = toClient[i]) \/ toClient'[i] = m
      BY <3>1, <1>6
    <3>4. ASSUME NEW i \in 1..Len(toClient'), NEW x, x = toClient'[i] PROVE Carries(x)'
      BY <3>2, <3>3, <3>4, <1>10, <1>17 DEF FramesCarry
    <3> QED BY <3>4 DEF FramesCarry
  <2> QED BY <2>1, <2>2
<1>19. StoredSound'
  <2>1. ASSUME NEW c \in Commands, Settled(c)'
        PROVE  hist.stored[c] # {} \/ c \in hist'.excused
    BY <2>1, <1>u, <1>10, <1>11 DEF Settled, StoredSound
  <2> QED BY <2>1, <1>u, <1>10, <1>11, <1>13 DEF StoredSound
<1>20. SlotsSound' /\ ExecutedSound'
  BY <1>u, <1>10, <1>11, <1>13 DEF SlotsSound, ExecutedSound
<1> QED BY <1>14, <1>15, <1>16, <1>18, <1>19, <1>20 DEF CommandsInv

LEMMA ServerReadCommands ==
    ASSUME IInv, CommandsInv, ServerRead
    PROVE  CommandsInv'
<1>1. PICK m : m = Head(toServer)
  OBVIOUS
<1>2. PICK p : p = NoDelta(sv, m)
  OBVIOUS
<1>3. /\ sv \in ServerType /\ m \in MoveType /\ sv' = [p EXCEPT !.lastframe = m.lastframe]
      /\ UNCHANGED <<entities, toClient, cl, view, hist>>
  BY <1>1, <1>2, TailMessages DEF IInv, Typed, ServerRead
<1>4. /\ p \in ServerType /\ p.framenum = sv.framenum /\ p.gameCommands = sv.gameCommands
      /\ p.gameCommandCurrent = sv.gameCommandCurrent
      /\ p.lastSentFrameNum = sv.lastSentFrameNum
  BY <1>2, <1>3, NoDeltaFields
<1>5. /\ sv'.framenum = sv.framenum /\ sv'.gameCommands = sv.gameCommands
      /\ sv'.gameCommandCurrent = sv.gameCommandCurrent
      /\ sv'.lastSentFrameNum = sv.lastSentFrameNum
  BY <1>3, <1>4 DEF ServerType
<1> QED BY <1>3, <1>5, CommandsKept

\* The filter of SNAP_ParseFrame: of the commands newer than the last frame received each is
\* handled, unless the new frame takes the slot of that frame.
LEMMA HandledSound ==
    ASSUME IInv, CommandsInv, NEW m \in FrameType, FrameSound(m, cl), Carries(m),
           cl.receivedSnapNum < m.snapNum,
           NEW d \in m.commands
    PROVE  /\ d \in Handled(m) => cl.receivedSnapNum = 0 \/ d.framenum > cl.receivedSnapNum
           /\ cl.receivedSnapNum = 0 \/ d.framenum > cl.receivedSnapNum =>
                 d \in Handled(m) \/ d \in Aliased(m)
<1>1. PICK r : r = cl.receivedSnapNum
  OBVIOUS
<1>2. PICK f : f = m.snapNum
  OBVIOUS
<1>3. PICK e : e = d.framenum
  OBVIOUS
<1>4. /\ r \in Nat /\ f \in Nat /\ r < f /\ e \in Nat /\ e <= f
      /\ cl.snapShots \in [Slot -> SnapshotType] /\ cl \in ClientType
  <2>1. cl \in ClientType
    BY DEF IInv, Typed
  <2>2. d \in GameCommand /\ f \in Nat
    BY <1>2 DEF FrameType
  <2>3. d.framenum <= f
    BY <1>2 DEF Carries
  <2> QED BY <2>1, <2>2, <2>3, <1>1, <1>2, <1>3, ClientFields DEF GameCommand
<1>5. IsValid(m)
  BY ReadIsDecoded
<1>6. CASE r = 0
  <2>1. r <= 0
    BY <1>6
  <2>2. d \in Handled(m)
    BY <2>1, <1>1, <1>5 DEF Handled
  <2> QED BY <2>2, <1>1, <1>6
<1>7. CASE r # 0
  <2>1. ~(r <= 0)
    BY <1>4, <1>7
  <2>2. r % UpdateBackup \in Slot /\ f % UpdateBackup \in Slot
    BY <1>4, SlotOf
  <2>3. PICK clear : clear = Cleared(m)
    OBVIOUS
  <2>4. clear = [cl.snapShots EXCEPT ![f % UpdateBackup] = [NoSnapshot EXCEPT !.serverFrame = f]]
    BY <2>3, <1>2 DEF Cleared
  <2>5. CASE r % UpdateBackup = f % UpdateBackup
    <3>1. PICK last : last = [clear[r % UpdateBackup] EXCEPT !.valid = TRUE]
      OBVIOUS
    <3>2. last.valid /\ last.serverFrame = f
      BY <2>2, <2>4, <2>5, <3>1, <1>4 DEF NoSnapshot
    <3>3. d \in Handled(m) => f > f + (f - e)
      BY <2>1, <2>3, <2>5, <3>1, <3>2, <1>1, <1>2, <1>3, <1>5 DEF Handled
    <3>4. ~(f > f + (f - e))
      BY <1>4
    <3>5. e > r => d \in Aliased(m)
      BY <2>5, <1>1, <1>2, <1>3 DEF Aliased
    <3> QED BY <3>3, <3>4, <3>5, <1>1, <1>3, <1>7
  <2>6. CASE r % UpdateBackup # f % UpdateBackup
    <3>1. PICK last : last = cl.snapShots[r % UpdateBackup]
      OBVIOUS
    <3>2. clear[r % UpdateBackup] = last
      BY <2>2, <2>4, <2>6, <3>1, <1>4
    <3>3. last.serverFrame = r /\ last.valid
      <4>1. Has(r, cl) /\ DecodedIn(cl.snapShots, r)
        BY <1>1, <1>7 DEF IInv, ClientSound
      <4>2. last.serverFrame = r
        BY <3>1, <4>1, <1>1, <1>4 DEF Has
      <4> QED BY <2>2, <3>1, <4>1, <4>2, <1>7 DEF DecodedIn
    <3>4. last = [last EXCEPT !.valid = last.valid]
      BY <2>2, <3>1, <1>4 DEF SnapshotType
    <3>5. d \in Handled(m) <=> f > r + (f - e)
      BY <2>1, <2>3, <2>6, <3>2, <3>3, <3>4, <1>1, <1>2, <1>3, <1>5 DEF Handled
    <3>6. f > r + (f - e) <=> e > r
      BY <1>4
    <3> QED BY <3>5, <3>6, <1>1, <1>3, <1>7
  <2> QED BY <2>5, <2>6
<1> QED BY <1>6, <1>7

LEMMA ClientReadCommands ==
    ASSUME IInv, CommandsInv, ClientRead
    PROVE  CommandsInv'
<1>m. PICK m : m = Head(toClient)
  OBVIOUS
<1>f. PICK f : f = m.snapNum
  OBVIOUS
<1>1. /\ toClient # <<>> /\ toClient' = Tail(toClient) /\ UNCHANGED <<sv, view>>
      /\ cl' = [cl EXCEPT
            !.snapShots = [Cleared(m) EXCEPT ![f % UpdateBackup] =
                  [serverFrame |-> f, valid |-> IsValid(m), contents |-> Decoded(m),
                   commands |-> {c.id : c \in Handled(m)}]],
            !.receivedSnapNum = IF IsValid(m) THEN f ELSE @,
            !.waiting = @ /\ (~IsValid(m) \/ m.delta)]
      /\ hist' = [hist EXCEPT
            !.stored = [c \in DOMAIN @ |->
                  IF \E d \in Handled(m) : d.id = c THEN @[c] \cup {f} ELSE @[c]],
            !.excused = @ \cup {c.id : c \in Aliased(m)}]
  BY <1>m, <1>f DEF ClientRead
<1>2. HistoryTyped /\ AddedSound /\ RingSound /\ FramesCarry /\ StoredSound /\ SlotsSound
      /\ ExecutedSound /\ sv \in ServerType /\ cl \in ClientType /\ toClient \in Seq(FrameType)
  BY DEF CommandsInv, IInv, Typed
<1>3. /\ m = toClient[1] /\ 1 \in 1..Len(toClient) /\ m \in FrameType
      /\ \A k \in 1..Len(toClient') :
            k + 1 \in 1..Len(toClient) /\ toClient'[k] = toClient[k + 1]
  BY <1>m, <1>1, <1>2, TailMessages
<1>4. PICK r : r = cl.receivedSnapNum
  OBVIOUS
<1>5. /\ r \in Nat /\ f \in Nat /\ r < f /\ FrameSound(m, cl) /\ Carries(m)
      /\ cl.receivedSnapNum < m.snapNum /\ f % UpdateBackup \in Slot
      /\ cl.snapShots \in [Slot -> SnapshotType]
  <2>1. f \in Nat /\ r \in Nat /\ cl.snapShots \in [Slot -> SnapshotType]
    BY <1>f, <1>2, <1>3, <1>4, ClientFields DEF FrameType
  <2>2. r < f /\ FrameSound(m, cl) /\ Carries(m) /\ cl.receivedSnapNum < m.snapNum
    BY <1>f, <1>2, <1>3, <1>4 DEF IInv, FramesSound, FramesCarry
  <2> QED BY <2>1, <2>2, SlotOf
<1>6. IsValid(m)
  BY <1>3, <1>5, ReadIsDecoded
<1>7. PICK S : S = Handled(m)
  OBVIOUS
<1>8. PICK A : A = {c.id : c \in Aliased(m)}
  OBVIOUS
<1>i. PICK ids : ids = {c.id : c \in Handled(m)}
  OBVIOUS
<1>9. PICK new : /\ cl'.snapShots = [cl.snapShots EXCEPT ![f % UpdateBackup] = new]
                 /\ new.serverFrame = f /\ new.commands = ids
  <2>1. PICK new : new = [serverFrame |-> f, valid |-> IsValid(m), contents |-> Decoded(m),
                          commands |-> ids]
    OBVIOUS
  <2>2. cl'.snapShots = [Cleared(m) EXCEPT ![f % UpdateBackup] = new]
    BY <2>1, <1>1, <1>2, <1>i DEF ClientType
  <2>3. cl'.snapShots = [cl.snapShots EXCEPT ![f % UpdateBackup] = new]
    BY <2>2, <1>f, <1>5 DEF Cleared
  <2> QED BY <2>1, <2>3
<1>10. cl'.receivedSnapNum = f
  BY <1>1, <1>2, <1>6 DEF ClientType
<1>11. /\ hist'.added = hist.added /\ hist'.executed = hist.executed
       /\ hist'.refired = hist.refired /\ hist'.excused = hist.excused \cup A
       /\ hist'.stored = [c \in DOMAIN hist.stored |->
              IF \E d \in S : d.id = c THEN hist.stored[c] \cup {f} ELSE hist.stored[c]]
  BY <1>1, <1>2, <1>7, <1>8 DEF HistoryTyped, HistoryType
<1>12. DOMAIN hist.stored = Commands /\ Commands' = Commands
  <2>1. DOMAIN hist.stored = 1..Len(hist.stored)
    BY <1>2, HistoryFields
  <2> QED BY <2>1, <1>1, <1>2 DEF HistoryTyped, Commands
<1>13. \A d \in m.commands : d.id \in Commands /\ d = Command(d.id) /\ d.framenum <= f
  BY <1>f, <1>5 DEF Carries
<1>14. /\ S \subseteq m.commands
       /\ \A d \in S : r = 0 \/ d.framenum > r
       /\ \A d \in m.commands : r = 0 \/ d.framenum > r => d \in S \/ d.id \in A
  <2>1. S \subseteq m.commands
    BY <1>7 DEF Handled
  <2>2. ASSUME NEW d \in m.commands
        PROVE  /\ d \in S => r = 0 \/ d.framenum > r
               /\ r = 0 \/ d.framenum > r => d \in S \/ d.id \in A
    BY <1>3, <1>4, <1>5, <1>7, <1>8, HandledSound
  <2> QED BY <2>1, <2>2
<1>15. \A c \in Commands : Command(c).id = c /\ Command(c).framenum = hist.added[c]
                           /\ hist.added[c] \in Nat /\ hist.stored[c] \in SUBSET Nat
                           /\ c \in Nat /\ hist'.stored[c] \in SUBSET Nat
  <2>1. \A c \in Commands : Command(c).id = c /\ Command(c).framenum = hist.added[c]
                            /\ hist.added[c] \in Nat /\ hist.stored[c] \in SUBSET Nat
                            /\ c \in Nat
    BY <1>2, HistoryFields DEF Command
  <2> QED BY <2>1, <1>5, <1>11, <1>12
\* The commands stored now, and the others.
<1>16. ASSUME NEW c \in Commands
       PROVE  \/ /\ hist'.stored[c] = hist.stored[c] \cup {f} /\ Command(c) \in S
                 /\ hist.added[c] <= f /\ (r = 0 \/ hist.added[c] > r)
                 /\ hist.stored[c] = {}
              \/ hist'.stored[c] = hist.stored[c] /\ Command(c) \notin S
  <2>1. CASE \E d \in S : d.id = c
    <3>1. PICK d \in S : d.id = c
      BY <2>1
    <3>2. d = Command(c) /\ d.framenum <= f /\ (r = 0 \/ d.framenum > r)
      BY <3>1, <1>13, <1>14
    <3>3. hist'.stored[c] = hist.stored[c] \cup {f}
      BY <2>1, <1>11, <1>12
    <3>4. ASSUME NEW k \in hist.stored[c] PROVE FALSE
      <4>1. 0 < k /\ k <= r /\ hist.added[c] <= k /\ k \in Nat
        BY <1>2, <1>4, <1>15 DEF StoredSound
      <4> QED BY <4>1, <3>2, <1>5, <1>15
    <3> QED BY <3>1, <3>2, <3>3, <3>4, <1>15
  <2>2. CASE ~\E d \in S : d.id = c
    BY <2>2, <1>11, <1>12, <1>15
  <2> QED BY <2>1, <2>2
<1>17. \A c \in Commands : hist.stored[c] \subseteq hist'.stored[c]
  BY <1>16
<1>18. \A c \in Commands : (Settled(c) => Settled(c)') /\ Command(c)' = Command(c)
  <2>1. \A c : Command(c)' = Command(c)
    BY <1>11 DEF Command
  <2>2. ASSUME NEW c \in Commands, 0 < r, hist.added[c] <= r PROVE Settled(c)'
    <3>1. hist.added[c] <= f /\ 0 < f
      BY <2>2, <1>5, <1>15
    <3> QED BY <3>1, <1>10, <1>11 DEF Settled
  <2>3. ASSUME NEW c \in Commands, Settled(c) PROVE Settled(c)'
    BY <2>2, <2>3, <1>4, <1>11 DEF Settled
  <2> QED BY <2>1, <2>3
<1>19. HistoryTyped'
  <2>1. A \in SUBSET Nat
    <3>1. \A d \in Aliased(m) : d \in m.commands
      BY DEF Aliased
    <3> QED BY <3>1, <1>8, <1>13, <1>15
  <2>2. hist'.excused \in SUBSET Nat
    BY <2>1, <1>2, <1>11, HistoryFields
  <2>3. hist'.stored \in Seq(SUBSET Nat) /\ Len(hist'.stored) = sv.gameCommandCurrent
    <3>1. sv.gameCommandCurrent \in Nat
      BY <1>2, HistoryFields
    <3>2. hist'.stored \in [1..sv.gameCommandCurrent -> SUBSET Nat]
      BY <1>11, <1>12, <1>15 DEF Commands
    <3> QED BY <3>1, <3>2
  <2>4. hist' = [added |-> hist.added, stored |-> hist'.stored, excused |-> hist'.excused,
                 executed |-> hist.executed, refired |-> hist.refired]
    BY <1>1, <1>2, <1>11 DEF HistoryTyped, HistoryType
  <2>5. hist' \in HistoryType
    BY <2>2, <2>3, <2>4, <1>2, HistoryFields DEF HistoryType
  <2> QED BY <2>3, <2>5, <1>1, <1>2, <1>11 DEF HistoryTyped
<1>20. AddedSound' /\ RingSound'
  <2>1. AddedSound'
    BY <1>1, <1>2, <1>11, <1>12 DEF AddedSound
  <2>2. RingSound'
    BY <1>1, <1>2, <1>12, <1>18 DEF RingSound
  <2> QED BY <2>1, <2>2
<1>21. FramesCarry'
  <2>1. \A x : Carries(x) => Carries(x)'
    BY <1>11, <1>12, <1>18 DEF Carries
  <2>2. ASSUME NEW k \in 1..Len(toClient'), NEW x, x = toClient'[k] PROVE Carries(x)'
    BY <2>1, <2>2, <1>2, <1>3 DEF FramesCarry
  <2> QED BY <2>2 DEF FramesCarry
<1>22. StoredSound'
  <2>1. ASSUME NEW c \in Commands
        PROVE  /\ \A k \in hist'.stored[c] : 0 < k /\ k <= f /\ hist.added[c] <= k
               /\ \A k, l \in hist'.stored[c] : k = l
    <3>1. \A k \in hist.stored[c] : 0 < k /\ k <= f /\ hist.added[c] <= k
      <4> TAKE k \in hist.stored[c]
      <4>1. 0 < k /\ k <= r /\ hist.added[c] <= k /\ k \in Nat
        BY <1>2, <1>4, <1>15 DEF StoredSound
      <4> QED BY <4>1, <1>5
    <3>2. \A k, l \in hist.stored[c] : k = l
      BY <1>2 DEF StoredSound
    <3>3. 0 < f /\ f <= f
      BY <1>5
    <3> QED BY <3>1, <3>2, <3>3, <1>16
  <2>2. ASSUME NEW c \in Commands, Settled(c)', c \notin hist'.excused
        PROVE  hist'.stored[c] # {}
    <3>1. hist.added[c] <= f
      BY <2>2, <1>10, <1>11 DEF Settled
    <3>2. CASE Settled(c)
      <4>1. hist.stored[c] # {}
        BY <2>2, <3>2, <1>2, <1>11 DEF StoredSound
      <4> QED BY <4>1, <1>17
    <3>3. CASE ~Settled(c)
      <4>1. Command(c) \in m.commands
        BY <1>f, <3>1, <3>3, <1>5 DEF Carries
      <4>2. r = 0 \/ hist.added[c] > r
        BY <3>3, <1>4, <1>5, <1>15 DEF Settled
      <4>3. Command(c) \in S
        BY <2>2, <4>1, <4>2, <1>11, <1>14, <1>15
      <4> QED BY <4>3, <1>16
    <3> QED BY <3>2, <3>3
  <2>3. ASSUME NEW c \in Commands, NEW d \in Commands, NEW k \in hist'.stored[c],
               NEW l \in hist'.stored[d], k < l
        PROVE  c < d
    <3>1. \A e \in Commands : \A j \in hist.stored[e] :
              0 < j /\ j <= r /\ hist.added[e] <= j /\ j \in Nat
      BY <1>2, <1>4, <1>15 DEF StoredSound
    <3>2. k \in hist.stored[c]
      <4> SUFFICES ASSUME k \notin hist.stored[c] PROVE FALSE
        OBVIOUS
      <4>1. k = f /\ l <= f /\ l \in Nat
        BY <2>1, <1>15, <1>16
      <4> QED BY <4>1, <2>3, <1>5
    <3>3. CASE l \in hist.stored[d]
      BY <2>3, <3>2, <3>3, <1>2 DEF StoredSound
    <3>4. CASE l \notin hist.stored[d]
      <4>1. r = 0 \/ hist.added[d] > r
        BY <3>4, <1>16
      <4>2. hist.added[c] < hist.added[d]
        BY <3>1, <3>2, <4>1, <1>5, <1>15
      <4>3. ~(d < c) /\ c # d
        BY <4>2, <1>2, <1>15 DEF AddedSound
      <4> QED BY <4>3, <1>15
    <3> QED BY <3>3, <3>4
  <2>4. ASSUME NEW c \in Commands, Settled(c)'
        PROVE  hist'.stored[c] # {} \/ c \in hist'.excused
    BY <2>2, <2>4
  <2> QED BY <2>1, <2>3, <2>4, <1>10, <1>11, <1>12 DEF StoredSound
<1>23. SlotsSound'
  <2>1. ASSUME NEW s \in Slot, NEW snap, snap = cl'.snapShots[s], NEW c \in snap.commands
        PROVE  c \in Commands /\ snap.serverFrame \in hist'.stored[c]
    <3>1. CASE s = f % UpdateBackup
      <4>1. snap.serverFrame = f /\ snap.commands = {d.id : d \in S}
        BY <2>1, <3>1, <1>5, <1>7, <1>9, <1>i
      <4>2. PICK d \in S : d.id = c
        BY <2>1, <4>1
      <4>3. c \in Commands
        BY <4>2, <1>13, <1>14
      <4> QED BY <4>1, <4>2, <4>3, <1>11, <1>12
    <3>2. CASE s # f % UpdateBackup
      <4>1. snap = cl.snapShots[s]
        BY <2>1, <3>2, <1>5, <1>9
      <4> QED BY <2>1, <4>1, <1>2, <1>17 DEF SlotsSound
    <3> QED BY <3>1, <3>2
  <2> QED BY <2>1, <1>12 DEF SlotsSound
<1>24. ExecutedSound'
  BY <1>1, <1>2, <1>11, <1>12, <1>17 DEF ExecutedSound
<1> QED BY <1>19, <1>20, <1>21, <1>22, <1>23, <1>24 DEF CommandsInv

\* The commands of a frame, in their order.
LEMMA OrderedCommands ==
    ASSUME NEW n \in Nat, NEW T \in SUBSET (1..n), NEW s, s = InOrder(T)
    PROVE  s \in Seq(T) /\ \A i, j \in 1..Len(s) : i < j => s[i] < s[j]
<1>1. IsFiniteSet(T) /\ T \in SUBSET Int
  <2>1. IsFiniteSet(1..n)
    <3>1. 1 \in Int /\ n \in Int
      OBVIOUS
    <3> QED BY <3>1, FS_Interval
  <2>2. T \subseteq 1..n
    OBVIOUS
  <2>3. IsFiniteSet(T)
    BY <2>1, <2>2, FS_Subset, Zenon
  <2>4. T \in SUBSET Int
    BY <2>2
  <2> QED BY <2>3, <2>4
<1>2. PICK u \in SetToSeqs(T) : \A i, j \in 1..Len(u) : i < j => u[i] < u[j]
  BY <1>1, SortedNumbersExist
<1>3. IsSorted(u, <)
  BY <1>2 DEF IsSorted
<1>4. s \in SetToSeqs(T) /\ IsSorted(s, <)
  BY <1>2, <1>3 DEF InOrder
<1>5. s \in Seq(T)
  BY <1>1, <1>4, SetToSeqsEnumerate
<1> QED BY <1>4, <1>5 DEF IsSorted

LEMMA ClientFrameCommands ==
    ASSUME IInv, CommandsInv, NEW timeReached \in BOOLEAN, ClientFrame(timeReached)
    PROVE  CommandsInv'
<1>p. PICK p : p = Pending
  OBVIOUS
<1>s. PICK snap : snap = cl.snapShots[p % UpdateBackup]
  OBVIOUS
<1>1. /\ cl' = IF (p # 0 /\ timeReached) /\ snap.valid THEN Fired ELSE NotFired
      /\ view' = IF p # 0 /\ timeReached
                 THEN [num |-> snap.serverFrame, contents |-> snap.contents] ELSE view
      /\ hist' = IF (p # 0 /\ timeReached) /\ snap.valid
                 THEN [hist EXCEPT !.executed = @ \o InOrder(snap.commands),
                                   !.refired = @ \/ snap.serverFrame = view.num]
                 ELSE hist
      /\ UNCHANGED <<sv, entities, toClient>>
  BY <1>p, <1>s DEF ClientFrame
<1>2. HistoryTyped /\ AddedSound /\ RingSound /\ FramesCarry /\ StoredSound /\ SlotsSound
      /\ ExecutedSound /\ sv \in ServerType /\ cl \in ClientType
  BY DEF CommandsInv, IInv, Typed
<1>3. UNCHANGED <<cl.snapShots, cl.receivedSnapNum>>
  BY <1>1, <1>2 DEF Fired, NotFired, ClientType
<1>4. CASE ~(p # 0 /\ timeReached)
  BY <1>1, <1>3, <1>4, CommandsKept
<1>5. CASE p # 0 /\ timeReached
  <2>1. PICK F : F = snap.serverFrame
    OBVIOUS
  <2>2. /\ snap.valid /\ F \in Nat /\ F >= view.num /\ view'.num = F
        /\ p % UpdateBackup \in Slot /\ view.num \in Nat
    <3>1. snap.valid /\ snap.serverFrame \in Nat /\ snap.serverFrame >= view.num
      BY <1>p, <1>s, <1>5, FiredSound
    <3>2. p % UpdateBackup \in Slot
      BY <1>p, PendingSound, SlotOf
    <3>3. view.num \in Nat
      BY DEF IInv, Typed
    <3> QED BY <3>1, <3>2, <3>3, <2>1, <1>1, <1>5
  <2>3. PICK T : T = snap.commands
    OBVIOUS
  <2>4. PICK new : new = InOrder(T)
    OBVIOUS
  <2>5. hist' = [hist EXCEPT !.executed = @ \o new, !.refired = @ \/ F = view.num]
    BY <2>1, <2>2, <2>3, <2>4, <1>1, <1>5
  <2>6. /\ hist'.added = hist.added /\ hist'.stored = hist.stored
        /\ hist'.excused = hist.excused /\ hist'.executed = hist.executed \o new
        /\ hist'.refired = (hist.refired \/ F = view.num)
    BY <2>5, <1>2 DEF HistoryTyped, HistoryType
  <2>7. \A c \in T : c \in Commands /\ F \in hist.stored[c]
    BY <2>1, <2>2, <2>3, <1>2, <1>s DEF SlotsSound
  <2>8. new \in Seq(T) /\ \A i, j \in 1..Len(new) : i < j => new[i] < new[j]
    <3>1. T \in SUBSET (1..sv.gameCommandCurrent) /\ sv.gameCommandCurrent \in Nat
      BY <2>7, <1>2, HistoryFields DEF Commands
    <3> QED BY <3>1, <2>4, OrderedCommands
  <2>9. /\ hist.executed \in Seq(Nat) /\ new \in Seq(Nat) /\ Len(new) \in Nat
        /\ \A i \in 1..Len(new) : new[i] \in T
    <3>1. \A i \in 1..Len(new) : new[i] \in T
      BY <2>8
    <3>2. T \subseteq Nat
      BY <2>7, <1>2, HistoryFields
    <3>3. \A i \in 1..Len(new) : new[i] \in Nat
      BY <3>1, <3>2
    <3>4. Len(new) \in Nat
      BY <2>8
    <3>5. new \in Seq(Nat)
      <4>1. ASSUME NEW A, NEW q \in Seq(A), A \subseteq Nat
            PROVE  q \in Seq(Nat)
        <5>1. Len(q) \in Nat /\ q = [i \in 1..Len(q) |-> q[i]]
          BY <4>1
        <5>2. \A i \in 1..Len(q) : q[i] \in Nat
          <6>1. \A i \in 1..Len(q) : q[i] \in A
            OBVIOUS
          <6> QED BY <6>1, <4>1, Zenon
        <5> QED BY <5>1, <5>2, <4>1
      <4> QED BY <4>1, <2>8, <3>2
    <3>6. hist.executed \in Seq(Nat)
      BY <1>2, HistoryFields
    <3> QED BY <3>1, <3>4, <3>5, <3>6
  <2>10. PICK k \in Nat : k = Len(hist.executed)
    BY <2>9
  <2>11. /\ hist'.executed \in Seq(Nat) /\ Len(hist'.executed) = k + Len(new)
         /\ \A i \in 1..k : hist'.executed[i] = hist.executed[i]
         /\ \A i \in 1..Len(new) : hist'.executed[k + i] = new[i]
    <3>1. PICK e \in Seq(Nat) : e = hist.executed
      BY <2>9
    <3>2. /\ e \o new \in Seq(Nat) /\ Len(e \o new) = Len(e) + Len(new)
          /\ \A i \in 1..Len(e) : (e \o new)[i] = e[i]
          /\ \A i \in 1..Len(new) : (e \o new)[Len(e) + i] = new[i]
      BY <2>9, Concatenated
    <3> QED BY <3>1, <3>2, <2>6, <2>10
  <2>12. \A i \in 1..k + Len(new) : i \in 1..k \/ \E j \in 1..Len(new) : i = k + j
    <3>1. \A i \in 1..k + Len(new) : i \in 1..k \/ (i - k \in 1..Len(new) /\ i = k + (i - k))
      BY <2>9
    <3> QED BY <3>1
  <2>13. /\ \A i \in 1..k : hist.executed[i] \in Commands
                            /\ \E l \in hist.stored[hist.executed[i]] : l <= view.num
         /\ \A i \in 1..Len(new) : new[i] \in Commands /\ F \in hist.stored[new[i]]
    BY <2>7, <2>9, <2>10, <1>2 DEF ExecutedSound
  <2>14. HistoryTyped'
    <3>1. hist' = [added |-> hist.added, stored |-> hist.stored, excused |-> hist.excused,
                   executed |-> hist'.executed, refired |-> hist'.refired]
      BY <2>5, <1>2 DEF HistoryTyped, HistoryType
    <3>2. hist'.refired \in BOOLEAN
      BY <2>6, <1>2, HistoryFields
    <3>3. hist' \in HistoryType
      BY <3>1, <3>2, <2>11, <1>2, HistoryFields DEF HistoryType
    <3> QED BY <3>3, <2>6, <1>1, <1>2 DEF HistoryTyped
  <2>15. AddedSound' /\ StoredSound'
    <3>1. Commands' = Commands
      BY <1>1 DEF Commands
    <3>2. AddedSound'
      BY <3>1, <2>6, <1>1, <1>2 DEF AddedSound
    <3>3. StoredSound'
      BY <3>1, <2>6, <1>2, <1>3 DEF StoredSound, Settled
    <3> QED BY <3>2, <3>3
  <2>16. RingSound' /\ FramesCarry'
    <3>1. \A c : (Settled(c) <=> Settled(c)') /\ Command(c)' = Command(c)
      BY <2>6, <1>3 DEF Settled, Command
    <3>2. RingSound'
      BY <3>1, <1>1, <1>2 DEF RingSound, Commands
    <3>3. FramesCarry'
      BY <3>1, <2>6, <1>1, <1>2 DEF FramesCarry, Carries, Commands
    <3> QED BY <3>2, <3>3
  <2>17. SlotsSound'
    BY <2>6, <1>1, <1>2, <1>3 DEF SlotsSound, Commands
  <2>18. ExecutedSound'
    <3>1. ASSUME NEW i \in 1..k + Len(new)
          PROVE  /\ hist'.executed[i] \in Commands
                 /\ \E l \in hist.stored[hist'.executed[i]] : l <= F
      <4>1. CASE i \in 1..k
        <5>1. PICK l \in hist.stored[hist.executed[i]] : l <= view.num
          BY <4>1, <2>13
        <5>2. l \in Nat
          BY <4>1, <2>13, <1>2, HistoryFields
        <5>3. l <= F
          BY <5>1, <5>2, <2>2
        <5> QED BY <4>1, <5>1, <5>3, <2>11, <2>13
      <4>2. ASSUME NEW j \in 1..Len(new), i = k + j
            PROVE  /\ hist'.executed[i] \in Commands
                   /\ \E l \in hist.stored[hist'.executed[i]] : l <= F
        <5>1. F <= F
          BY <2>2
        <5> QED BY <4>2, <5>1, <2>11, <2>13
      <4> QED BY <4>1, <4>2, <2>12
    <3>2. ASSUME ~hist'.refired, NEW i \in 1..k + Len(new), NEW j \in 1..k + Len(new), i < j
          PROVE  hist'.executed[i] < hist'.executed[j]
      <4>1. ~hist.refired /\ view.num < F
        <5>1. ~(hist.refired \/ F = view.num)
          <6>1. hist'.refired = (hist.refired \/ F = view.num)
            BY <2>6
          <6> QED BY <6>1, <3>2, Zenon
        <5>2. ~hist.refired /\ F # view.num
          BY <5>1, Zenon
        <5>3. view.num < F
          BY <5>2, <2>2
        <5> QED BY <5>2, <5>3
      <4>2. CASE j \in 1..k
        <5>1. i \in 1..k
          BY <4>2, <3>2
        <5> QED BY <4>1, <4>2, <5>1, <3>2, <2>10, <2>11, <1>2 DEF ExecutedSound
      <4>3. ASSUME NEW b \in 1..Len(new), j = k + b
            PROVE  hist'.executed[i] < hist'.executed[j]
        <5>1. CASE i \in 1..k
          <6>1. PICK l \in hist.stored[hist.executed[i]] : l <= view.num
            BY <5>1, <2>13
          <6>2. l \in Nat
            BY <5>1, <2>13, <1>2, HistoryFields
          <6>3. l < F
            BY <4>1, <6>1, <6>2, <2>2
          <6>4. hist.executed[i] < new[b]
            BY <5>1, <6>1, <6>3, <2>13, <1>2 DEF StoredSound
          <6> QED BY <4>3, <5>1, <6>4, <2>11
        <5>2. ASSUME NEW a \in 1..Len(new), i = k + a
              PROVE  hist'.executed[i] < hist'.executed[j]
          <6>1. a < b
            BY <3>2, <4>3, <5>2
          <6> QED BY <4>3, <5>2, <6>1, <2>8, <2>11
        <5> QED BY <5>1, <5>2, <2>12
      <4> QED BY <4>2, <4>3, <2>12
    <3>3. Commands' = Commands
      BY <1>1 DEF Commands
    <3> QED BY <3>1, <3>2, <3>3, <2>2, <2>6, <2>11 DEF ExecutedSound
  <2> QED BY <2>14, <2>15, <2>16, <2>17, <2>18 DEF CommandsInv
<1> QED BY <1>4, <1>5

LEMMA CommandsNext == ASSUME IInv, CommandsInv, [Next]_vars PROVE CommandsInv'
<1>1. CASE AddGameCommand
  BY <1>1, AddGameCommandCommands
<1>2. CASE ServerFrame
  BY <1>2, ServerFrameCommands
<1>3. CASE ServerRead
  BY <1>3, ServerReadCommands
<1>4. CASE ClientRead
  BY <1>4, ClientReadCommands
<1>5. ASSUME NEW timeReached \in BOOLEAN, ClientFrame(timeReached)
      PROVE  CommandsInv'
  BY <1>5, ClientFrameCommands
<1>6. CASE ClientRequest
  <2>1. UNCHANGED <<sv, toClient, view, hist, cl.snapShots, cl.receivedSnapNum>>
    BY <1>6 DEF ClientRequest, IInv, Typed, ClientType
  <2> QED BY <2>1, CommandsKept
<1>7. CASE UNCHANGED vars
  BY <1>7, CommandsKept DEF vars
<1> QED BY <1>1, <1>2, <1>3, <1>4, <1>5, <1>6, <1>7 DEF Next

(***************************************************************************)
(* When the guess of the ring's size is right (server.h:205): the frames   *)
(* of all clients together fit into it UPDATE_BACKUP times.                *)
(***************************************************************************)
FramesFit == \A n \in EntityCounts, k \in OtherCounts : (n + k) * UpdateBackup <= RingSize
Most == RingSize \div UpdateBackup

LEMMA MostFits ==
    ASSUME FramesFit
    PROVE  /\ Most \in Nat /\ UpdateBackup * Most <= RingSize
           /\ \A n \in EntityCounts, k \in OtherCounts : n + k <= Most
<1>1. Most \in Nat /\ RingSize = UpdateBackup * Most + (RingSize % UpdateBackup)
  BY DEF Most
<1>2. RingSize % UpdateBackup \in 0..UpdateBackup-1
  BY ModRange
<1>3. ASSUME NEW n \in EntityCounts, NEW k \in OtherCounts
      PROVE  n + k <= Most
  <2>1. SUFFICES ASSUME n + k >= Most + 1 PROVE FALSE
    BY <1>1
  <2>2. PICK c \in Nat : c = n + k
    OBVIOUS
  <2>3. c * UpdateBackup <= RingSize
    BY <2>2 DEF FramesFit
  <2>4. c * UpdateBackup >= (Most + 1) * UpdateBackup
    BY <2>1, <2>2, <1>1
  <2>5. (Most + 1) * UpdateBackup = UpdateBackup * Most + UpdateBackup
    BY <1>1
  <2>6. PICK x \in Nat : x = UpdateBackup * Most
    BY <1>1
  <2>7. PICK y \in Nat : y = c * UpdateBackup
    BY <2>2
  <2> QED BY <2>3, <2>4, <2>5, <2>6, <2>7, <1>1, <1>2
<1> QED BY <1>1, <1>2, <1>3

\* No frame that is still in the ring of frames began more than Most entries a frame ago.
Spaced ==
    \A n \in 1..sv.framenum : n + UpdateBackup > sv.framenum =>
        sv.nextEntities <= sv.snapShots[n % UpdateBackup].first + (sv.framenum + 1 - n) * Most
Undamaged == Spaced /\ damaged = {}

LEMMA UndamagedKept ==
    ASSUME Undamaged, UNCHANGED <<sv.framenum, sv.snapShots, sv.nextEntities, damaged>>
    PROVE  Undamaged'
BY DEF Undamaged, Spaced

LEMMA SpacedFits ==
    ASSUME FramesFit, NEW x \in Nat, NEW d \in Nat, d <= UpdateBackup
    PROVE  x + d * Most <= x + RingSize
<1>1. Most \in Nat /\ UpdateBackup * Most <= RingSize
  BY MostFits
<1>2. d * Most <= UpdateBackup * Most
  BY <1>1
<1>3. PICK y \in Nat : y = d * Most
  BY <1>1
<1>4. PICK z \in Nat : z = UpdateBackup * Most
  BY <1>1
<1> QED BY <1>1, <1>2, <1>3, <1>4

LEMMA ServerFrameUndamaged ==
    ASSUME FramesFit, IInv, Undamaged, ServerFrame
    PROVE  Undamaged'
<1>f. PICK f : f = sv.framenum + 1
  OBVIOUS
<1>1. PICK n \in EntityCounts, k \in OtherCounts :
         LET q == WithNoDelta(BuildFrame(f, n, k), f)
         IN  /\ sv' = [q EXCEPT !.lastSentFrameNum = f]
             /\ damaged' = IF Damages(q, f) THEN damaged \cup {f} ELSE damaged
             /\ f <= MaxFrames
  BY <1>f DEF ServerFrame
<1>2. PICK b : b = BuildFrame(f, n, k)
  OBVIOUS
<1>3. PICK q : q = WithNoDelta(b, f)
  OBVIOUS
<1>4. /\ sv' = [q EXCEPT !.lastSentFrameNum = f]
      /\ damaged' = IF Damages(q, f) THEN damaged \cup {f} ELSE damaged
      /\ f <= MaxFrames
  BY <1>1, <1>2, <1>3
<1>5. sv \in ServerType
  BY DEF IInv, Typed
<1>6. /\ sv.framenum \in Nat /\ f \in Nat /\ sv.nextEntities \in Nat /\ f \in 0..MaxFrames
      /\ sv.snapShots \in [Slot -> BuiltType] /\ sv.lastframe \in Int
      /\ n \in Nat /\ k \in Nat
  BY <1>f, <1>4, <1>5, ServerFields
<1>7. PICK snaps : snaps = BuiltSnaps(f, n, k)
  OBVIOUS
<1>8. PICK next : next = sv.nextEntities + k + n
  OBVIOUS
<1>9. snaps \in [Slot -> BuiltType] /\ next \in Nat
  <2>1. PICK new : new = [num |-> f, first |-> sv.nextEntities + k, count |-> n]
    OBVIOUS
  <2>2. new \in BuiltType
    BY <2>1, <1>6 DEF BuiltType
  <2>3. snaps = [sv.snapShots EXCEPT ![f % UpdateBackup] = new]
    BY <2>1, <1>7 DEF BuiltSnaps
  <2>4. snaps \in [Slot -> BuiltType]
    BY <2>2, <2>3, <1>6
  <2>5. next \in Nat
    BY <1>6, <1>8
  <2> QED BY <2>4, <2>5
<1>10. b = [sv EXCEPT !.framenum = f, !.snapShots = snaps, !.nextEntities = next]
  BY <1>2, <1>5, <1>7, <1>8 DEF BuildFrame, BuiltSnaps, ServerType
<1>11. /\ b \in ServerType /\ b.framenum = f /\ b.snapShots = snaps /\ b.nextEntities = next
       /\ b.lastframe = sv.lastframe
  BY <1>5, <1>6, <1>9, <1>10 DEF ServerType
<1>12. /\ q \in ServerType /\ q.framenum = f /\ q.snapShots = snaps /\ q.nextEntities = next
       /\ q.lastframe = sv.lastframe
  <2>1. NoDeltaWritten(q, b, f)
    BY <1>3, <1>6, <1>11, WithNoDeltaFields
  <2> QED BY <2>1, <1>11 DEF NoDeltaWritten
<1>13. sv'.framenum = f /\ sv'.snapShots = snaps /\ sv'.nextEntities = next
  BY <1>4, <1>12 DEF ServerType
<1>14. Most \in Nat /\ n + k <= Most
  BY MostFits
\* The new frame is followed by its own entities only, and the others by Most more.
<1>15. ASSUME NEW i \in 1..f, i + UpdateBackup > f
       PROVE  next <= snaps[i % UpdateBackup].first + (f + 1 - i) * Most
  <2>1. i % UpdateBackup \in Slot /\ f % UpdateBackup \in Slot
    BY <1>6, SlotOf
  <2>2. CASE i = f
    <3>1. snaps[i % UpdateBackup].first = sv.nextEntities + k
      BY <2>1, <2>2, <1>6, <1>7 DEF BuiltSnaps
    <3>2. (f + 1 - i) * Most = Most
      <4>1. f + 1 - i = 1
        BY <2>2, <1>6
      <4> QED BY <4>1, <1>14
    <3> QED BY <3>1, <3>2, <1>6, <1>8, <1>14
  <2>3. CASE i # f
    <3>1. /\ i \in 1..sv.framenum /\ i + UpdateBackup > sv.framenum /\ i < f
          /\ f - i < UpdateBackup
      BY <2>3, <1>f, <1>6, <1>15
    <3>2. i % UpdateBackup # f % UpdateBackup
      BY <3>1, <1>6, ModDiffers
    <3>3. PICK first : first = sv.snapShots[i % UpdateBackup].first
      OBVIOUS
    <3>4. snaps[i % UpdateBackup].first = first
      BY <3>2, <3>3, <2>1, <1>6, <1>7 DEF BuiltSnaps
    <3>5. first \in Nat
      BY <3>3, <2>1, <1>6 DEF BuiltType
    <3>6. PICK d \in Nat : d = sv.framenum + 1 - i
      BY <3>1, <1>6
    <3>7. sv.nextEntities <= first + d * Most
      BY <3>1, <3>3, <3>6 DEF Undamaged, Spaced
    <3>8. f + 1 - i = d + 1 /\ (d + 1) * Most = d * Most + Most
      BY <3>6, <1>f, <1>6, <1>14
    <3>9. PICK x \in Nat : x = d * Most
      BY <3>6, <1>14
    <3> QED BY <3>4, <3>5, <3>7, <3>8, <3>9, <1>6, <1>8, <1>14
  <2> QED BY <2>2, <2>3
<1>16. Spaced'
  BY <1>13, <1>15 DEF Spaced
<1>17. ~Damages(q, f)
  <2>1. SUFFICES ASSUME IsDelta(q, f) PROVE ~Overrun(snaps[sv.lastframe % UpdateBackup], q)
    BY <1>12 DEF Damages, Undamaged
  <2>2. sv.lastframe \in 1..f /\ sv.lastframe + UpdateBackup > f
    BY <2>1, <1>6, <1>12 DEF IsDelta, UpdateMask
  <2>3. PICK l \in Nat : l = sv.lastframe
    BY <2>2, <1>6
  <2>4. PICK first : first = snaps[l % UpdateBackup].first
    OBVIOUS
  <2>5. first \in Nat
    <3>1. l % UpdateBackup \in Slot
      BY <2>3, SlotOf
    <3> QED BY <3>1, <2>4, <1>9 DEF BuiltType
  <2>6. next <= first + (f + 1 - l) * Most
    BY <2>2, <2>3, <2>4, <1>15
  <2>7. PICK d \in Nat : d = f + 1 - l /\ d <= UpdateBackup
    BY <2>2, <2>3, <1>6
  <2>8. first + d * Most <= first + RingSize
    BY <2>5, <2>7, SpacedFits
  <2>9. PICK x \in Nat : x = d * Most
    BY <2>7, <1>14
  <2>10. next <= first + RingSize
    BY <2>5, <2>6, <2>7, <2>8, <2>9, <1>9
  <2> QED BY <2>3, <2>4, <2>5, <2>10, <1>9, <1>12 DEF Overrun
<1> QED BY <1>4, <1>16, <1>17 DEF Undamaged

LEMMA UndamagedNext == ASSUME FramesFit, IInv, Undamaged, [Next]_vars PROVE Undamaged'
<1>0. sv \in ServerType /\ toServer \in Seq(MoveType)
  BY DEF IInv, Typed
<1>1. CASE AddGameCommand
  <2>1. UNCHANGED <<sv.framenum, sv.snapShots, sv.nextEntities, damaged>>
    BY <1>0, <1>1 DEF AddGameCommand, ServerType
  <2> QED BY <2>1, UndamagedKept
<1>2. CASE ServerFrame
  BY <1>2, ServerFrameUndamaged
<1>3. CASE ServerRead
  <2>1. PICK m : m = Head(toServer)
    OBVIOUS
  <2>2. PICK p : p = NoDelta(sv, m)
    OBVIOUS
  <2>3. /\ m \in MoveType /\ sv' = [p EXCEPT !.lastframe = m.lastframe] /\ UNCHANGED damaged
    BY <2>1, <2>2, <1>0, <1>3, TailMessages DEF ServerRead
  <2>4. /\ p \in ServerType /\ p.framenum = sv.framenum /\ p.snapShots = sv.snapShots
        /\ p.nextEntities = sv.nextEntities
    BY <2>2, <2>3, <1>0, NoDeltaFields
  <2>5. UNCHANGED <<sv.framenum, sv.snapShots, sv.nextEntities, damaged>>
    BY <2>3, <2>4 DEF ServerType
  <2> QED BY <2>5, UndamagedKept
<1>4. CASE ClientRead \/ ClientRequest \/ UNCHANGED vars
  <2>1. UNCHANGED <<sv, damaged>>
    BY <1>4 DEF ClientRead, ClientRequest, vars
  <2> QED BY <2>1, UndamagedKept
<1>5. ASSUME NEW timeReached \in BOOLEAN, ClientFrame(timeReached)
      PROVE  Undamaged'
  <2>1. UNCHANGED <<sv, damaged>>
    BY <1>5 DEF ClientFrame
  <2> QED BY <2>1, UndamagedKept
<1> QED BY <1>1, <1>2, <1>3, <1>4, <1>5 DEF Next

(***************************************************************************)
(* The theorems.                                                           *)
(***************************************************************************)

\* What is in both rings, and on its way between them, is sound in every state.
THEOREM SnapshotsInvariant == Spec => []IInv
<1>1. Init => IInv
  BY InitSound
<1>2. IInv /\ [Next]_vars => IInv'
  BY NextSound
<1> QED BY <1>1, <1>2, PTL DEF Spec

\* The server's and the client's variables keep to their ranges: no acknowledgement is of
\* a frame the server has not sent, no frame is shown that was not received.
THEOREM SnapshotsTypeOK == Spec => []TypeOK
<1>1. IInv => TypeOK
  <2> SUFFICES ASSUME IInv PROVE TypeOK
    OBVIOUS
  <2>1. /\ sv \in ServerType /\ cl \in ClientType /\ entities \in [0..RingSize-1 -> 0..MaxFrames]
        /\ damaged \subseteq 1..sv.framenum
    BY DEF IInv, Typed
  <2>2. /\ sv.framenum \in 0..MaxFrames /\ sv.lastframe \in Int
        /\ sv.snapShots \in [Slot -> BuiltType]
    BY <2>1 DEF ServerType
  <2>3. /\ cl.receivedSnapNum \in Nat /\ cl.currentSnapNum \in Nat /\ cl.pendingSnapNum \in Nat
    BY <2>1, ClientFields
  <2>4. /\ cl.receivedSnapNum <= sv.framenum /\ cl.currentSnapNum <= cl.receivedSnapNum
        /\ cl.pendingSnapNum # 0 => cl.pendingSnapNum \in cl.currentSnapNum+1..cl.receivedSnapNum
    BY DEF IInv, ClientSound
  <2>5. sv.lastframe = -1 \/ sv.lastframe \in 1..cl.receivedSnapNum
    BY DEF IInv, AcksSound, AckSound, Has
  <2>6. sv.lastframe \in {-1} \cup 1..sv.framenum
    BY <2>2, <2>3, <2>4, <2>5
  <2>7. cl.receivedSnapNum \in 0..sv.framenum /\ cl.currentSnapNum \in 0..cl.receivedSnapNum
    BY <2>2, <2>3, <2>4
  <2>8. cl.pendingSnapNum \in {0} \cup cl.currentSnapNum+1..cl.receivedSnapNum
    BY <2>4
  <2> QED BY <2>1, <2>2, <2>6, <2>7, <2>8 DEF TypeOK, BuiltType
<1> QED BY <1>1, SnapshotsInvariant, PTL

\* However many frames are lost and however late acknowledgements come, no frame that the
\* client reads is a delta of a frame that is no longer in one of the rings of frames
\* (SNAP_ParseFrame never rejects one), and each is as the server built it unless it depends
\* on a delta of a frame whose entities had been overwritten (SNAP_EmitPacketEntities).
THEOREM SnapshotsEveryFrameDecodes == Spec => []EveryFrameDecodes
<1>1. IInv => EveryFrameDecodes
  BY DEF IInv, ClientSound, DecodedIn, Right, EveryFrameDecodes
<1> QED BY <1>1, SnapshotsInvariant, PTL

\* As long as the frames of all clients fit into the ring of entities UPDATE_BACKUP times, as
\* server.h:205 guesses, the frame that a delta is written from is what the client was sent:
\* the condition under which snap_write.c:655 has "a valid message to delta from".
THEOREM SnapshotsBaseIsValid == ASSUME FramesFit PROVE Spec => []BaseIsValid
<1>1. Init => Undamaged
  <2> SUFFICES ASSUME Init PROVE Undamaged
    OBVIOUS
  <2>1. sv.framenum = 0 /\ damaged = {}
    BY DEF Init
  <2> QED BY <2>1 DEF Undamaged, Spaced
<1>2. IInv /\ Undamaged /\ [Next]_vars => Undamaged'
  BY UndamagedNext
<1>3. IInv /\ Undamaged => BaseIsValid
  <2> SUFFICES ASSUME IInv, Undamaged, NEW i \in DOMAIN toClient, toClient[i].delta
               PROVE  toClient[i].from = toClient[i].deltaFrameNum
    BY DEF BaseIsValid
  <2>1. toClient \in Seq(FrameType)
    BY DEF IInv, Typed
  <2>2. i \in 1..Len(toClient)
    BY <2>1
  <2>3. FrameSound(toClient[i], cl)
    BY <2>2 DEF IInv, FramesSound
  <2> QED BY <2>3 DEF FrameSound, Right, Undamaged
<1> QED BY <1>1, <1>2, <1>3, SnapshotsInvariant, PTL DEF Spec

\* A client that asked for whole frames gets no delta until it has received one of them,
\* whatever it had acknowledged before (SV_NoDelta_f, SNAP_WriteFrameSnapToClient).
THEOREM SnapshotsNoDeltaHonoured == Spec => []NoDeltaHonoured
<1>1. IInv => NoDeltaHonoured
  <2> SUFFICES ASSUME IInv, NEW k \in DOMAIN toClient, cl.waiting, cl.requests = sv.requests,
                      sv.nodeltaFrame # 0, toClient[k].snapNum >= sv.nodeltaFrame
               PROVE  ~toClient[k].delta
    BY DEF NoDeltaHonoured
  <2>1. toClient \in Seq(FrameType) /\ sv \in ServerType
    BY DEF IInv, Typed
  <2>2. k \in 1..Len(toClient)
    BY <2>1
  <2>3. toClient[k].snapNum \in Nat /\ sv.nodeltaFrame \in Nat
    BY <2>1, <2>2, FrameFields, ServerFields
  <2>4. toClient[k].delta => toClient[k].snapNum < sv.nodeltaFrame
    BY <2>2 DEF IInv, WholeSound, Waiting
  <2> QED BY <2>3, <2>4
<1> QED BY <1>1, SnapshotsInvariant, PTL

LEMMA StreamStep ==
    ASSUME IInv, [Next]_vars
    PROVE  [Stream!Next]_<<sv.framenum, damaged, view>>
<1>1. CASE AddGameCommand \/ ServerRead
  BY <1>1, AddGameCommandSound, ServerReadSound
<1>2. CASE ServerFrame
  BY <1>2, ServerFrameSound DEF Stream!Next, Stream!Build
<1>3. CASE ClientRead \/ ClientRequest \/ UNCHANGED vars
  BY <1>3 DEF ClientRead, ClientRequest, vars
<1>4. ASSUME NEW timeReached \in BOOLEAN, ClientFrame(timeReached)
      PROVE  [Stream!Next]_<<sv.framenum, damaged, view>>
  <2> DEFINE snap == cl.snapShots[Pending % UpdateBackup]
  <2>1. UNCHANGED <<sv, damaged>>
    BY <1>4 DEF ClientFrame
  <2>2. CASE ~(Pending # 0 /\ timeReached)
    <3>1. UNCHANGED view
      BY <2>2, <1>4 DEF ClientFrame
    <3> QED BY <2>1, <3>1
  <2>3. CASE Pending # 0 /\ timeReached
    <3>1. view' = [num |-> snap.serverFrame, contents |-> snap.contents]
      BY <2>3, <1>4 DEF ClientFrame
    <3>2. /\ Right(snap.contents, snap.serverFrame, snap.serverFrame) /\ snap.serverFrame \in Nat
          /\ snap.serverFrame <= cl.receivedSnapNum /\ snap.serverFrame >= view.num
          /\ snap.serverFrame = view.num => snap.contents = view.contents
      BY <2>3, FiredSound
    <3> DEFINE g == snap.serverFrame
    <3> DEFINE c == snap.contents
    <3>3. view' = [num |-> g, contents |-> c] /\ c \in IF g \in damaged THEN {g, Garbage} ELSE {g}
      BY <3>1, <3>2 DEF Right
    <3>4. /\ view \in [num : Nat, contents : Int] /\ Right(view.contents, view.num, view.num)
          /\ cl \in ClientType /\ sv \in ServerType /\ cl.receivedSnapNum <= sv.framenum
      BY DEF IInv, Typed, ClientSound
    <3>5. view.num \in Nat /\ cl.receivedSnapNum \in Nat /\ sv.framenum \in Nat
      BY <3>4, ClientFields, ServerFields
    <3>6. g \in Nat /\ g >= view.num /\ g <= sv.framenum
      BY <3>2, <3>4, <3>5
    <3>9. view = [num |-> view.num, contents |-> view.contents]
      BY <3>4
    <3>10. g = view.num => c = view.contents
      BY <3>2
    <3> HIDE DEF g, c, snap
    <3>7. CASE g = view.num
      BY <2>1, <3>3, <3>7, <3>9, <3>10
    <3>8. CASE g # view.num
      <4>1. g \in view.num+1..sv.framenum
        BY <3>5, <3>6, <3>8
      <4> QED BY <2>1, <3>3, <4>1 DEF Stream!Next, Stream!Show, Stream!Garbage, Garbage
    <3> QED BY <3>7, <3>8
  <2> QED BY <2>2, <2>3
<1> QED BY <1>1, <1>2, <1>3, <1>4 DEF Next

\* The rings, deltas and acknowledgements implement FrameStream: what the client shows are
\* frames that the server built, in order, each as it was built unless it was damaged then.
THEOREM SnapshotsImplementFrameStream == Spec => ShowsFramesInOrder
<1>1. Init => Stream!Init
  BY DEF Init, Stream!Init
<1>2. IInv /\ [Next]_vars => [Stream!Next]_<<sv.framenum, damaged, view>>
  BY StreamStep
<1> QED BY <1>1, <1>2, SnapshotsInvariant, PTL DEF Spec, ShowsFramesInOrder, Stream!Spec

\* What the ring of game commands and the frames on their way have, and what the client has
\* stored and executed of it, fits together in every state.
THEOREM GameCommandsInvariant == Spec => []CommandsInv
<1>1. Init => CommandsInv
  BY CommandsInit
<1>2. IInv /\ CommandsInv /\ [Next]_vars => CommandsInv'
  BY CommandsNext
<1> QED BY <1>1, <1>2, SnapshotsInvariant, PTL DEF Spec

\* SNAP_WriteFrameSnapToClient repeats the commands and SNAP_ParseFrame leaves out those it
\* has: each is stored once, and none is missed that was not given up.
THEOREM SnapshotsGameCommandsStoredOnce == Spec => []GameCommandsStoredOnce
<1>1. IInv /\ CommandsInv => GameCommandsStoredOnce
  <2> SUFFICES ASSUME IInv, CommandsInv, NEW c \in DOMAIN hist.added
               PROVE  /\ Cardinality(hist.stored[c]) <= 1
                      /\ (0 < cl.receivedSnapNum /\ hist.added[c] <= cl.receivedSnapNum) =>
                            hist.stored[c] # {} \/ c \in hist.excused
    BY DEF GameCommandsStoredOnce
  <2>1. HistoryTyped /\ StoredSound /\ sv \in ServerType
    BY DEF CommandsInv, IInv, Typed
  <2>2. c \in Commands
    BY <2>1, HistoryFields DEF HistoryTyped, Commands
  <2>3. PICK K : K = hist.stored[c]
    OBVIOUS
  <2>4. \A k, l \in K : k = l
    BY <2>1, <2>2, <2>3 DEF StoredSound
  <2>5. Cardinality(K) <= 1
    <3>1. CASE K = {}
      BY <3>1, FS_EmptySet
    <3>2. CASE K # {}
      <4>1. PICK k : k \in K
        BY <3>2
      <4>3. K = {k}
        BY <4>1, <2>4, Zenon
      <4>2. Cardinality({k}) = 1
        BY FS_Singleton
      <4>4. Cardinality(K) = 1
        BY <4>2, <4>3, Zenon
      <4> QED BY <4>4
    <3> QED BY <3>1, <3>2
  <2> QED BY <2>1, <2>2, <2>3, <2>5 DEF StoredSound, Settled
<1> QED BY <1>1, SnapshotsInvariant, GameCommandsInvariant, PTL

\* cgame executes each game command once, in the order they were added, while it is not given
\* a frame twice.
THEOREM SnapshotsGameCommandsInOrder == Spec => []GameCommandsInOrder
<1>1. IInv /\ CommandsInv => GameCommandsInOrder
  <2> SUFFICES ASSUME IInv, CommandsInv PROVE GameCommandsInOrder
    OBVIOUS
  <2>1. DOMAIN hist.executed = 1..Len(hist.executed)
    BY HistoryFields DEF CommandsInv, IInv, Typed
  <2> QED BY <2>1 DEF CommandsInv, ExecutedSound, GameCommandsInOrder
<1> QED BY <1>1, SnapshotsInvariant, GameCommandsInvariant, PTL
=============================================================================
