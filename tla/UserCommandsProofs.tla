------------------------- MODULE UserCommandsProofs -------------------------
(***************************************************************************)
(* For rings of any size, any number of moves and messages, and any        *)
(* clocks: the numbers of the two ends fit, the game executes the moves in *)
(* order and none twice, and none is lost without an excuse.               *)
(***************************************************************************)
EXTENDS UserCommands, CommonLemmas

\* What is used of the assumptions about constants.
LEMMA Constants ==
    /\ CmdBackup \in Nat \ {0, 1} /\ Few \in Nat /\ Few < CmdBackup
    /\ MaxDelay \in Nat /\ MaxAhead \in Nat /\ MaxSetBack \in Nat
    /\ MaxMoves \in Nat /\ MaxTime \in Nat /\ MaxInFlight \in Nat
BY SizesAssumption

USE Constants

(***************************************************************************)
(* The invariant.                                                          *)
(***************************************************************************)
Moves == [num : Nat, time : Nat]
Ring == [0..CmdMask -> Moves]
ClientType == [ucmdHead : 0..MaxMoves, ucmdAcknowledged : Nat, serverTime : Nat, cmds : Ring]
ServerType == [gametime : 0..MaxTime, UcmdTime : 0..MaxTime, UcmdExecuted : Nat,
               UcmdReceived : Nat, ucmds : Ring]
MessageType == [ucmdHead : Nat, ranOut : BOOLEAN, ucmds : UNION {[D -> Moves] : D \in SUBSET Nat}]
HistoryType == [times : Seq(Nat), executed : Seq(Nat), excused : SUBSET Int, setBack : Nat]

Types ==
    /\ cl \in ClientType
    /\ sv \in ServerType
    /\ toServer \in Seq(MessageType)
    /\ toClient \in Seq(Nat)
    /\ hist \in HistoryType

\* The move number n, as it was made.
Move(n) == [num |-> n, time |-> TimeOf(n)]

\* Every move made has its time stamp; without a set-back they only grow.
TimesKept ==
    /\ Len(hist.times) = cl.ucmdHead
    /\ cl.ucmdHead > 0 => TimeOf(0) = 0
    /\ hist.setBack = 0 =>
          /\ \A n \in 0..cl.ucmdHead-1 : TimeOf(n) <= cl.serverTime
          /\ \A n, k \in 0..cl.ucmdHead-1 : n < k => TimeOf(n) <= TimeOf(k)

\* The client's ring has its last CMD_MASK moves: the slot after them is cleared.
ClientRing ==
    \A n \in 0..cl.ucmdHead-1 :
        n >= cl.ucmdHead - CmdMask => cl.cmds[n % CmdBackup] = Move(n)

\* A message has a run of moves that fits in the ring; when the client has not run out, it
\* begins no later than after the last move received.
GoodMessage(m) ==
    /\ sv.UcmdReceived < m.ucmdHead /\ m.ucmdHead <= UcmdHead
    /\ \E first \in 1..m.ucmdHead :
          /\ DOMAIN m.ucmds = first..m.ucmdHead-1
          /\ m.ucmdHead - first <= CmdMask
          /\ ~m.ranOut => first <= sv.UcmdReceived + 1
    /\ \A i \in DOMAIN m.ucmds : m.ucmds[i] = Move(i)
MessagesMatch ==
    /\ \A k \in 1..Len(toServer) : GoodMessage(toServer[k])
    /\ \A k, l \in 1..Len(toServer) : k < l => toServer[k].ucmdHead <= toServer[l].ucmdHead

\* What is acknowledged was received, in the order it was.
AcksMatch ==
    /\ cl.ucmdAcknowledged <= sv.UcmdReceived
    /\ \A k \in 1..Len(toClient) :
          cl.ucmdAcknowledged <= toClient[k] /\ toClient[k] <= sv.UcmdReceived
    /\ \A k, l \in 1..Len(toClient) : k < l => toClient[k] <= toClient[l]

\* A slot of the server's ring is empty or has a move received that belongs there,
GoodSlot(s) ==
    \/ sv.ucmds[s] = NoMove
    \/ LET n == sv.ucmds[s].num
       IN  n \in 1..sv.UcmdReceived /\ n % CmdBackup = s /\ sv.ucmds[s] = Move(n)
\* and no older one than any that was received and not excused.
ServerRing ==
    /\ sv.UcmdReceived < UcmdHead
    /\ sv.UcmdExecuted <= sv.UcmdReceived
    /\ \A s \in 0..CmdMask : GoodSlot(s)
    /\ \A n \in 1..sv.UcmdReceived : n \in hist.excused \/ sv.ucmds[n % CmdBackup].num >= n

\* The moves executed were received, and their times only grow.
ExecutedMatch ==
    /\ \A i \in 1..Len(hist.executed) :
          /\ hist.executed[i] \in 1..sv.UcmdReceived
          /\ TimeOf(hist.executed[i]) <= sv.UcmdTime
    /\ \A i, j \in 1..Len(hist.executed) :
          i < j => TimeOf(hist.executed[i]) < TimeOf(hist.executed[j])

IInv ==
    /\ Types /\ TimesKept /\ ClientRing /\ MessagesMatch /\ AcksMatch /\ ServerRing
    /\ ExecutedMatch /\ NoMoveLost

-----------------------------------------------------------------------------
\* The fields of the records.
LEMMA ClientFields ==
    ASSUME Types
    PROVE  /\ cl.ucmdHead \in Nat /\ cl.ucmdHead <= MaxMoves
           /\ cl.ucmdAcknowledged \in Nat /\ cl.serverTime \in Nat
BY DEF Types, ClientType

LEMMA ServerFields ==
    ASSUME Types
    PROVE  /\ sv.gametime \in 0..MaxTime /\ sv.UcmdTime \in 0..MaxTime
           /\ sv.UcmdExecuted \in Nat /\ sv.UcmdReceived \in Nat
BY DEF Types, ServerType

LEMMA RingFields == ASSUME Types PROVE cl.cmds \in Ring /\ sv.ucmds \in Ring
BY DEF Types, ClientType, ServerType

LEMMA HistoryFields ==
    ASSUME Types
    PROVE  /\ hist.times \in Seq(Nat) /\ hist.executed \in Seq(Nat)
           /\ hist.excused \in SUBSET Int /\ hist.setBack \in Nat
BY DEF Types, HistoryType

LEMMA QueueFields ==
    ASSUME Types
    PROVE  toServer \in Seq(MessageType) /\ toClient \in Seq(Nat)
BY DEF Types

LEMMA MessageFields ==
    ASSUME Types, NEW k \in 1..Len(toServer)
    PROVE  toServer[k].ucmdHead \in Nat /\ toServer[k].ranOut \in BOOLEAN
<1>1. toServer[k] \in MessageType
  BY QueueFields
<1> QED BY <1>1 DEF MessageType

LEMMA Numbers ==
    ASSUME Types
    PROVE  UcmdHead \in Nat \ {0} /\ CmdMask \in Nat \ {0} /\ CmdMask = CmdBackup - 1
BY DEF Types, ClientType, UcmdHead, CmdMask

LEMMA SlotRange == ASSUME NEW n \in Nat PROVE n % CmdBackup \in 0..CmdMask
BY ModRange DEF CmdMask

\* Two numbers less than a ring apart have different slots.
LEMMA SlotsDiffer ==
    \A i, n \in Nat : i < n /\ n - i < CmdBackup => i % CmdBackup # n % CmdBackup
BY ModDiffers

\* The numbers of the moves that a time stamp is asked for.
LEMMA TimeType ==
    ASSUME Types, TimesKept, NEW n \in 0..cl.ucmdHead-1
    PROVE  TimeOf(n) \in Nat /\ Move(n) \in Moves
<1>1. n + 1 \in 1..Len(hist.times)
  BY ClientFields DEF TimesKept
<1>2. TimeOf(n) \in Nat
  BY <1>1, HistoryFields DEF TimeOf
<1> QED BY <1>2, ClientFields DEF Move, Moves

LEMMA InitSound == Init => IInv
<1> SUFFICES ASSUME Init PROVE IInv
  OBVIOUS
<1> USE DEF Init
<1>1. CmdMask \in Nat /\ NoMove \in Moves /\ NewRing \in Ring
  BY DEF CmdMask, NoMove, Moves, NewRing, Ring
<1>2. /\ toServer = <<>> /\ toClient = <<>>
      /\ hist.times = <<>> /\ hist.executed = <<>> /\ hist.excused = {} /\ hist.setBack = 0
      /\ cl.ucmdHead = 0 /\ cl.ucmdAcknowledged = 0 /\ sv.UcmdReceived = 0
      /\ sv.UcmdExecuted = 0 /\ sv.ucmds = NewRing
  OBVIOUS
<1>3. Types
  <2>1. cl \in ClientType
    BY <1>1 DEF ClientType
  <2>2. sv \in ServerType
    BY <1>1 DEF ServerType
  <2>3. hist \in HistoryType
    BY DEF HistoryType
  <2> QED BY <2>1, <2>2, <2>3 DEF Types
<1>4. TimesKept /\ ClientRing
  BY <1>2 DEF TimesKept, ClientRing
<1>5. MessagesMatch /\ AcksMatch
  BY <1>2 DEF MessagesMatch, AcksMatch
<1>6. ServerRing
  <2>1. \A s \in 0..CmdMask : GoodSlot(s)
    BY <1>2, <1>1 DEF GoodSlot, NewRing
  <2> QED BY <1>2, <2>1 DEF ServerRing, UcmdHead
<1>7. ExecutedMatch /\ NoMoveLost
  BY <1>2 DEF ExecutedMatch, NoMoveLost
<1> QED BY <1>3, <1>4, <1>5, <1>6, <1>7 DEF IInv

(***************************************************************************)
(* The client makes a move.                                                *)
(***************************************************************************)
LEMMA NewUserCommandSound == ASSUME IInv, NewUserCommand PROVE IInv'
<1>h. PICK h \in Nat : h = cl.ucmdHead
  BY ClientFields DEF IInv
<1>1. PICK t \in IF h = 0 THEN {0} ELSE 0..sv.gametime + MaxAhead :
          /\ t < cl.serverTime => hist.setBack < MaxSetBack
          /\ cl' = [cl EXCEPT !.ucmdHead = h + 1, !.serverTime = t,
                              !.cmds[h % CmdBackup] = [num |-> h, time |-> t],
                              !.cmds[(h + 1) % CmdBackup] = NoMove]
          /\ hist' = [hist EXCEPT !.times = Append(@, t),
                                  !.setBack = IF t < cl.serverTime THEN @ + 1 ELSE @]
  BY <1>h DEF NewUserCommand
<1>2. h < MaxMoves /\ UNCHANGED <<sv, toServer, toClient>>
  BY <1>h DEF NewUserCommand
<1>3. Types /\ TimesKept /\ ClientRing /\ MessagesMatch /\ AcksMatch /\ ServerRing
      /\ ExecutedMatch /\ NoMoveLost
  BY DEF IInv
<1>4. t \in Nat /\ (h = 0 => t = 0)
  BY <1>1, <1>3, ServerFields
<1>5. /\ cl.ucmdHead = h /\ cl'.ucmdHead = h + 1 /\ cl'.serverTime = t
      /\ cl'.ucmdAcknowledged = cl.ucmdAcknowledged
      /\ cl'.cmds = [cl.cmds EXCEPT ![h % CmdBackup] = [num |-> h, time |-> t],
                                    ![(h + 1) % CmdBackup] = NoMove]
      /\ hist'.times = Append(hist.times, t)
      /\ hist'.setBack = IF t < cl.serverTime THEN hist.setBack + 1 ELSE hist.setBack
      /\ hist'.executed = hist.executed /\ hist'.excused = hist.excused
  BY <1>1, <1>3, <1>h DEF Types, ClientType, HistoryType
<1>6. h \in Nat /\ Len(hist.times) = h /\ Len(hist'.times) = h + 1
      /\ TimeOf(h)' = t /\ \A n \in 0..h-1 : TimeOf(n)' = TimeOf(n)
  <2>1. h \in Nat /\ Len(hist.times) = h /\ hist.times \in Seq(Nat)
    BY <1>3, <1>h, HistoryFields DEF TimesKept
  <2>2. PICK s \in Seq(Nat) : s = hist.times
    BY <2>1
  <2>3. hist'.times = Append(s, t) /\ Len(s) = h /\ t \in Nat
    BY <2>1, <2>2, <1>4, <1>5
  <2>4. /\ Len(Append(s, t)) = h + 1 /\ Append(s, t)[h+1] = t
        /\ \A n \in 0..h-1 : Append(s, t)[n+1] = s[n+1]
    BY <2>1, <2>3
  <2> QED BY <2>1, <2>2, <2>3, <2>4 DEF TimeOf
<1>7. Types'
  <2>1. [num |-> h, time |-> t] \in Moves /\ NoMove \in Moves
    BY <1>4, <1>6 DEF Moves, NoMove
  <2>2. cl'.cmds \in Ring
    BY <2>1, <1>3, <1>5, RingFields DEF Ring
  <2>3. cl' \in ClientType
    <3>1. cl' = [ucmdHead |-> h + 1, ucmdAcknowledged |-> cl.ucmdAcknowledged,
                 serverTime |-> t, cmds |-> cl'.cmds]
      BY <1>1, <1>3 DEF Types, ClientType
    <3> QED BY <3>1, <2>2, <1>2, <1>3, <1>4, ClientFields DEF ClientType
  <2>4. hist' \in HistoryType
    <3>1. hist' = [times |-> hist'.times, executed |-> hist.executed,
                   excused |-> hist.excused, setBack |-> hist'.setBack]
      BY <1>1, <1>3 DEF Types, HistoryType
    <3>2. hist'.times \in Seq(Nat) /\ hist'.setBack \in Nat
      BY <1>3, <1>4, <1>5, HistoryFields
    <3> QED BY <3>1, <3>2, <1>3, HistoryFields DEF HistoryType
  <2> QED BY <2>3, <2>4, <1>2, <1>3 DEF Types
<1>8. TimesKept'
  <2>1. (h + 1 > 0 => TimeOf(0)' = 0)
    BY <1>3, <1>4, <1>6 DEF TimesKept
  <2>2. ASSUME hist'.setBack = 0
        PROVE  /\ \A n \in 0..h : TimeOf(n)' <= t
               /\ \A n, k \in 0..h : n < k => TimeOf(n)' <= TimeOf(k)'
    <3>1. hist.setBack = 0 /\ ~(t < cl.serverTime)
      BY <2>2, <1>3, <1>5, HistoryFields
    <3>2. \A n \in 0..h-1 : TimeOf(n) <= cl.serverTime /\ TimeOf(n) \in Nat
      BY <3>1, <1>3, <1>h, TimeType DEF TimesKept
    <3>3. \A n \in 0..h-1 : TimeOf(n)' <= t
      BY <3>1, <3>2, <1>3, <1>4, <1>6, ClientFields
    <3>4. \A n \in 0..h : n = h \/ n \in 0..h-1
      BY <1>6
    <3>5. \A n \in 0..h : TimeOf(n)' <= t
      BY <3>3, <3>4, <1>4, <1>6
    <3>6. \A n, k \in 0..h-1 : n < k => TimeOf(n)' <= TimeOf(k)'
      BY <3>1, <1>3, <1>6 DEF TimesKept
    <3>7. ASSUME NEW n \in 0..h, NEW k \in 0..h, n < k PROVE TimeOf(n)' <= TimeOf(k)'
      <4>1. n \in 0..h-1
        BY <3>7, <1>6
      <4> QED BY <4>1, <3>3, <3>4, <3>6, <3>7, <1>6
    <3> QED BY <3>5, <3>7
  <2> QED BY <2>1, <2>2, <1>5, <1>6 DEF TimesKept
<1>9. ClientRing'
  <2> SUFFICES ASSUME NEW n \in 0..cl'.ucmdHead-1, n >= cl'.ucmdHead - CmdMask
               PROVE  cl'.cmds[n % CmdBackup] = Move(n)'
    BY DEF ClientRing
  <2>h. PICK g \in Nat : g = h + 1
    OBVIOUS
  <2> n \in 0..h /\ n >= g - CmdMask
    <3>1. cl'.ucmdHead = g
      BY <2>h, <1>5
    <3> QED BY <3>1, <2>h
  <2>a. n \in Nat /\ n < g /\ g - n < CmdBackup
    BY <2>h, <1>3, Numbers
  <2>1. n \in Nat /\ n % CmdBackup # (h + 1) % CmdBackup
    BY <2>h, <2>a, SlotsDiffer
  <2>2. /\ n % CmdBackup \in 0..CmdMask /\ h % CmdBackup \in 0..CmdMask
        /\ (h + 1) % CmdBackup \in 0..CmdMask
    BY <2>1, <2>h, <1>6, SlotRange
  <2>3. CASE n = h
    <3>1. cl'.cmds[h % CmdBackup] = [num |-> h, time |-> t]
      BY <2>1, <2>2, <2>3, <1>3, <1>5, RingFields DEF Ring
    <3> QED BY <3>1, <2>3, <1>6 DEF Move
  <2>4. CASE n < h
    <3>1. n % CmdBackup # h % CmdBackup /\ n \in 0..h-1 /\ n >= h - CmdMask
      <4>1. n \in 0..h-1 /\ n >= h - CmdMask /\ h - n < CmdBackup
        BY <2>4, <2>h, <1>3, Numbers
      <4> QED BY <4>1, <2>1, <2>4, SlotsDiffer
    <3>2. cl'.cmds[n % CmdBackup] = cl.cmds[n % CmdBackup]
      BY <3>1, <2>1, <2>2, <1>3, <1>5, RingFields DEF Ring
    <3>3. cl.cmds[n % CmdBackup] = Move(n)
      BY <3>1, <1>3, <1>h DEF ClientRing
    <3> QED BY <3>1, <3>2, <3>3, <1>6 DEF Move
  <2> QED BY <2>1, <2>3, <2>4, <1>6
<1>10. UcmdHead \in Nat /\ UcmdHead' \in Nat /\ UcmdHead <= UcmdHead'
  BY <1>5, <1>6 DEF UcmdHead
<1>11. MessagesMatch'
  <2>1. ASSUME NEW k \in 1..Len(toServer) PROVE GoodMessage(toServer[k])'
    <3> DEFINE m == toServer[k]
    <3>1. GoodMessage(m) /\ m' = m
      BY <1>2, <1>3 DEF MessagesMatch
    <3>2. m.ucmdHead \in Nat
      BY <1>3, MessageFields
    <3>3. \A i \in DOMAIN m.ucmds : i \in 0..h-1
      BY <3>1, <3>2, <1>h DEF GoodMessage, UcmdHead
    <3>4. \A i \in DOMAIN m.ucmds : m.ucmds[i] = Move(i)'
      BY <3>1, <3>3, <1>6 DEF GoodMessage, Move
    <3>5. m.ucmdHead <= UcmdHead'
      BY <3>1, <3>2, <1>10 DEF GoodMessage
    <3> HIDE DEF m
    <3>6. GoodMessage(m)'
      BY <3>1, <3>4, <3>5, <1>2 DEF GoodMessage
    <3> QED BY <3>6 DEF m
  <2> QED BY <2>1, <1>2, <1>3 DEF MessagesMatch
<1>12. AcksMatch'
  BY <1>2, <1>3, <1>5 DEF AcksMatch
<1>13. sv.UcmdReceived \in 0..h /\ (sv.UcmdReceived > 0 => sv.UcmdReceived <= h-1)
  BY <1>3, <1>h, ServerFields DEF ServerRing, UcmdHead
<1>14. \A n \in 1..sv.UcmdReceived : n \in 0..h-1
  BY <1>13, <1>6
<1>15. ServerRing'
  <2>1. \A s \in 0..CmdMask : GoodSlot(s)'
    BY <1>2, <1>3, <1>6, <1>14 DEF GoodSlot, Move, ServerRing
  <2>2. sv.UcmdReceived < UcmdHead'
    BY <1>3, <1>10, <1>13 DEF ServerRing
  <2> QED BY <2>1, <2>2, <1>2, <1>3, <1>5 DEF ServerRing
<1>16. ExecutedMatch'
  <2>1. \A i \in 1..Len(hist.executed) : TimeOf(hist.executed[i])' = TimeOf(hist.executed[i])
    BY <1>3, <1>5, <1>6, <1>14 DEF ExecutedMatch
  <2> QED BY <2>1, <1>2, <1>3, <1>5 DEF ExecutedMatch
<1>17. NoMoveLost'
  <2> SUFFICES ASSUME NEW n \in 1..sv.UcmdExecuted, n \notin hist.excused
               PROVE  \E i \in DOMAIN hist.executed :
                          TimeOf(hist.executed[i])' = TimeOf(n)'
    BY <1>2, <1>5 DEF NoMoveLost
  <2>1. PICK i \in DOMAIN hist.executed : TimeOf(hist.executed[i]) = TimeOf(n)
    BY <1>3 DEF NoMoveLost
  <2>2. i \in 1..Len(hist.executed)
    BY <1>3, HistoryFields
  <2>3. n \in 1..sv.UcmdReceived
    BY <1>3, ServerFields DEF ServerRing
  <2>4. hist.executed[i] \in 1..sv.UcmdReceived
    BY <2>2, <1>3 DEF ExecutedMatch
  <2>5. n \in 0..h-1 /\ hist.executed[i] \in 0..h-1
    BY <2>3, <2>4, <1>14
  <2> QED BY <2>1, <2>5, <1>5, <1>6
<1> QED BY <1>7, <1>8, <1>9, <1>11, <1>12, <1>15, <1>16, <1>17 DEF IInv

(***************************************************************************)
(* The parts that a step leaves alone.                                     *)
(***************************************************************************)
LEMMA ClientPartKept ==
    ASSUME TimesKept, ClientRing, UNCHANGED <<cl.ucmdHead, cl.serverTime, cl.cmds>>,
           UNCHANGED <<hist.times, hist.setBack>>
    PROVE  TimesKept' /\ ClientRing'
<1>1. \A n \in 0..cl.ucmdHead-1 : TimeOf(n)' = TimeOf(n) /\ Move(n)' = Move(n)
  BY DEF TimeOf, Move
<1>2. TimeOf(0)' = TimeOf(0)
  BY DEF TimeOf
<1>3. TimesKept'
  BY <1>1, <1>2 DEF TimesKept
<1>4. ClientRing'
  BY <1>1 DEF ClientRing
<1> QED BY <1>3, <1>4

LEMMA MessagesKept ==
    ASSUME MessagesMatch, UNCHANGED toServer, UNCHANGED cl.ucmdHead, UNCHANGED sv.UcmdReceived,
           UNCHANGED hist.times
    PROVE  MessagesMatch'
BY DEF MessagesMatch, GoodMessage, Move, TimeOf, UcmdHead

LEMMA AcksKept ==
    ASSUME AcksMatch, UNCHANGED toClient, UNCHANGED cl.ucmdAcknowledged, UNCHANGED sv.UcmdReceived
    PROVE  AcksMatch'
BY DEF AcksMatch

LEMMA ServerPartKept ==
    ASSUME ServerRing, ExecutedMatch, NoMoveLost, UNCHANGED <<sv, hist>>, UNCHANGED cl.ucmdHead
    PROVE  ServerRing' /\ ExecutedMatch' /\ NoMoveLost'
<1>1. ServerRing'
  BY DEF ServerRing, GoodSlot, Move, TimeOf, UcmdHead
<1>2. ExecutedMatch'
  BY DEF ExecutedMatch, TimeOf
<1>3. NoMoveLost'
  BY DEF NoMoveLost, TimeOf
<1> QED BY <1>1, <1>2, <1>3

(***************************************************************************)
(* Messages.                                                               *)
(***************************************************************************)

\* The moves of a message: less than a ring of them, from the first not acknowledged.
LEMMA WindowOfMoves ==
    ASSUME IInv
    PROVE  /\ UcmdFirst \in 1..UcmdHead /\ UcmdHead - UcmdFirst <= CmdMask
           /\ ~RanOut => UcmdFirst <= sv.UcmdReceived + 1
<1>1. /\ UcmdHead \in Nat \ {0} /\ CmdMask \in Nat \ {0} /\ Few <= CmdMask
      /\ cl.ucmdAcknowledged \in Nat /\ sv.UcmdReceived \in Nat
      /\ cl.ucmdAcknowledged <= sv.UcmdReceived /\ sv.UcmdReceived < UcmdHead
  BY Numbers, ClientFields, ServerFields DEF IInv, AcksMatch, ServerRing
<1>2. UcmdNext = cl.ucmdAcknowledged + 1
  BY <1>1 DEF UcmdNext
<1>3. CASE RanOut
  BY <1>1, <1>2, <1>3 DEF RanOut, UcmdFirst
<1>4. CASE ~RanOut
  BY <1>1, <1>2, <1>4 DEF RanOut, UcmdFirst
<1> QED BY <1>3, <1>4

LEMMA ClientSendSound == ASSUME IInv, ClientSend PROVE IInv'
<1> DEFINE moves == [i \in UcmdFirst..UcmdHead-1 |-> cl.cmds[i % CmdBackup]]
           m == [ucmdHead |-> UcmdHead, ranOut |-> RanOut, ucmds |-> moves]
<1>1. toServer' = Append(toServer, m) /\ UNCHANGED <<cl, sv, toClient, hist>>
  BY DEF ClientSend
<1>2. Types /\ TimesKept /\ ClientRing /\ MessagesMatch /\ AcksMatch /\ ServerRing
      /\ ExecutedMatch /\ NoMoveLost
  BY DEF IInv
<1>3. /\ UcmdHead \in Nat \ {0} /\ UcmdFirst \in 1..UcmdHead /\ UcmdHead - UcmdFirst <= CmdMask
      /\ ~RanOut => UcmdFirst <= sv.UcmdReceived + 1
      /\ CmdMask \in Nat /\ sv.UcmdReceived < UcmdHead
  BY <1>2, WindowOfMoves, Numbers DEF ServerRing
<1>4. ASSUME NEW i \in UcmdFirst..UcmdHead-1 PROVE i \in Nat /\ moves[i] = Move(i) /\ moves[i] \in Moves
  <2>1. i \in 0..cl.ucmdHead-1 /\ i >= cl.ucmdHead - CmdMask
    BY <1>2, <1>3, ClientFields DEF UcmdHead
  <2>2. cl.cmds[i % CmdBackup] = Move(i)
    BY <2>1, <1>2 DEF ClientRing
  <2> QED BY <2>1, <2>2, <1>2, <1>3, TimeType
<1>5. m \in MessageType
  <2>1. moves \in [UcmdFirst..UcmdHead-1 -> Moves]
    BY <1>4
  <2>2. UcmdFirst..UcmdHead-1 \in SUBSET Nat
    BY <1>3
  <2>3. moves \in UNION {[D -> Moves] : D \in SUBSET Nat}
    BY <2>1, <2>2
  <2>4. RanOut \in BOOLEAN
    BY DEF RanOut
  <2> QED BY <2>3, <2>4, <1>3 DEF MessageType
<1>6. GoodMessage(m)
  <2>1. DOMAIN m.ucmds = UcmdFirst..m.ucmdHead-1 /\ m.ucmdHead = UcmdHead /\ m.ranOut = RanOut
    OBVIOUS
  <2>2. \A i \in DOMAIN m.ucmds : m.ucmds[i] = Move(i)
    BY <1>4
  <2> HIDE DEF m
  <2> QED BY <2>1, <2>2, <1>3 DEF GoodMessage
<1>7. \A l \in 1..Len(toServer) : toServer[l].ucmdHead <= m.ucmdHead
  BY <1>2 DEF MessagesMatch, GoodMessage
<1> HIDE DEF m
<1>8. /\ Len(toServer') = Len(toServer) + 1 /\ toServer' \in Seq(MessageType)
      /\ \A k \in 1..Len(toServer) : toServer'[k] = toServer[k]
      /\ toServer'[Len(toServer) + 1] = m
      /\ \A k \in 1..Len(toServer') : k \in 1..Len(toServer) \/ k = Len(toServer) + 1
  BY <1>1, <1>2, <1>5, QueueFields, Appended
<1>9. \A x : GoodMessage(x) => GoodMessage(x)'
  BY <1>1 DEF GoodMessage, UcmdHead, Move, TimeOf
<1>10. MessagesMatch'
  <2>1. \A k \in 1..Len(toServer') : GoodMessage(toServer'[k])
    BY <1>2, <1>6, <1>8 DEF MessagesMatch
  <2>2. \A k \in 1..Len(toServer') : GoodMessage(toServer[k])'
    BY <2>1, <1>9
  <2>3. Len(toServer) \in Nat
    BY <1>2, QueueFields
  <2>4. ASSUME NEW k \in 1..Len(toServer'), NEW l \in 1..Len(toServer'), k < l
        PROVE  toServer'[k].ucmdHead <= toServer'[l].ucmdHead
    <3>1. k \in 1..Len(toServer)
      BY <2>3, <2>4, <1>8
    <3> QED BY <3>1, <2>4, <1>2, <1>7, <1>8 DEF MessagesMatch
  <2> QED BY <2>2, <2>4 DEF MessagesMatch
<1>11. Types'
  BY <1>1, <1>2, <1>8 DEF Types
<1> QED BY <1>1, <1>2, <1>10, <1>11, ClientPartKept, AcksKept, ServerPartKept DEF IInv

LEMMA ClientReadSound == ASSUME IInv, ClientRead PROVE IInv'
<1>1. /\ toClient # <<>> /\ toClient' = Tail(toClient) /\ UNCHANGED <<sv, toServer, hist>>
      /\ cl' = [cl EXCEPT !.ucmdAcknowledged = Head(toClient)]
  BY DEF ClientRead
<1>2. Types /\ TimesKept /\ ClientRing /\ MessagesMatch /\ AcksMatch /\ ServerRing
      /\ ExecutedMatch /\ NoMoveLost
  BY DEF IInv
<1>3. /\ toClient' \in Seq(Nat) /\ Len(toClient') = Len(toClient) - 1
      /\ \A i \in 1..Len(toClient') :
            toClient'[i] = toClient[i+1] /\ i + 1 \in 1..Len(toClient) /\ i + 1 > 1
      /\ Head(toClient) = toClient[1] /\ 1 \in 1..Len(toClient)
  BY <1>1, <1>2, QueueFields, Removed
<1>4. Head(toClient) \in Nat
  BY <1>2, <1>3, QueueFields
<1>5. /\ cl'.ucmdHead = cl.ucmdHead /\ cl'.serverTime = cl.serverTime /\ cl'.cmds = cl.cmds
      /\ cl'.ucmdAcknowledged = toClient[1] /\ cl' \in ClientType
  BY <1>1, <1>2, <1>3, <1>4 DEF Types, ClientType
<1>6. Types'
  BY <1>1, <1>2, <1>3, <1>5 DEF Types
<1>7. AcksMatch'
  <2>1. cl'.ucmdAcknowledged <= sv.UcmdReceived
    BY <1>2, <1>3, <1>5 DEF AcksMatch
  <2>2. \A k \in 1..Len(toClient') :
           toClient[1] <= toClient'[k] /\ toClient'[k] <= sv.UcmdReceived
    BY <1>2, <1>3 DEF AcksMatch
  <2>3. ASSUME NEW k \in 1..Len(toClient'), NEW l \in 1..Len(toClient'), k < l
        PROVE  toClient'[k] <= toClient'[l]
    <3>1. k + 1 \in 1..Len(toClient) /\ l + 1 \in 1..Len(toClient) /\ k + 1 < l + 1
      BY <2>3, <1>3
    <3>2. toClient[k+1] <= toClient[l+1]
      BY <3>1, <1>2 DEF AcksMatch
    <3> QED BY <3>2, <1>3
  <2> QED BY <2>1, <2>2, <2>3, <1>1, <1>5 DEF AcksMatch
<1> QED BY <1>1, <1>2, <1>5, <1>6, <1>7, ClientPartKept, MessagesKept, ServerPartKept DEF IInv

LEMMA ServerSendSound == ASSUME IInv, ServerSend PROVE IInv'
<1>1. toClient' = Append(toClient, sv.UcmdReceived) /\ UNCHANGED <<cl, sv, toServer, hist>>
  BY DEF ServerSend
<1>2. Types /\ TimesKept /\ ClientRing /\ MessagesMatch /\ AcksMatch /\ ServerRing
      /\ ExecutedMatch /\ NoMoveLost
  BY DEF IInv
<1>3. /\ toClient' \in Seq(Nat) /\ Len(toClient') = Len(toClient) + 1
      /\ \A k \in 1..Len(toClient) : toClient'[k] = toClient[k]
      /\ toClient'[Len(toClient) + 1] = sv.UcmdReceived
      /\ \A k \in 1..Len(toClient') : k \in 1..Len(toClient) \/ k = Len(toClient) + 1
  BY <1>1, <1>2, QueueFields, ServerFields, Appended
<1>4. Types'
  BY <1>1, <1>2, <1>3 DEF Types
<1>5. AcksMatch'
  <2>1. Len(toClient) \in Nat /\ sv.UcmdReceived \in Nat
    BY <1>2, QueueFields, ServerFields
  <2>2. \A k \in 1..Len(toClient') :
           cl.ucmdAcknowledged <= toClient'[k] /\ toClient'[k] <= sv.UcmdReceived
    BY <2>1, <1>2, <1>3 DEF AcksMatch
  <2>3. ASSUME NEW k \in 1..Len(toClient'), NEW l \in 1..Len(toClient'), k < l
        PROVE  toClient'[k] <= toClient'[l]
    <3>1. k \in 1..Len(toClient)
      BY <2>1, <2>3, <1>3
    <3> QED BY <3>1, <2>2, <2>3, <1>2, <1>3 DEF AcksMatch
  <2> QED BY <2>2, <2>3, <1>1, <1>2 DEF AcksMatch
<1> QED BY <1>1, <1>2, <1>4, <1>5, ClientPartKept, MessagesKept, ServerPartKept DEF IInv

(***************************************************************************)
(* The server reads a message: its moves take their slots.                 *)
(***************************************************************************)
LEMMA ServerReadSound == ASSUME IInv, ServerRead PROVE IInv'
<1> DEFINE m == Head(toServer)
           D == DOMAIN m.ucmds
           R == sv.UcmdReceived
           Chosen1(s) == CHOOSE i \in D : i % CmdBackup = s
<1>1. /\ toServer # <<>> /\ toServer' = Tail(toServer) /\ UNCHANGED <<cl, toClient>>
      /\ sv' = [sv EXCEPT !.UcmdReceived = m.ucmdHead - 1,
                          !.ucmds = [s \in DOMAIN @ |->
                              IF \E i \in D : i % CmdBackup = s
                              THEN m.ucmds[Chosen1(s)] ELSE @[s]]]
      /\ hist' = [hist EXCEPT !.excused = @ \cup NotSent(m)]
  BY DEF ServerRead
<1>2. Types /\ TimesKept /\ ClientRing /\ MessagesMatch /\ AcksMatch /\ ServerRing
      /\ ExecutedMatch /\ NoMoveLost
  BY DEF IInv
<1>3. /\ toServer' \in Seq(MessageType) /\ Len(toServer') = Len(toServer) - 1
      /\ \A i \in 1..Len(toServer') :
            toServer'[i] = toServer[i+1] /\ i + 1 \in 1..Len(toServer) /\ i + 1 > 1
      /\ m = toServer[1] /\ 1 \in 1..Len(toServer)
  BY <1>1, <1>2, QueueFields, Removed
<1>4. GoodMessage(m)
  BY <1>2, <1>3 DEF MessagesMatch
<1>h. PICK H \in Nat : H = m.ucmdHead
  BY <1>2, <1>3, MessageFields
<1>5. R \in Nat /\ R < H /\ H <= UcmdHead /\ UcmdHead \in Nat
      /\ CmdMask \in Nat /\ CmdMask = CmdBackup - 1
  BY <1>2, <1>4, <1>h, ServerFields, Numbers DEF GoodMessage
<1>6. PICK first \in 1..H : /\ D = first..H-1 /\ H - first <= CmdMask
                            /\ ~m.ranOut => first <= R + 1
  BY <1>4, <1>h DEF GoodMessage
<1>7. \A i \in D : m.ucmds[i] = Move(i)
  BY <1>4 DEF GoodMessage
<1>8. \A i \in 1..UcmdHead-1 : i \in 0..cl.ucmdHead-1
  BY <1>2, ClientFields DEF UcmdHead
<1> HIDE DEF m, R
<1> DEFINE Taken(s) == \E i \in D : i % CmdBackup = s
<1>9. \A s : Taken(s) => /\ Chosen1(s) \in D /\ Chosen1(s) % CmdBackup = s
                         /\ Chosen1(s) \in 1..H-1
  BY <1>5, <1>6
<1> HIDE DEF Chosen1, D
<1>10. /\ sv'.UcmdReceived = H - 1 /\ sv'.gametime = sv.gametime /\ sv'.UcmdTime = sv.UcmdTime
       /\ sv'.UcmdExecuted = sv.UcmdExecuted
       /\ sv'.ucmds = [s \in 0..CmdMask |->
                          IF Taken(s) THEN m.ucmds[Chosen1(s)] ELSE sv.ucmds[s]]
       /\ hist'.times = hist.times /\ hist'.executed = hist.executed
       /\ hist'.setBack = hist.setBack /\ hist'.excused = hist.excused \cup NotSent(m)
  <2>1. sv.ucmds \in [0..CmdMask -> Moves]
    BY <1>2, RingFields DEF Ring
  <2> QED BY <2>1, <1>1, <1>2, <1>h DEF Types, ServerType, HistoryType
<1>11. \A s \in 0..CmdMask : Taken(s) => sv'.ucmds[s] = Move(Chosen1(s))
  BY <1>7, <1>9, <1>10
<1>12. \A s \in 0..CmdMask : ~Taken(s) => sv'.ucmds[s] = sv.ucmds[s]
  BY <1>10
<1>13. \A n : TimeOf(n)' = TimeOf(n) /\ Move(n)' = Move(n)
  BY <1>10 DEF TimeOf, Move
<1>14. /\ R \in Nat /\ R = sv.UcmdReceived /\ sv'.UcmdReceived = H - 1
       /\ H - 1 \in Nat /\ R <= H - 1 /\ H - 1 < UcmdHead
  BY <1>5, <1>10 DEF R
<1>15. Types'
  <2>1. \A s \in 0..CmdMask : sv'.ucmds[s] \in Moves
    <3> TAKE s \in 0..CmdMask
    <3>1. CASE Taken(s)
      <4>1. Chosen1(s) \in 0..cl.ucmdHead-1
        BY <3>1, <1>5, <1>8, <1>9
      <4> QED BY <3>1, <4>1, <1>2, <1>11, TimeType
    <3>2. CASE ~Taken(s)
      BY <3>2, <1>2, <1>12, RingFields DEF Ring
    <3> QED BY <3>1, <3>2
  <2>2. sv'.ucmds \in Ring
    BY <2>1, <1>10 DEF Ring
  <2>3. sv' \in ServerType
    <3>1. sv' = [gametime |-> sv.gametime, UcmdTime |-> sv.UcmdTime,
                 UcmdExecuted |-> sv.UcmdExecuted, UcmdReceived |-> H - 1,
                 ucmds |-> sv'.ucmds]
      <4>1. sv = [gametime |-> sv.gametime, UcmdTime |-> sv.UcmdTime,
                  UcmdExecuted |-> sv.UcmdExecuted, UcmdReceived |-> sv.UcmdReceived,
                  ucmds |-> sv.ucmds]
        BY <1>2 DEF Types, ServerType
      <4> HIDE DEF Taken
      <4> QED BY <4>1, <1>1, <1>10
    <3> QED BY <3>1, <2>2, <1>2, <1>14, ServerFields DEF ServerType
  <2>4. NotSent(m) \in SUBSET Int
    BY DEF NotSent
  <2>5. hist' \in HistoryType
    <3>1. hist' = [times |-> hist.times, executed |-> hist.executed,
                   excused |-> hist.excused \cup NotSent(m), setBack |-> hist.setBack]
      <4>1. hist = [times |-> hist.times, executed |-> hist.executed,
                    excused |-> hist.excused, setBack |-> hist.setBack]
        BY <1>2 DEF Types, HistoryType
      <4> HIDE DEF Taken
      <4> QED BY <4>1, <1>1
    <3> QED BY <3>1, <2>4, <1>2, HistoryFields DEF HistoryType
  <2> QED BY <2>3, <2>5, <1>1, <1>2, <1>3 DEF Types
<1>16. MessagesMatch'
  <2>1. ASSUME NEW k \in 1..Len(toServer') PROVE GoodMessage(toServer[k])'
    <3>1. PICK x : x = toServer[k+1]
      OBVIOUS
    <3>2. toServer'[k] = x /\ k + 1 \in 1..Len(toServer) /\ 1 < k + 1
      BY <3>1, <1>3
    <3>3. GoodMessage(x) /\ m.ucmdHead <= x.ucmdHead /\ x.ucmdHead \in Nat
      BY <3>1, <3>2, <1>2, <1>3, MessageFields DEF MessagesMatch
    <3>4. PICK f \in 1..x.ucmdHead :
             /\ DOMAIN x.ucmds = f..x.ucmdHead-1 /\ x.ucmdHead - f <= CmdMask
             /\ ~x.ranOut => f <= R + 1
      BY <3>3 DEF GoodMessage, R
    <3>5. sv'.UcmdReceived < x.ucmdHead /\ (~x.ranOut => f <= sv'.UcmdReceived + 1)
      <4>1. H <= x.ucmdHead /\ x.ucmdHead \in Nat
        BY <3>3, <1>h
      <4>2. f \in Nat /\ (~x.ranOut => f <= R + 1)
        BY <3>3, <3>4
      <4>3. sv'.UcmdReceived < x.ucmdHead
        BY <4>1, <1>14
      <4>4. ASSUME ~x.ranOut PROVE f <= sv'.UcmdReceived + 1
        BY <4>2, <4>4, <1>14
      <4> QED BY <4>3, <4>4
    <3>6. UcmdHead' = UcmdHead
      BY <1>1 DEF UcmdHead
    <3>7. x.ucmdHead <= UcmdHead /\ \A i \in DOMAIN x.ucmds : x.ucmds[i] = Move(i)'
      BY <3>3, <1>13 DEF GoodMessage
    <3>8. GoodMessage(x)'
      BY <3>4, <3>5, <3>6, <3>7 DEF GoodMessage
    <3> QED BY <3>2, <3>8
  <2>2. ASSUME NEW k \in 1..Len(toServer'), NEW l \in 1..Len(toServer'), k < l
        PROVE  toServer'[k].ucmdHead <= toServer'[l].ucmdHead
    <3>1. k + 1 \in 1..Len(toServer) /\ l + 1 \in 1..Len(toServer) /\ k + 1 < l + 1
      BY <2>2, <1>3
    <3>2. toServer[k+1].ucmdHead <= toServer[l+1].ucmdHead
      BY <3>1, <1>2 DEF MessagesMatch
    <3> QED BY <3>2, <1>3
  <2> QED BY <2>1, <2>2 DEF MessagesMatch
<1>17. AcksMatch'
  <2>1. \A x \in Nat : x <= R => x <= sv'.UcmdReceived
    BY <1>14
  <2>2. cl.ucmdAcknowledged \in Nat /\ \A k \in 1..Len(toClient) : toClient[k] \in Nat
    BY <1>2, ClientFields, QueueFields
  <2> QED BY <2>1, <2>2, <1>1, <1>2, <1>14 DEF AcksMatch
<1>18. ServerRing'
  <2>1. ASSUME NEW s \in 0..CmdMask PROVE GoodSlot(s)'
    <3>1. CASE Taken(s)
      <4>1. PICK c \in 1..H-1 : c % CmdBackup = s /\ sv'.ucmds[s] = Move(c)
        BY <3>1, <1>9, <1>11
      <4>2. sv'.ucmds[s].num = c
        BY <4>1 DEF Move
      <4> QED BY <4>1, <4>2, <1>10, <1>13 DEF GoodSlot
    <3>2. CASE ~Taken(s)
      <4>1. sv'.ucmds[s] = sv.ucmds[s] /\ GoodSlot(s)
        BY <3>2, <1>2, <1>12 DEF ServerRing
      <4>2. \A n \in 1..R : n \in 1..sv'.UcmdReceived
        BY <1>10, <1>14
      <4> QED BY <4>1, <4>2, <1>13, <1>14 DEF GoodSlot
    <3> QED BY <3>1, <3>2
  <2>2. ASSUME NEW n \in 1..H-1, n \notin hist'.excused
        PROVE  sv'.ucmds[n % CmdBackup].num >= n
    <3>s. n \in Nat /\ n % CmdBackup \in 0..CmdMask
      BY SlotRange
    <3>1. CASE Taken(n % CmdBackup)
      <4>1. PICK c \in D : c % CmdBackup = n % CmdBackup /\ c \in 1..H-1
                           /\ sv'.ucmds[n % CmdBackup] = Move(c)
        BY <3>1, <3>s, <1>9, <1>11
      <4>2. ~(c < n)
        <5> SUFFICES ASSUME c < n PROVE FALSE
          OBVIOUS
        <5>1. n - c < CmdBackup /\ c \in Nat
          BY <4>1, <1>5, <1>6
        <5> QED BY <5>1, <4>1, <3>s, SlotsDiffer
      <4> QED BY <4>1, <4>2 DEF Move
    <3>2. CASE ~Taken(n % CmdBackup)
      <4>1. n \notin D
        BY <3>2
      <4>2. ~(n > R)
        <5> SUFFICES ASSUME n > R PROVE FALSE
          OBVIOUS
        <5>1. n < first
          BY <4>1, <1>6
        <5>2. m.ranOut
          BY <5>1, <1>5, <1>6
        <5>3. n \in sv.UcmdReceived + 1..m.ucmdHead - 1
          BY <1>h, <1>14
        <5>4. n \in NotSent(m)
          BY <4>1, <5>2, <5>3 DEF NotSent, D
        <5> QED BY <5>4, <2>2, <1>10
      <4>3. n \in 1..R /\ n \notin hist.excused
        <5>1. hist'.excused = hist.excused \cup NotSent(m)
          BY <1>10
        <5> QED BY <4>2, <5>1, <2>2, <1>14
      <4> QED BY <4>3, <3>2, <3>s, <1>2, <1>12, <1>14 DEF ServerRing
    <3> QED BY <3>1, <3>2
  <2>3. sv'.UcmdReceived < UcmdHead' /\ sv'.UcmdExecuted <= sv'.UcmdReceived
    <3>1. UcmdHead' = UcmdHead
      BY <1>1 DEF UcmdHead
    <3>2. sv.UcmdExecuted <= R /\ sv'.UcmdExecuted \in Nat /\ sv'.UcmdExecuted = sv.UcmdExecuted
      BY <1>2, <1>10, <1>14, ServerFields DEF ServerRing
    <3> QED BY <3>1, <3>2, <1>5, <1>14
  <2> QED BY <2>1, <2>2, <2>3, <1>10 DEF ServerRing
<1>19. ExecutedMatch'
  <2>1. \A n \in 1..R : n \in 1..sv'.UcmdReceived
    BY <1>14
  <2> QED BY <2>1, <1>2, <1>10, <1>13, <1>14 DEF ExecutedMatch
<1>20. NoMoveLost'
  BY <1>2, <1>10, <1>13 DEF NoMoveLost
<1>21. TimesKept' /\ ClientRing'
  BY <1>1, <1>2, <1>10, ClientPartKept
<1> QED BY <1>15, <1>16, <1>17, <1>18, <1>19, <1>20, <1>21 DEF IInv

(***************************************************************************)
(* A frame of the game executes moves.                                     *)
(***************************************************************************)

\* A slot with a time stamp has a move received that belongs there.
LEMMA SlotHolds ==
    ASSUME IInv, NEW i \in Nat, Slot(i).time > 0
    PROVE  /\ Slot(i) \in Moves /\ Slot(i).num \in 1..sv.UcmdReceived
           /\ Slot(i).num % CmdBackup = i % CmdBackup
           /\ TimeOf(Slot(i).num) = Slot(i).time
<1>1. i % CmdBackup \in 0..CmdMask
  BY SlotRange
<1>2. Slot(i) \in Moves
  BY <1>1, RingFields DEF IInv, Slot, Ring
<1>3. Slot(i) # NoMove
  BY DEF NoMove
<1>4. GoodSlot(i % CmdBackup)
  BY <1>1 DEF IInv, ServerRing
<1> QED BY <1>2, <1>3, <1>4 DEF GoodSlot, Slot, Move

\* What is waited for begins no earlier than what was executed, and lies in the window.
LEMMA SinceBounds ==
    ASSUME Types, NEW t \in sv.gametime..MaxTime
    PROVE  Since(t) \in 0..MaxTime /\ sv.UcmdTime <= Since(t)
BY ServerFields DEF Since

LEMMA WantedNumbers ==
    ASSUME IInv, NEW t \in sv.gametime..MaxTime
    PROVE  /\ Window \in SUBSET Nat /\ IsFiniteSet(Window)
           /\ \A i \in Wanted(t) : /\ i \in Window /\ Slot(i).time \in Nat
                                   /\ Since(t) < Slot(i).time /\ Slot(i).time < t
                                   /\ Slot(i).time > 0
<1>1. sv.UcmdExecuted \in Nat /\ sv.UcmdReceived \in Nat /\ Types
  BY ServerFields DEF IInv
<1>2. Window \in SUBSET Nat /\ IsFiniteSet(Window)
  <2>1. sv.UcmdExecuted + 1 \in Int /\ sv.UcmdReceived \in Int
    BY <1>1
  <2>2. IsFiniteSet(Window)
    BY <2>1, FS_Interval DEF Window
  <2>3. Window \in SUBSET Nat
    BY <1>1 DEF Window
  <2> QED BY <2>2, <2>3
<1>3. ASSUME NEW i \in Wanted(t)
      PROVE  /\ i \in Window /\ Slot(i).time \in Nat
             /\ Since(t) < Slot(i).time /\ Slot(i).time < t /\ Slot(i).time > 0
  <2>1. i \in Window /\ Since(t) < Slot(i).time /\ Slot(i).time < t
    BY DEF Wanted
  <2>2. Slot(i).time \in Nat
    <3>1. Slot(i) \in Moves
      BY <2>1, <1>1, <1>2, SlotRange, RingFields DEF Slot, Ring
    <3> QED BY <3>1 DEF Moves
  <2> QED BY <2>1, <2>2, <1>1, SinceBounds
<1> QED BY <1>2, <1>3

\* The moves chosen are finitely many, and have different times.
LEMMA ChosenMoves ==
    ASSUME IInv, NEW t \in sv.gametime..MaxTime
    PROVE  /\ IsFiniteSet(Chosen(t))
           /\ \A a \in Chosen(t) : /\ a \in Moves /\ a.num \in 1..sv.UcmdReceived
                                   /\ TimeOf(a.num) = a.time
                                   /\ Since(t) < a.time /\ a.time < t
           /\ \A a, b \in Chosen(t) : a # b => a.time # b.time
<1> DEFINE First(j) == \A k \in Wanted(t) : k < j => Slot(k).time # Slot(j).time
           F == {j \in Wanted(t) : First(j)}
<1>1. /\ Window \in SUBSET Nat /\ IsFiniteSet(Window)
      /\ \A i \in Wanted(t) : /\ i \in Window /\ Slot(i).time \in Nat
                              /\ Since(t) < Slot(i).time /\ Slot(i).time < t
                              /\ Slot(i).time > 0
  BY WantedNumbers
<1>2. F \in SUBSET Window
  BY <1>1
<1>3. Chosen(t) = {Slot(i) : i \in F}
  BY DEF Chosen
<1>4. IsFiniteSet(F)
  BY <1>1, <1>2, FS_Subset
<1>5. IsFiniteSet(Chosen(t))
  <2> DEFINE f == [i \in F |-> Slot(i)]
  <2>1. f \in Surjection(F, Chosen(t))
    BY <1>3 DEF Surjection
  <2> QED BY <2>1, <1>4, FS_Surjection
<1>6. ASSUME NEW a \in Chosen(t)
      PROVE  /\ a \in Moves /\ a.num \in 1..sv.UcmdReceived /\ TimeOf(a.num) = a.time
             /\ Since(t) < a.time /\ a.time < t
  <2>1. PICK i \in F : a = Slot(i)
    BY <1>3
  <2>2. i \in Nat /\ i \in Wanted(t)
    BY <1>1, <1>2
  <2> QED BY <2>1, <2>2, <1>1, SlotHolds
<1>7. ASSUME NEW a \in Chosen(t), NEW b \in Chosen(t), a.time = b.time PROVE a = b
  <2>1. PICK i \in F : a = Slot(i)
    BY <1>3
  <2>2. PICK j \in F : b = Slot(j)
    BY <1>3
  <2>3. i \in Nat /\ j \in Nat /\ i \in Wanted(t) /\ j \in Wanted(t)
    BY <1>1, <1>2
  <2>4. First(i) /\ First(j)
    OBVIOUS
  <2>5. ~(i < j) /\ ~(j < i)
    BY <2>1, <2>2, <2>3, <2>4, <1>7
  <2> QED BY <2>1, <2>2, <2>3, <2>5
<1> QED BY <1>5, <1>6, <1>7

\* They are executed in the order of their times.
LEMMA ChosenInOrder ==
    ASSUME IInv, NEW t \in sv.gametime..MaxTime, NEW s, s = InTimeOrder(Chosen(t))
    PROVE  /\ s \in Seq(Chosen(t))
           /\ \A a \in Chosen(t) : \E i \in 1..Len(s) : s[i] = a
           /\ \A i, j \in 1..Len(s) : i < j => s[i].time < s[j].time
<1> DEFINE C == Chosen(t)
           key == [a \in C |-> a.time]
<1>1. KeyOf(key, C) /\ IsFiniteSet(C)
  <2>1. \A a \in C : a.time \in Int
    BY ChosenMoves DEF Moves
  <2> QED BY <2>1, ChosenMoves DEF KeyOf
<1>2. PICK u \in SetToSeqs(C) : \A i, j \in 1..Len(u) : i < j => key[u[i]] < key[u[j]]
  <2> HIDE DEF key, C
  <2> QED BY <1>1, SortedSeqExists
<1>3. u \in Seq(C)
  BY <1>1, <1>2, SetToSeqsEnumerate
<1>4. IsSorted(u, Earlier)
  <2>1. \A i \in 1..Len(u) : u[i] \in C
    BY <1>3
  <2>2. \A i, j \in 1..Len(u) : i < j => u[i].time < u[j].time
    BY <1>2, <2>1
  <2> QED BY <2>2 DEF IsSorted, Earlier
<1>5. s \in SetToSeqs(C) /\ IsSorted(s, Earlier)
  BY <1>2, <1>4 DEF InTimeOrder
<1>6. /\ s \in Seq(C)
      /\ \A x \in C : \E i \in 1..Len(s) : s[i] = x
  <2> HIDE DEF C, key
  <2>1. s \in SetToSeqs(C) /\ IsFiniteSet(C)
    BY <1>1, <1>5
  <2>2. s \in Seq(C)
    BY <2>1, SetToSeqsEnumerate
  <2>3. \A v \in SetToSeqs(C) : \A x \in C : \E i \in 1..Len(v) : v[i] = x
    <3>1. IsFiniteSet(C)
      BY <2>1
    <3>2. ASSUME NEW v \in SetToSeqs(C) PROVE \A x \in C : \E i \in 1..Len(v) : v[i] = x
      BY <3>1, SetToSeqsEnumerate
    <3> QED BY <3>2
  <2> QED BY <2>1, <2>2, <2>3
<1> QED BY <1>5, <1>6 DEF IsSorted, Earlier

\* A move received, wanted, in its slot, and not overwritten has its time executed.
LEMMA WantedIsChosen ==
    ASSUME IInv, NEW t \in sv.gametime..MaxTime, NEW n \in Window,
           n \notin hist.excused, n \notin NotWanted(t)
    PROVE  \E a \in Chosen(t) : a.time = TimeOf(n)
<1>1. /\ sv.UcmdExecuted \in Nat /\ sv.UcmdReceived \in Nat /\ n \in Nat
      /\ n \in 1..sv.UcmdReceived /\ Types
  BY ServerFields DEF IInv, Window
<1>2. Since(t) < TimeOf(n) /\ TimeOf(n) < t /\ n + CmdBackup > sv.UcmdReceived
  <2>1. TimeOf(n) \in Nat
    <3>1. n \in 0..cl.ucmdHead-1
      BY <1>1, ClientFields DEF IInv, ServerRing, UcmdHead
    <3> QED BY <3>1, TimeType DEF IInv
  <2>2. Since(t) \in Nat /\ t \in Nat
    BY <1>1, SinceBounds, ServerFields
  <2> QED BY <2>1, <2>2, <1>1 DEF NotWanted
<1>3. Slot(n) = Move(n)
  <2>1. n % CmdBackup \in 0..CmdMask /\ GoodSlot(n % CmdBackup) /\ Slot(n).num >= n
    BY <1>1, SlotRange DEF IInv, ServerRing, Slot
  <2>2. Slot(n) # NoMove
    BY <2>1, <1>1 DEF NoMove
  <2>3. PICK k \in 1..sv.UcmdReceived :
           k = Slot(n).num /\ k % CmdBackup = n % CmdBackup /\ Slot(n) = Move(k)
    BY <2>1, <2>2 DEF GoodSlot, Slot
  <2>4. ~(k > n)
    <3> SUFFICES ASSUME k > n PROVE FALSE
      OBVIOUS
    <3>1. k \in Nat /\ n < k /\ k - n < CmdBackup
      BY <1>1, <1>2
    <3> QED BY <3>1, <2>3, <1>1, SlotsDiffer
  <2>5. k = n
    BY <2>1, <2>3, <2>4, <1>1
  <2> QED BY <2>3, <2>5
<1>4. Slot(n).time = TimeOf(n) /\ n \in Wanted(t)
  BY <1>2, <1>3 DEF Wanted, Move
<1> DEFINE Same == {i \in Wanted(t) : Slot(i).time = TimeOf(n)}
<1>5. Same \in SUBSET Nat /\ Same # {}
  BY <1>4, WantedNumbers
<1>6. PICK j \in Same : \A k \in Same : j <= k
  BY <1>5, LeastNatural
<1>7. \A k \in Wanted(t) : k < j => Slot(k).time # Slot(j).time
  BY <1>5, <1>6
<1>8. Slot(j) \in Chosen(t)
  BY <1>6, <1>7 DEF Chosen
<1> QED BY <1>6, <1>8

LEMMA GameFrameSound == ASSUME IInv, GameFrame PROVE IInv'
<1>1. PICK t \in sv.gametime..MaxTime :
          LET moves == InTimeOrder(Chosen(t))
          IN  /\ sv' = [sv EXCEPT !.gametime = t,
                                  !.UcmdTime = IF moves = <<>> THEN Since(t) ELSE Last(moves).time,
                                  !.UcmdExecuted = sv.UcmdReceived]
              /\ hist' = [hist EXCEPT !.executed = @ \o [i \in DOMAIN moves |-> moves[i].num],
                                      !.excused = @ \cup NotWanted(t)]
              /\ UNCHANGED <<cl, toServer, toClient>>
  BY DEF GameFrame
<1>2. Types /\ TimesKept /\ ClientRing /\ MessagesMatch /\ AcksMatch /\ ServerRing
      /\ ExecutedMatch /\ NoMoveLost
  BY DEF IInv
<1>3. PICK s : s = InTimeOrder(Chosen(t))
  OBVIOUS
<1>4. /\ s \in Seq(Chosen(t)) /\ \A a \in Chosen(t) : \E i \in 1..Len(s) : s[i] = a
      /\ \A i, j \in 1..Len(s) : i < j => s[i].time < s[j].time
  BY <1>3, ChosenInOrder
<1>5. PICK last : last = IF s = <<>> THEN Since(t) ELSE Last(s).time
  OBVIOUS
<1>6. PICK new : new = [i \in DOMAIN s |-> s[i].num]
  OBVIOUS
<1>7. /\ sv' = [sv EXCEPT !.gametime = t, !.UcmdTime = last, !.UcmdExecuted = sv.UcmdReceived]
      /\ hist' = [hist EXCEPT !.executed = @ \o new, !.excused = @ \cup NotWanted(t)]
      /\ UNCHANGED <<cl, toServer, toClient>>
  BY <1>1, <1>3, <1>5, <1>6
<1>8. /\ Len(s) \in Nat /\ new \in Seq(Nat) /\ Len(new) = Len(s)
      /\ \A i \in 1..Len(s) : /\ s[i] \in Chosen(t) /\ new[i] = s[i].num
                              /\ new[i] \in 1..sv.UcmdReceived
                              /\ TimeOf(new[i]) = s[i].time /\ s[i].time \in Nat
                              /\ Since(t) < s[i].time /\ s[i].time < t
  <2>1. Len(s) \in Nat /\ DOMAIN s = 1..Len(s) /\ \A i \in 1..Len(s) : s[i] \in Chosen(t)
    BY <1>4
  <2>2. \A i \in 1..Len(s) : /\ new[i] = s[i].num /\ s[i] \in Moves
                             /\ new[i] \in 1..sv.UcmdReceived
                             /\ TimeOf(new[i]) = s[i].time
                             /\ Since(t) < s[i].time /\ s[i].time < t
    BY <2>1, <1>6, ChosenMoves
  <2>3. \A i \in 1..Len(s) : s[i].time \in Nat /\ new[i] \in Nat
    BY <2>2 DEF Moves
  <2>4. new \in Seq(Nat) /\ Len(new) = Len(s)
    BY <2>1, <2>3, <1>6
  <2> QED BY <2>1, <2>2, <2>3, <2>4
<1>9. Since(t) \in 0..MaxTime /\ sv.UcmdTime <= Since(t) /\ t \in 0..MaxTime
      /\ sv.UcmdTime \in Nat /\ sv.UcmdReceived \in Nat /\ sv.UcmdExecuted \in Nat
  BY <1>2, SinceBounds, ServerFields
<1>10. /\ last \in 0..MaxTime /\ Since(t) <= last
       /\ \A i \in 1..Len(s) : s[i].time <= last
  <2>1. CASE s = <<>>
    BY <2>1, <1>5, <1>9
  <2>2. CASE s # <<>>
    <3>1. last = s[Len(s)].time /\ Len(s) \in 1..Len(s)
      BY <2>2, <1>4, <1>5, <1>8 DEF Last
    <3>2. ASSUME NEW i \in 1..Len(s) PROVE s[i].time <= last
      <4>1. i = Len(s) \/ i < Len(s)
        OBVIOUS
      <4> QED BY <4>1, <3>1, <1>4, <1>8
    <3>3. last \in Nat /\ Since(t) < last /\ last < t
      BY <3>1, <1>8
    <3> QED BY <3>2, <3>3, <1>9
  <2> QED BY <2>1, <2>2
<1>11. /\ sv'.UcmdReceived = sv.UcmdReceived /\ sv'.UcmdTime = last
       /\ sv'.UcmdExecuted = sv.UcmdReceived /\ sv'.ucmds = sv.ucmds
       /\ hist'.times = hist.times /\ hist'.setBack = hist.setBack
       /\ hist'.executed = hist.executed \o new
       /\ hist'.excused = hist.excused \cup NotWanted(t)
  BY <1>2, <1>7 DEF Types, ServerType, HistoryType
<1>12. \A n : TimeOf(n)' = TimeOf(n) /\ Move(n)' = Move(n)
  BY <1>11 DEF TimeOf, Move
<1>13. Types'
  <2>1. sv' \in ServerType
    <3>1. sv' = [gametime |-> t, UcmdTime |-> last, UcmdExecuted |-> sv.UcmdReceived,
                 UcmdReceived |-> sv.UcmdReceived, ucmds |-> sv.ucmds]
      BY <1>2, <1>7 DEF Types, ServerType
    <3> QED BY <3>1, <1>2, <1>9, <1>10, RingFields DEF ServerType
  <2>2. hist' \in HistoryType
    <3>1. hist' = [times |-> hist.times, executed |-> hist.executed \o new,
                   excused |-> hist.excused \cup NotWanted(t), setBack |-> hist.setBack]
      BY <1>2, <1>7 DEF Types, HistoryType
    <3>2. hist.executed \o new \in Seq(Nat)
      BY <1>2, <1>8, HistoryFields
    <3>3. NotWanted(t) \in SUBSET Int
      BY DEF NotWanted, Window
    <3> QED BY <3>1, <3>2, <3>3, <1>2, HistoryFields DEF HistoryType
  <2> QED BY <2>1, <2>2, <1>2, <1>7 DEF Types
<1>14. ServerRing'
  <2>1. UcmdHead' = UcmdHead
    BY <1>7 DEF UcmdHead
  <2>2. \A s1 \in 0..CmdMask : GoodSlot(s1)'
    BY <1>2, <1>11, <1>12 DEF ServerRing, GoodSlot
  <2>3. \A n \in 1..sv'.UcmdReceived : n \in hist'.excused \/ sv'.ucmds[n % CmdBackup].num >= n
    BY <1>2, <1>11 DEF ServerRing
  <2>4. sv'.UcmdReceived < UcmdHead' /\ sv'.UcmdExecuted <= sv'.UcmdReceived
    BY <2>1, <1>2, <1>9, <1>11 DEF ServerRing
  <2> QED BY <2>2, <2>3, <2>4 DEF ServerRing
<1>15. PICK k \in Nat : k = Len(hist.executed)
  BY <1>2, HistoryFields
<1>16. /\ Len(hist'.executed) = k + Len(s)
       /\ \A i \in 1..k : hist'.executed[i] = hist.executed[i]
       /\ \A i \in 1..Len(s) : hist'.executed[k + i] = new[i]
       /\ \A i \in 1..k + Len(s) : i \in 1..k \/ \E j \in 1..Len(s) : i = k + j
  <2>1. hist.executed \in Seq(Nat) /\ new \in Seq(Nat)
    BY <1>2, <1>8, HistoryFields
  <2>2. \A i \in 1..k + Len(s) : i \in 1..k \/ (i - k \in 1..Len(s) /\ i = k + (i - k))
    BY <1>8
  <2>3. /\ Len(hist'.executed) = k + Len(s)
        /\ \A i \in 1..k : hist'.executed[i] = hist.executed[i]
        /\ \A i \in 1..Len(s) : hist'.executed[k + i] = new[i]
    <3>1. PICK e \in Seq(Nat) : e = hist.executed
      BY <2>1
    <3>2. hist'.executed = e \o new /\ Len(e) = k /\ Len(new) = Len(s)
      BY <3>1, <1>8, <1>11, <1>15
    <3>3. /\ Len(e \o new) = Len(e) + Len(new)
          /\ \A i \in 1..Len(e) : (e \o new)[i] = e[i]
          /\ \A i \in 1..Len(new) : (e \o new)[Len(e) + i] = new[i]
      BY <2>1, Concatenated
    <3> QED BY <3>1, <3>2, <3>3
  <2> QED BY <2>2, <2>3
<1>17. \A i \in 1..k : /\ hist.executed[i] \in 1..sv.UcmdReceived
                       /\ TimeOf(hist.executed[i]) \in Nat
                       /\ TimeOf(hist.executed[i]) <= sv.UcmdTime
  <2>1. \A i \in 1..k : /\ hist.executed[i] \in 1..sv.UcmdReceived
                        /\ TimeOf(hist.executed[i]) <= sv.UcmdTime
    BY <1>2, <1>15 DEF ExecutedMatch
  <2>2. \A n \in 1..sv.UcmdReceived : n \in 0..cl.ucmdHead-1
    BY <1>2, <1>9, ClientFields DEF ServerRing, UcmdHead
  <2> QED BY <2>1, <2>2, <1>2, TimeType
<1>18. ExecutedMatch'
  <2>1. ASSUME NEW i \in 1..k + Len(s)
        PROVE  /\ hist'.executed[i] \in 1..sv.UcmdReceived
               /\ TimeOf(hist'.executed[i]) <= last
    <3>1. CASE i \in 1..k
      <4>1. PICK x \in Nat : x = TimeOf(hist.executed[i]) /\ x <= sv.UcmdTime
        BY <3>1, <1>17
      <4>2. x <= last
        BY <4>1, <1>9, <1>10
      <4> QED BY <3>1, <4>1, <4>2, <1>16, <1>17
    <3>2. ASSUME NEW j \in 1..Len(s), i = k + j
          PROVE  /\ hist'.executed[i] \in 1..sv.UcmdReceived
                 /\ TimeOf(hist'.executed[i]) <= last
      BY <3>2, <1>8, <1>10, <1>16
    <3> QED BY <3>1, <3>2, <1>16
  <2>2. ASSUME NEW i \in 1..k + Len(s), NEW l \in 1..k + Len(s), i < l
        PROVE  TimeOf(hist'.executed[i]) < TimeOf(hist'.executed[l])
    <3>1. CASE l \in 1..k
      <4>1. i \in 1..k
        BY <3>1, <2>2
      <4> QED BY <4>1, <3>1, <2>2, <1>2, <1>15, <1>16 DEF ExecutedMatch
    <3>2. ASSUME NEW j \in 1..Len(s), l = k + j
          PROVE  TimeOf(hist'.executed[i]) < TimeOf(hist'.executed[l])
      <4>1. TimeOf(hist'.executed[l]) = s[j].time
        BY <3>2, <1>8, <1>16
      <4>2. CASE i \in 1..k
        <5>1. TimeOf(hist'.executed[i]) \in Nat /\ TimeOf(hist'.executed[i]) <= sv.UcmdTime
          BY <4>2, <1>16, <1>17
        <5>2. Since(t) < s[j].time /\ s[j].time \in Nat
          BY <1>8
        <5> QED BY <4>1, <5>1, <5>2, <1>9
      <4>3. ASSUME NEW h \in 1..Len(s), i = k + h
            PROVE  TimeOf(hist'.executed[i]) < TimeOf(hist'.executed[l])
        <5>1. h < j
          BY <2>2, <3>2, <4>3
        <5>2. TimeOf(hist'.executed[i]) = s[h].time
          BY <4>3, <1>8, <1>16
        <5> QED BY <4>1, <5>1, <5>2, <1>4
      <4> QED BY <4>2, <4>3, <1>16
    <3> QED BY <3>1, <3>2, <1>16
  <2> QED BY <2>1, <2>2, <1>11, <1>12, <1>16 DEF ExecutedMatch
<1>19. NoMoveLost'
  <2> SUFFICES ASSUME NEW n \in 1..sv.UcmdReceived, n \notin hist'.excused
               PROVE  \E i \in DOMAIN hist'.executed : TimeOf(hist'.executed[i]) = TimeOf(n)
    BY <1>11, <1>12 DEF NoMoveLost
  <2>1. n \notin hist.excused /\ n \notin NotWanted(t)
    BY <1>11
  <2>2. DOMAIN hist'.executed = 1..k + Len(s)
    <3>1. hist.executed \o new \in Seq(Nat)
      BY <1>2, <1>8, HistoryFields, Concatenated
    <3> QED BY <3>1, <1>11, <1>16
  <2>3. CASE n <= sv.UcmdExecuted
    <3>1. n \in 1..sv.UcmdExecuted
      BY <2>3, <1>9
    <3>2. PICK i \in DOMAIN hist.executed : TimeOf(hist.executed[i]) = TimeOf(n)
      BY <3>1, <2>1, <1>2 DEF NoMoveLost
    <3>3. i \in 1..k
      BY <3>2, <1>2, <1>15, HistoryFields
    <3>4. i \in 1..k + Len(s)
      BY <3>3, <1>8
    <3> QED BY <3>2, <3>3, <3>4, <2>2, <1>16
  <2>4. CASE n > sv.UcmdExecuted
    <3>1. n \in Window
      BY <2>4, <1>9 DEF Window
    <3>2. PICK a \in Chosen(t) : a.time = TimeOf(n)
      BY <3>1, <2>1, WantedIsChosen
    <3>3. PICK i \in 1..Len(s) : s[i] = a
      BY <1>4
    <3>4. TimeOf(hist'.executed[k + i]) = TimeOf(n) /\ k + i \in 1..k + Len(s)
      BY <3>2, <3>3, <1>8, <1>16
    <3> QED BY <3>4, <2>2
  <2> QED BY <2>3, <2>4, <1>9
<1>20. TimesKept' /\ ClientRing'
  BY <1>2, <1>7, <1>11, ClientPartKept
<1>21. MessagesMatch' /\ AcksMatch'
  BY <1>2, <1>7, <1>11, MessagesKept, AcksKept
<1> QED BY <1>13, <1>14, <1>18, <1>19, <1>20, <1>21 DEF IInv

(***************************************************************************)
(* The theorems.                                                           *)
(***************************************************************************)
LEMMA NextSound == ASSUME IInv, [Next]_vars PROVE IInv'
<1>1. CASE NewUserCommand
  BY <1>1, NewUserCommandSound
<1>2. CASE ClientSend
  BY <1>2, ClientSendSound
<1>3. CASE ClientRead
  BY <1>3, ClientReadSound
<1>4. CASE ServerRead
  BY <1>4, ServerReadSound
<1>5. CASE ServerSend
  BY <1>5, ServerSendSound
<1>6. CASE GameFrame
  BY <1>6, GameFrameSound
<1>7. CASE UNCHANGED vars
  <2>1. UNCHANGED <<cl, sv, toServer, toClient, hist>>
    BY <1>7 DEF vars
  <2>2. Types'
    BY <2>1 DEF IInv, Types
  <2> QED BY <2>1, <2>2, ClientPartKept, MessagesKept, AcksKept, ServerPartKept DEF IInv
<1> QED BY <1>1, <1>2, <1>3, <1>4, <1>5, <1>6, <1>7 DEF Next

\* The rings of both ends hold the moves they should, the messages have the moves that the
\* server has not, and the game executes them in the order of their times (cl_input.c,
\* sv_client.c).
THEOREM UserCommandsInvariant == Spec => []IInv
<1>1. IInv /\ [Next]_vars => IInv'
  BY NextSound
<1> QED BY InitSound, <1>1, PTL DEF Spec

\* The numbers that the ends hold of each other's moves fit, and no message has more moves
\* than the server takes.
THEOREM NumbersFit == Spec => []TypeOK
<1>1. IInv => TypeOK
  <2> SUFFICES ASSUME IInv PROVE TypeOK
    OBVIOUS
  <2>1. Types /\ MessagesMatch /\ AcksMatch /\ ServerRing
    BY DEF IInv
  <2>2. /\ cl.ucmdHead \in 0..MaxMoves /\ cl.ucmdAcknowledged \in 0..sv.UcmdReceived
        /\ sv.UcmdExecuted \in 0..sv.UcmdReceived /\ sv.UcmdReceived < UcmdHead
        /\ sv.gametime \in 0..MaxTime /\ sv.UcmdTime \in 0..MaxTime
    BY <2>1, ClientFields, ServerFields DEF AcksMatch, ServerRing
  <2>3. DOMAIN toServer = 1..Len(toServer)
    BY <2>1, QueueFields
  <2>4. ASSUME NEW k \in 1..Len(toServer)
        PROVE  /\ sv.UcmdReceived < toServer[k].ucmdHead
               /\ Cardinality(DOMAIN toServer[k].ucmds) <= CmdMask
    <3>1. GoodMessage(toServer[k])
      BY <2>1 DEF MessagesMatch
    <3>2. PICK H \in Nat : H = toServer[k].ucmdHead
      BY <2>1, MessageFields
    <3>3. PICK first \in 1..H :
             DOMAIN toServer[k].ucmds = first..H-1 /\ H - first <= CmdMask
      BY <3>1, <3>2 DEF GoodMessage
    <3>4. first \in Int /\ H - 1 \in Int /\ CmdMask \in Nat
      BY <2>1, Numbers
    <3>5. Cardinality(first..H-1) = IF first > H-1 THEN 0 ELSE H-1-first+1
      BY <3>4, FS_Interval
    <3>6. Cardinality(first..H-1) <= CmdMask
      BY <3>3, <3>4, <3>5
    <3> QED BY <3>1, <3>3, <3>6 DEF GoodMessage
  <2> QED BY <2>2, <2>3, <2>4 DEF TypeOK
<1> QED BY <1>1, UserCommandsInvariant, PTL

\* SV_FindNextUserCommand: no move is executed twice, and none out of order while the
\* client's clock runs forward.
THEOREM MovesAreInOrder == Spec => []MovesInOrder
<1>1. IInv => MovesInOrder
  <2> SUFFICES ASSUME IInv, NEW i \in DOMAIN hist.executed, NEW j \in DOMAIN hist.executed,
                      i < j
               PROVE  IF hist.setBack = 0 THEN hist.executed[i] < hist.executed[j]
                      ELSE hist.executed[i] # hist.executed[j]
    BY DEF MovesInOrder
  <2>1. Types /\ TimesKept /\ ServerRing /\ ExecutedMatch
    BY DEF IInv
  <2>2. i \in 1..Len(hist.executed) /\ j \in 1..Len(hist.executed)
    BY <2>1, HistoryFields
  <2>r. \A n \in 1..sv.UcmdReceived : n \in 0..cl.ucmdHead-1
    BY <2>1, ClientFields, ServerFields DEF ServerRing, UcmdHead
  <2>3. PICK a \in 0..cl.ucmdHead-1 : a = hist.executed[i]
    BY <2>1, <2>2, <2>r DEF ExecutedMatch
  <2>4. PICK b \in 0..cl.ucmdHead-1 : b = hist.executed[j]
    BY <2>1, <2>2, <2>r DEF ExecutedMatch
  <2>5. TimeOf(a) < TimeOf(b) /\ TimeOf(a) \in Nat /\ TimeOf(b) \in Nat
    BY <2>1, <2>2, <2>3, <2>4, TimeType DEF ExecutedMatch
  <2>6. a # b
    BY <2>5
  <2>7. ASSUME hist.setBack = 0 PROVE a < b
    <3>1. b < a => TimeOf(b) <= TimeOf(a)
      BY <2>1, <2>7 DEF TimesKept
    <3> QED BY <3>1, <2>5, <2>6
  <2> QED BY <2>3, <2>4, <2>6, <2>7
<1> QED BY <1>1, UserCommandsInvariant, PTL

\* What UcmdExecuted has passed was executed, unless there is one of the excuses: neither
\* ring lost a move before it was acknowledged.
THEOREM NoMoveIsLost == Spec => []NoMoveLost
<1>1. IInv => NoMoveLost
  BY DEF IInv
<1> QED BY <1>1, UserCommandsInvariant, PTL
=============================================================================
